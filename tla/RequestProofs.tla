--------------------------- MODULE RequestProofs ---------------------------
(***************************************************************************)
(* What is proved of module Request: what a handler gets is bounded by     *)
(* max_post_size, and a request that went well leaves no temporary file,   *)
(* for requests of every kind and length, cut off anywhere, in chunks of   *)
(* every length, however many follow on a connection.                      *)
(***************************************************************************)
EXTENDS Request, FiniteSetTheorems, WellFoundedInduction, TLAPS

-----------------------------------------------------------------------------
(* Induction.  WFMin has sets for parameters, so that it applies to a      *)
(* property that is given as the set of the numbers that have it.          *)

\* A set of numbers that is not empty has a least one.
LEMMA LeastNumber ==
  ASSUME NEW T \in SUBSET Nat, T # {}
  PROVE  \E m \in T : \A k \in T : m <= k
<1> DEFINE R == OpToRel(<, Nat)
<1>1. IsWellFoundedOn(R, Nat)
  BY NatLessThanWellFounded
<1>2. \A x, y \in Nat : y < x => <<y, x>> \in R
  BY DEF OpToRel
<1> HIDE DEF R
<1>3. PICK m \in T : \A k \in T : ~(<<k, m>> \in R)
  BY <1>1, WFMin
<1>4. ASSUME NEW k \in T PROVE m <= k
  <2>1. ~(k < m)
    BY <1>2, <1>3
  <2> QED
    BY <2>1
<1> QED
  BY <1>4

\* A set with 1 and with the successor of each of its numbers has every number
\* from 1 on.
LEMMA InductionFromOne ==
  ASSUME NEW T, 1 \in T, \A n \in Nat \ {0} : n \in T => n + 1 \in T
  PROVE  \A n \in Nat \ {0} : n \in T
<1> SUFFICES ASSUME NEW n \in Nat \ {0}, n \notin T PROVE FALSE
  OBVIOUS
<1> DEFINE U == {k \in Nat \ {0} : k \notin T}
<1>1. PICK m \in U : \A k \in U : m <= k
  <2>1. U \in SUBSET Nat /\ U # {}
    OBVIOUS
  <2> HIDE DEF U
  <2> QED
    BY <2>1, LeastNumber
<1>2. m \in Nat /\ m # 0 /\ m # 1
  OBVIOUS
<1>3. m - 1 \in Nat \ {0} /\ m - 1 \in T
  BY <1>1, <1>2
<1> QED
  BY <1>1, <1>2, <1>3

-----------------------------------------------------------------------------
(* Sequences.                                                              *)

\* What is left behind the first n.
LEMMA RestTyped ==
  ASSUME NEW S, NEW s \in Seq(S), NEW n \in Nat
  PROVE  Rest(s, n) \in Seq(S)
BY DEF Rest

\* The beginning of a sequence.
LEMMA FrontTyped ==
  ASSUME NEW S, NEW s \in Seq(S), NEW m \in Nat, m <= Len(s)
  PROVE  SubSeq(s, 1, m) \in Seq(S) /\ Len(SubSeq(s, 1, m)) = m
OBVIOUS

LEMMA ConcatLength ==
  ASSUME NEW S, NEW s \in Seq(S), NEW t \in Seq(S)
  PROVE  s \o t \in Seq(S) /\ Len(s \o t) = Len(s) + Len(t)
OBVIOUS

LEMMA ReplacedInSeq ==
  ASSUME NEW S, NEW s \in Seq(S), NEW n \in 1..Len(s), NEW e \in S
  PROVE  LET d == [s EXCEPT ![n] = e]
         IN  d \in Seq(S) /\ Len(d) = Len(s) /\ d[n] = e /\ \A i \in 1..Len(s) : i # n => d[i] = s[i]
OBVIOUS

LEMMA SeqPlaces ==
  ASSUME NEW S, NEW s \in Seq(S)
  PROVE  DOMAIN s = 1..Len(s) /\ Len(s) \in Nat /\ \A i \in DOMAIN s : s[i] \in S
OBVIOUS

\* Sequences put together one behind the other.
Flattening(g, ss, n) == g = [i \in 1..n |-> IF i = 1 THEN ss[i] ELSE g[i - 1] \o ss[i]]

LEMMA FlatteningExists ==
  ASSUME NEW ss, NEW n \in Nat \ {0}
  PROVE  \E g : Flattening(g, ss, n)
<1> DEFINE T == {k \in Nat \ {0} : \E g : Flattening(g, ss, k)}
<1>1. 1 \in T
  <2> DEFINE h == [i \in 1..1 |-> ss[1]]
  <2>1. Flattening(h, ss, 1)
    BY DEF Flattening
  <2> HIDE DEF h
  <2> QED
    BY <2>1
<1>2. ASSUME NEW k \in Nat \ {0}, k \in T PROVE k + 1 \in T
  <2>1. PICK g : g = [i \in 1..k |-> IF i = 1 THEN ss[i] ELSE g[i - 1] \o ss[i]]
    BY <1>2 DEF Flattening
  <2> DEFINE h == [i \in 1..(k + 1) |-> IF i = k + 1 THEN g[k] \o ss[k + 1] ELSE g[i]]
  <2>2. \A i \in 1..k : h[i] = g[i]
    OBVIOUS
  <2>3. ASSUME NEW i \in 1..(k + 1)
        PROVE  h[i] = IF i = 1 THEN ss[i] ELSE h[i - 1] \o ss[i]
    <3>1. CASE i = k + 1
      <4>1. h[i] = g[k] \o ss[k + 1]
        BY <3>1
      <4>5. i # 1 /\ i - 1 = k /\ k \in 1..k
        BY <3>1
      <4>2. h[i - 1] = g[k]
        BY <4>5, <2>2
      <4> HIDE DEF h
      <4> QED
        BY <3>1, <4>5, <4>1, <4>2
    <3>2. CASE i # k + 1
      <4>1. i \in 1..k /\ h[i] = g[i]
        BY <3>2
      <4>2. i # 1 => i - 1 \in 1..k /\ h[i - 1] = g[i - 1]
        BY <4>1, <2>2
      <4> HIDE DEF h
      <4>3. g[i] = IF i = 1 THEN ss[i] ELSE g[i - 1] \o ss[i]
        BY <2>1, <4>1
      <4> QED
        BY <4>1, <4>2, <4>3
    <3> QED
      BY <3>1, <3>2
  <2>4. h = [i \in 1..(k + 1) |-> h[i]]
    OBVIOUS
  <2> HIDE DEF h
  <2>5. Flattening(h, ss, k + 1)
    BY <2>3, <2>4 DEF Flattening
  <2> QED
    BY <2>5
<1> HIDE DEF T
<1>3. n \in T
  BY <1>1, <1>2, InductionFromOne
<1> QED
  BY <1>3 DEF T

\* FlattenSeq puts sequences over S together to one over S.
LEMMA FlattenTyped ==
  ASSUME NEW S, NEW ss \in Seq(Seq(S))
  PROVE  FlattenSeq(ss) \in Seq(S)
<1> DEFINE n == Len(ss)
           g0 == CHOOSE g : g = [i \in 1..n |-> IF i = 1 THEN ss[i] ELSE g[i - 1] \o ss[i]]
<1>1. n \in Nat
  OBVIOUS
<1>2. CASE n = 0
  <2>1. FlattenSeq(ss) = ss
    BY <1>2 DEF FlattenSeq
  <2>2. ss = <<>>
    BY <1>2
  <2>3. <<>> \in Seq(S)
    OBVIOUS
  <2> QED
    BY <2>1, <2>2, <2>3
<1>3. CASE n # 0
  <2>1. FlattenSeq(ss) = g0[n]
    BY <1>3 DEF FlattenSeq
  <2>2. Flattening(g0, ss, n)
    <3>1. \E g : Flattening(g, ss, n)
      BY <1>1, <1>3, FlatteningExists
    <3> QED
      BY <3>1 DEF Flattening
  <2> HIDE DEF g0
  <2>3. \A i \in 1..n : ss[i] \in Seq(S)
    OBVIOUS
  <2> HIDE DEF n
  <2>4. \A i \in 1..n : g0[i] = IF i = 1 THEN ss[i] ELSE g0[i - 1] \o ss[i]
    BY <2>2 DEF Flattening
  <2> DEFINE T == {k \in Nat \ {0} : k <= n => g0[k] \in Seq(S)}
  <2>5. 1 \in T
    <3> SUFFICES ASSUME 1 <= n PROVE g0[1] \in Seq(S)
      OBVIOUS
    <3>1. 1 \in 1..n
      BY <1>1
    <3> QED
      BY <2>3, <2>4, <3>1
  <2>6. ASSUME NEW k \in Nat \ {0}, k \in T PROVE k + 1 \in T
    <3> SUFFICES ASSUME k + 1 <= n PROVE g0[k + 1] \in Seq(S)
      OBVIOUS
    <3>1. k + 1 \in 1..n /\ k + 1 # 1 /\ (k + 1) - 1 = k /\ k <= n
      BY <1>1
    <3>2. g0[k] \in Seq(S) /\ ss[k + 1] \in Seq(S)
      BY <2>3, <2>6, <3>1
    <3>3. g0[k + 1] = g0[k] \o ss[k + 1]
      BY <2>4, <3>1
    <3> QED
      BY <3>2, <3>3
  <2> HIDE DEF T
  <2>7. n \in T
    BY <1>1, <1>3, <2>5, <2>6, InductionFromOne
  <2> QED
    BY <1>1, <2>1, <2>7 DEF T
<1> QED
  BY <1>2, <1>3

-----------------------------------------------------------------------------
(* What the client sends.                                                  *)

LEMMA TokenTyped ==
  ASSUME NEW c \in Kinds, NEW n \in Nat
  PROVE  Num(c, n) \in Token
BY DEF Num, Token

LEMMA CharTyped ==
  ASSUME NEW c \in Kinds
  PROVE  Ch(c) \in Token
BY DEF Ch, Num, Token

LEMMA KindsNamed ==
  /\ {"cr", "lf", "-", "B", "x", "eof", "keep-alive", "close", "content-length", "chunked",
      "size", "file", "field", "name", "a", "b"} \subseteq Kinds
  /\ Methods \subseteq Kinds /\ Types \subseteq Kinds
BY DEF Kinds

LEMMA CharsTyped ==
  /\ CR \in Token /\ LF \in Token /\ Dash \in Token /\ Text \in Token /\ EOF \in Token
  /\ CRLF \in Seq(Token) /\ Boundary \in Seq(Token) /\ LastBoundary \in Seq(Token)
  /\ NlBoundary \in Seq(Token) /\ Len(NlBoundary) = 5
<1>1. CR \in Token /\ LF \in Token /\ Dash \in Token /\ Text \in Token /\ EOF \in Token
  BY KindsNamed, CharTyped DEF CR, LF, Dash, Text, EOF
<1>2. CRLF \in Seq(Token) /\ Len(CRLF) = 2
  BY <1>1 DEF CRLF
<1>3. Boundary \in Seq(Token) /\ Len(Boundary) = 3
  BY <1>1 DEF Boundary
<1>4. <<Dash, Dash>> \in Seq(Token)
  BY <1>1
<1>5. LastBoundary \in Seq(Token)
  BY <1>3, <1>4 DEF LastBoundary
<1>6. NlBoundary \in Seq(Token) /\ Len(NlBoundary) = 5
  <2> DEFINE a == CRLF
             b == Boundary
  <2>1. NlBoundary = a \o b
    BY DEF NlBoundary
  <2> HIDE DEF a, b
  <2>2. a \in Seq(Token) /\ Len(a) = 2 /\ b \in Seq(Token) /\ Len(b) = 3
    BY <1>2, <1>3 DEF a, b
  <2>3. NlBoundary \in Seq(Token) /\ Len(NlBoundary) = Len(a) + Len(b)
    BY <2>1, <2>2, ConcatLength
  <2> QED
    BY <2>2, <2>3
<1> QED
  BY <1>1, <1>2, <1>3, <1>5, <1>6

\* The body of a request, before it is cut into chunks.
LEMMA BodyTyped ==
  ASSUME NEW r \in Requests
  PROVE  Body(r) \in Seq(Token)
<1>1. r.text \in Seq(Token) /\ r.parts \in Seq([file : BOOLEAN, name : Nat, data : Seq(Token)])
  BY RequestAssumption
<1>2. ASSUME NEW p \in [file : BOOLEAN, name : Nat, data : Seq(Token)]
      PROVE  PartHead(p) \o p.data \o CRLF \in Seq(Token)
  <2>1. p.name \in Nat /\ p.data \in Seq(Token)
    OBVIOUS
  <2> DEFINE c == IF p.file THEN "file" ELSE "field"
             k == Num(c, p.name)
  <2>2. k \in Token
    <3>1. c \in Kinds
      BY KindsNamed
    <3> HIDE DEF c
    <3> QED
      BY <2>1, <3>1, TokenTyped
  <2>3. PartHead(p) = Boundary \o CRLF \o <<k>> \o CRLF \o CRLF
    BY DEF PartHead
  <2> HIDE DEF k
  <2>4. <<k>> \in Seq(Token)
    BY <2>2
  <2>5. PartHead(p) \in Seq(Token)
    BY <2>3, <2>4, CharsTyped
  <2> QED
    BY <2>1, <2>5, CharsTyped
<1> DEFINE ps == r.parts
           ss == [i \in DOMAIN ps |-> PartHead(ps[i]) \o ps[i].data \o CRLF]
<1>3. ss \in Seq(Seq(Token))
  <2>1. DOMAIN ps = 1..Len(ps) /\ Len(ps) \in Nat
        /\ \A i \in DOMAIN ps : ps[i] \in [file : BOOLEAN, name : Nat, data : Seq(Token)]
    BY <1>1, SeqPlaces
  <2>2. \A i \in DOMAIN ps : PartHead(ps[i]) \o ps[i].data \o CRLF \in Seq(Token)
    BY <1>2, <2>1
  <2> HIDE DEF ps
  <2> QED
    BY <2>1, <2>2
<1>4. FlattenSeq(ss) \in Seq(Token)
  <2> HIDE DEF ss
  <2> QED
    BY <1>3, FlattenTyped
<1> DEFINE e == IF r.trailer THEN CRLF ELSE <<>>
           f == FlattenSeq(ss)
<1>5. e \in Seq(Token)
  BY CharsTyped
<1>6. FormBody(r) = f \o LastBoundary \o e
  BY DEF FormBody
<1> HIDE DEF e, f
<1>7. FormBody(r) \in Seq(Token)
  BY <1>4, <1>5, <1>6, CharsTyped DEF f
<1>8. <<>> \in Seq(Token)
  OBVIOUS
<1> QED
  BY <1>1, <1>7, <1>8 DEF Body

LEMMA ZeroTyped == Num("size", 0) \in Token
<1>1. "size" \in Kinds
  BY KindsNamed
<1> QED
  BY <1>1 DEF Num, Token

\* A sequence in chunks.
LEMMA ChunksTyped ==
  ASSUME NEW b \in Seq(Token), NEW k \in Nat \ {0}
  PROVE  Chunks(b, k) \in Seq(Token)
<1> DEFINE n == (Len(b) + k - 1) \div k
           piece(i) == SubSeq(b, (i - 1) * k + 1, IF i * k < Len(b) THEN i * k ELSE Len(b))
           chunk(i) == <<Num("size", Len(piece(i)))>> \o CRLF \o piece(i) \o CRLF
           ss == [i \in 1..n |-> chunk(i)]
           zero == Num("size", 0)
<1>1. Len(b) \in Nat /\ n \in Nat
  OBVIOUS
<1>2. ASSUME NEW i \in 1..n PROVE chunk(i) \in Seq(Token)
  <2> DEFINE from == (i - 1) * k + 1
             to == IF i * k < Len(b) THEN i * k ELSE Len(b)
  <2>1. i \in Nat \ {0}
    BY <1>1
  <2> HIDE DEF n
  <2>2. from \in Nat \ {0} /\ to \in Nat /\ to <= Len(b)
    <3> DEFINE x == (i - 1) * k
               y == i * k
    <3>1. x \in Nat /\ y \in Nat
      BY <2>1
    <3> HIDE DEF x, y
    <3> QED
      BY <1>1, <3>1 DEF x, y
  <2> HIDE DEF from, to
  <2>3. piece(i) = SubSeq(b, from, to)
    BY DEF from, to
  <2>4. piece(i) \in Seq(Token)
    <3> HIDE DEF piece
    <3> QED
      BY <2>2, <2>3
  <2> DEFINE p == piece(i)
             t == Num("size", Len(p))
  <2>5. p \in Seq(Token)
    BY <2>4
  <2>6. chunk(i) = <<t>> \o CRLF \o p \o CRLF
    OBVIOUS
  <2> HIDE DEF p, chunk, piece
  <2>7. Len(p) \in Nat
    BY <2>5
  <2>8. t \in Token
    <3>1. "size" \in Kinds
      BY KindsNamed
    <3> QED
      BY <2>7, <3>1, TokenTyped DEF t
  <2>9. <<t>> \in Seq(Token)
    BY <2>8
  <2> QED
    BY <2>5, <2>6, <2>9, CharsTyped
<1>3. ss \in Seq(Seq(Token))
  <2> HIDE DEF n, chunk
  <2> QED
    BY <1>1, <1>2
<1>4. FlattenSeq(ss) \in Seq(Token)
  <2> HIDE DEF ss
  <2> QED
    BY <1>3, FlattenTyped
<1>5. <<zero>> \in Seq(Token)
  BY ZeroTyped
<1> DEFINE f == FlattenSeq(ss)
<1>6. Chunks(b, k) = f \o <<zero>> \o CRLF \o CRLF
  BY DEF Chunks
<1> HIDE DEF ss
<1>7. f \in Seq(Token)
  BY <1>4
<1> HIDE DEF f, zero
<1> QED
  BY <1>5, <1>6, <1>7, CharsTyped

\* A request is a sequence of tokens.
LEMMA WireTyped ==
  ASSUME NEW r \in Requests
  PROVE  Wire(r) \in Seq(Token)
<1> DEFINE head(c) == <<c>> \o CRLF
           line == head(Num(r.method, r.query))
           kept == IF r.connection = "none" THEN <<>> ELSE head(Ch(r.connection))
           type == IF r.type = "none" THEN <<>> ELSE head(Ch(r.type))
           frame == CASE r.framing = "length"  -> head(Num("content-length", Len(Body(r))))
                      [] r.framing = "chunked" -> head(Ch("chunked"))
                      [] OTHER                 -> <<>>
           body == IF r.framing = "chunked" THEN Chunks(Body(r), r.chunk) ELSE Body(r)
<1>1. r.method \in Kinds /\ r.type \in Kinds /\ (r.connection # "none" => r.connection \in Kinds)
      /\ r.query \in Nat /\ r.chunk \in Nat \ {0}
  <2>1. r.method \in Methods /\ r.type \in Types /\ r.connection \in {"none", "keep-alive", "close"}
        /\ r.query \in Nat /\ r.chunk \in Nat \ {0}
    BY RequestAssumption
  <2> QED
    BY <2>1, KindsNamed
<1>2. <<>> \in Seq(Token)
  OBVIOUS
<1>3. ASSUME NEW c \in Token PROVE head(c) \in Seq(Token)
  <2>1. <<c>> \in Seq(Token)
    OBVIOUS
  <2> QED
    BY <2>1, CharsTyped
<1>4. ASSUME NEW c \in Kinds PROVE Ch(c) \in Token
  BY CharTyped
<1> HIDE DEF head
<1>5. line \in Seq(Token)
  BY <1>1, <1>3, TokenTyped
<1>6. kept \in Seq(Token)
  BY <1>1, <1>2, <1>3, <1>4
<1>7. type \in Seq(Token)
  BY <1>1, <1>2, <1>3, <1>4
<1>8. frame \in Seq(Token)
  <2> DEFINE a == head(Num("content-length", Len(Body(r))))
             b == head(Ch("chunked"))
  <2>1. Len(Body(r)) \in Nat
    BY BodyTyped
  <2> DEFINE n == Len(Body(r))
  <2>2. Num("content-length", n) \in Token
    <3>1. "content-length" \in Kinds /\ n \in Nat
      BY <2>1, KindsNamed
    <3> HIDE DEF n
    <3> QED
      BY <3>1, TokenTyped
  <2>3. Ch("chunked") \in Token
    <3>1. "chunked" \in Kinds
      BY KindsNamed
    <3> QED
      BY <3>1, <1>4
  <2>4. a \in Seq(Token) /\ b \in Seq(Token)
    BY <2>2, <2>3, <1>3
  <2>5. frame = IF r.framing = "length" THEN a ELSE IF r.framing = "chunked" THEN b ELSE <<>>
    OBVIOUS
  <2> HIDE DEF a, b, frame
  <2> QED
    BY <1>2, <2>4, <2>5
<1>9. body \in Seq(Token)
  BY <1>1, BodyTyped, ChunksTyped
<1>10. Wire(r) = line \o kept \o type \o frame \o CRLF \o body
  BY DEF Wire, head
<1> HIDE DEF line, kept, type, frame, body
<1> QED
  BY <1>5, <1>6, <1>7, <1>8, <1>9, <1>10, CharsTyped

-----------------------------------------------------------------------------
(* Reading.                                                                *)

\* The stream and the ChunkReader on it.
StreamOK(r) == DOMAIN r = {"in", "eof", "size", "pos"} /\ r.in \in Seq(Token)

LEMMA StreamTyped ==
  ASSUME NEW w \in Seq(Token)
  PROVE  StreamOK(Stream(w))
BY DEF StreamOK, Stream

LEMMA StreamRest ==
  ASSUME NEW r, StreamOK(r), NEW n \in Nat
  PROVE  StreamOK([r EXCEPT !.in = Rest(@, n)])
BY RestTyped DEF StreamOK

\* A line: the stream behind it, its tokens and how many bytes it took.
LineOK(l) == StreamOK(l.rd) /\ l.line \in Seq(Token) /\ l.n \in Nat

\* Where the first token is that passes a test.
LEMMA Selected ==
  ASSUME NEW s \in Seq(Token)
  PROVE  SelectInSeq(s, IsEol) \in 0..Len(s)
<1> DEFINE I == {i \in 1..Len(s) : IsEol(s[i])}
<1>1. Len(s) \in Nat
  OBVIOUS
<1>2. SelectInSeq(s, IsEol) = IF I # {} THEN Min(I) ELSE 0
  BY DEF SelectInSeq
<1>3. I \in SUBSET Nat
  OBVIOUS
<1>4. I \subseteq 1..Len(s)
  OBVIOUS
<1> HIDE DEF I
<1>5. CASE I # {}
  <2>1. \E m \in I : \A k \in I : m <= k
    BY <1>3, <1>5, LeastNumber
  <2>2. Min(I) \in I
    BY <2>1 DEF Min
  <2> DEFINE m == Min(I)
  <2>3. SelectInSeq(s, IsEol) = m
    BY <1>2, <1>5
  <2>4. m \in 1..Len(s)
    BY <1>4, <2>2
  <2> HIDE DEF m
  <2> QED
    BY <1>1, <2>3, <2>4
<1>6. CASE I = {}
  BY <1>1, <1>2, <1>6
<1> QED
  BY <1>5, <1>6

LEMMA LineToTyped ==
  ASSUME NEW r, StreamOK(r), NEW e \in 0..Len(r.in), NEW max
  PROVE  LineOK(LineTo(e, r, max))
<1> DEFINE m   == IF e = 0 THEN Len(r.in) ELSE e - 1
           eof == e = 0 \/ (r.in[e] = CR /\ e = Len(r.in))
           n   == IF e = 0 THEN m
                  ELSE IF ~eof /\ r.in[e] = CR /\ r.in[e + 1] = LF THEN m + 2 ELSE m + 1
           x   == IF max > 0 /\ m >= max THEN "Error" ELSE "ok"
           l   == [rd |-> [r EXCEPT !.in = Rest(@, n), !.eof = eof], line |-> SubSeq(r.in, 1, m), n |-> n, x |-> x]
<1>1. LineTo(e, r, max) = l
  BY DEF LineTo
<1>2. r.in \in Seq(Token) /\ Len(r.in) \in Nat
  BY DEF StreamOK
<1>3. m \in Nat /\ m <= Len(r.in)
  BY <1>2
<1>4. n \in Nat
  <2> HIDE DEF m, eof
  <2> QED
    BY <1>3
<1> HIDE DEF m, eof, n, x
<1>5. SubSeq(r.in, 1, m) \in Seq(Token)
  BY <1>2, <1>3, FrontTyped
<1>6. StreamOK([r EXCEPT !.in = Rest(@, n), !.eof = eof])
  <2>1. Rest(r.in, n) \in Seq(Token)
    BY <1>2, <1>4, RestTyped
  <2> QED
    BY <2>1 DEF StreamOK
<1>7. LineOK(l)
  BY <1>4, <1>5, <1>6 DEF LineOK
<1> QED
  BY <1>1, <1>7

LEMMA GetlineTyped ==
  ASSUME NEW r, StreamOK(r), NEW max
  PROVE  LineOK(safeGetline(r, max))
<1>1. r.in \in Seq(Token)
  BY DEF StreamOK
<1> DEFINE e == SelectInSeq(r.in, IsEol)
<1>2. e \in 0..Len(r.in)
  BY <1>1, Selected
<1>3. safeGetline(r, max) = LineTo(e, r, max)
  BY DEF safeGetline
<1> HIDE DEF e
<1> QED
  BY <1>2, <1>3, LineToTyped

LEMMA SkipLineTyped ==
  ASSUME NEW r, StreamOK(r)
  PROVE  StreamOK(SkipLine(r).rd)
<1> DEFINE l == safeGetline(r, 0)
<1>1. LineOK(l)
  BY GetlineTyped
<1>2. SkipLine(r).rd = l.rd
  BY DEF SkipLine, Skipped
<1> QED
  BY <1>1, <1>2 DEF LineOK

\* The size line of a chunk.
LEMMA SizeLineTyped ==
  ASSUME NEW r, StreamOK(r)
  PROVE  StreamOK(SizeLine(r).rd) /\ SizeLine(r).n \in Nat
<1> DEFINE l == safeGetline(r, 0)
<1>1. LineOK(l)
  BY GetlineTyped
<1>2. SizeLine(r).rd = l.rd /\ SizeLine(r).n = IF l.line = <<>> THEN 0 ELSE l.line[1].n
  BY DEF SizeLine, SizeIn
<1> HIDE DEF l
<1>3. l.line # <<>> => l.line[1] \in Token
  BY <1>1 DEF LineOK
<1> QED
  BY <1>1, <1>2, <1>3 DEF LineOK, Token

\* The next chunk, and a byte of it.
LEMMA ChunkTyped ==
  ASSUME NEW r, StreamOK(r)
  PROVE  StreamOK(NextChunk(r).rd)
<1> DEFINE s == SizeLine(r)
           l == SkipLine(s.rd)
           more == [s.rd EXCEPT !.size = s.n, !.pos = 0]
           none == [l.rd EXCEPT !.size = 0]
<1>1. NextChunk(r).rd = IF s.x # "ok" THEN s.rd ELSE IF s.n > 0 THEN more ELSE none
  BY DEF NextChunk, ChunkOf
<1>2. StreamOK(s.rd) /\ StreamOK(l.rd)
  BY SizeLineTyped, SkipLineTyped
<1> HIDE DEF s, l
<1>3. StreamOK(more) /\ StreamOK(none)
  BY <1>2 DEF StreamOK
<1> HIDE DEF more, none
<1> QED
  BY <1>1, <1>2, <1>3

LEMMA TakenTyped ==
  ASSUME NEW r, StreamOK(r)
  PROVE  StreamOK(Taken(r).rd)
<1> DEFINE t == [r EXCEPT !.in = Rest(@, 1), !.pos = @ + 1]
           b == t.pos >= t.size
<1>1. Taken(r).rd = IF b THEN SkipLine(t).rd ELSE t
  BY DEF Taken
<1>2. StreamOK(t)
  <2>1. Rest(r.in, 1) \in Seq(Token)
    BY RestTyped DEF StreamOK
  <2> QED
    BY <2>1 DEF StreamOK
<1> HIDE DEF t, b
<1>3. StreamOK(SkipLine(t).rd)
  BY <1>2, SkipLineTyped
<1> QED
  BY <1>1, <1>2, <1>3

\* A byte: the stream behind it and the byte or EOF.
ByteOK(g) == StreamOK(g.rd) /\ g.c \in Token

LEMMA GetcTyped ==
  ASSUME NEW r, StreamOK(r)
  PROVE  ByteOK(ck_getc(r))
<1> DEFINE q == IF r.pos >= r.size THEN NextChunk(r) ELSE [rd |-> r, x |-> "ok"]
           t == Taken(q.rd)
           c == IF q.rd.in = <<>> THEN EOF ELSE q.rd.in[1]
<1>1. ck_getc(r).rd = (IF q.x # "ok" THEN q.rd ELSE t.rd) /\ ck_getc(r).c = IF q.x # "ok" THEN EOF ELSE c
  BY DEF ck_getc, ByteOf
<1>2. StreamOK(q.rd)
  BY ChunkTyped
<1> HIDE DEF q
<1>3. StreamOK(t.rd)
  BY <1>2, TakenTyped
<1>4. c \in Token
  BY <1>2, CharsTyped DEF StreamOK
<1> HIDE DEF t, c
<1> QED
  BY <1>1, <1>2, <1>3, <1>4, CharsTyped DEF ByteOK

LEMMA NextByteTyped ==
  ASSUME StreamOK(rd)
  PROVE  ByteOK(NextByte)
<1> DEFINE g == ck_getc(rd)
           h == [g EXCEPT !.x = IF @ = "end" THEN "ok" ELSE @]
           n == [rd |-> [rd EXCEPT !.eof = TRUE], c |-> EOF, x |-> "ok"]
           y == [rd |-> [rd EXCEPT !.in = Rest(@, 1)], c |-> rd.in[1], x |-> "ok"]
<1>1. NextByte = IF req.chunked THEN h ELSE IF rd.in = <<>> THEN n ELSE y
  BY DEF NextByte
<1>2. ByteOK(h)
  <2>1. ByteOK(g)
    BY GetcTyped
  <2>2. DOMAIN g = {"rd", "c", "x"}
    BY DEF ck_getc, ByteOf
  <2> HIDE DEF g
  <2>3. h.rd = g.rd /\ h.c = g.c
    BY <2>2
  <2> QED
    BY <2>1, <2>3 DEF ByteOK
<1>3. ByteOK(n)
  <2>1. StreamOK([rd EXCEPT !.eof = TRUE])
    BY DEF StreamOK
  <2> QED
    BY <2>1, CharsTyped DEF ByteOK
<1>4. rd.in # <<>> => ByteOK(y)
  <2> SUFFICES ASSUME rd.in # <<>> PROVE ByteOK(y)
    OBVIOUS
  <2>1. StreamOK([rd EXCEPT !.in = Rest(@, 1)])
    BY StreamRest
  <2>2. rd.in[1] \in Token
    BY DEF StreamOK
  <2> QED
    BY <2>1, <2>2 DEF ByteOK
<1> HIDE DEF h, n, y
<1> QED
  BY <1>1, <1>2, <1>3, <1>4

\* What read() takes.
LEMMA ReadTyped ==
  ASSUME NEW r, StreamOK(r), NEW n \in Nat
  PROVE  /\ StreamOK(read(r, n).rd)
         /\ read(r, n).data \in Seq(Token)
         /\ read(r, n).x = "ok" => Len(read(r, n).data) = n
<1> DEFINE m == IF n > Len(r.in) THEN Len(r.in) ELSE n
           d == SubSeq(r.in, 1, m)
           z == [r EXCEPT !.in = Rest(@, n), !.eof = n > Len(r.in)]
<1>1. r.in \in Seq(Token) /\ Len(r.in) \in Nat
  BY DEF StreamOK
<1>2. read(r, n).rd = z /\ read(r, n).data = d /\ (read(r, n).x = "ok" => ~(n > Len(r.in)))
  BY DEF read
<1>3. m \in Nat /\ m <= Len(r.in) /\ (~(n > Len(r.in)) => m = n)
  BY <1>1
<1> HIDE DEF m
<1>4. d \in Seq(Token) /\ Len(d) = m
  BY <1>1, <1>3, FrontTyped
<1>5. StreamOK(z)
  <2>1. Rest(r.in, n) \in Seq(Token)
    BY <1>1, RestTyped
  <2> QED
    BY <2>1 DEF StreamOK
<1> HIDE DEF d, z
<1> QED
  BY <1>2, <1>3, <1>4, <1>5

-----------------------------------------------------------------------------
(* The inductive invariant.                                                *)

Part == [line : Seq(Token), next : {"parts", "parthead", "value"}, n : Nat, name : Nat,
         file : BOOLEAN, value : Seq(Token), cnt : 0..5, fsize : Nat]
Upload   == [name : Nat, file : Nat, fsize : Nat]
TempFile == [data : Seq(Token), there : BOOLEAN]

\* The Connection object; its content is never beyond the limit.
RequestOK(q) ==
  /\ DOMAIN q = {"method", "query", "keep", "chunked", "length", "type", "content", "params", "post", "uploads"}
  /\ q.length \in Nat
  /\ q.content \in Seq(Token) /\ (MaxPost > 0 => Len(q.content) <= MaxPost)
  /\ q.uploads \in Seq(Upload)

TypesRight ==
  /\ StreamOK(rd) /\ RequestOK(req) /\ part \in Part /\ disk \in Seq(TempFile)
  /\ \A k \in DOMAIN req.uploads : req.uploads[k].file \in DOMAIN disk

Before == {"head", "header", "body", "chunks", "form"}
InLine == {"getline", "parts", "parthead", "value"}
InFile == {"file", "fileend"}
InForm == InLine \cup InFile \cup {"fileend2"}
Ended  == {"closed", "error500"}

\* There are no uploads before the form is read, the file that is being written
\* is the last one and no upload yet, and a match with the boundary is only
\* under way in a file.
PlacesRight ==
  /\ pc \in {"idle", "handle", "cleanup"} \cup Before \cup InForm \cup Ended
  /\ pc \in Before => req.uploads = <<>>
  /\ pc \in {"getline", "parthead", "value"} => part.cnt = 0
  /\ pc = "file" => part.cnt < 5
  /\ pc \in InFile => disk # <<>> /\ \A k \in DOMAIN req.uploads : req.uploads[k].file < Len(disk)

\* A temporary file that exists is an upload or the file that is being written,
\* unless an exception has ended the request; between two requests there is none.
TempsKnown ==
  pc \notin Ended =>
    \A i \in DOMAIN disk : disk[i].there =>
       \/ pc \in InFile /\ i = Len(disk)
       \/ pc # "idle" /\ \E k \in DOMAIN req.uploads : req.uploads[k].file = i

\* The bytes of the uploads and those of the file that is being written, with
\* the ones that were held back for a match, have all been counted.
Bytes == Cardinality(Uploaded(req.uploads, disk))
Held  == Bytes + (IF pc \in InFile THEN Len(disk[Len(disk)].data) + part.cnt ELSE 0)
BytesCounted ==
  /\ IsFiniteSet(Uploaded(req.uploads, disk))
  /\ pc \in InForm => Held <= part.n
  /\ pc \in InForm \cup {"handle"} /\ MaxPost > 0 => Held <= MaxPost

RInv == TypesRight /\ PlacesRight /\ TempsKnown /\ BytesCounted

-----------------------------------------------------------------------------
(* The bytes of the uploads.                                               *)

LEMMA UploadedSame ==
  ASSUME NEW us, NEW d, NEW e,
         \A k \in DOMAIN us : DOMAIN d[us[k].file].data = DOMAIN e[us[k].file].data
  PROVE  Uploaded(us, d) = Uploaded(us, e)
BY DEF Uploaded

LEMMA UploadedNone ==
  ASSUME NEW d
  PROVE  /\ Uploaded(<<>>, d) = {}
         /\ IsFiniteSet(Uploaded(<<>>, d)) /\ Cardinality(Uploaded(<<>>, d)) = 0
<1>1. Uploaded(<<>>, d) = {}
  BY DEF Uploaded
<1> QED
  BY <1>1, FS_EmptySet

\* The places of a sequence, marked with a number.
LEMMA MarkedCount ==
  ASSUME NEW k \in Nat, NEW n \in Nat
  PROVE  /\ IsFiniteSet({k} \X (1..n))
         /\ Cardinality({k} \X (1..n)) = n
<1> DEFINE S == 1..n
           T == {k} \X S
           f == [i \in S |-> <<k, i>>]
<1>1. IsFiniteSet(S) /\ Cardinality(S) = n
  BY FS_Interval
<1>2. f \in Bijection(S, T)
  <2>1. f \in Injection(S, T)
    BY DEF Injection, IsInjective
  <2>2. f \in Surjection(S, T)
    <3>1. f \in [S -> T]
      OBVIOUS
    <3>2. ASSUME NEW t \in T PROVE \E i \in S : f[i] = t
      <4>1. t[2] \in S /\ t = <<k, t[2]>>
        OBVIOUS
      <4> QED
        BY <4>1
    <3> QED
      BY <3>1, <3>2 DEF Surjection
  <2> QED
    BY <2>1, <2>2 DEF Bijection
<1> HIDE DEF f, S, T
<1>3. ExistsBijection(S, T)
  BY <1>2 DEF ExistsBijection
<1>4. IsFiniteSet(T) /\ Cardinality(T) = n
  BY <1>1, <1>3, FS_Bijection
<1> QED
  BY <1>4 DEF S, T

\* One more upload.
LEMMA UploadedNext ==
  ASSUME NEW us \in Seq(Upload), NEW d \in Seq(TempFile), NEW u \in Upload, u.file \in DOMAIN d,
         IsFiniteSet(Uploaded(us, d))
  PROVE  /\ IsFiniteSet(Uploaded(Append(us, u), d))
         /\ Cardinality(Uploaded(Append(us, u), d)) <= Cardinality(Uploaded(us, d)) + Len(d[u.file].data)
<1> DEFINE vs == Append(us, u)
           k == Len(us) + 1
           n == Len(d[u.file].data)
           A == Uploaded(us, d)
           B == {k} \X (1..n)
<1>1. k \in Nat \ {0} /\ DOMAIN us = 1..(k - 1) /\ DOMAIN vs = 1..k /\ vs[k] = u
      /\ \A i \in DOMAIN us : vs[i] = us[i]
  OBVIOUS
<1>2. n \in Nat /\ DOMAIN d[u.file].data = 1..n
  <2>1. d[u.file] \in TempFile
    OBVIOUS
  <2> QED
    BY <2>1 DEF TempFile
<1>3. Uploaded(vs, d) = A \cup B
  <2> HIDE DEF vs, k, n
  <2>1. DOMAIN vs = DOMAIN us \cup {k}
    BY <1>1
  <2>2. \A i \in DOMAIN us : {i} \X DOMAIN d[vs[i].file].data = {i} \X DOMAIN d[us[i].file].data
    BY <1>1
  <2>3. {k} \X DOMAIN d[vs[k].file].data = B
    BY <1>1, <1>2 DEF n
  <2> DEFINE set(i) == {i} \X DOMAIN d[vs[i].file].data
             old(i) == {i} \X DOMAIN d[us[i].file].data
  <2>4. \A x : x \in Uploaded(vs, d) <=> \E i \in DOMAIN vs : x \in set(i)
    BY DEF Uploaded
  <2>5. \A x : x \in A <=> \E i \in DOMAIN us : x \in old(i)
    BY DEF Uploaded
  <2>6. \A i \in DOMAIN us : set(i) = old(i)
    BY <2>2
  <2>7. set(k) = B
    BY <2>3
  <2> HIDE DEF set, old, A, B
  <2>8. \A x : x \in Uploaded(vs, d) <=> x \in A \/ x \in B
    BY <2>1, <2>4, <2>5, <2>6, <2>7
  <2> QED
    BY <2>8
<1>4. IsFiniteSet(B) /\ Cardinality(B) = n
  BY <1>1, <1>2, MarkedCount
<1> HIDE DEF A, B, k, n, vs
<1>5. IsFiniteSet(A)
  BY DEF A
<1>6. /\ IsFiniteSet(A \cup B)
      /\ Cardinality(A \cup B) = Cardinality(A) + Cardinality(B) - Cardinality(A \cap B)
  BY <1>4, <1>5, FS_Union
<1>7. Cardinality(A) \in Nat /\ Cardinality(B) \in Nat /\ Cardinality(A \cap B) \in Nat
  <2>1. IsFiniteSet(A \cap B)
    BY <1>5, FS_Subset
  <2> QED
    BY <1>4, <1>5, <2>1, FS_CardinalityType
<1>8. Cardinality(A \cup B) <= Cardinality(A) + n
  BY <1>4, <1>6, <1>7, <1>2
<1> QED
  BY <1>3, <1>6, <1>8 DEF vs, A, n

-----------------------------------------------------------------------------
(* Kinds of steps.                                                         *)

\* The request ends with an exception.
LEMMA EndsStep ==
  ASSUME RInv, StreamOK(rd'), part' \in Part, req' = req, disk' = disk, pc' \in Ended
  PROVE  RInv'
<1>1. pc' \notin InForm /\ pc' \notin Before /\ pc' \notin InFile
      /\ pc' \notin {"idle", "handle", "cleanup", "getline", "parthead", "value", "file"}
  BY DEF Ended, InForm, InLine, InFile, Before
<1>2. TypesRight'
  BY DEF RInv, TypesRight
<1>3. PlacesRight'
  BY <1>1 DEF PlacesRight
<1>4. TempsKnown'
  BY DEF TempsKnown
<1>5. BytesCounted'
  BY <1>1 DEF RInv, BytesCounted
<1> QED
  BY <1>2, <1>3, <1>4, <1>5 DEF RInv

LEMMA ThrowsStep ==
  ASSUME RInv, StreamOK(rd'), part' \in Part, NEW x, Throws(x)
  PROVE  RInv'
<1>1. pc' \in Ended /\ req' = req /\ disk' = disk
  BY DEF Throws, Ended
<1> QED
  BY <1>1, EndsStep

\* What is known of the bytes outside of a file.
LEMMA BytesKnown ==
  ASSUME RInv, pc \notin InFile
  PROVE  /\ Bytes \in Nat /\ Held = Bytes
         /\ pc \in InForm => Bytes <= part.n
         /\ pc \in InForm \cup {"handle"} \cup Before => (MaxPost > 0 => Bytes <= MaxPost)
         /\ pc \in Before => Bytes = 0
<1>1. Bytes \in Nat
  BY FS_CardinalityType DEF RInv, BytesCounted, Bytes
<1>2. Held = Bytes
  BY <1>1 DEF Held
<1>3. pc \in Before => Bytes = 0
  BY UploadedNone DEF RInv, PlacesRight, Bytes
<1>4. MaxPost \in Nat
  BY RequestAssumption
<1> QED
  BY <1>1, <1>2, <1>3, <1>4 DEF RInv, BytesCounted

\* The constructor goes on, or the request goes to a handler; nothing happens
\* to the temporary files.
LEMMA MovesStep ==
  ASSUME RInv, StreamOK(rd'), part' = part, RequestOK(req'), req'.uploads = req.uploads, disk' = disk,
         \/ pc \in Before /\ pc' \in Before \cup {"handle"}
         \/ pc = "parts" /\ pc' = "handle"
         \/ pc \in {"value", "fileend2"} /\ pc' = "parts"
         \/ pc = "handle" /\ pc' = "cleanup"
  PROVE  RInv'
<1>1. /\ pc \notin InFile \cup Ended \cup {"idle"}
      /\ pc' \in Before \cup {"parts", "handle", "cleanup"}
      /\ pc' \notin InFile \cup Ended \cup {"idle", "getline", "parthead", "value", "file"}
      /\ pc' \in Before => pc \in Before
      /\ pc' \in InForm => pc \in InForm
      /\ pc' \in InForm \cup {"handle"} => pc \in InForm \cup {"handle"} \cup Before
  BY DEF Before, InFile, InForm, InLine, Ended
<1>2. Uploaded(req.uploads, disk)' = Uploaded(req.uploads, disk)
  OBVIOUS
<1>3. Bytes' = Bytes
  BY <1>2 DEF Bytes
<1>4. TypesRight'
  BY DEF RInv, TypesRight
<1>5. PlacesRight'
  BY <1>1 DEF RInv, PlacesRight, InForm, InLine
<1>6. TempsKnown'
  BY <1>1 DEF RInv, TempsKnown
<1>7. BytesCounted'
  <2>1. /\ Bytes \in Nat
        /\ pc \in InForm => Bytes <= part.n
        /\ pc \in InForm \cup {"handle"} \cup Before => (MaxPost > 0 => Bytes <= MaxPost)
    BY <1>1, BytesKnown
  <2>2. Held' = Bytes
    BY <1>1, <1>3, <2>1 DEF Held
  <2> QED
    BY <1>1, <1>2, <2>1, <2>2 DEF RInv, BytesCounted
<1> QED
  BY <1>4, <1>5, <1>6, <1>7 DEF RInv

\* A line of the body has been read.
LEMMA LineReadStep ==
  ASSUME RInv, pc \in InLine \cup {"form"}, NEW r, StreamOK(r), NEW p \in Part, p.cnt = 0, Bytes <= p.n,
         NEW x, NEW next \in {"parts", "parthead", "value"}, LineRead(r, p, x, next)
  PROVE  RInv'
<1>1. rd' = r /\ part' = p
  BY DEF LineRead
<1>2. CASE x # "ok" \/ r.eof \/ Over(p.n)
  <2>1. Throws(x) \/ Throws("InputFailure") \/ Throws("Error")
    BY <1>2 DEF LineRead
  <2> QED
    BY <1>1, <2>1, ThrowsStep
<1>3. CASE ~(x # "ok" \/ r.eof \/ Over(p.n))
  <2>1. pc' = next /\ req' = req /\ disk' = disk
    BY <1>3 DEF LineRead
  <2>2. /\ pc \notin InFile \cup Ended \cup {"idle"}
        /\ pc' \in InForm /\ pc' \notin InFile \cup Ended \cup Before \cup {"idle"}
    BY <2>1 DEF Before, InFile, InForm, InLine, Ended
  <2>3. Uploaded(req.uploads, disk)' = Uploaded(req.uploads, disk)
    BY <2>1
  <2>4. Bytes' = Bytes
    BY <2>3 DEF Bytes
  <2>5. TypesRight'
    BY <1>1, <2>1 DEF RInv, TypesRight
  <2>6. PlacesRight'
    BY <1>1, <2>1, <2>2 DEF RInv, PlacesRight
  <2>7. TempsKnown'
    BY <2>1, <2>2 DEF RInv, TempsKnown
  <2>8. BytesCounted'
    <3>1. Bytes \in Nat /\ p.n \in Nat /\ MaxPost \in Nat
      BY <2>2, BytesKnown, RequestAssumption DEF Part
    <3>2. Held' = Bytes
      BY <2>2, <2>4, <3>1 DEF Held
    <3>3. MaxPost > 0 => p.n <= MaxPost
      BY <1>3, <3>1 DEF Over
    <3>4. IsFiniteSet(Uploaded(req.uploads, disk))
      BY DEF RInv, BytesCounted
    <3> QED
      BY <1>1, <2>3, <3>1, <3>2, <3>3, <3>4 DEF BytesCounted
  <2> QED
    BY <2>5, <2>6, <2>7, <2>8 DEF RInv
<1> QED
  BY <1>2, <1>3

\* A line of the body is to be read.
LEMMA LineThenStep ==
  ASSUME RInv, pc \in (InLine \ {"getline"}) \cup {"form"}, NEW p \in Part, p.cnt = 0, Bytes <= p.n,
         NEW next \in {"parts", "parthead", "value"}, LineThen(p, next)
  PROVE  RInv'
<1>1. pc \in InLine \cup {"form"} /\ pc \notin InFile \cup Ended \cup {"idle"}
      /\ pc \in InForm \cup Before
  BY DEF InLine, InFile, Ended, InForm, Before
<1>2. CASE req.chunked
  <2> DEFINE q == [p EXCEPT !.line = <<>>, !.next = next]
  <2>1. part' = q /\ pc' = "getline" /\ rd' = rd /\ req' = req /\ disk' = disk
    BY <1>2 DEF LineThen
  <2>2. q \in Part /\ q.cnt = 0 /\ q.n = p.n
    <3>1. <<>> \in Seq(Token)
      OBVIOUS
    <3> QED
      BY <3>1 DEF Part
  <2> HIDE DEF q
  <2>3. pc' \in InForm /\ pc' \notin InFile \cup Ended \cup Before \cup {"idle", "file"}
    BY <2>1 DEF Before, InFile, InForm, InLine, Ended
  <2>4. Uploaded(req.uploads, disk)' = Uploaded(req.uploads, disk)
    BY <2>1
  <2>5. Bytes' = Bytes
    BY <2>4 DEF Bytes
  <2>6. TypesRight'
    BY <2>1, <2>2 DEF RInv, TypesRight
  <2>7. PlacesRight'
    BY <2>1, <2>2, <2>3 DEF RInv, PlacesRight
  <2>8. TempsKnown'
    BY <1>1, <2>1, <2>3 DEF RInv, TempsKnown
  <2>9. BytesCounted'
    <3>1. Bytes \in Nat /\ (MaxPost > 0 => Bytes <= MaxPost)
      BY <1>1, BytesKnown
    <3>2. Held' = Bytes
      BY <2>3, <2>5, <3>1 DEF Held
    <3>3. IsFiniteSet(Uploaded(req.uploads, disk))
      BY DEF RInv, BytesCounted
    <3> QED
      BY <2>1, <2>2, <2>4, <3>1, <3>2, <3>3 DEF BytesCounted
  <2> QED
    BY <2>6, <2>7, <2>8, <2>9 DEF RInv
<1>3. CASE ~req.chunked
  <2> DEFINE l == safeGetline(rd, IF MaxPost = 0 THEN 0 ELSE MaxPost - p.n)
             q == [p EXCEPT !.line = l.line, !.n = @ + l.n]
  <2>1. LineRead(l.rd, q, l.x, next)
    BY <1>3 DEF LineThen
  <2>2. LineOK(l)
    BY GetlineTyped DEF RInv, TypesRight
  <2> HIDE DEF l
  <2>3. l.line \in Seq(Token) /\ l.n \in Nat /\ StreamOK(l.rd)
    BY <2>2 DEF LineOK
  <2>4. p.n \in Nat /\ Bytes \in Nat
    BY <1>1, BytesKnown DEF Part
  <2>5. q \in Part /\ q.cnt = 0 /\ q.n = p.n + l.n
    <3> DEFINE n == p.n + l.n
               v == l.line
    <3>1. n \in Nat /\ v \in Seq(Token)
      BY <2>3, <2>4
    <3>2. q = [p EXCEPT !.line = v, !.n = n]
      BY DEF Part
    <3> HIDE DEF n, v, q
    <3>3. q \in Part /\ q.cnt = 0 /\ q.n = n
      BY <3>1, <3>2 DEF Part
    <3> QED
      BY <3>3 DEF n
  <2>6. Bytes <= q.n
    BY <2>3, <2>4, <2>5
  <2> HIDE DEF q
  <2> QED
    BY <1>1, <2>1, <2>3, <2>5, <2>6, LineReadStep
<1> QED
  BY <1>2, <1>3

-----------------------------------------------------------------------------
(* The actions.                                                            *)

LEMMA NoPartTyped == NoPart \in Part /\ NoPart.cnt = 0 /\ NoPart.n = 0
BY DEF NoPart, Part

\* A Connection before anything has been read.
LEMMA FreshRequest ==
  /\ RequestOK(NoRequest) /\ NoRequest.uploads = <<>>
  /\ \A m, q, ps : LET n == [NoRequest EXCEPT !.method = m, !.query = q, !.params = ps]
                   IN  RequestOK(n) /\ n.uploads = <<>>
<1>1. MaxPost \in Nat
  BY RequestAssumption
<1>2. <<>> \in Seq(Token) /\ <<>> \in Seq(Upload) /\ Len(<<>>) = 0
  OBVIOUS
<1> QED
  BY <1>1, <1>2 DEF RequestOK, NoRequest

LEMMA InitInv == Init => RInv
<1> SUFFICES ASSUME Init PROVE RInv
  OBVIOUS
<1>1. rd = Stream(<<>>) /\ req = NoRequest /\ part = NoPart /\ pc = "idle" /\ disk = <<>>
  BY DEF Init
<1>2. <<>> \in Seq(Token) /\ <<>> \in Seq(TempFile) /\ DOMAIN <<>> = {}
  OBVIOUS
<1>3. StreamOK(rd)
  BY <1>1, <1>2, StreamTyped
<1>4. TypesRight
  BY <1>1, <1>2, <1>3, NoPartTyped, FreshRequest DEF TypesRight
<1>5. pc \notin Before \cup InForm \cup InFile \cup Ended \cup {"handle"}
  BY <1>1 DEF Before, InForm, InLine, InFile, Ended
<1>6. PlacesRight
  BY <1>1, <1>5 DEF PlacesRight
<1>7. TempsKnown
  BY <1>1, <1>2 DEF TempsKnown
<1>8. BytesCounted
  <2>1. req.uploads = <<>>
    BY <1>1, FreshRequest
  <2> QED
    BY <1>5, <2>1, UploadedNone DEF BytesCounted
<1> QED
  BY <1>4, <1>6, <1>7, <1>8 DEF RInv

\* The constructor starts on a request, with no temporary file around.
LEMMA StartStep ==
  ASSUME RInv, pc \in {"idle", "head"}, StreamOK(rd'), part' \in Part, disk' = disk,
         RequestOK(req'), req'.uploads = <<>>, pc' \in {"head", "header"}
  PROVE  RInv'
<1>1. pc \notin Ended \cup InFile /\ (pc = "head" => pc \in Before)
      /\ pc' \in Before /\ pc' \notin InForm \cup InFile \cup Ended \cup {"handle", "idle", "getline", "parthead", "value", "file"}
  BY DEF Ended, InFile, InForm, InLine, Before
<1>2. \A i \in DOMAIN disk : ~disk[i].there
  <2>1. pc = "head" => req.uploads = <<>>
    BY <1>1 DEF RInv, PlacesRight
  <2>2. DOMAIN <<>> = {}
    OBVIOUS
  <2> QED
    BY <1>1, <2>1, <2>2 DEF RInv, TempsKnown
<1>3. TypesRight'
  <2>1. DOMAIN <<>> = {}
    OBVIOUS
  <2> QED
    BY <2>1 DEF RInv, TypesRight
<1>4. PlacesRight'
  BY <1>1 DEF PlacesRight
<1>5. TempsKnown'
  BY <1>2 DEF TempsKnown
<1>6. BytesCounted'
  <2>1. Uploaded(req.uploads, disk)' = Uploaded(<<>>, disk)
    OBVIOUS
  <2> QED
    BY <1>1, <2>1, UploadedNone DEF BytesCounted
<1> QED
  BY <1>3, <1>4, <1>5, <1>6 DEF RInv

LEMMA SendStep ==
  ASSUME RInv, NEW r \in Requests, NEW cut \in Cuts, NEW d \in 0..Len(rd.in), Send(r, cut, d)
  PROVE  RInv'
<1> DEFINE w == Wire(r)
           n == Len(w) - cut
           t == Rest(rd.in, d) \o SubSeq(w, 1, n)
<1>1. pc = "idle" /\ pc' = "head" /\ cut < Len(w) /\ rd' = Stream(t)
      /\ req' = NoRequest /\ part' = NoPart /\ disk' = disk
  BY DEF Send
<1>2. w \in Seq(Token) /\ Len(w) \in Nat /\ cut \in Nat
  BY WireTyped, RequestAssumption
<1>3. rd.in \in Seq(Token) /\ d \in Nat
  BY DEF RInv, TypesRight, StreamOK
<1> HIDE DEF w
<1>4. n \in Nat /\ n <= Len(w)
  BY <1>1, <1>2
<1> HIDE DEF n
<1>5. t \in Seq(Token)
  <2>1. Rest(rd.in, d) \in Seq(Token)
    BY <1>3, RestTyped
  <2>2. SubSeq(w, 1, n) \in Seq(Token)
    BY <1>2, <1>4, FrontTyped
  <2> DEFINE a == Rest(rd.in, d)
             b == SubSeq(w, 1, n)
  <2> HIDE DEF a, b
  <2>3. t = a \o b
    BY DEF a, b
  <2> QED
    BY <2>1, <2>2, <2>3 DEF a, b
<1> HIDE DEF t
<1>6. StreamOK(rd')
  BY <1>1, <1>5, StreamTyped
<1> QED
  BY <1>1, <1>6, NoPartTyped, FreshRequest, StartStep

LEMMA ReadHeadStep ==
  ASSUME RInv, ReadHead
  PROVE  RInv'
<1> DEFINE l == safeGetline(rd, 0)
           get == IF l.line[1].n = 0 THEN <<>> ELSE Ch("a") :> <<Num("a", l.line[1].n)>>
           bad == l.line = <<>> \/ l.rd.eof
           odd == l.line[1].c \notin Methods
           q == [NoRequest EXCEPT !.method = l.line[1].c, !.query = l.line[1].n, !.params = get]
<1>1. /\ pc = "head" /\ rd' = l.rd /\ part' = NoPart
      /\ bad => Throws("InputFailure")
      /\ ~bad /\ odd => Throws("Error")
      /\ ~bad /\ ~odd => req' = q /\ pc' = "header" /\ disk' = disk
  BY DEF ReadHead
<1>2. LineOK(l)
  BY GetlineTyped DEF RInv, TypesRight
<1>3. StreamOK(rd')
  BY <1>1, <1>2 DEF LineOK
<1>4. RequestOK(q) /\ q.uploads = <<>>
  <2> HIDE DEF get, l
  <2> QED
    BY FreshRequest
<1> HIDE DEF bad, odd, q, l
<1> QED
  BY <1>1, <1>3, <1>4, NoPartTyped, ThrowsStep, StartStep

LEMMA HeaderLineTyped ==
  ASSUME NEW q, RequestOK(q), NEW h \in Token
  PROVE  RequestOK(HeaderLine(q, h)) /\ HeaderLine(q, h).uploads = q.uploads
<1> DEFINE a == [q EXCEPT !.keep = TRUE]
           b == [q EXCEPT !.keep = FALSE]
           c == [q EXCEPT !.length = h.n]
           d == [q EXCEPT !.chunked = TRUE]
           e == [q EXCEPT !.type = h.c]
<1>1. HeaderLine(q, h) \in {a, b, c, d, e, q}
  BY DEF HeaderLine
<1>2. h.n \in Nat
  BY DEF Token
<1>3. /\ RequestOK(a) /\ RequestOK(b) /\ RequestOK(c) /\ RequestOK(d) /\ RequestOK(e)
      /\ a.uploads = q.uploads /\ b.uploads = q.uploads /\ c.uploads = q.uploads
      /\ d.uploads = q.uploads /\ e.uploads = q.uploads
  BY <1>2 DEF RequestOK
<1> HIDE DEF a, b, c, d, e
<1> QED
  BY <1>1, <1>3

LEMMA HeaderStep ==
  ASSUME RInv, process_header
  PROVE  RInv'
<1> DEFINE l == safeGetline(rd, 0)
           q == HeaderLine(req, l.line[1])
           to == IF ByMethod(req) = "body" /\ req.chunked THEN "chunks" ELSE ByMethod(req)
<1>1. /\ pc = "header" /\ rd' = l.rd /\ part' = part
      /\ l.rd.eof => Throws("InputFailure")
      /\ ~l.rd.eof /\ l.line # <<>> => req' = q /\ pc' = pc /\ disk' = disk
      /\ ~l.rd.eof /\ l.line = <<>> =>
            \/ Throws("Error")
            \/ ByMethod(req) # "unsupported" /\ pc' = to /\ req' = req /\ disk' = disk
  BY DEF process_header
<1>2. LineOK(l)
  BY GetlineTyped DEF RInv, TypesRight
<1>3. StreamOK(rd') /\ part' \in Part /\ RequestOK(req)
  BY <1>1, <1>2 DEF LineOK, RInv, TypesRight
<1>4. l.line # <<>> => RequestOK(q) /\ q.uploads = req.uploads
  <2>1. l.line # <<>> => l.line[1] \in Token
    BY <1>2 DEF LineOK
  <2> QED
    BY <1>3, <2>1, HeaderLineTyped
<1>5. ByMethod(req) # "unsupported" => to \in Before \cup {"handle"}
  <2>1. ByMethod(req) \in {"form", "body", "unsupported", "handle"}
    BY DEF ByMethod
  <2> QED
    BY <2>1 DEF Before
<1>6. pc \in Before
  BY <1>1 DEF Before
<1> HIDE DEF l, q, to
<1>7. CASE l.rd.eof
  BY <1>1, <1>3, <1>7, ThrowsStep
<1>8. CASE ~l.rd.eof /\ l.line # <<>>
  BY <1>1, <1>3, <1>4, <1>6, <1>8, MovesStep
<1>9. CASE ~l.rd.eof /\ l.line = <<>>
  <2>1. CASE Throws("Error")
    BY <1>3, <2>1, ThrowsStep
  <2>2. CASE ByMethod(req) # "unsupported" /\ pc' = to /\ req' = req /\ disk' = disk
    BY <1>1, <1>3, <1>5, <1>6, <2>2, MovesStep
  <2> QED
    BY <1>1, <1>9, <2>1, <2>2
<1> QED
  BY <1>7, <1>8, <1>9

\* The body d is complete.
LEMMA BodyIsStep ==
  ASSUME RInv, pc \in {"body", "chunks"}, StreamOK(rd'), part' = part,
         NEW d \in Seq(Token), MaxPost > 0 => Len(d) <= MaxPost, BodyIs(d)
  PROVE  RInv'
<1> DEFINE a == [req EXCEPT !.content = <<>>, !.post = parse_query_string(d),
                            !.params = @ @@ parse_query_string(d)]
           b == [req EXCEPT !.content = d]
<1>1. req' \in {a, b} /\ pc' = "handle" /\ disk' = disk
  BY DEF BodyIs
<1>2. RequestOK(req) /\ MaxPost \in Nat
  BY RequestAssumption DEF RInv, TypesRight
<1>3. RequestOK(b) /\ b.uploads = req.uploads
  BY <1>2 DEF RequestOK
<1>4. RequestOK(a) /\ a.uploads = req.uploads
  <2> DEFINE ps == parse_query_string(d)
             all == req.params @@ ps
             e == [req EXCEPT !.content = <<>>, !.post = ps, !.params = all]
  <2>1. a = e
    OBVIOUS
  <2>2. <<>> \in Seq(Token) /\ Len(<<>>) = 0
    OBVIOUS
  <2> HIDE DEF ps, all, a
  <2> QED
    BY <1>2, <2>1, <2>2 DEF RequestOK
<1> HIDE DEF a, b
<1>5. RequestOK(req') /\ req'.uploads = req.uploads
  BY <1>1, <1>3, <1>4
<1>6. pc \in Before
  BY DEF Before
<1> QED
  BY <1>1, <1>5, <1>6, MovesStep

LEMMA ReadBodyStep ==
  ASSUME RInv, ReadBody
  PROVE  RInv'
<1> DEFINE b == read(rd, req.length)
<1>1. /\ pc = "body" /\ part' = part
      /\ Over(req.length) => rd' = rd /\ Throws("Error")
      /\ ~Over(req.length) => rd' = b.rd /\ IF b.x # "ok" THEN Throws(b.x) ELSE BodyIs(b.data)
  BY DEF ReadBody
<1>2. StreamOK(rd) /\ part \in Part /\ req.length \in Nat /\ MaxPost \in Nat
  BY RequestAssumption DEF RInv, TypesRight, RequestOK
<1>3. StreamOK(b.rd) /\ b.data \in Seq(Token) /\ (b.x = "ok" => Len(b.data) = req.length)
  BY <1>2, ReadTyped
<1> HIDE DEF b
<1>4. CASE Over(req.length)
  BY <1>1, <1>2, <1>4, ThrowsStep
<1>5. CASE ~Over(req.length) /\ b.x # "ok"
  BY <1>1, <1>2, <1>3, <1>5, ThrowsStep
<1>6. CASE ~Over(req.length) /\ b.x = "ok"
  <2>1. MaxPost > 0 => req.length <= MaxPost
    BY <1>2, <1>6 DEF Over
  <2>2. MaxPost > 0 => Len(b.data) <= MaxPost
    BY <1>3, <1>6, <2>1
  <2> QED
    BY <1>1, <1>3, <1>6, <2>2, BodyIsStep
<1> QED
  BY <1>4, <1>5, <1>6

LEMMA readAllStep ==
  ASSUME RInv, readAll
  PROVE  RInv'
<1> DEFINE z == SizeLine(rd)
           d == read(z.rd, z.n)
           l == SkipLine(d.rd)
           q == [req EXCEPT !.content = @ \o d.data]
           torn == d.x # "ok" \/ l.x # "ok"
           long == Over(Len(req.content) + z.n)
<1>1. /\ pc = "chunks" /\ part' = part
      /\ z.x # "ok" => rd' = z.rd /\ Throws(z.x)
      /\ z.x = "ok" /\ z.n = 0 => rd' = z.rd /\ BodyIs(req.content)
      /\ z.x = "ok" /\ z.n # 0 =>
            /\ rd' = l.rd
            /\ torn => Throws("InputFailure")
            /\ ~torn /\ long => Throws("Error")
            /\ ~torn /\ ~long => req' = q /\ pc' = pc /\ disk' = disk
  BY DEF readAll
<1>2. StreamOK(rd) /\ part \in Part /\ RequestOK(req) /\ MaxPost \in Nat
  BY RequestAssumption DEF RInv, TypesRight
<1>3. StreamOK(z.rd) /\ z.n \in Nat
  BY <1>2, SizeLineTyped
<1> HIDE DEF z
<1>4. StreamOK(d.rd) /\ d.data \in Seq(Token) /\ (d.x = "ok" => Len(d.data) = z.n)
  BY <1>3, ReadTyped
<1> HIDE DEF d
<1>5. StreamOK(l.rd)
  BY <1>4, SkipLineTyped
<1>6. req.content \in Seq(Token) /\ (MaxPost > 0 => Len(req.content) <= MaxPost)
  BY <1>2 DEF RequestOK
<1>7. ~torn /\ ~long => RequestOK(q) /\ q.uploads = req.uploads
  <2> SUFFICES ASSUME ~torn, ~long PROVE RequestOK(q) /\ q.uploads = req.uploads
    OBVIOUS
  <2> DEFINE c == req.content \o d.data
  <2>1. c \in Seq(Token) /\ Len(c) = Len(req.content) + z.n
    <3> DEFINE a == req.content
               b == d.data
    <3>1. Len(b) = z.n /\ b \in Seq(Token)
      BY <1>4
    <3>2. a \in Seq(Token)
      BY <1>6
    <3>3. c = a \o b
      OBVIOUS
    <3> HIDE DEF a, b, c
    <3>4. c \in Seq(Token) /\ Len(c) = Len(a) + Len(b)
      BY <3>1, <3>2, <3>3, ConcatLength
    <3> QED
      BY <3>1, <3>4 DEF a
  <2>2. MaxPost > 0 => Len(c) <= MaxPost
    <3>1. Len(req.content) + z.n \in Nat
      BY <1>3, <1>6
    <3> QED
      BY <1>2, <2>1, <3>1 DEF Over
  <2>3. q = [req EXCEPT !.content = c]
    OBVIOUS
  <2> HIDE DEF c, q
  <2> QED
    BY <1>2, <2>1, <2>2, <2>3 DEF RequestOK
<1> HIDE DEF l, q, torn, long
<1>8. CASE z.x # "ok"
  BY <1>1, <1>2, <1>3, <1>8, ThrowsStep
<1>9. CASE z.x = "ok" /\ z.n = 0
  BY <1>1, <1>3, <1>6, <1>9, BodyIsStep
<1>10. CASE z.x = "ok" /\ z.n # 0
  <2>1. CASE torn
    BY <1>1, <1>2, <1>5, <1>10, <2>1, ThrowsStep
  <2>2. CASE ~torn /\ long
    BY <1>1, <1>2, <1>5, <1>10, <2>2, ThrowsStep
  <2>3. CASE ~torn /\ ~long
    <3>1. pc \in Before
      BY <1>1 DEF Before
    <3> QED
      BY <1>1, <1>5, <1>7, <1>10, <2>3, <3>1, MovesStep
  <2> QED
    BY <2>1, <2>2, <2>3
<1> QED
  BY <1>8, <1>9, <1>10

-----------------------------------------------------------------------------
(* Forms.                                                                  *)

LEMMA GetlineStep ==
  ASSUME RInv, ck_getline
  PROVE  RInv'
<1> DEFINE g == ck_getc(rd)
           t == Taken(g.rd)
           more(k) == [part EXCEPT !.n = @ + k]
           ends(r, k, x) == LineRead(r, more(k), x, part.next)
           e == [g.rd EXCEPT !.eof = part.line = <<>>]
           p == [more(1) EXCEPT !.line = Append(@, g.c)]
<1>1. /\ pc = "getline"
      /\ \/ ends(g.rd, 0, "ok") \/ ends(g.rd, 0, g.x) \/ ends(g.rd, 1, "ok")
         \/ ends(t.rd, 2, t.x) \/ ends(e, 1, "ok")
         \/ rd' = g.rd /\ part' = p /\ req' = req /\ pc' = pc /\ disk' = disk
  BY DEF ck_getline, LineByte
<1>2. StreamOK(rd) /\ part \in Part /\ RequestOK(req)
  BY DEF RInv, TypesRight
<1>3. ByteOK(g)
  BY <1>2, GetcTyped
<1> HIDE DEF g
<1>4. StreamOK(g.rd) /\ g.c \in Token
  BY <1>3 DEF ByteOK
<1>5. StreamOK(t.rd)
  BY <1>4, TakenTyped
<1>6. StreamOK(e)
  BY <1>4 DEF StreamOK
<1> HIDE DEF t, e
<1>7. pc \in InForm /\ pc \in InLine /\ pc \notin InFile
  BY <1>1 DEF InForm, InLine, InFile
<1>8. part.cnt = 0 /\ part.n \in Nat /\ part.next \in {"parts", "parthead", "value"} /\ part.line \in Seq(Token)
  BY <1>1, <1>2 DEF RInv, PlacesRight, Part
<1>9. Bytes \in Nat /\ Bytes <= part.n /\ (MaxPost > 0 => Bytes <= MaxPost)
  BY <1>7, BytesKnown
<1>10. ASSUME NEW r, StreamOK(r), NEW k \in Nat, NEW x, ends(r, k, x)
       PROVE  RInv'
  <2> DEFINE m == more(k)
  <2>1. m \in Part /\ m.cnt = 0 /\ m.n = part.n + k
    BY <1>2, <1>8 DEF Part
  <2>2. Bytes <= m.n
    BY <1>8, <1>9, <2>1
  <2>3. LineRead(r, m, x, part.next)
    BY <1>10
  <2> HIDE DEF m
  <2> QED
    BY <1>7, <1>8, <1>10, <2>1, <2>2, <2>3, LineReadStep
<1>11. CASE rd' = g.rd /\ part' = p /\ req' = req /\ pc' = pc /\ disk' = disk
  <2>1. p \in Part /\ p.cnt = 0 /\ p.n = part.n + 1
    <3>1. Append(part.line, g.c) \in Seq(Token) /\ part.n + 1 \in Nat
      BY <1>4, <1>8
    <3> DEFINE v == Append(part.line, g.c)
               n == part.n + 1
    <3>2. p = [part EXCEPT !.n = n, !.line = v]
      BY <1>2 DEF Part
    <3> HIDE DEF p, v, n
    <3>3. v \in Seq(Token) /\ n \in Nat
      BY <3>1 DEF v, n
    <3>4. p \in Part /\ p.cnt = 0 /\ p.n = n
      BY <1>2, <1>8, <3>2, <3>3 DEF Part
    <3> QED
      BY <3>4 DEF n
  <2> HIDE DEF p
  <2>2. Uploaded(req.uploads, disk)' = Uploaded(req.uploads, disk)
    BY <1>11
  <2>3. Bytes' = Bytes
    BY <2>2 DEF Bytes
  <2>4. TypesRight'
    BY <1>4, <1>11, <2>1 DEF RInv, TypesRight
  <2>5. PlacesRight'
    BY <1>1, <1>7, <1>11, <2>1 DEF RInv, PlacesRight
  <2>6. TempsKnown'
    BY <1>11 DEF RInv, TempsKnown
  <2>7. BytesCounted'
    <3>1. Held' = Bytes
      BY <1>7, <1>9, <1>11, <2>3 DEF Held
    <3>2. IsFiniteSet(Uploaded(req.uploads, disk))
      BY DEF RInv, BytesCounted
    <3>3. Bytes <= part'.n
      BY <1>8, <1>9, <1>11, <2>1
    <3> QED
      BY <1>9, <2>2, <3>1, <3>2, <3>3 DEF BytesCounted
  <2> QED
    BY <2>4, <2>5, <2>6, <2>7 DEF RInv
<1> HIDE DEF ends, p
<1> QED
  BY <1>1, <1>4, <1>5, <1>6, <1>10, <1>11

LEMMA FormStartStep ==
  ASSUME RInv, FormStart
  PROVE  RInv'
<1>1. pc = "form" /\ pc \in Before /\ pc \notin InFile
  BY DEF FormStart, Before, InFile
<1>2. StreamOK(rd) /\ part \in Part
  BY DEF RInv, TypesRight
<1>3. CASE ~req.chunked /\ Over(req.length)
  BY <1>2, <1>3, ThrowsStep DEF FormStart
<1>4. CASE ~(~req.chunked /\ Over(req.length))
  <2>1. LineThen(NoPart, "parts")
    BY <1>4 DEF FormStart
  <2>2. Bytes <= NoPart.n
    BY <1>1, BytesKnown, NoPartTyped
  <2> QED
    BY <1>1, <2>1, <2>2, NoPartTyped, LineThenStep
<1> QED
  BY <1>3, <1>4

LEMMA FormLineStep ==
  ASSUME RInv, FormLine
  PROVE  RInv'
<1>1. pc = "parts" /\ pc \in InForm /\ pc \in InLine \ {"getline"} /\ pc \notin InFile
  BY DEF FormLine, InForm, InLine, InFile
<1>2. StreamOK(rd) /\ part \in Part /\ RequestOK(req)
  BY DEF RInv, TypesRight
<1>3. CASE part.line = LastBoundary
  <2> DEFINE q == [req EXCEPT !.length = 0]
  <2>1. pc' = "handle" /\ req' = q /\ rd' = rd /\ part' = part /\ disk' = disk
    BY <1>3 DEF FormLine
  <2>2. RequestOK(q) /\ q.uploads = req.uploads
    BY <1>2 DEF RequestOK
  <2> HIDE DEF q
  <2> QED
    BY <1>1, <1>2, <2>1, <2>2, MovesStep
<1>4. CASE part.line # LastBoundary
  <2> DEFINE p == [NoPart EXCEPT !.n = part.n]
             next == IF part.line = Boundary THEN "parthead" ELSE "parts"
  <2>1. LineThen(p, next) /\ next \in {"parts", "parthead", "value"}
    BY <1>4 DEF FormLine
  <2>2. p \in Part /\ p.cnt = 0 /\ p.n = part.n
    BY <1>2, NoPartTyped DEF Part
  <2>3. Bytes <= part.n
    BY <1>1, BytesKnown
  <2> HIDE DEF p, next
  <2> QED
    BY <1>1, <2>1, <2>2, <2>3, LineThenStep
<1> QED
  BY <1>3, <1>4

LEMMA PartHeaderStep ==
  ASSUME RInv, PartHeader
  PROVE  RInv'
<1> DEFINE h == part.line[1]
           q == [part EXCEPT !.name = h.n, !.file = h.c = "file"]
           p == IF h.c \in {"field", "file"} THEN q ELSE part
<1>1. pc = "parthead" /\ pc \in InForm /\ pc \in InLine \ {"getline"} /\ pc \notin InFile
      /\ part.line # <<>> /\ LineThen(p, "parthead")
  BY DEF PartHeader, InForm, InLine, InFile
<1>2. part \in Part /\ part.cnt = 0
  BY <1>1 DEF RInv, TypesRight, PlacesRight
<1>3. h.n \in Nat
  <2>1. part.line \in Seq(Token)
    BY <1>2 DEF Part
  <2>2. h \in Token
    BY <1>1, <2>1
  <2> QED
    BY <2>2 DEF Token
<1>4. q \in Part /\ q.cnt = part.cnt /\ q.n = part.n
  <2> DEFINE b == h.c = "file"
  <2>1. b \in BOOLEAN
    OBVIOUS
  <2> HIDE DEF b, h
  <2> QED
    BY <1>2, <1>3, <2>1 DEF Part
<1> HIDE DEF q, h
<1>5. p \in Part /\ p.cnt = 0 /\ p.n = part.n
  BY <1>2, <1>4
<1>6. Bytes <= part.n
  BY <1>1, BytesKnown
<1> HIDE DEF p
<1> QED
  BY <1>1, <1>5, <1>6, LineThenStep

LEMMA PartValueStep ==
  ASSUME RInv, PartValue
  PROVE  RInv'
<1>1. pc = "value" /\ pc \in InForm /\ pc \in InLine \ {"getline"} /\ pc \notin InFile
  BY DEF PartValue, InForm, InLine, InFile
<1>2. StreamOK(rd) /\ part \in Part /\ RequestOK(req) /\ part.cnt = 0
  BY <1>1 DEF RInv, TypesRight, PlacesRight
<1>3. CASE part.line \in {Boundary, LastBoundary}
  <2> DEFINE ps == (Num("name", part.name) :> part.value) @@ req.post
             q == [req EXCEPT !.post = ps]
  <2>1. req' = q /\ pc' = "parts" /\ rd' = rd /\ part' = part /\ disk' = disk
    BY <1>3 DEF PartValue
  <2> HIDE DEF ps
  <2>2. RequestOK(q) /\ q.uploads = req.uploads
    BY <1>2 DEF RequestOK
  <2> HIDE DEF q
  <2> QED
    BY <1>1, <1>2, <2>1, <2>2, MovesStep
<1>4. CASE part.line \notin {Boundary, LastBoundary}
  <2> DEFINE v == part.value \o part.line
             p == [part EXCEPT !.value = v]
  <2>1. LineThen(p, "value")
    BY <1>4 DEF PartValue
  <2>2. v \in Seq(Token)
    BY <1>2 DEF Part
  <2> HIDE DEF v
  <2>3. p \in Part /\ p.cnt = 0 /\ p.n = part.n
    BY <1>2, <2>2 DEF Part
  <2>4. Bytes <= part.n
    BY <1>1, BytesKnown
  <2> HIDE DEF p
  <2> QED
    BY <1>1, <2>1, <2>3, <2>4, LineThenStep
<1> QED
  BY <1>3, <1>4

LEMMA PartStartStep ==
  ASSUME RInv, NEW ok \in BOOLEAN, PartStart(ok)
  PROVE  RInv'
<1>1. pc = "parthead" /\ pc \in InForm /\ pc \in InLine \ {"getline"} /\ pc \notin InFile \cup Ended \cup {"idle"}
  BY DEF PartStart, InForm, InLine, InFile, Ended
<1>2. StreamOK(rd) /\ part \in Part /\ RequestOK(req) /\ part.cnt = 0 /\ disk \in Seq(TempFile)
  BY <1>1 DEF RInv, TypesRight, PlacesRight
<1>3. Bytes \in Nat /\ Bytes <= part.n /\ (MaxPost > 0 => Bytes <= MaxPost)
  BY <1>1, BytesKnown
<1>4. CASE ~part.file
  <2>1. LineThen(part, "value")
    BY <1>4 DEF PartStart
  <2> QED
    BY <1>1, <1>2, <1>3, <2>1, LineThenStep
<1>5. CASE part.file /\ ~ok
  <2>1. rd' = rd /\ part' = part /\ Throws("Error")
    BY <1>5 DEF PartStart
  <2> QED
    BY <1>2, <2>1, ThrowsStep
<1>6. CASE part.file /\ ok
  <2> DEFINE new == [data |-> <<>>, there |-> TRUE]
             L == Len(disk)
             d == Append(disk, new)
  <2>1. rd' = rd /\ part' = part /\ req' = req /\ pc' = "file" /\ disk' = d
    BY <1>6 DEF PartStart
  <2>2. new \in TempFile /\ new.data = <<>>
    <3>1. <<>> \in Seq(Token)
      OBVIOUS
    <3> QED
      BY <3>1 DEF TempFile
  <2> HIDE DEF new
  <2>3. /\ L \in Nat /\ d \in Seq(TempFile) /\ Len(d) = L + 1 /\ d[L + 1] = new
        /\ DOMAIN disk = 1..L /\ DOMAIN d = 1..(L + 1)
        /\ \A i \in 1..L : d[i] = disk[i]
    BY <1>2, <2>2
  <2> HIDE DEF d, L
  <2>4. \A k \in DOMAIN req.uploads : req.uploads[k].file \in 1..L
    BY <2>3 DEF RInv, TypesRight
  <2>5. pc' \in InForm /\ pc' \in InFile /\ pc' \notin Before
    BY <2>1 DEF InForm, InFile, Before
  <2>6. Uploaded(req.uploads, d) = Uploaded(req.uploads, disk)
    BY <2>3, <2>4, UploadedSame
  <2>7. Uploaded(req.uploads, disk)' = Uploaded(req.uploads, disk)
    BY <2>1, <2>6
  <2>8. TypesRight'
    BY <1>2, <2>1, <2>3, <2>4 DEF TypesRight
  <2>9. PlacesRight'
    <3>1. d # <<>>
      BY <2>3
    <3>2. \A k \in DOMAIN req.uploads : req.uploads[k].file < Len(d)
      BY <2>3, <2>4
    <3> QED
      BY <1>2, <2>1, <2>5, <3>1, <3>2 DEF PlacesRight
  <2>10. TempsKnown'
    <3> SUFFICES ASSUME NEW i \in 1..(L + 1), d[i].there
                 PROVE  i = L + 1 \/ \E k \in DOMAIN req.uploads : req.uploads[k].file = i
      BY <2>1, <2>3, <2>5 DEF TempsKnown
    <3>1. CASE i # L + 1
      <4>1. i \in DOMAIN disk /\ disk[i].there
        BY <2>3, <3>1
      <4> QED
        BY <1>1, <4>1 DEF RInv, TempsKnown
    <3> QED
      BY <3>1
  <2>11. BytesCounted'
    <3>1. Bytes' = Bytes
      BY <2>7 DEF Bytes
    <3>2. Held' = Bytes + (Len(disk'[Len(disk')].data) + part'.cnt)
      BY <2>5, <3>1 DEF Held
    <3>3. Len(disk'[Len(disk')].data) = 0 /\ part'.cnt = 0
      BY <1>2, <2>1, <2>2, <2>3
    <3>4. Held' = Bytes
      BY <1>3, <3>2, <3>3
    <3>5. IsFiniteSet(Uploaded(req.uploads, disk))
      BY DEF RInv, BytesCounted
    <3> QED
      BY <1>3, <2>1, <2>7, <3>4, <3>5 DEF BytesCounted
  <2> QED
    BY <2>8, <2>9, <2>10, <2>11 DEF RInv
<1> QED
  BY <1>4, <1>5, <1>6

\* A byte continues a match, starts one or ends it.
LEMMA MatchOn ==
  ASSUME NEW cnt \in 0..4, NEW c, c = NlBoundary[cnt + 1]
  PROVE  LET m == Match(cnt, c) IN m.cnt = cnt + 1 /\ m.put = <<>> /\ m.size = 0
BY DEF Match

LEMMA MatchAgain ==
  ASSUME NEW cnt \in 0..4, NEW c, c # NlBoundary[cnt + 1], cnt > 0, c = NlBoundary[1]
  PROVE  LET m == Match(cnt, c) IN m.cnt = 1 /\ m.put = SubSeq(NlBoundary, 1, cnt) /\ m.size = cnt + 1
BY DEF Match

LEMMA MatchEnds ==
  ASSUME NEW cnt \in 0..4, NEW c, c # NlBoundary[cnt + 1], ~(cnt > 0 /\ c = NlBoundary[1])
  PROVE  LET m == Match(cnt, c)
         IN  m.cnt = 0 /\ m.put = SubSeq(NlBoundary, 1, cnt) \o <<c>> /\ m.size = cnt + 1
BY DEF Match

\* A byte is written, held back for a match or releases what was held back.
LEMMA MatchTyped ==
  ASSUME NEW cnt \in 0..4, NEW c \in Token
  PROVE  LET m == Match(cnt, c)
         IN  /\ m.cnt \in 0..5 /\ m.put \in Seq(Token) /\ m.size \in Nat
             /\ Len(m.put) + m.cnt = cnt + 1
<1> DEFINE m == Match(cnt, c)
           back == SubSeq(NlBoundary, 1, cnt)
           one == <<c>>
           on  == c = NlBoundary[cnt + 1]
           again == cnt > 0 /\ c = NlBoundary[1]
<1>1. /\ on => m.cnt = cnt + 1 /\ m.put = <<>> /\ m.size = 0
      /\ ~on /\ again => m.cnt = 1 /\ m.put = back /\ m.size = cnt + 1
      /\ ~on /\ ~again => m.cnt = 0 /\ m.put = back \o one /\ m.size = cnt + 1
  BY MatchOn, MatchAgain, MatchEnds
<1>2. back \in Seq(Token) /\ Len(back) = cnt
  <2>1. NlBoundary \in Seq(Token) /\ cnt \in Nat /\ cnt <= Len(NlBoundary)
    BY CharsTyped
  <2> QED
    BY <2>1, FrontTyped
<1>3. one \in Seq(Token) /\ Len(one) = 1
  OBVIOUS
<1>7. again => cnt > 0
  OBVIOUS
<1> HIDE DEF m, back, one, on, again
<1>4. back \o one \in Seq(Token) /\ Len(back \o one) = cnt + 1
  BY <1>2, <1>3, ConcatLength
<1>5. <<>> \in Seq(Token) /\ Len(<<>>) = 0
  OBVIOUS
<1>6. m.cnt \in 0..5 /\ m.put \in Seq(Token) /\ m.size \in Nat /\ Len(m.put) + m.cnt = cnt + 1
  <2>1. CASE on
    <3>1. m.cnt = cnt + 1 /\ m.put = <<>> /\ m.size = 0
      BY <1>1, <2>1
    <3> QED
      BY <1>5, <3>1
  <2>2. CASE ~on /\ again
    <3>1. m.cnt = 1 /\ m.put = back /\ m.size = cnt + 1
      BY <1>1, <2>2
    <3> QED
      BY <1>2, <1>7, <2>2, <3>1
  <2>3. CASE ~on /\ ~again
    <3>1. m.cnt = 0 /\ m.put = back \o one /\ m.size = cnt + 1
      BY <1>1, <2>3
    <3> QED
      BY <1>4, <3>1
  <2> QED
    BY <2>1, <2>2, <2>3
<1> QED
  BY <1>6 DEF m

\* In a file.
LEMMA FileKnown ==
  ASSUME RInv, pc \in InFile
  PROVE  /\ Len(disk) \in Nat \ {0} /\ DOMAIN disk = 1..Len(disk) /\ disk[Len(disk)] \in TempFile
         /\ \A k \in DOMAIN req.uploads : req.uploads[k].file \in 1..(Len(disk) - 1)
         /\ Bytes \in Nat
         /\ Held = Bytes + (Len(disk[Len(disk)].data) + part.cnt)
         /\ Held \in Nat /\ Held <= part.n /\ (MaxPost > 0 => Held <= MaxPost)
<1>1. disk \in Seq(TempFile) /\ disk # <<>> /\ pc \in InForm /\ part \in Part
  BY DEF RInv, TypesRight, PlacesRight, InForm
<1>2. Len(disk) \in Nat \ {0} /\ DOMAIN disk = 1..Len(disk) /\ disk[Len(disk)] \in TempFile
  BY <1>1
<1>3. \A k \in DOMAIN req.uploads : req.uploads[k].file \in 1..(Len(disk) - 1)
  <2> SUFFICES ASSUME NEW k \in DOMAIN req.uploads
               PROVE  req.uploads[k].file \in 1..(Len(disk) - 1)
    OBVIOUS
  <2>1. req.uploads[k].file \in 1..Len(disk) /\ req.uploads[k].file < Len(disk)
    BY <1>2 DEF RInv, TypesRight, PlacesRight
  <2> QED
    BY <1>2, <2>1
<1>4. Bytes \in Nat
  BY FS_CardinalityType DEF RInv, BytesCounted, Bytes
<1>5. Held = Bytes + (Len(disk[Len(disk)].data) + part.cnt)
  BY DEF Held
<1>6. Len(disk[Len(disk)].data) \in Nat /\ part.cnt \in Nat
  BY <1>1, <1>2 DEF TempFile, Part
<1>7. Held \in Nat
  BY <1>4, <1>5, <1>6
<1> QED
  BY <1>1, <1>2, <1>3, <1>4, <1>5, <1>7 DEF RInv, BytesCounted

LEMMA FileByteStep ==
  ASSUME RInv, NEW ok \in BOOLEAN, FileByte(ok)
  PROVE  RInv'
<1> DEFINE b == NextByte
           m == Match(part.cnt, b.c)
           n == part.n + 1
           L == Len(disk)
           q == [part EXCEPT !.n = n, !.cnt = m.cnt, !.fsize = @ + m.size]
           d == [disk EXCEPT ![L].data = @ \o m.put]
           to == IF m.cnt = Len(NlBoundary) THEN "fileend" ELSE "file"
<1>1. /\ pc = "file" /\ rd' = b.rd
      /\ \/ part' = part /\ Throws(b.x)
         \/ pc' = "fileend" /\ req' = req /\ part' = part /\ disk' = disk
         \/ part' = q /\ Throws("Error")
         \/ part' = q /\ ~Over(n) /\ disk' = d /\ pc' = to /\ req' = req
  BY DEF FileByte, FileByteIs
<1>2. /\ StreamOK(rd) /\ RequestOK(req) /\ part \in Part /\ part.cnt \in 0..4
      /\ part.n \in Nat /\ part.fsize \in Nat /\ disk \in Seq(TempFile) /\ MaxPost \in Nat
  BY <1>1, RequestAssumption DEF RInv, TypesRight, PlacesRight, Part
<1>3. StreamOK(rd') /\ b.c \in Token
  BY <1>1, <1>2, NextByteTyped DEF ByteOK
<1> HIDE DEF b
<1>4. m.cnt \in 0..5 /\ m.put \in Seq(Token) /\ m.size \in Nat /\ Len(m.put) + m.cnt = part.cnt + 1
  BY <1>2, <1>3, MatchTyped
<1> HIDE DEF m
<1>5. q \in Part /\ q.cnt = m.cnt /\ q.n = n
  <2> DEFINE z == part.fsize + m.size
             c == m.cnt
  <2>1. z \in Nat /\ n \in Nat /\ c \in 0..5
    BY <1>2, <1>4
  <2>2. q = [part EXCEPT !.n = n, !.cnt = c, !.fsize = z]
    BY <1>2 DEF Part
  <2> HIDE DEF z, c, n, q
  <2>3. q \in Part /\ q.cnt = c /\ q.n = n
    BY <1>2, <2>1, <2>2 DEF Part
  <2> QED
    BY <2>3 DEF c
<1> HIDE DEF q
<1>6. pc \in InFile /\ pc \in InForm /\ pc \notin Ended \cup {"idle"}
  BY <1>1 DEF InFile, InForm, Ended
<1>7. /\ L \in Nat \ {0} /\ DOMAIN disk = 1..L /\ disk[L] \in TempFile
      /\ \A k \in DOMAIN req.uploads : req.uploads[k].file \in 1..(L - 1)
      /\ Bytes \in Nat
      /\ Held = Bytes + (Len(disk[L].data) + part.cnt)
      /\ Held \in Nat /\ Held <= part.n /\ (MaxPost > 0 => Held <= MaxPost)
  BY <1>6, FileKnown
<1>8. CASE part' = part /\ Throws(b.x)
  BY <1>2, <1>3, <1>8, ThrowsStep
<1>9. CASE part' = q /\ Throws("Error")
  BY <1>3, <1>5, <1>9, ThrowsStep
<1>10. CASE pc' = "fileend" /\ req' = req /\ part' = part /\ disk' = disk
  <2>1. pc' \in InFile /\ pc' \in InForm /\ pc' \notin Before
    BY <1>10 DEF InFile, InForm, Before
  <2>2. Uploaded(req.uploads, disk)' = Uploaded(req.uploads, disk)
    BY <1>10
  <2>3. Held' = Held
    BY <1>6, <1>10, <2>1, <2>2 DEF Held, Bytes
  <2>4. TypesRight'
    BY <1>3, <1>10 DEF RInv, TypesRight
  <2>5. PlacesRight'
    BY <1>6, <1>10, <2>1 DEF RInv, PlacesRight
  <2>6. TempsKnown'
    BY <1>6, <1>10, <2>1 DEF RInv, TempsKnown
  <2>7. BytesCounted'
    BY <1>6, <1>10, <2>1, <2>2, <2>3 DEF RInv, BytesCounted
  <2> QED
    BY <2>4, <2>5, <2>6, <2>7 DEF RInv
<1>11. CASE part' = q /\ ~Over(n) /\ disk' = d /\ pc' = to /\ req' = req
  <2>1. to \in {"file", "fileend"} /\ (to = "file" => m.cnt < 5)
    BY <1>4, CharsTyped
  <2> HIDE DEF to, L
  <2> DEFINE v == disk[L].data \o m.put
  <2>2. v \in Seq(Token) /\ Len(v) = Len(disk[L].data) + Len(m.put)
    <3>1. disk[L].data \in Seq(Token)
      BY <1>7 DEF TempFile
    <3> QED
      BY <1>4, <3>1, ConcatLength
  <2>3. /\ d \in Seq(TempFile) /\ Len(d) = L /\ DOMAIN d = 1..L
        /\ d[L].data = v /\ \A i \in 1..L : d[i].there = disk[i].there
        /\ \A i \in 1..(L - 1) : d[i] = disk[i]
    <3>1. d = [disk EXCEPT ![L] = [disk[L] EXCEPT !.data = v]]
      BY DEF L
    <3> DEFINE e == [disk[L] EXCEPT !.data = v]
    <3> HIDE DEF d, v
    <3>2. e \in TempFile /\ e.data = v /\ e.there = disk[L].there
      BY <1>7, <2>2 DEF TempFile
    <3>3. d = [disk EXCEPT ![L] = e]
      BY <3>1
    <3> HIDE DEF e
    <3>4. d \in Seq(TempFile) /\ Len(d) = L /\ DOMAIN d = 1..L /\ d[L] = e
          /\ \A i \in 1..(L - 1) : d[i] = disk[i]
      <4>1. L \in 1..Len(disk) /\ L = Len(disk)
        BY <1>7 DEF L
      <4>2. d \in Seq(TempFile) /\ Len(d) = Len(disk) /\ d[L] = e /\ \A i \in 1..Len(disk) : i # L => d[i] = disk[i]
        BY <1>2, <3>2, <3>3, <4>1, ReplacedInSeq
      <4>3. DOMAIN d = 1..L
        BY <4>1, <4>2, SeqPlaces
      <4>4. Len(disk) \in Nat
        BY <1>2, SeqPlaces
      <4>5. L \in Nat
        BY <4>1, <4>4
      <4>6. \A i \in 1..(L - 1) : i \in 1..L /\ i # L
        BY <4>5
      <4> QED
        BY <4>1, <4>2, <4>3, <4>6
    <3>5. \A i \in 1..L : i = L \/ i \in 1..(L - 1)
      BY <1>7
    <3> QED
      BY <3>2, <3>4, <3>5
  <2> HIDE DEF d, v
  <2>4. pc' \in InFile /\ pc' \in InForm /\ pc' \notin Before
        /\ pc' \in {"file", "fileend"} /\ pc' \notin {"getline", "parthead", "value", "idle"}
    BY <1>11, <2>1 DEF InFile, InForm, Before
  <2>5. Uploaded(req.uploads, disk)' = Uploaded(req.uploads, disk)
    <3>1. Uploaded(req.uploads, d) = Uploaded(req.uploads, disk)
      BY <1>7, <2>3, UploadedSame
    <3> QED
      BY <1>11, <3>1
  <2>6. TypesRight'
    <3>1. \A k \in DOMAIN req.uploads : req.uploads[k].file \in 1..L
      BY <1>7
    <3> QED
      BY <1>2, <1>3, <1>5, <1>11, <2>3, <3>1 DEF TypesRight
  <2>7. PlacesRight'
    <3>1. d # <<>>
      BY <1>7, <2>3
    <3>2. \A k \in DOMAIN req.uploads : req.uploads[k].file < Len(d)
      BY <1>7, <2>3
    <3>3. pc' = "file" => part'.cnt < 5
      BY <1>5, <1>11, <2>1
    <3> QED
      BY <1>11, <2>4, <3>1, <3>2, <3>3 DEF PlacesRight
  <2>8. TempsKnown'
    <3> SUFFICES ASSUME NEW i \in 1..L, d[i].there
                 PROVE  i = L \/ \E k \in DOMAIN req.uploads : req.uploads[k].file = i
      BY <1>11, <2>3, <2>4 DEF TempsKnown
    <3>1. i \in DOMAIN disk /\ disk[i].there
      BY <1>7, <2>3
    <3> QED
      BY <1>6, <3>1 DEF RInv, TempsKnown, L
  <2>9. BytesCounted'
    <3>1. Bytes' = Bytes
      BY <2>5 DEF Bytes
    <3>2. Held' = Bytes + (Len(disk'[Len(disk')].data) + part'.cnt)
      BY <2>4, <3>1 DEF Held
    <3>3. disk'[Len(disk')].data = v /\ part'.cnt = m.cnt /\ part'.n = n
      BY <1>5, <1>11, <2>3
    <3>4. Held' = Held + 1
      <4> DEFINE x == Len(disk[L].data)
                 y == Len(m.put)
      <4>1. x \in Nat /\ y \in Nat
        BY <1>4, <1>7 DEF TempFile
      <4>2. Held' = Bytes + (x + y + m.cnt) /\ Held = Bytes + (x + part.cnt) /\ y + m.cnt = part.cnt + 1
        BY <1>4, <1>7, <2>2, <3>2, <3>3
      <4> DEFINE z == Bytes
                 c == part.cnt
                 e == m.cnt
      <4>3. z \in Nat /\ c \in Nat /\ e \in Nat
        BY <1>2, <1>4, <1>7
      <4>4. Held' = z + (x + y + e) /\ Held = z + (x + c) /\ y + e = c + 1
        BY <4>2
      <4> HIDE DEF x, y, z, c, e
      <4> QED
        BY <4>1, <4>3, <4>4
    <3>5. Held' <= n /\ (MaxPost > 0 => n <= MaxPost) /\ n \in Nat /\ Held' \in Nat
      BY <1>2, <1>7, <1>11, <3>4 DEF Over
    <3>6. IsFiniteSet(Uploaded(req.uploads, disk))
      BY DEF RInv, BytesCounted
    <3> HIDE DEF n
    <3> QED
      BY <1>2, <2>5, <3>3, <3>5, <3>6 DEF BytesCounted
  <2> QED
    BY <2>6, <2>7, <2>8, <2>9 DEF RInv
<1> QED
  BY <1>1, <1>8, <1>9, <1>10, <1>11

LEMMA FileEndStep ==
  ASSUME RInv, FileEnd
  PROVE  RInv'
<1> DEFINE b == NextByte
           L == Len(disk)
           n == part.n + 1
           line == IF b.c = Dash THEN LastBoundary ELSE Boundary
           q == [part EXCEPT !.line = line, !.n = @ + 1]
           u == [name |-> part.name, file |-> L, fsize |-> part.fsize]
           us == Append(req.uploads, u)
           r == [req EXCEPT !.uploads = us]
<1>1. /\ pc = "fileend" /\ rd' = b.rd /\ part' = q
      /\ \/ \E x \in {b.x, "InputFailure", "Error"} : Throws(x)
         \/ ~Over(n) /\ req' = r /\ pc' = "fileend2" /\ disk' = disk
  BY DEF FileEnd
<1>2. /\ StreamOK(rd) /\ RequestOK(req) /\ part \in Part
      /\ part.n \in Nat /\ part.name \in Nat /\ part.fsize \in Nat /\ part.cnt \in Nat
      /\ disk \in Seq(TempFile) /\ MaxPost \in Nat
  BY RequestAssumption DEF RInv, TypesRight, Part
<1>3. StreamOK(rd')
  BY <1>1, <1>2, NextByteTyped DEF ByteOK
<1> HIDE DEF b
<1>4. q \in Part /\ q.n = n
  <2>1. line \in Seq(Token) /\ n \in Nat
    BY <1>2, CharsTyped
  <2>2. q = [part EXCEPT !.line = line, !.n = n]
    BY <1>2 DEF Part
  <2> HIDE DEF line, n, q
  <2> QED
    BY <1>2, <2>1, <2>2 DEF Part
<1> HIDE DEF q
<1>5. pc \in InFile /\ pc \in InForm /\ pc \notin Ended \cup {"idle"}
  BY <1>1 DEF InFile, InForm, Ended
<1>6. /\ L \in Nat \ {0} /\ DOMAIN disk = 1..L /\ disk[L] \in TempFile
      /\ \A k \in DOMAIN req.uploads : req.uploads[k].file \in 1..(L - 1)
      /\ Bytes \in Nat
      /\ Held = Bytes + (Len(disk[L].data) + part.cnt)
      /\ Held \in Nat /\ Held <= part.n /\ (MaxPost > 0 => Held <= MaxPost)
  BY <1>5, FileKnown
<1>7. CASE \E x \in {b.x, "InputFailure", "Error"} : Throws(x)
  BY <1>1, <1>3, <1>4, <1>7, ThrowsStep
<1>8. CASE ~Over(n) /\ req' = r /\ pc' = "fileend2" /\ disk' = disk
  <2>1. u \in Upload /\ u.file = L
    BY <1>2, <1>6 DEF Upload
  <2> HIDE DEF u, L
  <2>2. req.uploads \in Seq(Upload)
    BY <1>2 DEF RequestOK
  <2> DEFINE M == Len(req.uploads)
  <2>3. /\ us \in Seq(Upload) /\ M \in Nat /\ DOMAIN us = 1..(M + 1) /\ DOMAIN req.uploads = 1..M
        /\ us[M + 1] = u /\ \A k \in 1..M : us[k] = req.uploads[k]
    BY <2>1, <2>2
  <2> HIDE DEF us, M
  <2>4. RequestOK(r) /\ r.uploads = us
    BY <1>2, <2>3 DEF RequestOK
  <2> HIDE DEF r
  <2>5. pc' \in InForm /\ pc' \notin InFile \cup Before \cup Ended \cup {"idle", "getline", "parthead", "value", "file"}
    BY <1>8 DEF InForm, InFile, Before, Ended
  <2>6. \A k \in 1..(M + 1) : us[k].file \in 1..L
    <3> SUFFICES ASSUME NEW k \in 1..(M + 1) PROVE us[k].file \in 1..L
      OBVIOUS
    <3>1. CASE k = M + 1
      BY <1>6, <2>1, <2>3, <3>1
    <3>2. CASE k # M + 1
      <4>1. k \in 1..M
        BY <2>3, <3>2
      <4>2. us[k].file \in 1..(L - 1)
        BY <1>6, <2>3, <4>1
      <4> QED
        BY <1>6, <4>2
    <3> QED
      BY <3>1, <3>2
  <2>7. TypesRight'
    BY <1>2, <1>3, <1>4, <1>1, <1>6, <1>8, <2>3, <2>4, <2>6 DEF TypesRight
  <2>8. PlacesRight'
    BY <1>8, <2>5 DEF PlacesRight
  <2>9. TempsKnown'
    <3> SUFFICES ASSUME NEW i \in 1..L, disk[i].there
                 PROVE  \E k \in DOMAIN us : us[k].file = i
      BY <1>6, <1>8, <2>4, <2>5 DEF TempsKnown
    <3>1. i = L \/ \E k \in DOMAIN req.uploads : req.uploads[k].file = i
      BY <1>5, <1>6 DEF RInv, TempsKnown, L
    <3>2. CASE i = L
      <4>1. M + 1 \in DOMAIN us
        BY <2>3
      <4> QED
        BY <2>1, <2>3, <3>2, <4>1
    <3>3. CASE \E k \in DOMAIN req.uploads : req.uploads[k].file = i
      <4>1. PICK k \in 1..M : req.uploads[k].file = i
        BY <2>3, <3>3
      <4>2. k \in DOMAIN us /\ us[k].file = i
        BY <2>3, <4>1
      <4> QED
        BY <4>2
    <3> QED
      BY <3>1, <3>2, <3>3
  <2>10. BytesCounted'
    <3>1. IsFiniteSet(Uploaded(req.uploads, disk))
      BY DEF RInv, BytesCounted
    <3>2. u.file \in DOMAIN disk
      BY <1>6, <2>1
    <3>3. /\ IsFiniteSet(Uploaded(us, disk))
          /\ Cardinality(Uploaded(us, disk)) <= Cardinality(Uploaded(req.uploads, disk)) + Len(disk[L].data)
      BY <1>2, <2>1, <2>2, <3>1, <3>2, UploadedNext DEF us
    <3>4. Uploaded(req.uploads, disk)' = Uploaded(us, disk)
      BY <1>8, <2>4
    <3>5. Held' = Bytes' + 0
      BY <2>5 DEF Held
    <3>6. Bytes' \in Nat /\ Bytes' <= Bytes + Len(disk[L].data)
      BY <3>3, <3>4, FS_CardinalityType DEF Bytes
    <3>7. Len(disk[L].data) \in Nat
      BY <1>6 DEF TempFile
    <3>8. Held' <= Held /\ Held' \in Nat
      <4> DEFINE x == Len(disk[L].data)
                 z == Bytes
                 c == part.cnt
                 y == Bytes'
                 h == Held'
      <4>1. x \in Nat /\ z \in Nat /\ c \in Nat /\ y \in Nat /\ h = y + 0 /\ y <= z + x /\ Held = z + (x + c)
        BY <1>2, <1>6, <3>5, <3>6, <3>7
      <4> HIDE DEF x, y, z, c, h
      <4>2. h <= Held /\ h \in Nat
        BY <4>1
      <4> QED
        BY <4>2 DEF h
    <3>9. Held' <= part'.n /\ (MaxPost > 0 => Held' <= MaxPost)
      BY <1>1, <1>2, <1>4, <1>6, <3>8
    <3> QED
      BY <3>3, <3>4, <3>9 DEF BytesCounted
  <2> QED
    BY <2>7, <2>8, <2>9, <2>10 DEF RInv
<1> QED
  BY <1>1, <1>7, <1>8

LEMMA FileEnd2Step ==
  ASSUME RInv, FileEnd2
  PROVE  RInv'
<1> DEFINE b == NextByte
<1>1. /\ pc = "fileend2" /\ rd' = b.rd /\ part' = part
      /\ \/ \E x \in {b.x, "InputFailure"} : Throws(x)
         \/ pc' = "parts" /\ req' = req /\ disk' = disk
  BY DEF FileEnd2
<1>2. StreamOK(rd) /\ RequestOK(req) /\ part \in Part
  BY DEF RInv, TypesRight
<1>3. StreamOK(rd')
  BY <1>1, <1>2, NextByteTyped DEF ByteOK
<1> HIDE DEF b
<1> QED
  BY <1>1, <1>2, <1>3, ThrowsStep, MovesStep

-----------------------------------------------------------------------------
(* The rest of processRequest().                                           *)

LEMMA HandleStep ==
  ASSUME RInv, NEW x, Handle(x)
  PROVE  RInv'
<1>1. /\ pc = "handle" /\ rd' = rd /\ req' = req /\ part' = part /\ disk' = disk
      /\ pc' = "cleanup" \/ pc' \in Ended
  BY DEF Handle, Ended
<1>2. StreamOK(rd) /\ RequestOK(req) /\ part \in Part
  BY DEF RInv, TypesRight
<1> QED
  BY <1>1, <1>2, EndsStep, MovesStep

\* When the handler has returned, every temporary file is an upload and goes.
LEMMA CleanupLeavesNone ==
  ASSUME RInv, CleanupUploads
  PROVE  \A i \in DOMAIN disk' : ~disk'[i].there
<1>1. pc = "cleanup" /\ pc \notin InFile \cup Ended \cup {"idle"}
  BY DEF CleanupUploads, InFile, Ended
<1> DEFINE Has(i) == \E u \in ToSet(req.uploads) : u.file = i
           gone(i) == [disk[i] EXCEPT !.there = FALSE]
<1>2. disk' = [i \in DOMAIN disk |-> IF Has(i) THEN gone(i) ELSE disk[i]]
  BY DEF CleanupUploads
<1> SUFFICES ASSUME NEW i \in DOMAIN disk PROVE ~disk'[i].there
  BY <1>2
<1>3. CASE Has(i)
  <2>1. disk[i] \in TempFile
    BY DEF RInv, TypesRight
  <2>2. ~gone(i).there
    BY <2>1 DEF TempFile
  <2> HIDE DEF Has, gone
  <2>3. disk'[i] = gone(i)
    BY <1>2, <1>3
  <2> QED
    BY <2>2, <2>3
<1>4. CASE ~Has(i)
  <2>1. \A k \in DOMAIN req.uploads : req.uploads[k].file # i
    BY <1>4 DEF ToSet
  <2>2. ~disk[i].there
    BY <1>1, <2>1 DEF RInv, TempsKnown
  <2> HIDE DEF Has, gone
  <2>3. disk'[i] = disk[i]
    BY <1>2, <1>4
  <2> QED
    BY <2>2, <2>3
<1> QED
  BY <1>3, <1>4

LEMMA CleanupStep ==
  ASSUME RInv, CleanupUploads
  PROVE  RInv'
<1>1. \A i \in DOMAIN disk' : ~disk'[i].there
  BY CleanupLeavesNone
<1> DEFINE Has(i) == \E u \in ToSet(req.uploads) : u.file = i
           gone(i) == [disk[i] EXCEPT !.there = FALSE]
<1>2. /\ disk' = [i \in DOMAIN disk |-> IF Has(i) THEN gone(i) ELSE disk[i]]
      /\ rd' = rd /\ req' = req /\ part' = part /\ pc' \in {"idle", "closed"}
  BY DEF CleanupUploads
<1>3. pc' \notin InForm \cup InFile \cup Before \cup {"handle", "getline", "parthead", "value", "file"}
      /\ pc' \in {"idle"} \cup Ended
  BY <1>2 DEF InForm, InLine, InFile, Before, Ended
<1>4. \A i \in DOMAIN disk : gone(i) \in TempFile /\ gone(i).data = disk[i].data
  <2> SUFFICES ASSUME NEW i \in DOMAIN disk
               PROVE  gone(i) \in TempFile /\ gone(i).data = disk[i].data
    OBVIOUS
  <2>1. disk[i] \in TempFile
    BY DEF RInv, TypesRight
  <2> QED
    BY <2>1 DEF TempFile
<1>5. disk \in Seq(TempFile)
  BY DEF RInv, TypesRight
<1> HIDE DEF Has, gone
<1>6. disk' \in Seq(TempFile) /\ DOMAIN disk' = DOMAIN disk
      /\ \A i \in DOMAIN disk : disk'[i].data = disk[i].data
  <2>1. DOMAIN disk = 1..Len(disk) /\ Len(disk) \in Nat /\ \A i \in DOMAIN disk : disk[i] \in TempFile
    BY <1>5, SeqPlaces
  <2>2. \A i \in DOMAIN disk : disk'[i] \in TempFile /\ disk'[i].data = disk[i].data
    BY <1>2, <1>4, <2>1
  <2>3. disk' = [i \in 1..Len(disk) |-> disk'[i]]
    BY <1>2, <2>1
  <2> QED
    BY <1>2, <2>1, <2>2, <2>3
<1>7. Uploaded(req.uploads, disk)' = Uploaded(req.uploads, disk)
  <2>1. \A k \in DOMAIN req.uploads : DOMAIN disk'[req.uploads[k].file].data = DOMAIN disk[req.uploads[k].file].data
    BY <1>6 DEF RInv, TypesRight
  <2>2. Uploaded(req.uploads, disk') = Uploaded(req.uploads, disk)
    BY <2>1, UploadedSame
  <2> QED
    BY <1>2, <2>2
<1>8. TypesRight'
  BY <1>2, <1>6 DEF RInv, TypesRight
<1>9. PlacesRight'
  BY <1>3 DEF PlacesRight
<1>10. TempsKnown'
  BY <1>1 DEF TempsKnown
<1>11. BytesCounted'
  BY <1>3, <1>7 DEF RInv, BytesCounted
<1> QED
  BY <1>8, <1>9, <1>10, <1>11 DEF RInv

LEMMA InternalErrorStep ==
  ASSUME RInv, InternalError
  PROVE  RInv'
<1>1. rd' = rd /\ req' = req /\ part' = part /\ disk' = disk /\ pc' \in Ended
  BY DEF InternalError, Ended
<1>2. StreamOK(rd) /\ part \in Part
  BY DEF RInv, TypesRight
<1> QED
  BY <1>1, <1>2, EndsStep

LEMMA StutterStep ==
  ASSUME RInv, UNCHANGED vars
  PROVE  RInv'
<1>1. rd' = rd /\ req' = req /\ part' = part /\ disk' = disk /\ pc' = pc
  BY DEF vars
<1>2. Uploaded(req.uploads, disk)' = Uploaded(req.uploads, disk)
  BY <1>1
<1>3. Held' = Held
  BY <1>1, <1>2 DEF Held, Bytes
<1> QED
  BY <1>1, <1>2, <1>3 DEF RInv, TypesRight, PlacesRight, TempsKnown, BytesCounted

LEMMA NextStep ==
  ASSUME RInv, [Next]_vars
  PROVE  RInv'
<1>1. CASE Step
  BY <1>1, ReadHeadStep, HeaderStep, ReadBodyStep, readAllStep, GetlineStep, FormStartStep,
     FormLineStep, PartHeaderStep, PartStartStep, PartValueStep, FileByteStep, FileEndStep,
     FileEnd2Step, HandleStep, CleanupStep, InternalErrorStep DEF Step
<1>2. CASE \E r \in (IF sent = <<>> THEN Requests ELSE Followers), cut \in Cuts, d \in 0..Len(rd.in) : Send(r, cut, d)
  <2>1. PICK r \in (IF sent = <<>> THEN Requests ELSE Followers), cut \in Cuts, d \in 0..Len(rd.in) : Send(r, cut, d)
    BY <1>2
  <2>2. r \in Requests
    BY RequestAssumption
  <2> QED
    BY <2>1, <2>2, SendStep
<1>3. CASE UNCHANGED vars
  BY <1>3, StutterStep
<1> QED
  BY <1>1, <1>2, <1>3 DEF Next

-----------------------------------------------------------------------------
(* Theorems.                                                               *)

\* Where the constructor is, what it has counted and whose the temporary files
\* are agree.
THEOREM RequestInvariance == Spec => []RInv
<1>1. RInv /\ [Next]_vars => RInv'
  BY NextStep
<1> QED
  BY InitInv, <1>1, PTL DEF Spec

\* What a handler gets is bounded by max_post_size, for every limit and however
\* the body is framed and divided into parts.
THEOREM LimitHolds == Spec => []WithinLimit
<1>1. RInv => WithinLimit
  <2> SUFFICES ASSUME RInv, pc = "handle", MaxPost > 0
               PROVE  Len(req.content) <= MaxPost /\ Cardinality(Uploaded(req.uploads, disk)) <= MaxPost
    BY DEF WithinLimit
  <2>1. pc \notin InFile
    BY DEF InFile
  <2>2. Bytes <= MaxPost
    BY <2>1, BytesKnown
  <2> QED
    BY <2>2 DEF RInv, TypesRight, RequestOK, Bytes
<1> QED
  BY <1>1, RequestInvariance, PTL

\* A request that went well leaves no temporary file behind, however many files
\* its form has and whatever the requests before it left.
THEOREM TempsGo == Spec => TempFilesRemoved
<1>1. RInv /\ [Next]_vars => [pc = "cleanup" => \A i \in DOMAIN disk' : ~disk'[i].there]_vars
  <2> SUFFICES ASSUME RInv, Next, pc = "cleanup"
               PROVE  \A i \in DOMAIN disk' : ~disk'[i].there
    BY DEF Done
  <2>1. CleanupUploads \/ (Done /\ UNCHANGED vars)
    BY DEF Next, Step, ReadHead, process_header, ReadBody, readAll, ck_getline, LineByte, FormStart, FormLine,
           PartHeader, PartStart, PartValue, FileByte, FileByteIs, FileEnd, FileEnd2, Handle, InternalError, Send
  <2>2. ~Done
    BY DEF Done
  <2> QED
    BY <2>1, <2>2, CleanupLeavesNone
<1> QED
  BY <1>1, RequestInvariance, PTL DEF Spec, TempFilesRemoved

=============================================================================
