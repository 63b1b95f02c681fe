---------------------------- MODULE ResponseProofs ----------------------------
(***************************************************************************)
(* What is proved of module Response: a rendition in the cache is the body *)
(* that was sent, a connection that is kept is in step with its client,    *)
(* the bodies arrive, and every request is answered, for bodies of every   *)
(* size that the handlers hand over in portions of any length.             *)
(***************************************************************************)
EXTENDS Response, FiniteSetTheorems, WellFoundedInduction, TLAPS

-----------------------------------------------------------------------------
(* What a client makes of the operations of a connection, for bodies of    *)
(* every size that are handed over in portions of any length: the lemmas   *)
(* that the invariants below rest on.                                      *)

(***************************************************************************)
(* Induction.  WFMin has sets for parameters, so that it applies to a      *)
(* property that is given as the set of the numbers that have it.          *)
(***************************************************************************)

\* A set of numbers that is not empty has a least one.
LEMMA LeastNumber ==
  ASSUME NEW T \in SUBSET Nat, T # {}
  PROVE  \E m \in T : \A k \in T : m <= k
<1> DEFINE R == OpToRel(<, Nat)
<1>1. IsWellFoundedOn(R, Nat)
  BY NatLessThanWellFounded
<1>2. \A x, y \in Nat : y < x => <<y, x>> \in R
  BY DEF OpToRel
<1> HIDE DEF R
<1>3. PICK m \in T : \A k \in T : ~(<<k, m>> \in R)
  BY <1>1, WFMin
<1>4. ASSUME NEW k \in T PROVE m <= k
  <2>1. ~(k < m)
    BY <1>2, <1>3
  <2> QED
    BY <2>1
<1> QED
  BY <1>4

\* A set with 0 and with the successor of each of its numbers has every number.
LEMMA Induction ==
  ASSUME NEW T, 0 \in T, \A n \in Nat : n \in T => n + 1 \in T
  PROVE  \A n \in Nat : n \in T
<1> SUFFICES ASSUME NEW n \in Nat, n \notin T PROVE FALSE
  OBVIOUS
<1> DEFINE U == {k \in Nat : k \notin T}
<1>1. PICK m \in U : \A k \in U : m <= k
  <2>1. U \in SUBSET Nat /\ U # {}
    OBVIOUS
  <2> HIDE DEF U
  <2> QED
    BY <2>1, LeastNumber
<1>2. m \in Nat /\ m # 0
  OBVIOUS
<1>3. m - 1 \in Nat /\ m - 1 \in T
  BY <1>1, <1>2
<1> QED
  BY <1>1, <1>2, <1>3

(***************************************************************************)
(* Reading tokens.                                                         *)
(***************************************************************************)

\* g lists the states of a client that starts at cl and reads the tokens w.
Course(g, cl, w) ==
  /\ DOMAIN g = 0..Len(w)
  /\ g = [i \in 0..Len(w) |-> IF i = 0 THEN cl ELSE Feed(g[i - 1], w[i])]

\* The same of its first n steps.
Follows(g, cl, w, n) == \A i \in 0..n : g[i] = IF i = 0 THEN cl ELSE Feed(g[i - 1], w[i])

\* There is such a list of states for every sequence of tokens.
LEMMA CourseExists ==
  ASSUME NEW S, NEW w \in Seq(S), NEW cl
  PROVE  \E g : Course(g, cl, w)
<1> DEFINE Upto(n) == \E g : g = [i \in 0..n |-> IF i = 0 THEN cl ELSE Feed(g[i - 1], w[i])]
           T == {n \in Nat : Upto(n)}
<1>1. 0 \in T
  <2> DEFINE h == [i \in 0..0 |-> cl]
  <2>1. h = [i \in 0..0 |-> IF i = 0 THEN cl ELSE Feed(h[i - 1], w[i])]
    OBVIOUS
  <2> QED
    BY <2>1
<1>2. ASSUME NEW n \in Nat, n \in T PROVE n + 1 \in T
  <2>1. PICK g : g = [i \in 0..n |-> IF i = 0 THEN cl ELSE Feed(g[i - 1], w[i])]
    BY <1>2
  <2> DEFINE h == [i \in 0..(n + 1) |-> IF i = n + 1 THEN Feed(g[n], w[n + 1]) ELSE g[i]]
  <2>2. \A i \in 0..n : h[i] = g[i]
    OBVIOUS
  <2>3. ASSUME NEW i \in 0..(n + 1)
        PROVE  h[i] = IF i = 0 THEN cl ELSE Feed(h[i - 1], w[i])
    <3>1. CASE i = n + 1
      <4>1. h[i] = Feed(g[n], w[n + 1]) /\ i # 0 /\ i - 1 = n /\ n \in 0..n
        BY <3>1
      <4>2. h[i - 1] = g[n]
        BY <4>1, <2>2
      <4> QED
        BY <3>1, <4>1, <4>2
    <3>2. CASE i # n + 1
      <4>1. i \in 0..n /\ h[i] = g[i]
        BY <3>2
      <4>2. i # 0 => i - 1 \in 0..n /\ h[i - 1] = g[i - 1]
        BY <4>1, <2>2
      <4> HIDE DEF h
      <4>3. g[i] = IF i = 0 THEN cl ELSE Feed(g[i - 1], w[i])
        BY <2>1, <4>1
      <4> QED
        BY <4>1, <4>2, <4>3
    <3> QED
      BY <3>1, <3>2
  <2>4. h = [i \in 0..(n + 1) |-> h[i]]
    OBVIOUS
  <2> HIDE DEF h
  <2>5. h = [i \in 0..(n + 1) |-> IF i = 0 THEN cl ELSE Feed(h[i - 1], w[i])]
    BY <2>3, <2>4
  <2>6. Upto(n + 1)
    BY <2>5
  <2> HIDE DEF Upto
  <2> QED
    BY <2>6
<1>3. Len(w) \in T
  <2>1. Len(w) \in Nat
    OBVIOUS
  <2> HIDE DEF T
  <2> QED
    BY <1>1, <1>2, <2>1, Induction
<1> QED
  BY <1>3 DEF Course

\* What FeedAll defines, and that nothing else satisfies it.
LEMMA FeedAllCourse ==
  ASSUME NEW S, NEW w \in Seq(S), NEW cl
  PROVE  \E g : Course(g, cl, w) /\ FeedAll(cl, w) = g[Len(w)]
<1> DEFINE D(g) == g = [i \in 0..Len(w) |-> IF i = 0 THEN cl ELSE Feed(g[i - 1], w[i])]
           g0 == CHOOSE g : D(g)
<1>1. \E g : D(g)
  <2>1. PICK g : Course(g, cl, w)
    BY CourseExists
  <2>2. D(g)
    BY <2>1 DEF Course
  <2> QED
    BY <2>2
<1>2. D(g0)
  BY <1>1
<1>3. FeedAll(cl, w) = g0[Len(w)]
  BY DEF FeedAll
<1>4. Course(g0, cl, w)
  <2> HIDE DEF g0
  <2> QED
    BY <1>2 DEF Course
<1> QED
  BY <1>3, <1>4

\* Two such lists agree.
LEMMA CourseUnique ==
  ASSUME NEW S, NEW w \in Seq(S), NEW cl, NEW g, NEW h, NEW n \in Nat,
         Follows(g, cl, w, n), Follows(h, cl, w, n)
  PROVE  g[n] = h[n]
<1> USE DEF Follows
<1> DEFINE T == {i \in Nat : i <= n => g[i] = h[i]}
<1>1. 0 \in T
  OBVIOUS
<1>2. ASSUME NEW i \in Nat, i \in T PROVE i + 1 \in T
  <2> SUFFICES ASSUME i + 1 <= n PROVE g[i + 1] = h[i + 1]
    OBVIOUS
  <2>1. g[i] = h[i] /\ i + 1 \in 0..n /\ i + 1 # 0 /\ (i + 1) - 1 = i
    BY <1>2
  <2>2. g[i + 1] = Feed(g[i], w[i + 1]) /\ h[i + 1] = Feed(h[i], w[i + 1])
    BY <2>1
  <2> QED
    BY <2>1, <2>2
<1>3. n \in T
  <2> HIDE DEF T
  <2> QED
    BY <1>1, <1>2, Induction
<1> QED
  BY <1>3

\* No token, no change.
LEMMA FeedNone == \A cl : FeedAll(cl, <<>>) = cl
<1> SUFFICES ASSUME NEW cl PROVE FeedAll(cl, <<>>) = cl
  OBVIOUS
<1>1. <<>> \in Seq(Nat) /\ Len(<<>>) = 0
  OBVIOUS
<1>2. PICK g : Course(g, cl, <<>>) /\ FeedAll(cl, <<>>) = g[Len(<<>>)]
  BY <1>1, FeedAllCourse
<1> QED
  BY <1>1, <1>2 DEF Course

\* The last token is read by the client the others leave.
LEMMA FeedLast ==
  ASSUME NEW S, NEW w \in Seq(S), NEW k \in S, NEW cl
  PROVE  FeedAll(cl, Append(w, k)) = Feed(FeedAll(cl, w), k)
<1> DEFINE v == Append(w, k)
           n == Len(w)
<1>1. v \in Seq(S) /\ Len(v) = n + 1 /\ n \in Nat /\ v[n + 1] = k
      /\ (\A i \in 1..n : v[i] = w[i])
  OBVIOUS
<1>2. PICK g : Course(g, cl, w) /\ FeedAll(cl, w) = g[n]
  BY FeedAllCourse
<1> HIDE DEF v
<1>3. PICK h : Course(h, cl, v) /\ FeedAll(cl, v) = h[Len(v)]
  BY <1>1, FeedAllCourse
<1> HIDE DEF n
<1>4. \A i \in 0..n : g[i] = IF i = 0 THEN cl ELSE Feed(g[i - 1], w[i])
  BY <1>2 DEF Course, n
<1>5. \A i \in 0..(n + 1) : h[i] = IF i = 0 THEN cl ELSE Feed(h[i - 1], v[i])
  BY <1>1, <1>3 DEF Course
<1>6. \A i \in 0..n : h[i] = IF i = 0 THEN cl ELSE Feed(h[i - 1], w[i])
  <2> SUFFICES ASSUME NEW i \in 0..n PROVE h[i] = IF i = 0 THEN cl ELSE Feed(h[i - 1], w[i])
    OBVIOUS
  <2>1. i \in 0..(n + 1) /\ (i # 0 => i \in 1..n)
    BY <1>1
  <2> QED
    BY <2>1, <1>1, <1>5
<1>7. g[n] = h[n]
  <2>1. n \in Nat
    BY <1>1
  <2>2. Follows(g, cl, w, n) /\ Follows(h, cl, w, n)
    BY <1>4, <1>6 DEF Follows
  <2> QED
    BY <2>1, <2>2, CourseUnique
<1>8. h[n + 1] = Feed(h[n], k)
  <2>1. n + 1 \in 0..(n + 1) /\ n + 1 # 0 /\ (n + 1) - 1 = n
    BY <1>1
  <2> QED
    BY <2>1, <1>1, <1>5
<1> QED
  BY <1>1, <1>2, <1>3, <1>7, <1>8 DEF v

\* One token.
LEMMA FeedOne == \A cl, k : FeedAll(cl, <<k>>) = Feed(cl, k)
<1> SUFFICES ASSUME NEW cl, NEW k PROVE FeedAll(cl, <<k>>) = Feed(cl, k)
  OBVIOUS
<1>1. <<>> \in Seq({k}) /\ Append(<<>>, k) = <<k>>
  OBVIOUS
<1> QED
  BY <1>1, FeedLast, FeedNone

\* What is written by two operations is read one after the other.
LEMMA FeedBoth ==
  ASSUME NEW S, NEW v \in Seq(S), NEW w \in Seq(S), NEW cl
  PROVE  FeedAll(cl, v \o w) = FeedAll(FeedAll(cl, v), w)
<1> DEFINE P(n) == n <= Len(w) =>
                     FeedAll(cl, v \o SubSeq(w, 1, n)) = FeedAll(FeedAll(cl, v), SubSeq(w, 1, n))
           T == {n \in Nat : P(n)}
<1>1. 0 \in T
  <2>1. SubSeq(w, 1, 0) = <<>> /\ v \o <<>> = v
    OBVIOUS
  <2> QED
    BY <2>1, FeedNone
<1>2. ASSUME NEW n \in Nat, n \in T PROVE n + 1 \in T
  <2> SUFFICES ASSUME n + 1 <= Len(w) PROVE P(n + 1)
    OBVIOUS
  <2> DEFINE u == SubSeq(w, 1, n)
             k == w[n + 1]
  <2>1. u \in Seq(S) /\ k \in S /\ SubSeq(w, 1, n + 1) = Append(u, k)
    OBVIOUS
  <2>2. FeedAll(cl, v \o u) = FeedAll(FeedAll(cl, v), u)
    BY <1>2
  <2> HIDE DEF u, k
  <2>3. v \o u \in Seq(S) /\ v \o Append(u, k) = Append(v \o u, k)
    BY <2>1
  <2>4. FeedAll(cl, Append(v \o u, k)) = Feed(FeedAll(cl, v \o u), k)
    BY <2>1, <2>3, FeedLast
  <2>5. FeedAll(FeedAll(cl, v), Append(u, k)) = Feed(FeedAll(FeedAll(cl, v), u), k)
    BY <2>1, FeedLast
  <2> QED
    BY <2>1, <2>2, <2>3, <2>4, <2>5
<1>3. Len(w) \in T
  <2>1. Len(w) \in Nat
    OBVIOUS
  <2> HIDE DEF T
  <2> QED
    BY <1>1, <1>2, <2>1, Induction
<1>4. SubSeq(w, 1, Len(w)) = w
  OBVIOUS
<1>5. Len(w) \in Nat /\ Len(w) <= Len(w) /\ P(Len(w))
  BY <1>3
<1> QED
  BY <1>4, <1>5

\* One token before others, and one behind them.
LEMMA FeedEnds ==
  ASSUME NEW S, NEW w \in Seq(S), NEW k \in S, NEW cl
  PROVE  /\ <<k>> \in Seq(S) /\ <<k>> \o w \in Seq(S) /\ w \o <<k>> \in Seq(S)
         /\ FeedAll(cl, <<k>> \o w) = FeedAll(Feed(cl, k), w)
         /\ FeedAll(cl, w \o <<k>>) = Feed(FeedAll(cl, w), k)
<1> DEFINE v == <<k>>
<1>1. v \in Seq(S)
  OBVIOUS
<1>2. \A c : FeedAll(c, v) = Feed(c, k)
  BY FeedOne
<1> HIDE DEF v
<1>3. v \o w \in Seq(S) /\ w \o v \in Seq(S)
  BY <1>1
<1>4. FeedAll(cl, v \o w) = FeedAll(FeedAll(cl, v), w)
  BY <1>1, FeedBoth
<1>5. FeedAll(cl, w \o v) = FeedAll(FeedAll(cl, w), v)
  BY <1>1, FeedBoth
<1> QED
  BY <1>1, <1>2, <1>3, <1>4, <1>5 DEF v

(***************************************************************************)
(* What a client makes of a response.                                      *)
(***************************************************************************)

Statuses == {"ok", "error"}

\* What can be written on a connection.
Tokens == {Crlf} \cup {Size(n) : n \in Nat} \cup {Token("byte", x) : x \in Nat}
            \cup {HeadToken(st, ch, lens) : st \in Statuses, ch \in BOOLEAN, lens \in SUBSET Nat}

Client(mode, left, status, body, got) ==
  [mode |-> mode, left |-> left, status |-> status, body |-> body, got |-> got]

\* The client that has got g and waits for the next response.
Waiting(g) == Client("start", 0, "none", <<>>, g)

\* A response as the client has got it.
Answer(st, b) == [status |-> st, body |-> b]

\* What the connection writes are tokens.
LEMMA TokenTypes ==
  /\ Crlf \in Tokens
  /\ \A n \in Nat : Size(n) \in Tokens /\ Token("byte", n) \in Tokens
  /\ \A st \in Statuses, ch \in BOOLEAN, lens \in SUBSET Nat : HeadToken(st, ch, lens) \in Tokens
  BY DEF Tokens

\* The tokens of a portion of a body are those of its bytes.
LEMMA DataFacts ==
  /\ \A d \in Seq(Nat) : Data(d) \in Seq(Tokens)
  /\ Data(<<>>) = <<>>
  /\ \A d \in Seq(Nat), x \in Nat : Data(Append(d, x)) = Append(Data(d), Token("byte", x))
<1>1. ASSUME NEW d \in Seq(Nat) PROVE Data(d) \in Seq(Tokens)
  <2>1. \A i \in 1..Len(d) : Token("byte", d[i]) \in Tokens
    BY TokenTypes
  <2> QED
    BY <2>1 DEF Data
<1>2. Data(<<>>) = <<>>
  BY DEF Data
<1>3. ASSUME NEW d \in Seq(Nat), NEW x \in Nat
      PROVE  Data(Append(d, x)) = Append(Data(d), Token("byte", x))
  BY DEF Data
<1> QED
  BY <1>1, <1>2, <1>3

\* The cases of Feed, one at a time.
LEMMA FeedCases ==
  ASSUME NEW cl, NEW k
  PROVE  /\ cl.mode = "start" /\ k.t = "crlf" => Feed(cl, k) = cl
         /\ cl.mode = "start" /\ k.t = "head" /\ k.v.chunked =>
              Feed(cl, k) = [[cl EXCEPT !.status = k.v.status] EXCEPT !.mode = "size"]
         /\ cl.mode = "start" /\ k.t = "head" /\ ~k.v.chunked /\ Cardinality(k.v.lens) = 1 =>
              LET h == [cl EXCEPT !.status = k.v.status]
                  n == CHOOSE n \in k.v.lens : TRUE
              IN  Feed(cl, k) = IF n = 0 THEN Complete(h) ELSE [h EXCEPT !.mode = "body", !.left = n]
         /\ cl.mode = "start" /\ k.t = "head" /\ ~k.v.chunked /\ Cardinality(k.v.lens) # 1 =>
              Feed(cl, k) = [cl EXCEPT !.mode = "lost"]
         /\ cl.mode = "body" /\ k.t = "byte" =>
              LET h == [cl EXCEPT !.body = Append(@, k.v), !.left = @ - 1]
              IN  Feed(cl, k) = IF cl.left = 1 THEN Complete(h) ELSE h
         /\ cl.mode = "size" /\ k.t = "size" =>
              Feed(cl, k) = IF k.v = 0 THEN [cl EXCEPT !.mode = "last"]
                                       ELSE [cl EXCEPT !.mode = "chunk", !.left = k.v]
         /\ cl.mode = "chunk" /\ k.t = "byte" =>
              LET h == [cl EXCEPT !.body = Append(@, k.v), !.left = @ - 1]
              IN  Feed(cl, k) = IF cl.left = 1 THEN [h EXCEPT !.mode = "chunkend"] ELSE h
         /\ cl.mode = "chunkend" /\ k.t = "crlf" => Feed(cl, k) = [cl EXCEPT !.mode = "size"]
         /\ cl.mode = "last" /\ k.t = "crlf" => Feed(cl, k) = Complete(cl)
         /\ cl.mode = "lost" => Feed(cl, k) = [cl EXCEPT !.mode = "lost"]
  BY DEF Feed

\* The two kinds of head.
PlainHead(st, lens)   == HeadToken(st, FALSE, lens)
ChunkedHead(st, lens) == HeadToken(st, TRUE, lens)

\* The fields of tokens.
LEMMA TokenFields ==
  /\ Crlf.t = "crlf"
  /\ \A n : Size(n).t = "size" /\ Size(n).v = n
  /\ \A x : Token("byte", x).t = "byte" /\ Token("byte", x).v = x
<1>1. \A t, v : Token(t, v).t = t /\ Token(t, v).v = v
  BY DEF Token
<1>2. Crlf.t = "crlf"
  BY <1>1 DEF Crlf
<1>3. \A n : Size(n).t = "size" /\ Size(n).v = n
  BY <1>1 DEF Size
<1>4. \A x : Token("byte", x).t = "byte" /\ Token("byte", x).v = x
  BY <1>1
<1> QED
  BY <1>2, <1>3, <1>4

\* The fields of heads.
LEMMA HeadFields ==
  ASSUME NEW st, NEW lens
  PROVE  /\ PlainHead(st, lens).t = "head" /\ ~PlainHead(st, lens).v.chunked
         /\ PlainHead(st, lens).v.status = st /\ PlainHead(st, lens).v.lens = lens
         /\ ChunkedHead(st, lens).t = "head" /\ ChunkedHead(st, lens).v.chunked
         /\ ChunkedHead(st, lens).v.status = st
<1>1. \A v : Token("head", v).t = "head" /\ Token("head", v).v = v
  BY DEF Token
<1> DEFINE v == [status |-> st, chunked |-> FALSE, lens |-> lens]
           w == [status |-> st, chunked |-> TRUE, lens |-> lens]
<1>2. ~v.chunked /\ v.status = st /\ v.lens = lens
  OBVIOUS
<1>3. w.chunked /\ w.status = st
  OBVIOUS
<1>4. PlainHead(st, lens) = Token("head", v) /\ ChunkedHead(st, lens) = Token("head", w)
  BY DEF PlainHead, ChunkedHead, HeadToken
<1> HIDE DEF v, w
<1> QED
  BY <1>1, <1>2, <1>3, <1>4

\* The fields of a client.
LEMMA ClientFields ==
  \A m, n, st, b, g : Client(m, n, st, b, g).mode = m /\ Client(m, n, st, b, g).left = n
  BY DEF Client

\* A client with another mode and another count.
LEMMA ClientAltered ==
  ASSUME NEW m, NEW i, NEW st, NEW b, NEW g, NEW m2, NEW n
  PROVE  [Client(m, i, st, b, g) EXCEPT !.mode = m2, !.left = n] = Client(m2, n, st, b, g)
<1>1. [Client(m, i, st, b, g) EXCEPT !.mode = m2] = Client(m2, i, st, b, g)
  BY DEF Client
<1>2. [Client(m2, i, st, b, g) EXCEPT !.left = n] = Client(m2, n, st, b, g)
  BY DEF Client
<1> QED
  BY <1>1, <1>2

\* A response that is complete is the last one the client has got.
LEMMA Completed ==
  \A m, n, st, b, g : Complete(Client(m, n, st, b, g)) = Waiting(Append(g, Answer(st, b)))
  BY DEF Complete, Client, NewClient, Waiting, Answer

\* What a client makes of a token.
LEMMA FeedEmptyLine == \A g : Feed(Waiting(g), Crlf) = Waiting(g)
<1> SUFFICES ASSUME NEW g PROVE Feed(Waiting(g), Crlf) = Waiting(g)
  OBVIOUS
<1> DEFINE cl == Waiting(g)
<1>1. cl.mode = "start" /\ Crlf.t = "crlf"
  BY ClientFields, TokenFields DEF Waiting
<1> HIDE DEF cl
<1>2. Feed(cl, Crlf) = cl
  BY <1>1, FeedCases
<1> QED
  BY <1>2 DEF cl

\* The head of a chunked transfer: a chunk is expected.
LEMMA FeedChunkedHead ==
  ASSUME NEW g, NEW st, NEW lens
  PROVE  Feed(Waiting(g), ChunkedHead(st, lens)) = Client("size", 0, st, <<>>, g)
<1> DEFINE k == ChunkedHead(st, lens)
           cl == Waiting(g)
           h == Client("start", 0, st, <<>>, g)
<1>1. k.t = "head" /\ k.v.chunked /\ k.v.status = st
  BY HeadFields
<1>2. cl.mode = "start" /\ [cl EXCEPT !.status = st] = h
  BY DEF Client, Waiting
<1>3. [h EXCEPT !.mode = "size"] = Client("size", 0, st, <<>>, g)
  BY DEF Client
<1> HIDE DEF k, cl, h
<1>4. Feed(cl, k) = [[cl EXCEPT !.status = st] EXCEPT !.mode = "size"]
  BY <1>1, <1>2, FeedCases
<1> QED
  BY <1>2, <1>3, <1>4 DEF k, cl

\* A head with one length: that many bytes are expected.
LEMMA FeedPlainHead ==
  ASSUME NEW g, NEW st, NEW n
  PROVE  Feed(Waiting(g), PlainHead(st, {n}))
           = IF n = 0 THEN Waiting(Append(g, Answer(st, <<>>))) ELSE Client("body", n, st, <<>>, g)
<1> DEFINE lens == {n}
           none == <<>>
           k == PlainHead(st, lens)
           cl == Waiting(g)
           h == Client("start", 0, st, none, g)
<1>1. k.t = "head" /\ ~k.v.chunked /\ k.v.status = st /\ k.v.lens = lens
  BY HeadFields
<1>2. cl.mode = "start" /\ [cl EXCEPT !.status = st] = h
  BY DEF Client, Waiting
<1>3. Cardinality(lens) = 1 /\ (CHOOSE i \in lens : TRUE) = n
  BY FS_Singleton
<1> HIDE DEF k, cl, lens, none
<1>5. [h EXCEPT !.mode = "body", !.left = n] = Client("body", n, st, none, g)
  <2> DEFINE zero == 0
  <2>1. [h EXCEPT !.mode = "body"] = Client("body", zero, st, none, g)
    BY DEF Client
  <2> HIDE DEF zero
  <2>2. [Client("body", zero, st, none, g) EXCEPT !.left = n] = Client("body", n, st, none, g)
    BY DEF Client
  <2> HIDE DEF h
  <2> QED
    BY <2>1, <2>2
<1>6. Complete(h) = Waiting(Append(g, Answer(st, none)))
  BY Completed
<1> HIDE DEF h
<1>7. Feed(cl, k) = IF n = 0 THEN Complete(h) ELSE [h EXCEPT !.mode = "body", !.left = n]
  <2> DEFINE hh == [cl EXCEPT !.status = k.v.status]
             nn == CHOOSE i \in k.v.lens : TRUE
  <2>1. hh = h /\ nn = n
    BY <1>1, <1>2, <1>3
  <2>2. Feed(cl, k) = IF nn = 0 THEN Complete(hh) ELSE [hh EXCEPT !.mode = "body", !.left = nn]
    BY <1>1, <1>2, <1>3, FeedCases, ZenonT(30)
  <2> HIDE DEF hh, nn
  <2> QED
    BY <2>1, <2>2
<1> QED
  BY <1>5, <1>6, <1>7 DEF k, cl, lens, none

\* A byte of a body or of a chunk.
LEMMA FeedOneByte ==
  ASSUME NEW m \in {"body", "chunk"}, NEW n, NEW st, NEW b, NEW g, NEW x
  PROVE  Feed(Client(m, n, st, b, g), Token("byte", x))
           = IF n = 1 THEN IF m = "body" THEN Waiting(Append(g, Answer(st, Append(b, x))))
                                         ELSE Client("chunkend", n - 1, st, Append(b, x), g)
             ELSE Client(m, n - 1, st, Append(b, x), g)
<1> DEFINE k == Token("byte", x)
           cl == Client(m, n, st, b, g)
           h == Client(m, n - 1, st, Append(b, x), g)
<1>1. k.t = "byte" /\ k.v = x
  BY TokenFields
<1>2. cl.mode = m /\ cl.left = n
  BY ClientFields
<1>3. [cl EXCEPT !.body = Append(@, x), !.left = @ - 1] = h
  <2>1. [cl EXCEPT !.body = Append(@, x)] = Client(m, n, st, Append(b, x), g)
    BY DEF Client
  <2>2. [Client(m, n, st, Append(b, x), g) EXCEPT !.left = @ - 1] = h
    <3> DEFINE y == Append(b, x)
               i == n - 1
    <3>1. [Client(m, n, st, y, g) EXCEPT !.left = i] = Client(m, i, st, y, g)
      <4> HIDE DEF y, i
      <4> QED
        BY DEF Client
    <3>2. Client(m, n, st, y, g).left = n
      BY ClientFields
    <3> QED
      BY <3>1, <3>2
  <2> QED
    BY <2>1, <2>2
<1>4. [h EXCEPT !.mode = "chunkend"] = Client("chunkend", n - 1, st, Append(b, x), g)
  BY DEF Client
<1>5. Complete(h) = Waiting(Append(g, Answer(st, Append(b, x))))
  BY Completed
<1> HIDE DEF k, cl, h
<1>6. m = "body" => Feed(cl, k) = IF n = 1 THEN Complete(h) ELSE h
  BY <1>1, <1>2, <1>3, FeedCases
<1>7. m = "chunk" => Feed(cl, k) = IF n = 1 THEN [h EXCEPT !.mode = "chunkend"] ELSE h
  BY <1>1, <1>2, <1>3, FeedCases
<1> QED
  BY <1>4, <1>5, <1>6, <1>7 DEF k, cl, h

\* The size of a chunk, 0 for the last one.
LEMMA FeedSize ==
  ASSUME NEW n, NEW st, NEW b, NEW g, NEW i
  PROVE  Feed(Client("size", n, st, b, g), Size(i))
           = IF i = 0 THEN Client("last", n, st, b, g) ELSE Client("chunk", i, st, b, g)
<1> DEFINE k == Size(i)
           cl == Client("size", n, st, b, g)
<1>1. k.t = "size" /\ k.v = i
  BY TokenFields
<1>2. cl.mode = "size" /\ [cl EXCEPT !.mode = "last"] = Client("last", n, st, b, g)
  BY DEF Client
<1>3. [cl EXCEPT !.mode = "chunk"] = Client("chunk", n, st, b, g)
  BY DEF Client
<1>4. [Client("chunk", n, st, b, g) EXCEPT !.left = i] = Client("chunk", i, st, b, g)
  BY DEF Client
<1>5. [cl EXCEPT !.mode = "chunk", !.left = i] = Client("chunk", i, st, b, g)
  BY <1>3, <1>4
<1> HIDE DEF k, cl
<1>6. Feed(cl, k) = IF i = 0 THEN [cl EXCEPT !.mode = "last"]
                             ELSE [cl EXCEPT !.mode = "chunk", !.left = i]
  BY <1>1, <1>2, FeedCases
<1> QED
  BY <1>2, <1>5, <1>6 DEF k, cl

\* The line end behind a chunk, and behind the last one.
LEMMA FeedLineEnd ==
  ASSUME NEW n, NEW st, NEW b, NEW g
  PROVE  /\ Feed(Client("chunkend", n, st, b, g), Crlf) = Client("size", n, st, b, g)
         /\ Feed(Client("last", n, st, b, g), Crlf) = Waiting(Append(g, Answer(st, b)))
<1>1. Feed(Client("chunkend", n, st, b, g), Crlf) = Client("size", n, st, b, g)
  <2> DEFINE cl == Client("chunkend", n, st, b, g)
  <2>1. cl.mode = "chunkend" /\ [cl EXCEPT !.mode = "size"] = Client("size", n, st, b, g)
    BY DEF Client
  <2> HIDE DEF cl
  <2>2. Feed(cl, Crlf) = [cl EXCEPT !.mode = "size"]
    BY <2>1, FeedCases, TokenFields
  <2> QED
    BY <2>1, <2>2 DEF cl
<1>2. Feed(Client("last", n, st, b, g), Crlf) = Waiting(Append(g, Answer(st, b)))
  <2> DEFINE cl == Client("last", n, st, b, g)
  <2>1. cl.mode = "last" /\ Complete(cl) = Waiting(Append(g, Answer(st, b)))
    BY ClientFields, Completed
  <2> HIDE DEF cl
  <2>2. Feed(cl, Crlf) = Complete(cl)
    BY <2>1, FeedCases, TokenFields
  <2> QED
    BY <2>1, <2>2 DEF cl
<1> QED
  BY <1>1, <1>2

\* All bytes but the last of the n that are expected.
LEMMA FeedBytes ==
  ASSUME NEW m \in {"body", "chunk"}, NEW d \in Seq(Nat), NEW n \in Nat, Len(d) < n,
         NEW st, NEW b \in Seq(Nat), NEW g
  PROVE  FeedAll(Client(m, n, st, b, g), Data(d)) = Client(m, n - Len(d), st, b \o d, g)
<1> DEFINE P(j) == FeedAll(Client(m, n, st, b, g), Data(SubSeq(d, 1, j)))
                     = Client(m, n - j, st, b \o SubSeq(d, 1, j), g)
           T == {j \in Nat : j <= Len(d) => P(j)}
<1>1. 0 \in T
  <2>1. SubSeq(d, 1, 0) = <<>> /\ b \o <<>> = b /\ n - 0 = n
    OBVIOUS
  <2> QED
    BY <2>1, FeedNone, DataFacts
<1>2. ASSUME NEW j \in Nat, j \in T PROVE j + 1 \in T
  <2> SUFFICES ASSUME j + 1 <= Len(d) PROVE P(j + 1)
    OBVIOUS
  <2> DEFINE u == SubSeq(d, 1, j)
             x == d[j + 1]
             k == n - j
  <2>1. u \in Seq(Nat) /\ x \in Nat /\ SubSeq(d, 1, j + 1) = Append(u, x)
    OBVIOUS
  <2>2. k \in Nat /\ k > 1 /\ k - 1 = n - (j + 1)
    OBVIOUS
  <2>3. FeedAll(Client(m, n, st, b, g), Data(u)) = Client(m, k, st, b \o u, g)
    BY <1>2
  <2>4. b \o Append(u, x) = Append(b \o u, x)
    BY <2>1, SMTT(30)
  <2> HIDE DEF u, x, k
  <2>5. /\ Data(Append(u, x)) = Append(Data(u), Token("byte", x))
        /\ Data(u) \in Seq(Tokens) /\ Token("byte", x) \in Tokens
    BY <2>1, DataFacts, TokenTypes
  <2>6. FeedAll(Client(m, n, st, b, g), Append(Data(u), Token("byte", x)))
          = Feed(Client(m, k, st, b \o u, g), Token("byte", x))
    BY <2>3, <2>5, FeedLast
  <2>7. Feed(Client(m, k, st, b \o u, g), Token("byte", x)) = Client(m, k - 1, st, Append(b \o u, x), g)
    <3> DEFINE bb == b \o u
    <3>1. k # 1
      BY <2>2
    <3> HIDE DEF bb
    <3> QED
      BY <3>1, FeedOneByte DEF bb
  <2> QED
    BY <2>1, <2>2, <2>4, <2>5, <2>6, <2>7
<1>3. Len(d) \in T
  <2>1. Len(d) \in Nat
    OBVIOUS
  <2> HIDE DEF T
  <2> QED
    BY <1>1, <1>2, <2>1, Induction
<1>4. Len(d) \in Nat /\ Len(d) <= Len(d) /\ SubSeq(d, 1, Len(d)) = d
  OBVIOUS
<1>5. P(Len(d))
  BY <1>3, <1>4
<1> QED
  BY <1>4, <1>5

\* The bytes d are those that are expected, and the last one is still to be read.
AllButLast(m, d, st, b, g) ==
  \E c, x : /\ b \o d = Append(c, x)
           /\ FeedAll(Client(m, Len(d), st, b, g), Data(d)) = Feed(Client(m, 1, st, c, g), Token("byte", x))

\* The last byte that is expected is read when the others were.
LEMMA FeedAllButLast ==
  ASSUME NEW m \in {"body", "chunk"}, NEW d \in Seq(Nat), d # <<>>, NEW st, NEW b \in Seq(Nat), NEW g
  PROVE  AllButLast(m, d, st, b, g)
<1> DEFINE n == Len(d)
           u == SubSeq(d, 1, n - 1)
           x == d[n]
<1>1. /\ n \in Nat /\ n > 0
      /\ u \in Seq(Nat) /\ Len(u) = n - 1 /\ x \in Nat /\ d = Append(u, x)
      /\ b \o Append(u, x) = Append(b \o u, x)
  <2>1. n \in Nat /\ n > 0
    OBVIOUS
  <2>2. u \in Seq(Nat) /\ Len(u) = n - 1 /\ x \in Nat
    <3>1. \A i \in 1..(n - 1) : d[i] \in Nat
      BY <2>1
    <3>2. x \in Nat
      BY <2>1
    <3> DEFINE j == n - 1
               v == [i \in 1..j |-> d[i]]
    <3>3. u = v /\ j \in Nat
      BY <2>1
    <3>4. v \in Seq(Nat) /\ Len(v) = j
      <4>1. j \in Nat /\ \A i \in 1..j : d[i] \in Nat
        BY <3>1, <3>3
      <4> HIDE DEF j
      <4> QED
        BY <4>1
    <3> HIDE DEF u, v, x
    <3> QED
      BY <3>2, <3>3, <3>4
  <2>3. d = Append(u, x)
    <3>1. Len(Append(u, x)) = n /\ (\A i \in 1..n : Append(u, x)[i] = d[i])
      BY <2>1, <2>2
    <3> QED
      BY <2>2, <3>1
  <2> HIDE DEF u, x
  <2>4. b \o Append(u, x) = Append(b \o u, x)
    BY <2>2, SMTT(30)
  <2> QED
    BY <2>1, <2>2, <2>3, <2>4
<1> HIDE DEF n, u, x
<1>2. Len(u) < n /\ n - Len(u) = 1
  BY <1>1
<1>3. /\ Data(d) = Append(Data(u), Token("byte", x))
      /\ Data(u) \in Seq(Tokens) /\ Token("byte", x) \in Tokens
  BY <1>1, DataFacts, TokenTypes
<1>4. FeedAll(Client(m, n, st, b, g), Data(u)) = Client(m, n - Len(u), st, b \o u, g)
  BY <1>1, <1>2, FeedBytes
<1>5. FeedAll(Client(m, n, st, b, g), Data(u)) = Client(m, 1, st, b \o u, g)
  BY <1>4, <1>2
<1>6. FeedAll(Client(m, n, st, b, g), Data(d)) = Feed(Client(m, 1, st, b \o u, g), Token("byte", x))
  BY <1>5, <1>3, FeedLast
<1>7. b \o d = Append(b \o u, x)
  BY <1>1
<1> DEFINE bu == b \o u
<1> HIDE DEF bu
<1> QED
  BY <1>6, <1>7 DEF n, bu, AllButLast

\* The bytes of a body, to the last: the response is complete.
LEMMA FeedBody ==
  ASSUME NEW d \in Seq(Nat), d # <<>>, NEW st, NEW b \in Seq(Nat), NEW g
  PROVE  FeedAll(Client("body", Len(d), st, b, g), Data(d)) = Waiting(Append(g, Answer(st, b \o d)))
<1> DEFINE m == "body"
<1>1. m \in {"body", "chunk"}
  OBVIOUS
<1> HIDE DEF m
<1>2. PICK c, x : /\ b \o d = Append(c, x)
                  /\ FeedAll(Client(m, Len(d), st, b, g), Data(d)) = Feed(Client(m, 1, st, c, g), Token("byte", x))
  <2>1. d \in Seq(Nat) /\ d # <<>> /\ b \in Seq(Nat)
    OBVIOUS
  <2>2. AllButLast(m, d, st, b, g)
    BY <1>1, <2>1, FeedAllButLast, Zenon
  <2> QED
    BY <2>2 DEF AllButLast
<1>3. Feed(Client("body", 1, st, c, g), Token("byte", x)) = Waiting(Append(g, Answer(st, Append(c, x))))
  BY FeedOneByte
<1> QED
  BY <1>2, <1>3, Zenon DEF m

\* The bytes of a chunk, to the last: the line end is expected.
LEMMA FeedChunk ==
  ASSUME NEW d \in Seq(Nat), d # <<>>, NEW st, NEW b \in Seq(Nat), NEW g
  PROVE  FeedAll(Client("chunk", Len(d), st, b, g), Data(d)) = Client("chunkend", 0, st, b \o d, g)
<1> DEFINE m == "chunk"
<1>1. m \in {"body", "chunk"}
  OBVIOUS
<1> HIDE DEF m
<1>2. PICK c, x : /\ b \o d = Append(c, x)
                  /\ FeedAll(Client(m, Len(d), st, b, g), Data(d)) = Feed(Client(m, 1, st, c, g), Token("byte", x))
  <2>1. d \in Seq(Nat) /\ d # <<>> /\ b \in Seq(Nat)
    OBVIOUS
  <2>2. AllButLast(m, d, st, b, g)
    BY <1>1, <2>1, FeedAllButLast, Zenon
  <2> QED
    BY <2>2 DEF AllButLast
<1>3. Feed(Client("chunk", 1, st, c, g), Token("byte", x)) = Client("chunkend", 0, st, Append(c, x), g)
  <2>1. 1 - 1 = 0
    OBVIOUS
  <2> QED
    BY <2>1, FeedOneByte, SMTT(30)
<1> QED
  BY <1>2, <1>3, Zenon DEF m

\* A head with the length of the body, and the body.
LEMMA PlainResponse ==
  ASSUME NEW d \in Seq(Nat), NEW st \in Statuses, NEW g
  PROVE  FeedAll(Waiting(g), <<PlainHead(st, {Len(d)})>> \o Data(d)) = Waiting(Append(g, Answer(st, d)))
<1> DEFINE n == Len(d)
           k == PlainHead(st, {n})
           D == Data(d)
           none == <<>>
<1>1. n \in Nat /\ k \in Tokens /\ D \in Seq(Tokens)
  <2>1. n \in Nat /\ {n} \in SUBSET Nat
    OBVIOUS
  <2>2. k \in Tokens
    BY <2>1, TokenTypes DEF PlainHead
  <2> QED
    BY <2>1, <2>2, DataFacts
<1>2. Feed(Waiting(g), k) = IF n = 0 THEN Waiting(Append(g, Answer(st, none)))
                            ELSE Client("body", n, st, none, g)
  BY FeedPlainHead, Zenon
<1>3. FeedAll(Waiting(g), <<k>> \o D) = FeedAll(Feed(Waiting(g), k), D)
  <2> HIDE DEF k, D
  <2> QED
    BY <1>1, FeedEnds
<1>4. n = 0 => d = none /\ D = none
  BY DataFacts
<1>5. n # 0 => d # none /\ none \in Seq(Nat) /\ none \o d = d
  OBVIOUS
<1>6. \A c : FeedAll(c, none) = c
  BY FeedNone
<1>7. n # 0 => FeedAll(Client("body", n, st, none, g), D) = Waiting(Append(g, Answer(st, d)))
  <2> SUFFICES ASSUME n # 0 PROVE FeedAll(Client("body", n, st, none, g), D) = Waiting(Append(g, Answer(st, d)))
    OBVIOUS
  <2>1. FeedAll(Client("body", n, st, none, g), D) = Waiting(Append(g, Answer(st, none \o d)))
    BY <1>5, FeedBody, Zenon
  <2> HIDE DEF none
  <2> QED
    BY <2>1, <1>5
<1> HIDE DEF n, k, D, none
<1> QED
  BY <1>2, <1>3, <1>4, <1>6, <1>7 DEF n, k, D

\* A chunk that is not empty.
LEMMA ChunkRead ==
  ASSUME NEW d \in Seq(Nat), d # <<>>, NEW st, NEW b \in Seq(Nat), NEW g
  PROVE  FeedAll(Client("size", 0, st, b, g), <<Size(Len(d))>> \o Data(d) \o <<Crlf>>)
           = Client("size", 0, st, b \o d, g)
<1> DEFINE n == Len(d)
           k == Size(n)
<1>1. n \in Nat /\ n # 0
  OBVIOUS
<1>2. k \in Tokens /\ Crlf \in Tokens /\ Data(d) \in Seq(Tokens)
  BY <1>1, TokenTypes, DataFacts
<1>3. Feed(Client("size", 0, st, b, g), k) = Client("chunk", n, st, b, g)
  BY <1>1, FeedSize
<1> DEFINE bb == b \o d
<1>4. \A c : Feed(Client("chunkend", 0, st, c, g), Crlf) = Client("size", 0, st, c, g)
  BY FeedLineEnd
<1>5. FeedAll(Client("chunk", n, st, b, g), Data(d)) = Client("chunkend", 0, st, bb, g)
  <2>1. d \in Seq(Nat) /\ d # <<>> /\ b \in Seq(Nat)
    OBVIOUS
  <2>2. FeedAll(Client("chunk", Len(d), st, b, g), Data(d)) = Client("chunkend", 0, st, b \o d, g)
    BY <2>1, FeedChunk, ZenonT(30)
  <2> QED
    BY <2>2
<1> DEFINE D == Data(d)
           K == <<k>> \o D
<1> HIDE DEF n, bb, k, D
<1>6. K \in Seq(Tokens) /\ FeedAll(Client("size", 0, st, b, g), K) = Client("chunkend", 0, st, bb, g)
  BY <1>2, <1>3, <1>5, FeedEnds DEF D
<1> HIDE DEF K
<1>7. FeedAll(Client("size", 0, st, b, g), K \o <<Crlf>>) = Feed(Client("chunkend", 0, st, bb, g), Crlf)
  BY <1>2, <1>6, FeedEnds
<1> QED
  BY <1>4, <1>7 DEF K, D, k, n, bb

\* The empty lines behind a response, and the last chunk before them.
LEMMA ResponseEnds ==
  /\ \A g : FeedAll(Waiting(g), <<Crlf>>) = Waiting(g)
  /\ \A g, st, b : FeedAll(Client("size", 0, st, b, g), <<Size(0), Crlf>> \o <<Crlf>>)
                     = Waiting(Append(g, Answer(st, b)))
<1>1. \A g : Feed(Waiting(g), Crlf) = Waiting(g)
  BY FeedEmptyLine
<1>2. ASSUME NEW g, NEW st, NEW b
      PROVE  FeedAll(Client("size", 0, st, b, g), <<Size(0), Crlf>> \o <<Crlf>>)
               = Waiting(Append(g, Answer(st, b)))
  <2>1. Size(0) \in Tokens /\ Crlf \in Tokens
    BY TokenTypes
  <2>2. /\ <<Size(0)>> \in Seq(Tokens) /\ <<Size(0), Crlf>> = Append(<<Size(0)>>, Crlf)
        /\ <<Size(0), Crlf>> \in Seq(Tokens) /\ <<Crlf>> \in Seq(Tokens)
    BY <2>1
  <2>3. Feed(Client("size", 0, st, b, g), Size(0)) = Client("last", 0, st, b, g)
    BY FeedSize
  <2>4. Feed(Client("last", 0, st, b, g), Crlf) = Waiting(Append(g, Answer(st, b)))
    BY FeedLineEnd
  <2>5. FeedAll(Client("size", 0, st, b, g), <<Size(0)>>) = Client("last", 0, st, b, g)
    BY <2>3, FeedOne
  <2>6. FeedAll(Client("size", 0, st, b, g), <<Size(0), Crlf>>) = Waiting(Append(g, Answer(st, b)))
    BY <2>1, <2>2, <2>4, <2>5, FeedLast
  <2> DEFINE w == <<Size(0), Crlf>>
  <2>7. w \in Seq(Tokens)
    BY <2>2
  <2> HIDE DEF w
  <2>8. FeedAll(Client("size", 0, st, b, g), w \o <<Crlf>>)
          = Feed(FeedAll(Client("size", 0, st, b, g), w), Crlf)
    BY <2>1, <2>7, FeedEnds
  <2> QED
    BY <2>6, <2>8, <1>1 DEF w
<1> QED
  BY <1>1, <1>2, FeedOne

-----------------------------------------------------------------------------
(* The operations of a connection: what each returns, and that the client  *)
(* has then read what the connection says was written.                     *)

\* The states of a Connection object.
Connections ==
  [header_sent : BOOLEAN, finished : BOOLEAN, chunked : BOOLEAN, buffered : BOOLEAN,
   outbuf : Seq(Nat), status : Statuses, clen : SUBSET Nat, hex : BOOLEAN,
   caching : BOOLEAN, cachefile : Seq(Nat)]

\* What no operation but those of the setup changes.
Alike(a, b) ==
  /\ a.chunked = b.chunked /\ a.buffered = b.buffered /\ a.status = b.status
  /\ a.clen = b.clen /\ a.caching = b.caching

\* A portion as a chunk.
Chunk(d) == <<Size(Len(d))>> \o Data(d) \o <<Crlf>>

\* The head is sent once; what is left is the connection that has sent it.
LEMMA EnsureHeaderResult ==
  ASSUME NEW c \in Connections, NEW n, NEW f \in Failures, NEW r, r = EnsureHeader(c, n, f)
  PROVE  /\ c.header_sent => r.x = "ok" /\ r.c = c /\ r.w = <<>>
         /\ ~c.header_sent =>
              \/ r.x = "InputFailure" /\ f # "none" /\ r.c = c
              \/ /\ r.x = "ok" /\ r.c \in Connections /\ r.c = [c EXCEPT !.header_sent = TRUE]
  BY DEF EnsureHeader, send_header, Ok, Throw, Ends, Connections, Failures

\* What a write of a portion leaves of the connection, whether it fails or not.
LEMMA WriteBodyResult ==
  ASSUME NEW c \in Connections, NEW d \in Seq(Nat), NEW f \in Failures, NEW r, r = WriteBody(c, d, f)
  PROVE  /\ r.c \in Connections /\ Alike(r.c, c)
         /\ r.c.header_sent = c.header_sent /\ r.c.finished = c.finished /\ r.c.outbuf = c.outbuf
         /\ r.x = IF f = "none" THEN "ok" ELSE "InputFailure"
         /\ r.x = "ok" => /\ r.w = IF c.chunked THEN Chunk(d) ELSE Data(d)
                          /\ c.caching => r.c.cachefile = c.cachefile \o d
         /\ ~c.caching => r.c.cachefile = c.cachefile
         /\ ~c.chunked => r.c.hex = c.hex
<1> DEFINE h == [c EXCEPT !.hex = @ \/ c.chunked]
           k == IF c.caching THEN [h EXCEPT !.cachefile = @ \o d] ELSE h
<1>1. h \in Connections /\ Alike(h, c) /\ h.header_sent = c.header_sent /\ h.finished = c.finished
      /\ h.outbuf = c.outbuf /\ h.cachefile = c.cachefile /\ (~c.chunked => h.hex = c.hex)
      /\ h.caching = c.caching
  BY DEF Connections, Alike
<1> HIDE DEF h
<1>2. c.cachefile \in Seq(Nat) /\ c.cachefile \o d \in Seq(Nat)
  BY DEF Connections
<1>3. k \in Connections /\ Alike(k, c) /\ k.header_sent = c.header_sent /\ k.finished = c.finished
      /\ k.outbuf = c.outbuf /\ k.cachefile = (IF c.caching THEN c.cachefile \o d ELSE c.cachefile)
      /\ (~c.chunked => k.hex = c.hex)
  BY <1>1, <1>2 DEF Connections, Alike
<1> HIDE DEF k
<1> DEFINE w == IF c.chunked THEN Chunk(d) ELSE Data(d)
<1>4. r = CASE f \in {"first", "data"} -> Throw(c, "InputFailure")
            [] f = "tail"              -> Ends(k, w, "InputFailure")
            [] OTHER                   -> Ok(k, w)
  BY DEF WriteBody, Chunk, k, h
<1> HIDE DEF w
<1>5. c \in Connections /\ Alike(c, c)
  BY DEF Alike
<1>6. CASE f = "none"
  <2>1. r.c = k /\ r.w = w /\ r.x = "ok"
    BY <1>4, <1>6 DEF Ok, Ends
  <2> QED
    BY <1>3, <1>6, <2>1 DEF w
<1>7. CASE f # "none"
  <2>1. r.c \in {c, k} /\ r.x = "InputFailure"
    BY <1>4, <1>7 DEF Throw, Ends, Failures
  <2> QED
    BY <1>3, <1>5, <1>7, <2>1
<1> QED
  BY <1>6, <1>7

\* A head if none was sent, and a body behind it.
HeadBody(c, n, d, f) == Then(EnsureHeader(c, n, f), LAMBDA a : WriteBody(a, d, f))

\* The same of a portion behind its head.
LEMMA HeadBodyResult ==
  ASSUME NEW c \in Connections, NEW n, NEW d \in Seq(Nat), NEW f \in Failures,
         NEW r, r = HeadBody(c, n, d, f)
  PROVE  /\ r.c \in Connections /\ Alike(r.c, c)
         /\ r.c.finished = c.finished /\ r.c.outbuf = c.outbuf
         /\ r.x = IF f = "none" THEN "ok" ELSE "InputFailure"
         /\ r.x = "ok" => /\ c.caching => r.c.cachefile = c.cachefile \o d
                          /\ r.c.header_sent
         /\ ~c.caching => r.c.cachefile = c.cachefile
         /\ ~c.chunked => r.c.hex = c.hex
<1> DEFINE e == EnsureHeader(c, n, f)
           a == e.c
           q == WriteBody(a, d, f)
<1>1. /\ e.x = "ok" => /\ a \in Connections /\ Alike(a, c) /\ a.finished = c.finished
                       /\ a.outbuf = c.outbuf /\ a.cachefile = c.cachefile /\ a.hex = c.hex
                       /\ a.header_sent
      /\ e.x # "ok" => e.x = "InputFailure" /\ f # "none" /\ e.c = c
  <2> HIDE DEF e
  <2>0. e = EnsureHeader(c, n, f)
    BY DEF e
  <2>1. /\ c.header_sent => e.x = "ok" /\ e.c = c /\ e.w = <<>>
        /\ ~c.header_sent =>
              \/ e.x = "InputFailure" /\ f # "none" /\ e.c = c
              \/ e.x = "ok" /\ e.c \in Connections /\ e.c = [c EXCEPT !.header_sent = TRUE]
    BY <2>0, EnsureHeaderResult
  <2> QED
    BY <2>1 DEF Connections, Alike
<1>2. r = IF e.x # "ok" THEN e ELSE [q EXCEPT !.w = e.w \o q.w]
  BY DEF HeadBody, Then
<1>3. CASE e.x # "ok"
  <2>1. r.x = "InputFailure" /\ f # "none" /\ r.c = c /\ Alike(c, c)
    BY <1>1, <1>2, <1>3 DEF Alike
  <2> QED
    BY <2>1
<1>4. CASE e.x = "ok"
  <2> HIDE DEF e, a
  <2>1. /\ q.c \in Connections /\ Alike(q.c, a)
        /\ q.c.header_sent = a.header_sent /\ q.c.finished = a.finished /\ q.c.outbuf = a.outbuf
        /\ q.x = IF f = "none" THEN "ok" ELSE "InputFailure"
        /\ q.x = "ok" => /\ q.w = IF a.chunked THEN Chunk(d) ELSE Data(d)
                         /\ a.caching => q.c.cachefile = a.cachefile \o d
        /\ ~a.caching => q.c.cachefile = a.cachefile
        /\ ~a.chunked => q.c.hex = a.hex
    BY <1>1, <1>4, WriteBodyResult
  <2>2. r.c = q.c /\ r.x = q.x /\ r.w = e.w \o q.w
    <3>1. \A y : LET z == [q EXCEPT !.w = y] IN z.c = q.c /\ z.x = q.x /\ z.w = y
      BY DEF WriteBody, Throw, Ends, Ok
    <3> HIDE DEF q
    <3> QED
      BY <1>2, <1>4, <3>1
  <2> HIDE DEF q
  <2> QED
    BY <1>1, <1>4, <2>1, <2>2 DEF Alike, e
<1> QED
  BY <1>3, <1>4

\* What is written is the head and the portion, as a chunk if the transfer is chunked.
LEMMA HeadBodyTokens ==
  ASSUME NEW c \in Connections, NEW n, NEW d \in Seq(Nat), NEW r, r = HeadBody(c, n, d, "none")
  PROVE  r.w = EnsureHeader(c, n, "none").w \o (IF c.chunked THEN Chunk(d) ELSE Data(d))
<1> DEFINE e == EnsureHeader(c, n, "none")
           a == e.c
           q == WriteBody(a, d, "none")
<1>1. e.x = "ok" /\ a.chunked = c.chunked
  BY DEF EnsureHeader, send_header, Ok, Throw, Ends, Connections
<1>2. r = [q EXCEPT !.w = e.w \o q.w]
  BY <1>1 DEF HeadBody, Then
<1>3. q.w = IF a.chunked THEN Chunk(d) ELSE Data(d)
  BY DEF WriteBody, Ok, Ends, Chunk
<1>4. \A y : [q EXCEPT !.w = y].w = y
  BY DEF WriteBody, Ok, Ends
<1> HIDE DEF q, e, a
<1> QED
  BY <1>1, <1>2, <1>3, <1>4 DEF e

HeadLength(c, n) == IF c.buffered /\ c.outbuf # <<>> THEN Len(c.outbuf) ELSE n % SizeMod

\* The head says chunked, or gives the handler's lengths and the one of the call.
LEMMA HeadSent ==
  ASSUME NEW c \in Connections, NEW n, NEW f \in Failures, ~c.header_sent,
         EnsureHeader(c, n, f).x = "ok"
  PROVE  EnsureHeader(c, n, f).w = << IF c.chunked THEN ChunkedHead(c.status, c.clen)
                                      ELSE PlainHead(c.status, c.clen \cup {HeadLength(c, n)}) >>
<1> DEFINE lens == IF c.chunked THEN c.clen ELSE c.clen \cup {HeadLength(c, n)}
           k == HeadToken(c.status, c.chunked, lens)
<1>1. EnsureHeader(c, n, f).w = <<k>>
  BY DEF EnsureHeader, send_header, Ok, Throw, Ends, HeadLength
<1>2. CASE c.chunked
  <2>1. c.chunked = TRUE
    BY <1>2 DEF Connections
  <2>2. k = ChunkedHead(c.status, c.clen)
    BY <2>1 DEF ChunkedHead
  <2> QED
    BY <1>1, <1>2, <2>2
<1>3. CASE ~c.chunked
  <2>1. c.chunked = FALSE
    BY <1>3 DEF Connections
  <2>2. k = PlainHead(c.status, c.clen \cup {HeadLength(c, n)})
    BY <2>1 DEF PlainHead
  <2> QED
    BY <1>1, <1>3, <2>2
<1> QED
  BY <1>2, <1>3

\* What the client has made of the connection c, when it had got g before the
\* response and b is the body that was written.
Seen(c, g, b) ==
  IF ~c.header_sent THEN Waiting(g)
  ELSE IF c.chunked THEN Client("size", 0, c.status, b, g)
  ELSE Waiting(Append(g, Answer(c.status, b)))

\* The head gives one length, and it is the length of d.
Measured(c, n, d) == c.clen \cup {HeadLength(c, n)} = {Len(d)}

\* d may be written next, behind the body b: it is the whole body, or a chunk.
Fits(c, n, d, b) ==
  /\ c.header_sent => c.chunked
  /\ ~c.header_sent => b = <<>>
  /\ c.chunked => d # <<>>
  /\ ~c.chunked => Measured(c, n, d)

\* The client has read what the connection says was written.
LEMMA HeadBodySeen ==
  ASSUME NEW c \in Connections, NEW n, NEW d \in Seq(Nat), NEW f \in Failures,
         NEW r, r = HeadBody(c, n, d, f), r.x = "ok",
         NEW g, NEW b \in Seq(Nat), Fits(c, n, d, b)
  PROVE  FeedAll(Seen(c, g, b), r.w) = Seen(r.c, g, b \o d)
<1> USE DEF Fits
<1> DEFINE e == EnsureHeader(c, n, f)
           st == c.status
           bd == b \o d
<1>1. /\ r.c.header_sent /\ r.c.chunked = c.chunked /\ r.c.status = st
      /\ r.w = e.w \o (IF c.chunked THEN Chunk(d) ELSE Data(d)) /\ f = "none"
  <2> HIDE DEF st
  <2>1. /\ r.c \in Connections /\ Alike(r.c, c)
        /\ r.x = IF f = "none" THEN "ok" ELSE "InputFailure"
        /\ r.x = "ok" => r.c.header_sent
    BY HeadBodyResult
  <2>2. f = "none"
    BY <2>1
  <2>3. r.w = e.w \o (IF c.chunked THEN Chunk(d) ELSE Data(d))
    BY <2>2, HeadBodyTokens
  <2> HIDE DEF e
  <2> QED
    BY <2>1, <2>2, <2>3 DEF Alike, st
<1>2. st \in Statuses /\ c.chunked \in BOOLEAN /\ c.clen \in SUBSET Nat
  BY DEF Connections
<1>3. c.header_sent => e.w = <<>>
  BY DEF EnsureHeader, Ok, Ends
<1>4. ~c.header_sent => e.w = << IF c.chunked THEN ChunkedHead(st, c.clen)
                                 ELSE PlainHead(st, c.clen \cup {HeadLength(c, n)}) >>
  <2> SUFFICES ASSUME ~c.header_sent PROVE e.w = << IF c.chunked THEN ChunkedHead(st, c.clen)
                                 ELSE PlainHead(st, c.clen \cup {HeadLength(c, n)}) >>
    OBVIOUS
  <2>1. e.x = "ok"
    BY <1>1 DEF EnsureHeader, send_header, Ok, Throw, Ends
  <2> QED
    BY <2>1, HeadSent, Zenon
<1>5. Data(d) \in Seq(Tokens) /\ Crlf \in Tokens /\ Size(Len(d)) \in Tokens
      /\ ChunkedHead(st, c.clen) \in Tokens
  <2>1. Len(d) \in Nat
    OBVIOUS
  <2> QED
    BY <2>1, <1>2, DataFacts, TokenTypes DEF ChunkedHead
<1>6. Chunk(d) \in Seq(Tokens)
  <2> DEFINE D == Data(d)
             k == Size(Len(d))
             l == Crlf
  <2>1. D \in Seq(Tokens) /\ k \in Tokens /\ l \in Tokens
    BY <1>5
  <2> HIDE DEF D, k, l
  <2>2. <<k>> \o D \o <<l>> \in Seq(Tokens)
    BY <2>1
  <2> QED
    BY <2>2 DEF Chunk, D, k, l
<1> HIDE DEF e
<1>7. CASE c.chunked
  <2>1. FeedAll(Client("size", 0, st, b, g), Chunk(d)) = Client("size", 0, st, bd, g)
    BY <1>7, ChunkRead DEF Chunk
  <2>2. Seen(r.c, g, bd) = Client("size", 0, st, bd, g)
    BY <1>1, <1>7 DEF Seen
  <2>3. CASE c.header_sent
    <3>1. Seen(c, g, b) = Client("size", 0, st, b, g)
      BY <1>7, <2>3 DEF Seen
    <3>2. r.w = Chunk(d)
      <4> DEFINE D == Chunk(d)
      <4>1. D \in Seq(Tokens) /\ r.w = <<>> \o D
        BY <1>1, <1>3, <1>6, <1>7, <2>3
      <4> HIDE DEF D
      <4>2. r.w = D
        BY <4>1
      <4> QED
        BY <4>2 DEF D
    <3> QED
      BY <2>1, <2>2, <3>1, <3>2, Zenon
  <2>4. CASE ~c.header_sent
    <3> DEFINE k == ChunkedHead(st, c.clen)
               D == Chunk(d)
               none == <<>>
    <3>1. Seen(c, g, b) = Waiting(g) /\ b = none
      BY <2>4 DEF Seen
    <3>2. r.w = <<k>> \o D
      BY <1>1, <1>4, <1>7, <2>4
    <3>3. k \in Tokens /\ D \in Seq(Tokens)
      BY <1>5, <1>6
    <3>4. Feed(Waiting(g), k) = Client("size", 0, st, none, g)
      BY FeedChunkedHead
    <3> HIDE DEF k, D, st, bd, none
    <3>5. FeedAll(Waiting(g), <<k>> \o D) = FeedAll(Feed(Waiting(g), k), D)
      BY <3>3, FeedEnds
    <3>6. FeedAll(Waiting(g), r.w) = FeedAll(Client("size", 0, st, none, g), D)
      BY <3>2, <3>4, <3>5, Zenon
    <3>7. FeedAll(Waiting(g), r.w) = Seen(r.c, g, bd)
      BY <3>1, <3>6, <2>1, <2>2, Zenon DEF D
    <3> QED
      BY <3>1, <3>7, Zenon DEF bd
  <2> QED
    BY <2>3, <2>4
<1>8. CASE ~c.chunked
  <2>1. ~c.header_sent /\ b = <<>> /\ bd = d
    <3>1. ~c.header_sent /\ b = <<>>
      BY <1>8
    <3>2. <<>> \o d = d
      OBVIOUS
    <3> QED
      BY <3>1, <3>2 DEF bd
  <2>2. Seen(c, g, b) = Waiting(g) /\ Seen(r.c, g, d) = Waiting(Append(g, Answer(st, d)))
    BY <1>1, <1>8, <2>1 DEF Seen
  <2>3. r.w = <<PlainHead(st, {Len(d)})>> \o Data(d)
    BY <1>1, <1>4, <1>8, <2>1 DEF Measured
  <2>4. FeedAll(Waiting(g), <<PlainHead(st, {Len(d)})>> \o Data(d)) = Waiting(Append(g, Answer(st, d)))
    BY <1>2, PlainResponse
  <2> HIDE DEF st, bd
  <2> QED
    BY <2>1, <2>2, <2>3, <2>4
<1> QED
  BY <1>7, <1>8

\* What is written of a head are tokens.
LEMMA EnsureHeaderTokens ==
  ASSUME NEW c \in Connections, NEW n \in Int, NEW f \in Failures
  PROVE  EnsureHeader(c, n, f).w \in Seq(Tokens)
<1> DEFINE e == EnsureHeader(c, n, f)
<1>1. CASE c.header_sent \/ e.x # "ok"
  BY <1>1 DEF EnsureHeader, send_header, Ok, Throw, Ends
<1>2. CASE ~c.header_sent /\ e.x = "ok"
  <2> DEFINE k == IF c.chunked THEN ChunkedHead(c.status, c.clen)
                  ELSE PlainHead(c.status, c.clen \cup {HeadLength(c, n)})
  <2>1. e.w = <<k>>
    BY <1>2, HeadSent
  <2>2. k \in Tokens
    <3>1. c.status \in Statuses /\ c.clen \in SUBSET Nat /\ c.outbuf \in Seq(Nat)
      BY DEF Connections
    <3>2. HeadLength(c, n) \in Nat
      <4>1. n % SizeMod \in Nat
        BY ResponseAssumption
      <4>2. Len(c.outbuf) \in Nat
        BY <3>1
      <4> QED
        BY <4>1, <4>2 DEF HeadLength
    <3> QED
      BY <3>1, <3>2, TokenTypes DEF ChunkedHead, PlainHead
  <2> HIDE DEF k, e
  <2> QED
    BY <2>1, <2>2 DEF e
<1> QED
  BY <1>1, <1>2

\* What is written of a portion are tokens.
LEMMA ChunkTokens == \A d \in Seq(Nat) : Chunk(d) \in Seq(Tokens) /\ Data(d) \in Seq(Tokens)
<1> SUFFICES ASSUME NEW d \in Seq(Nat) PROVE Chunk(d) \in Seq(Tokens) /\ Data(d) \in Seq(Tokens)
  OBVIOUS
<1> DEFINE D == Data(d)
           k == Size(Len(d))
           l == Crlf
<1>1. D \in Seq(Tokens) /\ k \in Tokens /\ l \in Tokens
  <2>1. Len(d) \in Nat
    OBVIOUS
  <2> QED
    BY <2>1, DataFacts, TokenTypes
<1> HIDE DEF D, k, l
<1>2. <<k>> \o D \o <<l>> \in Seq(Tokens)
  BY <1>1
<1> QED
  BY <1>1, <1>2 DEF Chunk, D, k, l

\* A head alone: the first chunk is to come, or there is no body.
LEMMA HeadSeen ==
  ASSUME NEW c \in Connections, NEW n \in Int, NEW f \in Failures,
         NEW r, r = EnsureHeader(c, n, f), r.x = "ok",
         NEW g, NEW b \in Seq(Nat),
         ~c.header_sent => b = <<>>,
         ~c.header_sent /\ ~c.chunked => c.clen \cup {HeadLength(c, n)} = {0}
  PROVE  FeedAll(Seen(c, g, b), r.w) = Seen(r.c, g, b)
<1>1. CASE c.header_sent
  <2>1. r.w = <<>> /\ r.c = c
    BY <1>1 DEF EnsureHeader, Ok, Ends
  <2> QED
    BY <2>1, FeedNone
<1>2. CASE ~c.header_sent
  <2> DEFINE k == IF c.chunked THEN ChunkedHead(c.status, c.clen) ELSE PlainHead(c.status, {0})
  <2>1. r.w = <<k>>
    BY <1>2, HeadSent
  <2>2. r.c = [c EXCEPT !.header_sent = TRUE]
    BY <1>2 DEF EnsureHeader, send_header, Ok, Throw, Ends
  <2>3. r.c.header_sent /\ r.c.chunked = c.chunked /\ r.c.status = c.status
    BY <2>2 DEF Connections
  <2>4. c.chunked => Feed(Waiting(g), k) = Client("size", 0, c.status, <<>>, g)
    BY FeedChunkedHead
  <2>5. ~c.chunked => Feed(Waiting(g), k) = Waiting(Append(g, Answer(c.status, <<>>)))
    BY FeedPlainHead
  <2> HIDE DEF k
  <2>6. Seen(c, g, b) = Waiting(g) /\ b = <<>>
    BY <1>2 DEF Seen
  <2>7. FeedAll(Waiting(g), <<k>>) = Feed(Waiting(g), k)
    BY FeedOne
  <2>8. Seen(r.c, g, b) = IF c.chunked THEN Client("size", 0, c.status, <<>>, g)
                          ELSE Waiting(Append(g, Answer(c.status, <<>>)))
    BY <2>3, <2>6, Zenon DEF Seen
  <2> QED
    BY <2>1, <2>4, <2>5, <2>6, <2>7, <2>8, Zenon
<1> QED
  BY <1>1, <1>2

\* The end of an operation that writes: a transfer that is not chunked is over.
Finish(p) == Then(p, FinishUnlessChunked)

\* What the end of an operation leaves of the connection.
LEMMA FinishResult ==
  ASSUME NEW p, p.c \in Connections, NEW r, r = Finish(p)
  PROVE  /\ p.x # "ok" => r = p
         /\ p.x = "ok" =>
              /\ r.x = "ok" /\ r.c \in Connections /\ Alike(r.c, p.c)
              /\ r.c.header_sent = p.c.header_sent /\ r.c.outbuf = p.c.outbuf
              /\ r.c.cachefile = p.c.cachefile /\ r.c.hex = p.c.hex
              /\ r.c.finished = (p.c.finished \/ ~p.c.chunked)
              /\ p.w \in Seq(Tokens) => r.w = p.w
<1> DEFINE d == [p.c EXCEPT !.finished = @ \/ ~p.c.chunked]
<1>1. /\ d \in Connections /\ Alike(d, p.c)
      /\ d.header_sent = p.c.header_sent /\ d.outbuf = p.c.outbuf
      /\ d.cachefile = p.c.cachefile /\ d.hex = p.c.hex
      /\ d.finished = (p.c.finished \/ ~p.c.chunked)
  BY DEF Connections, Alike
<1> HIDE DEF d
<1>2. r = IF p.x # "ok" THEN p ELSE [Ok(d, <<>>) EXCEPT !.w = p.w \o @]
  BY DEF Finish, Then, FinishUnlessChunked, d, Ok, Ends
<1>3. p.x = "ok" => r.c = d /\ r.x = "ok" /\ r.w = p.w \o <<>>
  BY <1>2 DEF Ok, Ends
<1>4. p.w \in Seq(Tokens) => p.w \o <<>> = p.w
  OBVIOUS
<1>5. p.x = "ok" => (p.w \in Seq(Tokens) => r.w = p.w)
  BY <1>3, <1>4
<1> QED
  BY <1>1, <1>2, <1>3, <1>5

Empties(p) == Then(p, LAMBDA b : Ok([b EXCEPT !.outbuf = <<>>], <<>>))

\* What is left when the buffer was written.
LEMMA EmptiesResult ==
  ASSUME NEW p, p.c \in Connections, p.w \in Seq(Tokens), NEW r, r = Empties(p)
  PROVE  /\ p.x # "ok" => r = p
         /\ p.x = "ok" =>
              /\ r.x = "ok" /\ r.c \in Connections /\ Alike(r.c, p.c)
              /\ r.c.header_sent = p.c.header_sent /\ r.c.outbuf = <<>>
              /\ r.c.cachefile = p.c.cachefile /\ r.c.hex = p.c.hex
              /\ r.c.finished = p.c.finished
              /\ r.w = p.w
<1> DEFINE c == p.c
           d == [c EXCEPT !.outbuf = <<>>]
<1> HIDE DEF c
<1>1. /\ d \in Connections /\ Alike(d, c)
      /\ d.header_sent = c.header_sent /\ d.outbuf = <<>>
      /\ d.cachefile = c.cachefile /\ d.hex = c.hex
      /\ d.finished = c.finished
  <2>1. c \in Connections
    BY DEF c
  <2>2. <<>> \in Seq(Nat)
    OBVIOUS
  <2> QED
    BY <2>1, <2>2 DEF Connections, Alike
<1> USE DEF c
<1> HIDE DEF d
<1>2. r = IF p.x # "ok" THEN p ELSE [Ok(d, <<>>) EXCEPT !.w = p.w \o @]
  BY DEF Empties, Then, d, Ok, Ends
<1>3. p.x = "ok" => r.c = d /\ r.x = "ok" /\ r.w = p.w \o <<>>
  BY <1>2 DEF Ok, Ends
<1>4. p.w \o <<>> = p.w
  OBVIOUS
<1> QED
  BY <1>1, <1>2, <1>3, <1>4

\* What is written of a portion are tokens, whether the write fails or not.
LEMMA WriteBodyTokens ==
  ASSUME NEW c \in Connections, NEW d \in Seq(Nat), NEW f \in Failures
  PROVE  WriteBody(c, d, f).w \in Seq(Tokens)
<1> DEFINE w == IF c.chunked THEN Chunk(d) ELSE Data(d)
<1>1. w \in Seq(Tokens)
  BY ChunkTokens
<1>2. WriteBody(c, d, f).w \in {w, <<>>}
  BY DEF WriteBody, Chunk, Ok, Throw, Ends, Failures
<1>3. <<>> \in Seq(Tokens)
  OBVIOUS
<1> HIDE DEF w
<1> QED
  BY <1>1, <1>2, <1>3, Zenon

\* What flush() does before it declares the transfer finished.
FlushBody(c, f) ==
  Then(EnsureHeader(c, 0, f),
       LAMBDA a : IF a.outbuf = <<>> THEN (IF f = "none" THEN Ok(a, <<>>) ELSE Throw(a, "InputFailure"))
                  ELSE IF a.finished THEN Throw(a, "Error")
                  ELSE Empties(WriteBody(a, a.outbuf, f)))

\* The cases of flush(): no head, no buffer, a transfer that is finished, a buffer.
LEMMA FlushBodyCases ==
  ASSUME NEW c \in Connections, NEW f \in Failures
  PROVE  LET e == EnsureHeader(c, 0, f)
             p == FlushBody(c, f)
         IN  /\ e.x # "ok" => p = e
             /\ e.x = "ok" /\ c.outbuf = <<>> /\ f = "none" => p = Ok(e.c, e.w \o <<>>)
             /\ e.x = "ok" /\ c.outbuf = <<>> /\ f # "none" => p = Ends(e.c, e.w \o <<>>, "InputFailure")
             /\ e.x = "ok" /\ c.outbuf # <<>> /\ c.finished => p = Ends(e.c, e.w \o <<>>, "Error")
             /\ e.x = "ok" /\ c.outbuf # <<>> /\ ~c.finished =>
                  p = [Empties(WriteBody(e.c, c.outbuf, f)) EXCEPT !.w = e.w \o @]
<1> DEFINE e == EnsureHeader(c, 0, f)
           p == FlushBody(c, f)
           Goal == /\ e.x # "ok" => p = e
                   /\ e.x = "ok" /\ c.outbuf = <<>> /\ f = "none" => p = Ok(e.c, e.w \o <<>>)
                   /\ e.x = "ok" /\ c.outbuf = <<>> /\ f # "none" => p = Ends(e.c, e.w \o <<>>, "InputFailure")
                   /\ e.x = "ok" /\ c.outbuf # <<>> /\ c.finished => p = Ends(e.c, e.w \o <<>>, "Error")
                   /\ e.x = "ok" /\ c.outbuf # <<>> /\ ~c.finished =>
                        p = [Empties(WriteBody(e.c, c.outbuf, f)) EXCEPT !.w = e.w \o @]
<1> SUFFICES Goal
  OBVIOUS
<1>1. e.x = "ok" => e.c.outbuf = c.outbuf /\ e.c.finished = c.finished
  BY DEF EnsureHeader, send_header, Ok, Throw, Ends, Connections
<1> DEFINE q == IF e.c.outbuf = <<>> THEN (IF f = "none" THEN Ok(e.c, <<>>) ELSE Throw(e.c, "InputFailure"))
                ELSE IF e.c.finished THEN Throw(e.c, "Error")
                ELSE Empties(WriteBody(e.c, e.c.outbuf, f))
<1>4. p = IF e.x # "ok" THEN e ELSE [q EXCEPT !.w = e.w \o q.w]
  BY DEF FlushBody, Then
<1> HIDE DEF e, p
<1>5. CASE e.x # "ok"
  BY <1>4, <1>5
<1>6. CASE e.x = "ok" /\ c.outbuf = <<>>
  <2> DEFINE x == IF f = "none" THEN "ok" ELSE "InputFailure"
             none == <<>>
  <2>1. q = Ends(e.c, none, x)
    BY <1>1, <1>6 DEF Ok, Throw
  <2> HIDE DEF q, x, none
  <2>2. p = Ends(e.c, e.w \o none, x)
    <3>1. q.w = none
      BY <2>1 DEF Ends
    <3>2. \A y : [q EXCEPT !.w = y] = Ends(e.c, y, x)
      BY <2>1 DEF Ends
    <3> QED
      BY <3>1, <3>2, <1>4, <1>6
  <2> USE DEF x, none
  <2> QED
    BY <2>2, <1>6 DEF Ok
<1>7. CASE e.x = "ok" /\ c.outbuf # <<>> /\ c.finished
  <2> DEFINE none == <<>>
  <2>1. q = Ends(e.c, none, "Error")
    BY <1>1, <1>7 DEF Throw
  <2> HIDE DEF q, none
  <2>2. p = Ends(e.c, e.w \o none, "Error")
    <3>1. q.w = none
      BY <2>1 DEF Ends
    <3>2. \A y : [q EXCEPT !.w = y] = Ends(e.c, y, "Error")
      BY <2>1 DEF Ends
    <3> QED
      BY <3>1, <3>2, <1>4, <1>7
  <2> USE DEF none
  <2> QED
    BY <2>2, <1>7
<1>8. CASE e.x = "ok" /\ c.outbuf # <<>> /\ ~c.finished
  <2>1. q = Empties(WriteBody(e.c, c.outbuf, f))
    BY <1>1, <1>8
  <2> HIDE DEF q
  <2> QED
    BY <2>1, <1>4, <1>8
<1> QED
  BY <1>5, <1>6, <1>7, <1>8

\* flush() refuses a transfer that is finished before its head was sent.
LEMMA FlushCases ==
  ASSUME NEW c, NEW f
  PROVE  flush(c, f) = IF ~c.header_sent /\ c.finished THEN Throw(c, "Error") ELSE Finish(FlushBody(c, f))
  BY DEF flush, FlushBody, Empties, Finish

\* q has the fields of a result and no other.
Result(q) == q = Ends(q.c, q.w, q.x)

\* Every way to end an operation is a result.
LEMMA ResultFacts ==
  \A c, w, x : Result(Ends(c, w, x)) /\ Result(Ok(c, w)) /\ Result(Throw(c, x))
  BY DEF Result, Ok, Throw, Ends

\* A result with other tokens.
LEMMA ResultWith ==
  ASSUME NEW q, Result(q), NEW y, NEW p, p = [q EXCEPT !.w = y]
  PROVE  p.c = q.c /\ p.x = q.x /\ p.w = y /\ Result(p)
<1>1. p = Ends(q.c, y, q.x)
  BY DEF Result, Ends
<1>2. p.c = q.c /\ p.x = q.x /\ p.w = y
  BY <1>1 DEF Ends
<1> QED
  BY <1>1, <1>2 DEF Result

\* A write of a portion has a result.
LEMMA WriteBodyIsResult == \A c, d, f : Result(WriteBody(c, d, f))
<1> SUFFICES ASSUME NEW c, NEW d, NEW f PROVE Result(WriteBody(c, d, f))
  OBVIOUS
<1> DEFINE h == [c EXCEPT !.hex = @ \/ c.chunked]
           k == IF c.caching THEN [h EXCEPT !.cachefile = @ \o d] ELSE h
           w == IF c.chunked THEN <<Size(Len(d))>> \o Data(d) \o <<Crlf>> ELSE Data(d)
<1>1. WriteBody(c, d, f) = CASE f \in {"first", "data"} -> Throw(c, "InputFailure")
                             [] f = "tail"              -> Ends(k, w, "InputFailure")
                             [] OTHER                   -> Ok(k, w)
  BY DEF WriteBody
<1> HIDE DEF h, k, w
<1> QED
  BY <1>1, ResultFacts

\* Two operations in a row have a result.
LEMMA ThenIsResult ==
  /\ \A p : Result(p) => Result(Empties(p)) /\ Result(Finish(p))
  /\ \A c, n, f : Result(EnsureHeader(c, n, f))
<1>1. ASSUME NEW p, Result(p) PROVE Result(Empties(p)) /\ Result(Finish(p))
  <2>1. \E y : Empties(p) \in {p, [Ok([p.c EXCEPT !.outbuf = <<>>], <<>>) EXCEPT !.w = y]}
    BY DEF Empties, Then
  <2>2. \E y : Finish(p) \in {p, [FinishUnlessChunked(p.c) EXCEPT !.w = y]}
    BY DEF Finish, Then
  <2>3. Result(FinishUnlessChunked(p.c)) /\ Result(Ok([p.c EXCEPT !.outbuf = <<>>], <<>>))
    BY ResultFacts DEF FinishUnlessChunked
  <2> QED
    BY <1>1, <2>1, <2>2, <2>3, ResultWith
<1>2. ASSUME NEW c, NEW n, NEW f PROVE Result(EnsureHeader(c, n, f))
  BY ResultFacts DEF EnsureHeader, send_header
<1> QED
  BY <1>1, <1>2

\* What the body of flush() leaves of the connection.
LEMMA FlushBodyResult ==
  ASSUME NEW c \in Connections, NEW f \in Failures, NEW p, p = FlushBody(c, f)
  PROVE  /\ p.c \in Connections /\ Alike(p.c, c) /\ p.c.finished = c.finished
         /\ ~c.chunked => p.c.hex = c.hex
         /\ ~c.caching => p.c.cachefile = c.cachefile
         /\ p.x \in {"ok", "InputFailure", "Error"}
         /\ p.x = "ok" => p.c.header_sent /\ p.c.outbuf = <<>> /\ f = "none"
         /\ p.x = "Error" => c.finished /\ c.outbuf # <<>>
         /\ p.w \in Seq(Tokens)
<1> DEFINE e == EnsureHeader(c, 0, f)
           o == c.outbuf
<1>1. /\ e.x = "ok" => /\ e.c \in Connections /\ Alike(e.c, c) /\ e.c.finished = c.finished
                       /\ e.c.outbuf = o /\ e.c.cachefile = c.cachefile /\ e.c.hex = c.hex
                       /\ e.c.header_sent
      /\ e.x # "ok" => e.x = "InputFailure" /\ e.c = c
  <2> HIDE DEF e
  <2>0. e = EnsureHeader(c, 0, f)
    BY DEF e
  <2>1. /\ c.header_sent => e.x = "ok" /\ e.c = c /\ e.w = <<>>
        /\ ~c.header_sent =>
              \/ e.x = "InputFailure" /\ f # "none" /\ e.c = c
              \/ e.x = "ok" /\ e.c \in Connections /\ e.c = [c EXCEPT !.header_sent = TRUE]
    BY <2>0, EnsureHeaderResult
  <2> QED
    BY <2>1 DEF Connections, Alike
<1>2. e.w \in Seq(Tokens)
  BY EnsureHeaderTokens
<1>3. o \in Seq(Nat) /\ Alike(c, c)
  BY DEF Connections, Alike
<1>4. e.w \o <<>> = e.w
  BY <1>2
<1>5. \A a, w, x : Ends(a, w, x).c = a /\ Ends(a, w, x).w = w /\ Ends(a, w, x).x = x
  BY DEF Ends
<1> DEFINE v == e.w \o <<>>
<1>10. /\ e.x # "ok" => p = e
       /\ e.x = "ok" /\ o = <<>> /\ f = "none" => p = Ok(e.c, v)
       /\ e.x = "ok" /\ o = <<>> /\ f # "none" => p = Ends(e.c, v, "InputFailure")
       /\ e.x = "ok" /\ o # <<>> /\ c.finished => p = Ends(e.c, v, "Error")
       /\ e.x = "ok" /\ o # <<>> /\ ~c.finished =>
            p = [Empties(WriteBody(e.c, o, f)) EXCEPT !.w = e.w \o @]
  <2>1. p = FlushBody(c, f)
    OBVIOUS
  <2> QED
    BY <2>1, FlushBodyCases, Zenon
<1> HIDE DEF v
<1>6. CASE e.x # "ok"
  <2>1. p = e
    BY <1>6, <1>10
  <2> HIDE DEF e, o
  <2> QED
    BY <1>1, <1>2, <1>3, <1>6, <2>1
<1>7. CASE e.x = "ok" /\ o = <<>>
  <2> HIDE DEF e, o
  <2>1. p = Ends(e.c, e.w, IF f = "none" THEN "ok" ELSE "InputFailure")
    <3>1. v = e.w
      BY <1>4 DEF v
    <3> QED
      BY <3>1, <1>7, <1>10 DEF Ok
  <2>2. p.c = e.c /\ p.w = e.w /\ p.x = IF f = "none" THEN "ok" ELSE "InputFailure"
    BY <2>1, <1>5
  <2> QED
    BY <1>1, <1>2, <1>3, <1>7, <2>2
<1>8. CASE e.x = "ok" /\ o # <<>> /\ c.finished
  <2> HIDE DEF e, o
  <2>1. p = Ends(e.c, e.w, "Error")
    <3>1. v = e.w
      BY <1>4 DEF v
    <3> QED
      BY <3>1, <1>8, <1>10
  <2>2. p.c = e.c /\ p.w = e.w /\ p.x = "Error"
    BY <2>1, <1>5
  <2> QED
    BY <1>1, <1>2, <1>3, <1>8, <2>2 DEF o
<1>9. CASE e.x = "ok" /\ o # <<>> /\ ~c.finished
  <2> DEFINE q == WriteBody(e.c, o, f)
             s == Empties(q)
  <2>1. p = [s EXCEPT !.w = e.w \o s.w]
    BY <1>9, <1>10, Zenon
  <2> HIDE DEF e, o
  <2>2. /\ q.c \in Connections /\ Alike(q.c, e.c)
        /\ q.c.header_sent = e.c.header_sent /\ q.c.finished = e.c.finished /\ q.c.outbuf = e.c.outbuf
        /\ q.x = IF f = "none" THEN "ok" ELSE "InputFailure"
        /\ ~e.c.caching => q.c.cachefile = e.c.cachefile
        /\ ~e.c.chunked => q.c.hex = e.c.hex
    BY <1>1, <1>3, <1>9, WriteBodyResult
  <2>3. q.w \in Seq(Tokens) /\ Result(q)
    BY <1>1, <1>3, <1>9, WriteBodyTokens, WriteBodyIsResult
  <2> HIDE DEF q
  <2>4. /\ q.x # "ok" => s = q
        /\ q.x = "ok" =>
              /\ s.x = "ok" /\ s.c \in Connections /\ Alike(s.c, q.c)
              /\ s.c.header_sent = q.c.header_sent /\ s.c.outbuf = <<>>
              /\ s.c.cachefile = q.c.cachefile /\ s.c.hex = q.c.hex
              /\ s.c.finished = q.c.finished
              /\ s.w = q.w
    BY <2>2, <2>3, EmptiesResult
  <2>5. Result(s)
    BY <2>3, ThenIsResult
  <2> HIDE DEF s
  <2>6. p.c = s.c /\ p.x = s.x /\ p.w = e.w \o s.w
    <3> DEFINE y == e.w \o s.w
    <3> HIDE DEF y
    <3>1. p = [s EXCEPT !.w = y]
      BY <2>1 DEF y
    <3> QED
      <4>1. p.c = s.c /\ p.x = s.x /\ p.w = y
        BY <3>1, <2>5, ResultWith
      <4> QED
        BY <4>1 DEF y
  <2>7. s.w \in Seq(Tokens) /\ e.w \o s.w \in Seq(Tokens)
    BY <2>3, <2>4, <1>2
  <2> QED
    BY <1>1, <1>9, <2>2, <2>4, <2>6, <2>7 DEF Alike
<1> QED
  BY <1>6, <1>7, <1>8, <1>9

\* What flush() leaves of the connection: it throws an Error only if the
\* transfer was finished.
LEMMA FlushResult ==
  ASSUME NEW c \in Connections, NEW f \in Failures, NEW r, r = flush(c, f)
  PROVE  /\ r.c \in Connections /\ Alike(r.c, c)
         /\ ~c.chunked => r.c.hex = c.hex
         /\ ~c.caching => r.c.cachefile = c.cachefile
         /\ r.x \in {"ok", "InputFailure", "Error"}
         /\ r.x = "ok" => /\ r.c.header_sent /\ r.c.outbuf = <<>> /\ f = "none"
                          /\ r.c.finished = (c.finished \/ ~c.chunked)
         /\ r.x = "Error" => c.finished /\ (c.header_sent => c.outbuf # <<>>)
<1> DEFINE p == FlushBody(c, f)
<1>1. /\ p.c \in Connections /\ Alike(p.c, c) /\ p.c.finished = c.finished
      /\ ~c.chunked => p.c.hex = c.hex
      /\ ~c.caching => p.c.cachefile = c.cachefile
      /\ p.x \in {"ok", "InputFailure", "Error"}
      /\ p.x = "ok" => p.c.header_sent /\ p.c.outbuf = <<>> /\ f = "none"
      /\ p.x = "Error" => c.finished /\ c.outbuf # <<>>
  BY FlushBodyResult
<1> HIDE DEF p
<1>2. r = IF ~c.header_sent /\ c.finished THEN Throw(c, "Error") ELSE Finish(p)
  BY FlushCases DEF p
<1>3. CASE ~c.header_sent /\ c.finished
  <2>1. r.c = c /\ r.x = "Error" /\ Alike(c, c)
    BY <1>2, <1>3 DEF Throw, Ends, Alike
  <2> QED
    BY <1>3, <2>1
<1>4. CASE ~(~c.header_sent /\ c.finished)
  <2>1. r = Finish(p)
    BY <1>2, <1>4
  <2>2. /\ p.x # "ok" => r = p
        /\ p.x = "ok" =>
              /\ r.x = "ok" /\ r.c \in Connections /\ Alike(r.c, p.c)
              /\ r.c.header_sent = p.c.header_sent /\ r.c.outbuf = p.c.outbuf
              /\ r.c.cachefile = p.c.cachefile /\ r.c.hex = p.c.hex
              /\ r.c.finished = (p.c.finished \/ ~p.c.chunked)
    BY <1>1, <2>1, FinishResult
  <2> QED
    BY <1>1, <2>2 DEF Alike
<1> QED
  BY <1>3, <1>4

\* The client has read the buffer that was flushed.
LEMMA FlushBodySeen ==
  ASSUME NEW c \in Connections, NEW f \in Failures, NEW p, p = FlushBody(c, f), p.x = "ok",
         NEW g, NEW b \in Seq(Nat),
         ~c.header_sent => b = <<>>,
         c.header_sent => c.chunked \/ c.outbuf = <<>>,
         ~c.header_sent /\ ~c.chunked => c.clen = {},
         c.outbuf # <<>> => c.buffered
  PROVE  FeedAll(Seen(c, g, b), p.w) = Seen(p.c, g, b \o c.outbuf)
<1> DEFINE e == EnsureHeader(c, 0, f)
           o == c.outbuf
           v == e.w \o <<>>
<1>1. /\ e.x # "ok" => p = e
      /\ e.x = "ok" /\ o = <<>> /\ f = "none" => p = Ok(e.c, v)
      /\ e.x = "ok" /\ o = <<>> /\ f # "none" => p = Ends(e.c, v, "InputFailure")
      /\ e.x = "ok" /\ o # <<>> /\ c.finished => p = Ends(e.c, v, "Error")
      /\ e.x = "ok" /\ o # <<>> /\ ~c.finished =>
           p = [Empties(WriteBody(e.c, o, f)) EXCEPT !.w = e.w \o @]
  <2>1. p = FlushBody(c, f)
    OBVIOUS
  <2> QED
    BY <2>1, FlushBodyCases, Zenon
<1>2. v = e.w
  <2>1. e.w \in Seq(Tokens)
    BY EnsureHeaderTokens
  <2> QED
    BY <2>1
<1>3. o \in Seq(Nat) /\ f = "none" /\ (o # <<>> => ~c.finished)
  <2>1. f = "none"
    BY FlushBodyResult
  <2>2. o \in Seq(Nat)
    BY DEF Connections
  <2> HIDE DEF e, o, v
  <2>3. \A a, w : Ends(a, w, "Error").x = "Error"
    BY DEF Ends
  <2> QED
    BY <2>1, <2>2, <2>3, <1>1
<1> HIDE DEF v, e
<1>4. e.x = "ok"
  BY <1>1
<1>5. e.c = IF c.header_sent THEN c ELSE [c EXCEPT !.header_sent = TRUE]
  BY <1>4 DEF e, EnsureHeader, send_header, Ok, Throw, Ends
<1>6. CASE o = <<>>
  <2>1. p.w = e.w /\ p.c = e.c
    <3>1. p = Ok(e.c, v)
      BY <1>1, <1>3, <1>4, <1>6
    <3> QED
      BY <3>1, <1>2 DEF Ok, Ends
  <2>2. ~c.header_sent /\ ~c.chunked => c.clen \cup {HeadLength(c, 0)} = {0}
    <3>1. 0 % SizeMod = 0
      BY ResponseAssumption
    <3>2. HeadLength(c, 0) = 0
      BY <1>6, <3>1 DEF HeadLength
    <3> QED
      BY <3>2
  <2>3. FeedAll(Seen(c, g, b), e.w) = Seen(e.c, g, b)
    BY <1>4, <2>2, HeadSeen DEF e
  <2>4. b \o o = b
    BY <1>6
  <2> QED
    BY <2>1, <2>3, <2>4
<1>7. CASE o # <<>>
  <2> DEFINE q == WriteBody(e.c, o, f)
             s == Empties(q)
             y == e.w \o s.w
             h == HeadBody(c, 0, o, f)
  <2>1. p = [s EXCEPT !.w = y]
    BY <1>1, <1>3, <1>4, <1>7, Zenon
  <2>2. e.c \in Connections /\ e.c.header_sent /\ e.c.chunked = c.chunked /\ e.c.status = c.status
    BY <1>5, ZenonT(30) DEF Connections
  <2>3. q.c \in Connections /\ Alike(q.c, e.c) /\ q.c.header_sent = e.c.header_sent /\ q.x = "ok"
    <3>1. /\ q.c \in Connections /\ Alike(q.c, e.c) /\ q.c.header_sent = e.c.header_sent
          /\ q.x = IF f = "none" THEN "ok" ELSE "InputFailure"
      <4>1. o \in Seq(Nat)
        BY <1>3
      <4> HIDE DEF o
      <4>2. q = WriteBody(e.c, o, f)
        OBVIOUS
      <4> HIDE DEF q
      <4> QED
        <5>1. e.c \in Connections
          BY <2>2
        <5>2. \A cc \in Connections : \A dd \in Seq(Nat) : LET qq == WriteBody(cc, dd, f) IN
          /\ qq.c \in Connections /\ Alike(qq.c, cc) /\ qq.c.header_sent = cc.header_sent
          /\ qq.x = IF f = "none" THEN "ok" ELSE "InputFailure"
          BY WriteBodyResult
        <5> QED
          BY <4>1, <4>2, <5>1, <5>2
    <3> HIDE DEF q
    <3> QED
      BY <3>1, <1>3
  <2>4. q.w \in Seq(Tokens) /\ Result(q)
    BY <1>3, <2>2, WriteBodyTokens, WriteBodyIsResult
  <2>5. h = [q EXCEPT !.w = e.w \o q.w]
    BY <1>4 DEF HeadBody, Then, e
  <2> HIDE DEF q, h
  <2>6. s.c \in Connections /\ Alike(s.c, q.c) /\ s.c.header_sent = q.c.header_sent /\ s.w = q.w
    BY <2>3, <2>4, EmptiesResult
  <2>7. Result(s)
    BY <2>4, ThenIsResult
  <2> HIDE DEF s, y
  <2>8. p.c = s.c /\ p.w = y
    BY <2>1, <2>7, ResultWith
  <2>9. h.c = q.c /\ h.w = y /\ h.x = "ok"
    <3>1. h = [q EXCEPT !.w = y]
      BY <2>5, <2>6 DEF y
    <3> QED
      BY <3>1, <2>3, <2>4, ResultWith
  <2>10. Seen(p.c, g, b \o o) = Seen(h.c, g, b \o o)
    BY <2>3, <2>6, <2>8, <2>9, Zenon DEF Seen, Alike
  <2>11. ~c.chunked => Measured(c, 0, o)
    <3>1. HeadLength(c, 0) = Len(o)
      BY <1>7 DEF HeadLength
    <3> QED
      BY <3>1, <1>7 DEF Measured
  <2>12. FeedAll(Seen(c, g, b), h.w) = Seen(h.c, g, b \o o)
    <3>1. c.header_sent => c.chunked
      BY <1>7
    <3>2. h = HeadBody(c, 0, o, f)
      BY DEF h
    <3>3. o \in Seq(Nat) /\ o # <<>> /\ h.x = "ok"
      BY <1>3, <1>7, <2>9
    <3>4. Fits(c, 0, o, b)
      BY <3>1, <3>3, <2>11 DEF Fits
    <3> HIDE DEF o
    <3> QED
      BY <3>2, <3>3, <3>4, HeadBodySeen
  <2> QED
    BY <2>8, <2>9, <2>10, <2>12
<1> QED
  BY <1>6, <1>7

\* The buffer holds the whole body, or the next chunk behind the body b, or nothing.
Flushable(c, b) ==
  /\ ~c.header_sent => b = <<>>
  /\ c.header_sent => c.chunked \/ c.outbuf = <<>>
  /\ ~c.header_sent /\ ~c.chunked => c.clen = {}
  /\ c.outbuf # <<>> => c.buffered

\* The same with the declaration at the end of flush().
LEMMA FlushSeen ==
  ASSUME NEW c \in Connections, NEW f \in Failures, NEW r, r = flush(c, f), r.x = "ok",
         NEW g, NEW b \in Seq(Nat),
         Flushable(c, b)
  PROVE  FeedAll(Seen(c, g, b), r.w) = Seen(r.c, g, b \o c.outbuf)
<1> USE DEF Flushable
<1> DEFINE p == FlushBody(c, f)
           bo == b \o c.outbuf
<1>1. r = Finish(p)
  <2>1. \A x : Throw(c, "Error").x = "Error"
    BY DEF Throw, Ends
  <2> QED
    BY <2>1, FlushCases
<1>2. p.c \in Connections /\ p.w \in Seq(Tokens)
  BY FlushBodyResult
<1> HIDE DEF p
<1>3. /\ p.x # "ok" => r = p
      /\ p.x = "ok" =>
            /\ r.x = "ok" /\ r.c \in Connections /\ Alike(r.c, p.c)
            /\ r.c.header_sent = p.c.header_sent
            /\ p.w \in Seq(Tokens) => r.w = p.w
  BY <1>1, <1>2, FinishResult
<1>4. p.x = "ok" /\ r.w = p.w /\ Alike(r.c, p.c) /\ r.c.header_sent = p.c.header_sent
  BY <1>2, <1>3
<1>5. FeedAll(Seen(c, g, b), p.w) = Seen(p.c, g, bo)
  BY <1>4, FlushBodySeen DEF p
<1>6. Seen(r.c, g, bo) = Seen(p.c, g, bo)
  BY <1>4, Zenon DEF Seen, Alike
<1> QED
  BY <1>4, <1>5, <1>6

\* Nothing before the tokens.
LEMMA EmptyPrefix ==
  ASSUME NEW q, Result(q), q.w \in Seq(Tokens)
  PROVE  [q EXCEPT !.w = <<>> \o q.w] = q
<1>1. <<>> \o q.w = q.w
  OBVIOUS
<1>2. [q EXCEPT !.w = q.w] = q
  BY DEF Result, Ends
<1> QED
  BY <1>1, <1>2

\* send() with a buffer adds to it.
LEMMA SendBuffered ==
  ASSUME NEW c \in Connections, NEW d \in Seq(Nat), NEW f, c.buffered, ~c.finished
  PROVE  send(c, d, f) = Ok([c EXCEPT !.outbuf = @ \o d], <<>>)
  BY DEF send, add_to_outbuf

\* send() without a buffer refuses a transfer that is finished.
LEMMA SendFinished ==
  ASSUME NEW c \in Connections, NEW d \in Seq(Nat), NEW f, c.finished
  PROVE  send(c, d, f) = Throw(c, "Error")
  BY DEF send

\* server.print of a script without setBuffer.
LEMMA SendPlain ==
  ASSUME NEW c \in Connections, NEW d \in Seq(Nat), Len(d) < SizeMod, NEW f \in Failures,
         ~c.finished, ~c.buffered, ~c.header_sent, ~c.chunked, c.clen = {},
         NEW r, r = send(c, d, f), NEW g
  PROVE  \/ r.x = "InputFailure"
         \/ /\ r.x = "ok" /\ r.c \in Connections /\ Alike(r.c, c) /\ r.c.header_sent /\ r.c.finished
            /\ r.c.outbuf = c.outbuf
            /\ FeedAll(Seen(c, g, <<>>), r.w) = Seen(r.c, g, d)
<1> DEFINE h == HeadBody(c, Len(d), d, f)
           n == Len(d)
<1>1. r = Finish(h)
  BY DEF send, Finish, HeadBody
<1>2. /\ h.c \in Connections /\ Alike(h.c, c)
      /\ h.c.finished = c.finished /\ h.c.outbuf = c.outbuf
      /\ h.x = IF f = "none" THEN "ok" ELSE "InputFailure"
      /\ h.x = "ok" => h.c.header_sent
  BY HeadBodyResult
<1>3. Measured(c, n, d)
  <2>1. n \in Nat /\ n % SizeMod = n
    BY ResponseAssumption
  <2>2. HeadLength(c, n) = n
    BY <2>1 DEF HeadLength
  <2> QED
    BY <2>2 DEF Measured
<1>4. h.x = "ok" => FeedAll(Seen(c, g, <<>>), h.w) = Seen(h.c, g, <<>> \o d)
  <2> DEFINE b == <<>>
  <2>1. b \in Seq(Nat) /\ h = HeadBody(c, n, d, f)
    OBVIOUS
  <2>2. b = <<>>
    OBVIOUS
  <2> HIDE DEF b, h, n
  <2>3. h.x = "ok" => FeedAll(Seen(c, g, b), h.w) = Seen(h.c, g, b \o d)
    <3>1. Fits(c, n, d, b)
      BY <2>2, <1>3 DEF Fits
    <3> SUFFICES ASSUME h.x = "ok" PROVE FeedAll(Seen(c, g, b), h.w) = Seen(h.c, g, b \o d)
      OBVIOUS
    <3> QED
      BY <2>1, <3>1, HeadBodySeen
  <2> QED
    BY <2>3 DEF b
<1>5. <<>> \o d = d
  OBVIOUS
<1>6. h.x = "ok" => h.w \in Seq(Tokens)
  <2> SUFFICES ASSUME h.x = "ok" PROVE h.w \in Seq(Tokens)
    OBVIOUS
  <2> DEFINE e == EnsureHeader(c, n, "none")
             D == Data(d)
  <2>1. f = "none"
    BY <1>2
  <2>2. h.w = e.w \o (IF c.chunked THEN Chunk(d) ELSE D)
    BY <2>1, HeadBodyTokens
  <2>3. e.w \in Seq(Tokens) /\ D \in Seq(Tokens)
    <3>1. n \in Int /\ "none" \in Failures
      BY DEF Failures
    <3> QED
      BY <3>1, EnsureHeaderTokens, ChunkTokens
  <2> HIDE DEF e, D, h
  <2> QED
    BY <2>2, <2>3
<1> HIDE DEF h
<1>7. /\ h.x # "ok" => r = h
      /\ h.x = "ok" =>
            /\ r.x = "ok" /\ r.c \in Connections /\ Alike(r.c, h.c)
            /\ r.c.header_sent = h.c.header_sent /\ r.c.outbuf = h.c.outbuf
            /\ r.c.finished = (h.c.finished \/ ~h.c.chunked)
            /\ h.w \in Seq(Tokens) => r.w = h.w
  BY <1>1, <1>2, FinishResult
<1>8. CASE h.x = "ok"
  <2>1. Seen(r.c, g, d) = Seen(h.c, g, d)
    BY <1>7, <1>8, Zenon DEF Seen, Alike
  <2>2. FeedAll(Seen(c, g, <<>>), r.w) = Seen(r.c, g, d)
    BY <2>1, <1>4, <1>5, <1>6, <1>7, <1>8, Zenon
  <2>3. r.x = "ok" /\ r.c \in Connections /\ Alike(r.c, c) /\ r.c.header_sent /\ r.c.finished
        /\ r.c.outbuf = c.outbuf
    BY <1>2, <1>7, <1>8 DEF Alike
  <2> QED
    BY <2>2, <2>3
<1>9. CASE h.x # "ok"
  BY <1>2, <1>7, <1>9
<1> QED
  BY <1>8, <1>9

\* The object after sendAndFlush() has put d in the buffer, if there is one.
Filled(c, d) == IF c.buffered THEN [c EXCEPT !.outbuf = @ \o d] ELSE c

Emptied(q, f) ==
  IF f \in {"none", "tail"} /\ q.c.header_sent THEN [q EXCEPT !.c.outbuf = <<>>] ELSE q

\* The connection with the filled buffer.
LEMMA FilledFacts ==
  ASSUME NEW c \in Connections, NEW d \in Seq(Nat), NEW a, a = Filled(c, d)
  PROVE  /\ a \in Connections /\ Alike(a, c) /\ a.header_sent = c.header_sent
         /\ a.finished = c.finished /\ a.hex = c.hex /\ a.cachefile = c.cachefile
         /\ a.outbuf = IF c.buffered THEN c.outbuf \o d ELSE c.outbuf
<1>1. c.outbuf \in Seq(Nat) /\ c.outbuf \o d \in Seq(Nat)
  BY DEF Connections
<1> QED
  BY <1>1 DEF Filled, Connections, Alike

\* A head and a portion have a result.
LEMMA HeadBodyIsResult ==
  ASSUME NEW c \in Connections, NEW n \in Int, NEW d \in Seq(Nat), NEW f \in Failures
  PROVE  Result(HeadBody(c, n, d, f)) /\ HeadBody(c, n, d, f).w \in Seq(Tokens)
<1> DEFINE e == EnsureHeader(c, n, f)
           q == WriteBody(e.c, d, f)
           h == HeadBody(c, n, d, f)
           y == e.w \o q.w
<1>1. h = IF e.x # "ok" THEN e ELSE [q EXCEPT !.w = y]
  BY DEF HeadBody, Then
<1>2. Result(e) /\ Result(q) /\ e.w \in Seq(Tokens)
  BY ThenIsResult, WriteBodyIsResult, EnsureHeaderTokens
<1>3. e.c \in Connections
  <2> HIDE DEF e
  <2>1. e = EnsureHeader(c, n, f)
    BY DEF e
  <2>2. /\ c.header_sent => e.x = "ok" /\ e.c = c /\ e.w = <<>>
        /\ ~c.header_sent =>
              \/ e.x = "InputFailure" /\ f # "none" /\ e.c = c
              \/ e.x = "ok" /\ e.c \in Connections /\ e.c = [c EXCEPT !.header_sent = TRUE]
    BY <2>1, EnsureHeaderResult
  <2> QED
    BY <2>2
<1>4. q.w \in Seq(Tokens)
  <2> HIDE DEF e
  <2> QED
    BY <1>3, WriteBodyTokens
<1> HIDE DEF e, q, h
<1>5. y \in Seq(Tokens)
  BY <1>2, <1>4
<1> HIDE DEF y
<1>6. CASE e.x # "ok"
  BY <1>1, <1>2, <1>6 DEF h
<1>7. CASE e.x = "ok"
  <2>1. h = [q EXCEPT !.w = y]
    BY <1>1, <1>7
  <2>2. h.c = q.c /\ h.x = q.x /\ h.w = y /\ Result(h)
    <3>1. Result(q)
      BY <1>2
    <3>2. h.c = q.c /\ h.x = q.x /\ h.w = y
      BY <2>1, <3>1, ResultWith
    <3>3. h = Ends(q.c, y, q.x)
      BY <2>1, <3>1 DEF Result, Ends
    <3> QED
      BY <3>2, <3>3 DEF Result
  <2> QED
    BY <2>2, <1>5 DEF h
<1> QED
  BY <1>6, <1>7

\* sendAndFlush() is a head, a portion, the empty buffer and the declaration.
LEMMA SendAndFlushIs ==
  ASSUME NEW c \in Connections, NEW d \in Seq(Nat), NEW f \in Failures,
         ~c.finished, c.header_sent => c.chunked, ~(c.buffered /\ c.chunked)
  PROVE  sendAndFlush(c, d, f) =
           Finish(Emptied(HeadBody(Filled(c, d), IF c.chunked THEN 0 ELSE Len(d), d, f), f))
<1> DEFINE a == Filled(c, d)
           r == IF c.buffered THEN add_to_outbuf(c, d) ELSE Ok(c, <<>>)
           m == IF c.chunked THEN 0 ELSE Len(d)
           e == EnsureHeader(a, m, f)
           Body(x) == WriteBody(x, IF x.buffered /\ x.chunked THEN x.outbuf ELSE d, f)
           Line(x) == IF c.chunked THEN EnsureHeader(x, 0, f) ELSE send_header(x, Len(d), f)
           l == Then(r, Line)
           p == Then(l, Body)
<1>1. sendAndFlush(c, d, f) = Finish(Emptied(p, f))
  BY DEF sendAndFlush, Finish, Emptied
<1>2. a \in Connections /\ Alike(a, c) /\ a.header_sent = c.header_sent
  BY FilledFacts
<1>3. r = Ok(a, <<>>)
  BY DEF add_to_outbuf, Filled
<1>4. Line(a) = e
  <2>1. ~c.chunked => ~a.header_sent
    BY <1>2
  <2> HIDE DEF a
  <2> QED
    BY <2>1 DEF EnsureHeader
<1>5. Result(e) /\ e.w \in Seq(Tokens)
  <2>1. m \in Int
    OBVIOUS
  <2> HIDE DEF a, m
  <2> QED
    BY <2>1, <1>2, ThenIsResult, EnsureHeaderTokens
<1>6. l = e
  <2>1. l = [Line(a) EXCEPT !.w = <<>> \o Line(a).w]
    <3>1. r.x = "ok" /\ r.c = a /\ r.w = <<>>
      BY <1>3 DEF Ok, Ends
    <3> HIDE DEF r, a
    <3>2. l = IF r.x # "ok" THEN r ELSE [Line(r.c) EXCEPT !.w = r.w \o Line(r.c).w]
      BY DEF Then
    <3> HIDE DEF Line, l
    <3> QED
      BY <3>1, <3>2
  <2> HIDE DEF l, Line, a, e
  <2>2. l = [e EXCEPT !.w = <<>> \o e.w]
    BY <2>1, <1>4
  <2> QED
    BY <2>2, <1>5, EmptyPrefix
<1>7. e.x = "ok" => ~(e.c.buffered /\ e.c.chunked)
  BY <1>2 DEF EnsureHeader, send_header, Ok, Throw, Ends, Alike, Connections
<1>8. p = HeadBody(a, m, d, f)
  <2>1. p = IF e.x # "ok" THEN e ELSE [Body(e.c) EXCEPT !.w = e.w \o Body(e.c).w]
    <3> HIDE DEF l
    <3>1. p = IF l.x # "ok" THEN l ELSE [Body(l.c) EXCEPT !.w = l.w \o Body(l.c).w]
      BY DEF Then
    <3> HIDE DEF p, e, Body
    <3> QED
      BY <3>1, <1>6
  <2>2. e.x = "ok" => Body(e.c) = WriteBody(e.c, d, f)
    BY <1>7
  <2>3. HeadBody(a, m, d, f) = IF e.x # "ok" THEN e
                               ELSE [WriteBody(e.c, d, f) EXCEPT !.w = e.w \o WriteBody(e.c, d, f).w]
    BY DEF HeadBody, Then
  <2> HIDE DEF Body, e, p
  <2> QED
    BY <2>1, <2>2, <2>3
<1> QED
  BY <1>1, <1>8

\* The connection with the empty buffer.
LEMMA EmptiedFacts ==
  ASSUME NEW h, Result(h), h.c \in Connections, NEW f \in Failures, NEW s, s = Emptied(h, f)
  PROVE  /\ s.x = h.x /\ s.w = h.w /\ s.c \in Connections /\ Alike(s.c, h.c)
         /\ s.c.header_sent = h.c.header_sent /\ s.c.finished = h.c.finished
         /\ s.c.hex = h.c.hex /\ s.c.cachefile = h.c.cachefile
         /\ f = "none" /\ h.c.header_sent => s.c.outbuf = <<>>
<1> DEFINE c == h.c
           d == [c EXCEPT !.outbuf = <<>>]
<1>1. c \in Connections /\ Alike(c, c)
  BY DEF Alike
<1> HIDE DEF c
<1>2. /\ d \in Connections /\ Alike(d, c)
      /\ d.header_sent = c.header_sent /\ d.outbuf = <<>>
      /\ d.cachefile = c.cachefile /\ d.hex = c.hex
      /\ d.finished = c.finished
  <2>1. <<>> \in Seq(Nat)
    OBVIOUS
  <2> QED
    BY <2>1, <1>1 DEF Connections, Alike
<1> HIDE DEF d
<1>3. s = IF f \in {"none", "tail"} /\ c.header_sent THEN [h EXCEPT !.c = d] ELSE h
  BY DEF Emptied, c, d
<1>4. [h EXCEPT !.c = d] = Ends(d, h.w, h.x)
  BY DEF Result, Ends
<1>5. s.x = h.x /\ s.w = h.w /\ s.c \in {c, d} /\ (f = "none" /\ c.header_sent => s.c = d)
  <2>1. \A a, w, x : Ends(a, w, x).c = a /\ Ends(a, w, x).w = w /\ Ends(a, w, x).x = x
    BY DEF Ends
  <2> QED
    BY <1>3, <1>4, <2>1 DEF c
<1> QED
  BY <1>1, <1>2, <1>5 DEF c

\* What sendAndFlush() leaves of the connection.
LEMMA SendAndFlushResult ==
  ASSUME NEW c \in Connections, NEW d \in Seq(Nat), NEW f \in Failures,
         ~c.finished, c.header_sent => c.chunked, ~(c.buffered /\ c.chunked),
         NEW r, r = sendAndFlush(c, d, f)
  PROVE  /\ r.c \in Connections /\ Alike(r.c, c)
         /\ r.x = IF f = "none" THEN "ok" ELSE "InputFailure"
         /\ r.x = "ok" => /\ c.caching => r.c.cachefile = c.cachefile \o d
                          /\ r.c.header_sent /\ r.c.outbuf = <<>> /\ r.c.finished = (~c.chunked)
         /\ ~c.chunked => r.c.hex = c.hex
         /\ r.x = "ok" => r.w = HeadBody(Filled(c, d), IF c.chunked THEN 0 ELSE Len(d), d, f).w
<1> DEFINE a == Filled(c, d)
           m == IF c.chunked THEN 0 ELSE Len(d)
           h == HeadBody(a, m, d, f)
           s == Emptied(h, f)
<1>1. r = Finish(s)
  BY SendAndFlushIs
<1>2. /\ a \in Connections /\ Alike(a, c) /\ a.header_sent = c.header_sent
      /\ a.finished = c.finished /\ a.hex = c.hex /\ a.cachefile = c.cachefile
  BY FilledFacts
<1>3. m \in Int
  OBVIOUS
<1> HIDE DEF a, m
<1>4. /\ h.c \in Connections /\ Alike(h.c, a)
      /\ h.c.finished = a.finished /\ h.c.outbuf = a.outbuf
      /\ h.x = IF f = "none" THEN "ok" ELSE "InputFailure"
      /\ h.x = "ok" => /\ a.caching => h.c.cachefile = a.cachefile \o d
                       /\ h.c.header_sent
      /\ ~a.chunked => h.c.hex = a.hex
  <2>1. a \in Connections /\ h = HeadBody(a, m, d, f)
    BY <1>2
  <2> HIDE DEF h
  <2>2. /\ h.c \in Connections /\ Alike(h.c, a)
        /\ h.c.finished = a.finished /\ h.c.outbuf = a.outbuf
        /\ h.x = IF f = "none" THEN "ok" ELSE "InputFailure"
    BY <2>1, HeadBodyResult
  <2>3. h.x = "ok" => h.c.header_sent
    BY <2>1, HeadBodyResult
  <2>4. h.x = "ok" => (a.caching => h.c.cachefile = a.cachefile \o d)
    BY <2>1, HeadBodyResult
  <2>5. ~a.chunked => h.c.hex = a.hex
    BY <2>1, HeadBodyResult, SMTT(30)
  <2> QED
    BY <2>2, <2>3, <2>4, <2>5
<1>5. Result(h) /\ h.w \in Seq(Tokens)
  BY <1>2, <1>3, HeadBodyIsResult
<1> HIDE DEF h
<1>6. /\ s.x = h.x /\ s.w = h.w /\ s.c \in Connections /\ Alike(s.c, h.c)
      /\ s.c.header_sent = h.c.header_sent /\ s.c.finished = h.c.finished
      /\ s.c.hex = h.c.hex /\ s.c.cachefile = h.c.cachefile
      /\ f = "none" /\ h.c.header_sent => s.c.outbuf = <<>>
  BY <1>4, <1>5, EmptiedFacts
<1> HIDE DEF s
<1>7. /\ s.x # "ok" => r = s
      /\ s.x = "ok" =>
            /\ r.x = "ok" /\ r.c \in Connections /\ Alike(r.c, s.c)
            /\ r.c.header_sent = s.c.header_sent /\ r.c.outbuf = s.c.outbuf
            /\ r.c.cachefile = s.c.cachefile /\ r.c.hex = s.c.hex
            /\ r.c.finished = (s.c.finished \/ ~s.c.chunked)
            /\ s.w \in Seq(Tokens) => r.w = s.w
  BY <1>1, <1>6, FinishResult
<1>8. CASE f = "none"
  <2>1. h.x = "ok" /\ s.x = "ok"
    BY <1>4, <1>6, <1>8
  <2>2. s.w \in Seq(Tokens) /\ r.w = h.w
    BY <2>1, <1>5, <1>6, <1>7
  <2>3. /\ r.c \in Connections /\ Alike(r.c, c) /\ r.x = "ok"
        /\ c.caching => r.c.cachefile = c.cachefile \o d
        /\ r.c.header_sent /\ r.c.outbuf = <<>> /\ r.c.finished = (~c.chunked)
        /\ ~c.chunked => r.c.hex = c.hex
    <3>1. Alike(r.c, c) /\ h.c.header_sent
      BY <1>2, <1>4, <1>6, <1>7, <2>1 DEF Alike
    <3>2. r.c.finished = (~c.chunked)
      BY <1>2, <1>4, <1>6, <1>7, <2>1 DEF Alike, Connections
    <3>3. r.c.header_sent /\ r.c.outbuf = <<>>
      BY <1>6, <1>7, <1>8, <2>1, <3>1
    <3>4. c.caching => r.c.cachefile = c.cachefile \o d
      BY <1>2, <1>4, <1>6, <1>7, <2>1 DEF Alike
    <3>5. ~c.chunked => r.c.hex = c.hex
      BY <1>2, <1>4, <1>6, <1>7, <2>1 DEF Alike
    <3> QED
      BY <3>1, <3>2, <3>3, <3>4, <3>5, <1>7, <2>1
  <2> QED
    BY <1>8, <2>2, <2>3 DEF h, a, m
<1>9. CASE f # "none"
  <2>1. h.x = "InputFailure" /\ r = s
    BY <1>4, <1>6, <1>7, <1>9
  <2>2. r.c \in Connections /\ Alike(r.c, c) /\ r.x = "InputFailure" /\ (~c.chunked => r.c.hex = c.hex)
    BY <1>2, <1>4, <1>6, <2>1 DEF Alike
  <2> QED
    BY <1>9, <2>2
<1> QED
  BY <1>8, <1>9

\* The client has read the portion of sendAndFlush().
LEMMA SendAndFlushSeen ==
  ASSUME NEW c \in Connections, NEW d \in Seq(Nat), NEW f \in Failures,
         ~c.finished, c.header_sent => c.chunked, ~(c.buffered /\ c.chunked),
         NEW r, r = sendAndFlush(c, d, f), r.x = "ok",
         NEW g, NEW b \in Seq(Nat),
         ~c.header_sent => b = <<>>,
         c.chunked => d # <<>>,
         ~c.chunked => c.clen = {} /\ c.outbuf = <<>> /\ Len(d) < SizeMod
  PROVE  FeedAll(Seen(c, g, b), r.w) = Seen(r.c, g, b \o d)
<1> DEFINE a == Filled(c, d)
           m == IF c.chunked THEN 0 ELSE Len(d)
           h == HeadBody(a, m, d, f)
<1>1. r.c \in Connections /\ Alike(r.c, c) /\ r.c.header_sent /\ r.w = h.w /\ f = "none"
  <2> HIDE DEF h
  <2>1. /\ r.c \in Connections /\ Alike(r.c, c)
        /\ r.x = IF f = "none" THEN "ok" ELSE "InputFailure"
        /\ r.x = "ok" => r.c.header_sent
        /\ r.x = "ok" => r.w = h.w
    BY SendAndFlushResult DEF h
  <2> QED
    BY <2>1
<1>2. /\ a \in Connections /\ Alike(a, c) /\ a.header_sent = c.header_sent
      /\ a.outbuf = IF c.buffered THEN c.outbuf \o d ELSE c.outbuf
  BY FilledFacts
<1>3. ~a.chunked => Measured(a, m, d)
  <2> SUFFICES ASSUME ~a.chunked PROVE Measured(a, m, d)
    OBVIOUS
  <2>1. m = Len(d) /\ m \in Nat /\ m % SizeMod = m /\ a.clen = {}
    <3>1. ~c.chunked /\ a.clen = {}
      BY <1>2 DEF Alike
    <3>2. Len(d) \in Nat /\ Len(d) < SizeMod
      BY <3>1
    <3>3. m = Len(d)
      BY <3>1
    <3> HIDE DEF m
    <3>4. m \in Nat /\ m < SizeMod /\ SizeMod \in Nat
      BY <3>2, <3>3, ResponseAssumption
    <3>5. \A x, y \in Nat : x < y => x % y = x
      OBVIOUS
    <3>6. m % SizeMod = m
      BY <3>4, <3>5
    <3> QED
      BY <3>1, <3>3, <3>4, <3>6
  <2>2. a.outbuf = IF c.buffered THEN d ELSE <<>>
    <3>1. <<>> \o d = d /\ ~c.chunked
      BY <1>2 DEF Alike
    <3> QED
      BY <1>2, <3>1
  <2>3. HeadLength(a, m) = m
    BY <2>1, <2>2 DEF HeadLength
  <2> HIDE DEF a, m
  <2> QED
    BY <2>1, <2>3 DEF Measured
<1> HIDE DEF a, m
<1>4. /\ h.c \in Connections /\ Alike(h.c, a)
      /\ h.x = IF f = "none" THEN "ok" ELSE "InputFailure"
      /\ h.x = "ok" => h.c.header_sent
  BY <1>2, HeadBodyResult
<1>5. h.x = "ok"
  BY <1>1, <1>4
<1>6. FeedAll(Seen(a, g, b), h.w) = Seen(h.c, g, b \o d)
  <2>1. Fits(a, m, d, b)
    BY <1>2, <1>3 DEF Alike, Fits
  <2>2. a \in Connections /\ h = HeadBody(a, m, d, f) /\ h.x = "ok"
    BY <1>2, <1>5
  <2> HIDE DEF h
  <2> QED
    BY <2>1, <2>2, HeadBodySeen
<1>7. Seen(a, g, b) = Seen(c, g, b) /\ Seen(h.c, g, b \o d) = Seen(r.c, g, b \o d)
  <2> HIDE DEF h
  <2> QED
    BY <1>1, <1>2, <1>4, <1>5, Zenon DEF Seen, Alike
<1> QED
  BY <1>1, <1>6, <1>7

\* The bytes a+1 to z are z - a bytes.
LEMMA BytesFacts ==
  ASSUME NEW a \in Nat, NEW z \in Nat, a <= z
  PROVE  Bytes(a, z) \in Seq(Nat) /\ Len(Bytes(a, z)) = z - a /\ (Bytes(a, z) = <<>> <=> a = z)
<1> DEFINE n == z - a
<1>1. n \in Nat /\ \A i \in 1..n : a + i \in Nat
  OBVIOUS
<1>2. Bytes(a, z) = [i \in 1..n |-> a + i]
  BY DEF Bytes
<1>3. n = 0 <=> a = z
  OBVIOUS
<1> HIDE DEF n
<1>4. [i \in 1..n |-> a + i] \in Seq(Nat) /\ Len([i \in 1..n |-> a + i]) = n
  BY <1>1
<1>5. \A s \in Seq(Nat) : s = <<>> <=> Len(s) = 0
  OBVIOUS
<1>6. Bytes(a, z) \in Seq(Nat) /\ Len(Bytes(a, z)) = n
  BY <1>2, <1>4
<1>7. Bytes(a, z) = <<>> <=> n = 0
  BY <1>5, <1>6
<1> QED
  BY <1>3, <1>6, <1>7 DEF n

\* Bytes of a body are numbers, also where there are none.
LEMMA BytesType ==
  ASSUME NEW a \in Nat, NEW z \in Int
  PROVE  Bytes(a, z) \in Seq(Nat)
<1>1. CASE a <= z
  <2>1. z \in Nat
    BY <1>1
  <2> QED
    BY <1>1, <2>1, BytesFacts
<1>2. CASE ~(a <= z)
  <2>1. 1..(z - a) = {}
    BY <1>2
  <2>2. Bytes(a, z) = <<>>
    BY <2>1 DEF Bytes
  <2> QED
    BY <2>2
<1> QED
  BY <1>1, <1>2

\* Two portions in a row.
LEMMA BytesJoin ==
  ASSUME NEW a \in Nat, NEW b \in Nat, NEW z \in Nat, a <= b, b <= z
  PROVE  Bytes(a, b) \o Bytes(b, z) = Bytes(a, z)
<1> DEFINE s == Bytes(a, b)
           t == Bytes(b, z)
           u == Bytes(a, z)
<1>1. s \in Seq(Nat) /\ Len(s) = b - a /\ t \in Seq(Nat) /\ Len(t) = z - b /\ u \in Seq(Nat) /\ Len(u) = z - a
  <2>1. a <= z
    OBVIOUS
  <2> QED
    BY <2>1, BytesFacts
<1>2. \A i \in 1..(z - a) : u[i] = a + i
  BY DEF Bytes
<1>3. \A i \in 1..(b - a) : s[i] = a + i
  BY DEF Bytes
<1>4. \A i \in 1..(z - b) : t[i] = b + i
  BY DEF Bytes
<1> HIDE DEF s, t, u
<1>5. s \o t \in Seq(Nat) /\ Len(s \o t) = z - a
  BY <1>1
<1>6. ASSUME NEW i \in 1..(z - a) PROVE (s \o t)[i] = u[i]
  <2>1. CASE i <= b - a
    BY <2>1, <1>1, <1>2, <1>3
  <2>2. CASE i > b - a
    <3> DEFINE k == i - (b - a)
    <3>1. k \in 1..(z - b) /\ b + k = a + i
      BY <2>2
    <3>2. (s \o t)[i] = t[k]
      BY <2>2, <1>1, SMTT(30)
    <3> HIDE DEF k
    <3> QED
      BY <3>1, <3>2, <1>2, <1>4
  <2>3. i <= b - a \/ i > b - a
    OBVIOUS
  <2> QED
    BY <2>1, <2>2, <2>3
<1> DEFINE v == s \o t
           n == z - a
<1>7. v \in Seq(Nat) /\ u \in Seq(Nat) /\ Len(v) = n /\ Len(u) = n /\ (\A i \in 1..n : v[i] = u[i])
  BY <1>1, <1>5, <1>6
<1> HIDE DEF v, n
<1>8. v = u
  BY <1>7
<1> QED
  BY <1>8 DEF v, s, t, u

\* The first bytes, and those up to the end of a portion.
LEMMA BytesWhole ==
  ASSUME NEW t \in Nat, NEW z \in Nat, t <= z
  PROVE  /\ Bytes(t, z) \in Seq(Nat) /\ Bytes(0, t) \in Seq(Nat) /\ Bytes(0, z) \in Seq(Nat)
         /\ Bytes(0, t) \o Bytes(t, z) = Bytes(0, z)
<1> DEFINE zero == 0
<1>1. zero \in Nat /\ zero <= t /\ zero <= z
  OBVIOUS
<1> HIDE DEF zero
<1>2. Bytes(t, z) \in Seq(Nat) /\ Bytes(zero, t) \in Seq(Nat) /\ Bytes(zero, z) \in Seq(Nat)
  BY <1>1, BytesFacts, Zenon
<1>3. Bytes(zero, t) \o Bytes(t, z) = Bytes(zero, z)
  BY <1>1, BytesJoin, Zenon
<1> QED
  BY <1>2, <1>3 DEF zero

\* flush() has a result.
LEMMA FlushIsResult ==
  ASSUME NEW c \in Connections, NEW f \in Failures
  PROVE  Result(flush(c, f)) /\ flush(c, f).w \in Seq(Tokens)
<1> DEFINE p == FlushBody(c, f)
           e == EnsureHeader(c, 0, f)
           r == flush(c, f)
           v == e.w \o <<>>
<1>1. p.c \in Connections /\ p.w \in Seq(Tokens)
  BY FlushBodyResult
<1>2. /\ e.x # "ok" => p = e
      /\ e.x = "ok" /\ c.outbuf = <<>> /\ f = "none" => p = Ok(e.c, v)
      /\ e.x = "ok" /\ c.outbuf = <<>> /\ f # "none" => p = Ends(e.c, v, "InputFailure")
      /\ e.x = "ok" /\ c.outbuf # <<>> /\ c.finished => p = Ends(e.c, v, "Error")
      /\ e.x = "ok" /\ c.outbuf # <<>> /\ ~c.finished =>
           p = [Empties(WriteBody(e.c, c.outbuf, f)) EXCEPT !.w = e.w \o @]
  <2>1. p = FlushBody(c, f)
    OBVIOUS
  <2> QED
    BY <2>1, FlushBodyCases, Zenon
<1>3. r = IF ~c.header_sent /\ c.finished THEN Throw(c, "Error") ELSE Finish(p)
  BY FlushCases
<1> DEFINE s == Empties(WriteBody(e.c, c.outbuf, f))
           y == e.w \o s.w
           k == [s EXCEPT !.w = y]
<1>4. Result(e) /\ Result(s)
  BY ThenIsResult, WriteBodyIsResult
<1> HIDE DEF p, e, r, v
<1>5. k = Ends(s.c, y, s.x)
  <2> HIDE DEF s, y
  <2> QED
    BY <1>4 DEF Result, Ends
<1>6. Result(k)
  BY <1>5, ResultFacts
<1> HIDE DEF s, y, k
<1>7. p \in {e, Ok(e.c, v), Ends(e.c, v, "InputFailure"), Ends(e.c, v, "Error"), k}
  BY <1>2, Zenon DEF k, y, s
<1>8. Result(p)
  BY <1>4, <1>6, <1>7, ResultFacts
<1>9. Result(r)
  BY <1>3, <1>8, ResultFacts, ThenIsResult
<1>10. r.w \in Seq(Tokens)
  <2>1. CASE ~c.header_sent /\ c.finished
    BY <1>3, <2>1 DEF Throw, Ends
  <2>2. CASE ~(~c.header_sent /\ c.finished)
    <3>1. r = Finish(p)
      BY <1>3, <2>2
    <3>2. (p.x # "ok" => r = p) /\ (p.x = "ok" => (p.w \in Seq(Tokens) => r.w = p.w))
      BY <1>1, <3>1, FinishResult
    <3> QED
      BY <3>2, <1>1
  <2> QED
    BY <2>1, <2>2
<1> QED
  BY <1>9, <1>10 DEF r

\* The object with an error page behind what was in the buffer.
Paged(c) == [[[c EXCEPT !.status = "error"] EXCEPT !.buffered = TRUE] EXCEPT !.outbuf = @ \o ErrorText]

\* The connection with an error page in its buffer.
LEMMA PagedFacts ==
  ASSUME NEW c \in Connections, NEW a, a = Paged(c)
  PROVE  /\ a \in Connections /\ a.status = "error" /\ a.buffered /\ a.outbuf = c.outbuf \o ErrorText
         /\ a.chunked = c.chunked /\ a.clen = c.clen /\ a.caching = c.caching
         /\ a.header_sent = c.header_sent /\ a.finished = c.finished
         /\ a.hex = c.hex /\ a.cachefile = c.cachefile
<1> DEFINE o == c.outbuf \o ErrorText
<1>1. o \in Seq(Nat)
  BY DEF Connections, ErrorText
<1>2. a = [[[c EXCEPT !.status = "error"] EXCEPT !.buffered = TRUE] EXCEPT !.outbuf = o]
  BY DEF Paged, Connections
<1> HIDE DEF o
<1>3. "error" \in Statuses
  BY DEF Statuses
<1> QED
  BY <1>1, <1>2, <1>3 DEF Connections, o

\* send_error() throws an Error when the head was sent.
LEMMA SendErrorSent ==
  ASSUME NEW c \in Connections, NEW f, c.header_sent
  PROVE  send_error(c, f) = Throw([c EXCEPT !.status = "error"], "Error")
<1> DEFINE a == [c EXCEPT !.status = "error"]
<1>1. a.header_sent
  BY DEF Connections
<1>2. setBuffer(a) = Throw(a, "Error")
  BY <1>1 DEF setBuffer
<1>3. Throw(a, "Error").x # "ok"
  BY DEF Throw, Ends
<1> HIDE DEF a
<1> QED
  BY <1>2, <1>3 DEF send_error, Then, a

\* send_error() before the head is a flush of the error page.
LEMMA SendErrorIs ==
  ASSUME NEW c \in Connections, NEW f \in Failures, ~c.header_sent, ~c.finished
  PROVE  send_error(c, f) = flush(Paged(c), f)
<1> DEFINE a == [c EXCEPT !.status = "error"]
           b == [a EXCEPT !.buffered = TRUE]
           p == Paged(c)
           q == flush(p, f)
           none == <<>>
<1>1. a \in Connections /\ ~a.header_sent /\ ~a.finished
  BY DEF Connections, Statuses
<1>2. setBuffer(a) = Ok(b, none)
  BY <1>1 DEF setBuffer
<1>3. b \in Connections /\ ~b.header_sent /\ ~b.finished /\ b.buffered
  <2> HIDE DEF a
  <2> QED
    BY <1>1 DEF Connections
<1>4. header(b, b.clen) = Ok(b, none)
  <2> HIDE DEF b
  <2>1. [b EXCEPT !.clen = b.clen] = b
    BY <1>3 DEF Connections
  <2> QED
    BY <1>3, <2>1 DEF header
<1>5. send(b, ErrorText, f) = Ok(p, none)
  <2> DEFINE t == ErrorText
  <2>1. t \in Seq(Nat)
    BY DEF ErrorText
  <2>2. p = [b EXCEPT !.outbuf = @ \o t]
    BY DEF Paged
  <2> HIDE DEF b, t, p
  <2>3. send(b, t, f) = Ok([b EXCEPT !.outbuf = @ \o t], none)
    BY <2>1, <1>3, SendBuffered
  <2> QED
    BY <2>2, <2>3 DEF t
<1>6. Result(q) /\ q.w \in Seq(Tokens)
  <2>1. p \in Connections
    BY PagedFacts
  <2> HIDE DEF p
  <2> QED
    BY <2>1, FlushIsResult
<1>7. none \o none = none
  OBVIOUS
<1>8. \A x : /\ Ok(x, none).x = "ok" /\ Ok(x, none).c = x /\ Ok(x, none).w = none
             /\ [Ok(x, none) EXCEPT !.w = none] = Ok(x, none)
  BY DEF Ok, Ends
<1> HIDE DEF none
<1> DEFINE r1 == setBuffer(a)
           r2 == Then(r1, LAMBDA x : header(x, x.clen))
           r3 == Then(r2, LAMBDA x : send(x, ErrorText, f))
           r4 == Then(r3, LAMBDA x : flush(x, f))
<1>9. r4 = send_error(c, f)
  BY DEF send_error
<1> HIDE DEF a, b, p, q
<1>10. r1 = Ok(b, none)
  BY <1>2
<1> HIDE DEF r1
<1>11. r2 = IF r1.x # "ok" THEN r1 ELSE [header(r1.c, r1.c.clen) EXCEPT !.w = r1.w \o header(r1.c, r1.c.clen).w]
  BY DEF Then
<1>12. r2 = Ok(b, none)
  <2> HIDE DEF r2
  <2>1. r1.x = "ok" /\ r1.c = b /\ r1.w = none
    BY <1>8, <1>10
  <2>2. r2 = [header(b, b.clen) EXCEPT !.w = none \o header(b, b.clen).w]
    BY <2>1, <1>11
  <2>3. r2 = [Ok(b, none) EXCEPT !.w = none \o Ok(b, none).w]
    BY <2>2, <1>4
  <2> QED
    BY <2>3, <1>7, <1>8
<1> HIDE DEF r2
<1>13. r3 = IF r2.x # "ok" THEN r2 ELSE [send(r2.c, ErrorText, f) EXCEPT !.w = r2.w \o send(r2.c, ErrorText, f).w]
  BY DEF Then
<1>14. r3 = Ok(p, none)
  <2> HIDE DEF r3
  <2>1. r2.x = "ok" /\ r2.c = b /\ r2.w = none
    BY <1>8, <1>12
  <2>2. r3 = [send(b, ErrorText, f) EXCEPT !.w = none \o send(b, ErrorText, f).w]
    BY <2>1, <1>13
  <2>3. r3 = [Ok(p, none) EXCEPT !.w = none \o Ok(p, none).w]
    BY <2>2, <1>5
  <2> QED
    BY <2>3, <1>7, <1>8
<1> HIDE DEF r3
<1>15. r4 = IF r3.x # "ok" THEN r3 ELSE [flush(r3.c, f) EXCEPT !.w = r3.w \o flush(r3.c, f).w]
  BY DEF Then
<1>16. r4 = q
  <2> HIDE DEF r4
  <2>1. r3.x = "ok" /\ r3.c = p /\ r3.w = none
    BY <1>8, <1>14
  <2>2. r4 = [q EXCEPT !.w = none \o q.w]
    BY <2>1, <1>15 DEF q
  <2> QED
    BY <2>2, <1>6, EmptyPrefix DEF none
<1> QED
  BY <1>9, <1>16 DEF q, p

\* The client has got the error page, behind what was in the buffer before.
LEMMA SendErrorSeen ==
  ASSUME NEW c \in Connections, NEW f \in Failures, ~c.header_sent, ~c.finished,
         ~c.chunked => c.clen = {}, NEW r, r = send_error(c, f), NEW g
  PROVE  \/ r.x = "InputFailure"
         \/ /\ r.x = "ok" /\ r.c \in Connections /\ r.c.header_sent /\ r.c.outbuf = <<>>
            /\ r.c.status = "error" /\ r.c.chunked = c.chunked /\ r.c.finished = (~c.chunked)
            /\ FeedAll(Waiting(g), r.w) = Seen(r.c, g, c.outbuf \o ErrorText)
<1> DEFINE p == Paged(c)
           o == c.outbuf \o ErrorText
           none == <<>>
<1>1. r = flush(p, f)
  BY SendErrorIs
<1>2. /\ p \in Connections /\ p.status = "error" /\ p.buffered /\ p.outbuf = o
      /\ p.chunked = c.chunked /\ p.clen = c.clen
      /\ p.header_sent = c.header_sent /\ p.finished = c.finished
  BY PagedFacts
<1>3. o \in Seq(Nat) /\ none \o o = o /\ none \in Seq(Nat) /\ none = <<>>
  <2>1. c.outbuf \in Seq(Nat) /\ ErrorText \in Seq(Nat)
    BY DEF Connections, ErrorText
  <2>2. o \in Seq(Nat)
    BY <2>1
  <2> HIDE DEF o
  <2> QED
    BY <2>2
<1> HIDE DEF p, o, none
<1>4. /\ r.c \in Connections /\ Alike(r.c, p)
      /\ r.x \in {"ok", "InputFailure", "Error"}
      /\ r.x = "ok" => /\ r.c.header_sent /\ r.c.outbuf = <<>> /\ f = "none"
                       /\ r.c.finished = (p.finished \/ ~p.chunked)
      /\ r.x = "Error" => p.finished /\ (p.header_sent => p.outbuf # <<>>)
  BY <1>1, <1>2, FlushResult
<1>5. r.x \in {"ok", "InputFailure"}
  BY <1>2, <1>4
<1>6. ASSUME r.x = "ok" PROVE FeedAll(Waiting(g), r.w) = Seen(r.c, g, o)
  <2>1. Flushable(p, none)
    BY <1>2, <1>3 DEF Flushable
  <2>2. FeedAll(Seen(p, g, none), r.w) = Seen(r.c, g, none \o p.outbuf)
    <3>1. p \in Connections /\ none \in Seq(Nat)
      BY <1>2, <1>3
    <3> QED
      BY <1>1, <1>6, <2>1, <3>1, FlushSeen
  <2>3. Seen(p, g, none) = Waiting(g)
    BY <1>2 DEF Seen
  <2> QED
    BY <2>2, <2>3, <1>2, <1>3
<1>7. r.x = "ok" => r.c.status = "error" /\ r.c.chunked = c.chunked /\ r.c.finished = (~c.chunked)
  BY <1>2, <1>4 DEF Alike, Connections
<1> QED
  BY <1>4, <1>5, <1>6, <1>7 DEF o

\* What sendFile() writes of the bytes d behind a head with the length n.
FileBody(c, n, d, f) == IF d = <<>> THEN EnsureHeader(c, n, f) ELSE HeadBody(c, n, d, f)

Unfinished(p) == Then(p, LAMBDA a : Ok([a EXCEPT !.finished = FALSE], <<>>))

\* The bytes a+1 to z of a file of size bytes are asked for by from and to.
Asks(size, from, to, a, z) ==
  /\ size < SizeMod
  /\ \/ from = 0 /\ to <= 0 /\ a = 0 /\ z = size
     \/ from <= to /\ 1 <= to /\ to < size /\ a = from /\ z = to + 1

\* A connection in the modes of the file handlers.
Plain(c) == ~c.finished /\ ~c.buffered /\ ~c.chunked /\ ~c.caching

\* r is what sendFile() makes of a file that is there.
FileCall(c, there, size, from, to, a, z, f, r) ==
  /\ c \in Connections /\ f \in Failures /\ Plain(c)
  /\ size \in Nat /\ from \in Nat /\ to \in Int /\ a \in Nat /\ z \in Nat
  /\ Asks(size, from, to, a, z)
  /\ there
  /\ r = sendFile(c, there, size, from, to, f)

\* sendFile() writes the bytes that are asked for.
LEMMA SendFileIs ==
  ASSUME NEW c, NEW there, NEW size, NEW from, NEW to, NEW a, NEW z, NEW f, NEW r,
         FileCall(c, there, size, from, to, a, z, f, r)
  PROVE  r = Unfinished(FileBody(c, z - a, Bytes(a, z), f))
<1> USE DEF FileCall
<1> DEFINE rest  == IF from > 0 THEN size - from ELSE size
           fsize == IF to > 0 THEN rest - (size - to - 1) ELSE rest
           want  == fsize % SizeMod
           dd    == Bytes(size - rest, size - rest + (IF want < rest THEN want ELSE rest))
           Body(x) == IF dd = <<>> THEN Ok(x, <<>>)
                      ELSE LET q == WriteBody([x EXCEPT !.caching = FALSE], dd, f)
                           IN  [q EXCEPT !.c.caching = x.caching]
           Eof(x)  == Ok([x EXCEPT !.finished = want > rest], <<>>)
           n == z - a
           d == Bytes(a, z)
           e == EnsureHeader(c, n, f)
<1>1. a <= z /\ n \in Nat /\ n < SizeMod
  BY ResponseAssumption DEF Asks
<1>2. fsize = n /\ rest \in Nat /\ n <= rest /\ size - rest = a
  BY DEF Asks
<1>3. want = n
  BY <1>1, <1>2, ResponseAssumption
<1>4. dd = d
  <2>1. (IF want < rest THEN want ELSE rest) = n
    BY <1>1, <1>2, <1>3
  <2>2. a + n = z
    BY <1>1
  <2> HIDE DEF want, rest, n
  <2> QED
    BY <2>1, <2>2, <1>2
<1> USE DEF Plain
<1>5. ~(c.finished \/ ~there \/ RangeRefused(size, <<from, to>>))
  BY DEF Asks, RangeRefused
<1>6. sendFile(c, there, size, from, to, f) = Then(Then(EnsureHeader(c, fsize, f), Body), Eof)
  BY <1>5 DEF sendFile
<1>7. (want > rest) = FALSE
  BY <1>1, <1>2, <1>3
<1> HIDE DEF want, rest
<1> DEFINE l == Then(EnsureHeader(c, fsize, f), Body)
<1>8. l = IF e.x # "ok" THEN e ELSE [Body(e.c) EXCEPT !.w = e.w \o Body(e.c).w]
  <2>1. EnsureHeader(c, fsize, f) = e
    BY <1>2
  <2> DEFINE k == EnsureHeader(c, fsize, f)
  <2>2. l = IF k.x # "ok" THEN k ELSE [Body(k.c) EXCEPT !.w = k.w \o Body(k.c).w]
    BY DEF Then
  <2> HIDE DEF k, e, Body, l
  <2> QED
    BY <2>1, <2>2 DEF k
<1>9. Result(e) /\ e.w \in Seq(Tokens)
  BY <1>1, ThenIsResult, EnsureHeaderTokens
<1>10. l = FileBody(c, n, d, f)
  <2>1. CASE d = <<>>
    <3>1. Body(e.c) = Ok(e.c, <<>>)
      BY <1>4, <2>1
    <3>2. e.x = "ok" => [Ok(e.c, <<>>) EXCEPT !.w = e.w \o Ok(e.c, <<>>).w] = e
      <4> HIDE DEF e
      <4>1. e.w \o <<>> = e.w
        BY <1>9
      <4>2. Ok(e.c, <<>>).w = <<>>
        BY DEF Ok, Ends
      <4>3. \A v : [Ok(e.c, <<>>) EXCEPT !.w = v] = Ok(e.c, v)
        BY DEF Ok, Ends
      <4>4. e.x = "ok" => Ok(e.c, e.w) = e
        BY <1>9 DEF Result, Ok
      <4> QED
        BY <4>1, <4>2, <4>3, <4>4
    <3>3. FileBody(c, n, d, f) = e
      BY <2>1 DEF FileBody
    <3> HIDE DEF Body, e, l
    <3> QED
      BY <1>8, <3>1, <3>2, <3>3
  <2>2. CASE d # <<>>
    <3> DEFINE q == WriteBody(e.c, d, f)
    <3>1. e.x = "ok" => e.c \in Connections /\ ~e.c.caching
      BY DEF EnsureHeader, send_header, Ok, Throw, Ends, Connections
    <3>2. e.x = "ok" => Body(e.c) = q
      <4> SUFFICES ASSUME e.x = "ok" PROVE Body(e.c) = q
        OBVIOUS
      <4> HIDE DEF e
      <4>1. e.c.caching = FALSE /\ [e.c EXCEPT !.caching = FALSE] = e.c
        BY <3>1 DEF Connections
      <4>2. q.c \in Connections /\ Alike(q.c, e.c)
        <5>1. d \in Seq(Nat) /\ e.c \in Connections
          BY <1>1, <3>1, BytesFacts
        <5> HIDE DEF d
        <5> QED
          BY <5>1, WriteBodyResult
      <4>3. Result(q)
        BY WriteBodyIsResult
      <4> HIDE DEF q
      <4>4. [q.c EXCEPT !.caching = FALSE] = q.c
        BY <4>1, <4>2 DEF Alike, Connections
      <4>5. [q EXCEPT !.c = q.c] = q
        BY <4>3 DEF Result, Ends
      <4>6. [q EXCEPT !.c.caching = FALSE] = q
        BY <4>4, <4>5
      <4>7. Body(e.c) = [WriteBody([e.c EXCEPT !.caching = FALSE], d, f) EXCEPT !.c.caching = e.c.caching]
        <5>1. dd # <<>>
          BY <2>2, <1>4
        <5> HIDE DEF dd, d
        <5>2. Body(e.c) = [WriteBody([e.c EXCEPT !.caching = FALSE], dd, f) EXCEPT !.c.caching = e.c.caching]
          BY <5>1
        <5> QED
          BY <5>2, <1>4, Zenon
      <4> HIDE DEF Body
      <4> QED
        BY <4>1, <4>6, <4>7 DEF q
    <3>3. FileBody(c, n, d, f) = IF e.x # "ok" THEN e ELSE [q EXCEPT !.w = e.w \o q.w]
      BY <2>2 DEF FileBody, HeadBody, Then
    <3> HIDE DEF Body, e, l, q
    <3> QED
      BY <1>8, <3>2, <3>3
  <2> QED
    BY <2>1, <2>2
<1>11. Then(l, Eof) = Unfinished(l)
  <2>1. \A x : Eof(x) = Ok([x EXCEPT !.finished = FALSE], <<>>)
    BY <1>7
  <2> HIDE DEF l
  <2> DEFINE E == Eof(l.c)
             O == Ok([l.c EXCEPT !.finished = FALSE], <<>>)
  <2>2. Then(l, Eof) = IF l.x # "ok" THEN l ELSE [E EXCEPT !.w = l.w \o E.w]
    BY DEF Then
  <2>3. Unfinished(l) = IF l.x # "ok" THEN l ELSE [O EXCEPT !.w = l.w \o O.w]
    BY DEF Unfinished, Then
  <2>4. E = O
    BY <2>1
  <2> HIDE DEF E, O
  <2> QED
    BY <2>2, <2>3, <2>4
<1> QED
  BY <1>6, <1>10, <1>11

\* sendFile() leaves a transfer that is not declared finished.
LEMMA UnfinishedResult ==
  ASSUME NEW p, p.c \in Connections, p.w \in Seq(Tokens), NEW r, r = Unfinished(p)
  PROVE  /\ p.x # "ok" => r = p
         /\ p.x = "ok" =>
              /\ r.x = "ok" /\ r.c \in Connections /\ Alike(r.c, p.c)
              /\ r.c.header_sent = p.c.header_sent /\ r.c.outbuf = p.c.outbuf
              /\ ~r.c.finished
              /\ r.w = p.w
<1> DEFINE c == p.c
           d == [c EXCEPT !.finished = FALSE]
<1> HIDE DEF c
<1>1. /\ d \in Connections /\ Alike(d, c)
      /\ d.header_sent = c.header_sent /\ d.outbuf = c.outbuf
      /\ ~d.finished
  <2>1. c \in Connections
    BY DEF c
  <2> QED
    BY <2>1 DEF Connections, Alike
<1> USE DEF c
<1> HIDE DEF d
<1>2. r = IF p.x # "ok" THEN p ELSE [Ok(d, <<>>) EXCEPT !.w = p.w \o @]
  BY DEF Unfinished, Then, d, Ok, Ends
<1>3. p.x = "ok" => r.c = d /\ r.x = "ok" /\ r.w = p.w \o <<>>
  BY <1>2 DEF Ok, Ends
<1>4. p.w \o <<>> = p.w
  OBVIOUS
<1> QED
  BY <1>1, <1>2, <1>3, <1>4

\* d is what is to be written behind the head of c, and n its length.
FileHead(c, n, d) ==
  /\ c \in Connections /\ Plain(c) /\ ~c.header_sent
  /\ n \in Nat /\ n < SizeMod /\ c.clen \subseteq {n}
  /\ d \in Seq(Nat) /\ Len(d) = n /\ (d = <<>> <=> n = 0)

\* What sendFile() needs to know of a head and a portion.
LEMMA HeadBodyEnds ==
  ASSUME NEW c \in Connections, NEW n, NEW d \in Seq(Nat), NEW f \in Failures,
         NEW h, h = HeadBody(c, n, d, f)
  PROVE  /\ h.c \in Connections /\ Alike(h.c, c) /\ h.c.outbuf = c.outbuf
         /\ h.x \in {"ok", "InputFailure"}
         /\ h.x = "ok" => h.c.header_sent
<1>1. /\ h.c \in Connections /\ Alike(h.c, c)
      /\ h.c.finished = c.finished /\ h.c.outbuf = c.outbuf
      /\ h.x = IF f = "none" THEN "ok" ELSE "InputFailure"
  BY HeadBodyResult, Z3T(30)
<1>2. h.x = "ok" => h.c.header_sent
  BY HeadBodyResult
<1> QED
  BY <1>1, <1>2

\* The client has read the file behind its head, an empty file too.
LEMMA FileBodySeen ==
  ASSUME NEW c, NEW f \in Failures, NEW n, NEW d, FileHead(c, n, d),
         NEW p, p = FileBody(c, n, d, f), NEW g
  PROVE  /\ p.c \in Connections /\ p.w \in Seq(Tokens)
         /\ p.x \in {"ok", "InputFailure"}
         /\ p.x = "ok" => /\ Alike(p.c, c) /\ p.c.header_sent /\ p.c.outbuf = c.outbuf
                          /\ FeedAll(Waiting(g), p.w) = Seen(p.c, g, d)
<1>0. /\ c \in Connections /\ Plain(c) /\ ~c.header_sent
      /\ n \in Nat /\ n < SizeMod /\ c.clen \subseteq {n}
      /\ d \in Seq(Nat) /\ Len(d) = n /\ (d = <<>> <=> n = 0)
  BY DEF FileHead
<1> DEFINE e == EnsureHeader(c, n, f)
           h == HeadBody(c, n, d, f)
           none == <<>>
<1>3. p = IF d = none THEN e ELSE h
  BY Zenon DEF FileBody
<1>5. Seen(c, g, none) = Waiting(g)
  BY <1>0 DEF Seen
<1>6. none \in Seq(Nat) /\ none \o d = d /\ none = <<>>
  BY <1>0
<1> HIDE DEF none
<1>7. HeadLength(c, n) = n
  <2>1. n % SizeMod = n
    BY <1>0, ResponseAssumption
  <2> QED
    BY <2>1, <1>0 DEF HeadLength, Plain
<1>8. c.clen \cup {HeadLength(c, n)} = {n}
  BY <1>0, <1>7
<1>1. CASE d = none
  <3>1. p = e /\ n = 0
    BY <1>0, <1>3, <1>1, <1>6
  <3>2. e.w \in Seq(Tokens)
    BY <1>0, EnsureHeaderTokens
  <3> HIDE DEF e
  <3>3. e = EnsureHeader(c, n, f)
    BY DEF e
  <3>4. /\ ~c.header_sent =>
            \/ e.x = "InputFailure" /\ f # "none" /\ e.c = c
            \/ e.x = "ok" /\ e.c \in Connections /\ e.c = [c EXCEPT !.header_sent = TRUE]
    BY <1>0, <3>3, EnsureHeaderResult
  <3>5. e.x = "ok" => Alike(e.c, c) /\ e.c.header_sent /\ e.c.outbuf = c.outbuf
    BY <1>0, <3>4 DEF Connections, Alike
  <3>6. e.x = "ok" => FeedAll(Seen(c, g, none), e.w) = Seen(e.c, g, none)
    <4>1. n \in Int /\ none \in Seq(Nat) /\ (~c.header_sent => none = <<>>)
      BY <1>0, <1>6
    <4>2. ~c.header_sent /\ ~c.chunked => c.clen \cup {HeadLength(c, n)} = {0}
      BY <1>8, <3>1
    <4> SUFFICES ASSUME e.x = "ok" PROVE FeedAll(Seen(c, g, none), e.w) = Seen(e.c, g, none)
      OBVIOUS
    <4> QED
      BY <1>0, <4>1, <4>2, <3>3, HeadSeen
  <3> QED
    BY <1>0, <1>1, <3>1, <3>2, <3>4, <3>5, <3>6, <1>5
<1>2. CASE d # none
  <3>1. p = h
    BY <1>3, <1>2
  <3>2. h.w \in Seq(Tokens)
    BY <1>0, HeadBodyIsResult
  <3> HIDE DEF h
  <3>0. h = HeadBody(c, n, d, f) /\ c \in Connections /\ d \in Seq(Nat)
    BY <1>0 DEF h
  <3>3. /\ h.c \in Connections /\ Alike(h.c, c) /\ h.c.outbuf = c.outbuf
        /\ h.x \in {"ok", "InputFailure"}
        /\ h.x = "ok" => h.c.header_sent
    BY <3>0, HeadBodyEnds
  <3>5. Fits(c, n, d, none)
    BY <1>0, <1>6, <1>8, <1>2 DEF Fits, Measured, Plain
  <3>6. h.x = "ok" => FeedAll(Seen(c, g, none), h.w) = Seen(h.c, g, none \o d)
    <4> SUFFICES ASSUME h.x = "ok" PROVE FeedAll(Seen(c, g, none), h.w) = Seen(h.c, g, none \o d)
      OBVIOUS
    <4>1. h = HeadBody(c, n, d, f) /\ d \in Seq(Nat) /\ none \in Seq(Nat)
      BY <1>0, <1>6 DEF h
    <4> QED
      BY <1>0, <4>1, <3>5, HeadBodySeen
  <3> QED
    BY <3>1, <3>2, <3>3, <3>6, <1>5, <1>6
<1> QED
  BY <1>1, <1>2

\* The client has got the part of the file that was asked for.
LEMMA SendFileSeen ==
  ASSUME NEW c, NEW there, NEW size, NEW from, NEW to, NEW a, NEW z, NEW f, NEW r,
         FileCall(c, there, size, from, to, a, z, f, r),
         ~c.header_sent, c.clen \subseteq {z - a}, NEW g
  PROVE  \/ r.x = "InputFailure"
         \/ /\ r.x = "ok" /\ r.c \in Connections /\ Alike(r.c, c) /\ r.c.header_sent /\ ~r.c.finished
            /\ r.c.outbuf = c.outbuf
            /\ FeedAll(Waiting(g), r.w) = Seen(r.c, g, Bytes(a, z))
<1>0. r = Unfinished(FileBody(c, z - a, Bytes(a, z), f))
  BY SendFileIs
<1> DEFINE n == z - a
           d == Bytes(a, z)
           p == FileBody(c, n, d, f)
<1>1. r = Unfinished(p)
  BY <1>0, Zenon
<1>2. n \in Nat /\ n < SizeMod /\ d \in Seq(Nat) /\ Len(d) = n /\ (d = <<>> <=> n = 0)
  <2>1. a <= z /\ n \in Nat /\ n < SizeMod /\ (n = 0 <=> a = z)
    BY ResponseAssumption DEF Asks, FileCall
  <2> QED
    BY <2>1, BytesFacts DEF FileCall
<1>3. c.clen \subseteq {n} /\ p = FileBody(c, n, d, f) /\ f \in Failures
  BY DEF FileCall
<1>4. FileHead(c, n, d)
  <2> HIDE DEF n, d
  <2> QED
    BY <1>2, <1>3 DEF FileHead, FileCall
<1> HIDE DEF n, d, p
<1>9. /\ p.c \in Connections /\ p.w \in Seq(Tokens)
      /\ p.x \in {"ok", "InputFailure"}
      /\ p.x = "ok" => /\ Alike(p.c, c) /\ p.c.header_sent /\ p.c.outbuf = c.outbuf
                       /\ FeedAll(Waiting(g), p.w) = Seen(p.c, g, d)
  BY <1>3, <1>4, FileBodySeen
<1>10. /\ p.x # "ok" => r = p
       /\ p.x = "ok" =>
              /\ r.x = "ok" /\ r.c \in Connections /\ Alike(r.c, p.c)
              /\ r.c.header_sent = p.c.header_sent /\ r.c.outbuf = p.c.outbuf
              /\ ~r.c.finished
              /\ r.w = p.w
  BY <1>1, <1>9, UnfinishedResult
<1>11. p.x = "ok" => Seen(r.c, g, d) = Seen(p.c, g, d) /\ Alike(r.c, c)
  BY <1>9, <1>10, Zenon DEF Seen, Alike
<1> QED
  BY <1>9, <1>10, <1>11 DEF d

-----------------------------------------------------------------------------
(* The rendition in the cache.                                             *)

\* The encoders that notice a failed write.
Cached == {"jpeg", "jp2", "tiff"}

\* The fields of a request, stated one by one for the provers.
JobShape ==
  /\ job = [kind |-> job.kind, size |-> job.size, range |-> job.range, done |-> job.done,
            keep |-> job.keep, answer |-> job.answer, added |-> job.added]
  /\ job.answer = [kind |-> job.answer.kind, status |-> job.answer.status, body |-> job.answer.body]

\* An image writer is at work: the cache file has what was handed over.
Writing ==
  /\ conn \in Connections
  /\ conn.caching /\ ~conn.buffered /\ ~conn.finished
  /\ conn.chunked = (job.kind # "tiff")
  /\ job.kind = "tiff" => ~conn.header_sent /\ job.done = 0
  /\ job.done \in Nat /\ job.done <= job.size
  /\ conn.cachefile = Bytes(0, job.done)

\* The rendition is complete.
Mirrored == conn \in Connections /\ conn.cachefile = Bytes(0, job.size)

\* The inductive invariant of CacheMirrorsBody.
CacheInv ==
  /\ JobShape /\ job.size \in Nat
  /\ pc = "encoded" \/ job.added => job.kind \in Encoders
  /\ pc \in {"setup", "produce", "encoded"} => ~job.added
  /\ job.kind \in Cached =>
       /\ pc = "setup" => conn = NewConnection /\ job.done = 0
       /\ pc = "produce" => Writing
       /\ pc = "encoded" => Mirrored
       /\ job.added => Mirrored /\ ~conn.caching

-----------------------------------------------------------------------------
(* The connection in step.                                                 *)

\* What the handlers meant to answer.
Replies == [kind : AllKinds, status : Statuses, body : Seq(Nat)]
\* What the client can have got.
Answers == [status : Statuses, body : Seq(Nat)]

\* The answer a is the one that was meant by m.
Meant(a, m) == a.status = m.status /\ (m.kind # "lua" => a.body = m.body)

\* The responses g are those that were meant, one for each request.
Matches(g) ==
  /\ g \in Seq(Answers) /\ log \in Seq(Replies)
  /\ Len(g) = Len(log)
  /\ \A i \in 1..Len(log) : Meant(g[i], log[i])

\* The first byte of the body before, and the last.
First == IF job.range = Whole THEN 0 ELSE job.range[1]
Last  == IF job.range = Whole THEN job.size ELSE job.range[2] + 1

\* A request that is well served so far.
Serving ==
  /\ job.kind \in AllKinds
  /\ job.size \in Sizes /\ job.done \in Nat /\ job.done <= job.size
  /\ job.kind \in Encoders => job.size > 0
  /\ \/ job.range = Whole
     \/ job.kind \in Ranged /\ job.range \in RangesOf[job.size]
  /\ ~Unguarded(job.kind, job.size, job.range)
  /\ job.answer = [kind |-> job.kind, status |-> "ok", body |-> Bytes(First, Last)]

\* Nothing was written yet.
Fresh == ~conn.header_sent /\ ~conn.finished /\ conn.outbuf = <<>> /\ job.done = 0

\* The handler is at work; b is the body that was written.
Producing(b) ==
  LET k == job.kind IN
  /\ conn.status = "ok"
  /\ ~conn.header_sent => b = <<>>
  /\ conn.chunked = (k \in Chunked)
  /\ conn.buffered = (k \in Buffered)
  /\ conn.clen = IF k = "file" THEN {Last - First} ELSE {}
  /\ k \in {"text", "elua", "test"} => ~conn.finished /\ b \o conn.outbuf = Bytes(0, job.done)
  /\ k \in {"text", "elua"} => ~conn.header_sent
  /\ k = "lua" => conn.finished = conn.header_sent /\ conn.outbuf = <<>>
  /\ k \in {"jpeg", "png", "jp2"} =>
       ~conn.finished /\ conn.outbuf = <<>> /\ b = Bytes(0, job.done) /\ job.done < job.size
  /\ k = "jpeg" => \E i \in Nat : job.done = i * BufLen
  /\ k \in {"info", "tiff"} \cup Files => Fresh
  /\ k \in Files => ~conn.caching /\ ~conn.hex

\* All of the body has been written.
Written(b) ==
  /\ conn.header_sent /\ conn.outbuf = <<>>
  /\ conn.chunked => ~conn.finished
  /\ Meant(Answer(conn.status, b), job.answer)

\* An Error has left the handler: a response is over, or one more chunk ends it,
\* or nothing has been written yet.
Escaped(g) ==
  \/ ~conn.header_sent /\ ~conn.chunked /\ ~conn.hex /\ client = Waiting(g)
  \/ ~conn.chunked /\ \E a \in Answers : client = Waiting(Append(g, a))
  \/ conn.chunked /\ ~conn.finished /\ \E a \in Answers : client = Client("size", 0, a.status, a.body, g)

\* The client has the responses g and, of the request at work, the body b.
Steady(g, b) ==
  /\ JobShape /\ Matches(g) /\ b \in Seq(Nat)
  /\ pc \in {"idle", "setup"} => client = Waiting(g)
  /\ pc = "setup" => Serving /\ conn = NewConnection /\ job.done = 0
  /\ pc \in {"produce", "encoded", "end", "return"} =>
       conn \in Connections /\ job.answer \in Replies /\ client = Seen(conn, g, b)
  /\ pc = "produce" => Serving /\ Producing(b)
  /\ pc \in {"encoded", "end"} => Written(b) /\ job.answer.status = "ok"
  /\ pc = "return" => Written(b)
  /\ pc = "escape" => conn \in Connections /\ job.answer \in Replies /\ Escaped(g)

\* The inductive invariant of InStep, BodiesDelivered and Answered: as long as
\* the client is there and has asked for nothing that the source does not guard
\* against, there are such g and b.
StepInv ==
  /\ pc \in {"idle", "setup", "produce", "encoded", "end", "return", "abort", "escape", "closed"}
  /\ ~gone /\ ~unguarded =>
       /\ pc # "abort"
       /\ pc # "closed" => \E g, b : Steady(g, b)
       /\ pc = "closed" => log \in Seq(Replies) /\ Len(client.got) >= Len(log)

\* The Content-Length of the handler's own.
OwnLength ==
  IF job.kind # "file" THEN {}
  ELSE IF job.range = Whole THEN {job.size}
  ELSE {job.range[2] - job.range[1] + 1}

\* A connection on which nothing has been written.
Unused(c) ==
  /\ c \in Connections
  /\ ~c.header_sent /\ ~c.finished /\ ~c.hex
  /\ c.outbuf = <<>> /\ c.status = "ok" /\ c.cachefile = <<>>

\* The modes in which the handlers put a new connection.
LEMMA SetupResult ==
  ASSUME Setup, conn = NewConnection, OwnLength \in SUBSET Nat
  PROVE  /\ Unused(conn')
         /\ conn'.chunked <=> job.kind \in Chunked
         /\ conn'.buffered <=> job.kind \in Buffered
         /\ conn'.caching <=> job.kind \in Encoders
         /\ conn'.clen = OwnLength
<1> DEFINE k == job.kind
           lens == OwnLength
           none == <<>>
           a == IF k \in Encoders THEN openCacheFile(conn) ELSE conn
           b == IF k \in Buffered THEN setBuffer(a) ELSE Ok(a, none)
           C(x) == IF k \in Chunked THEN setChunkedTransfer(x) ELSE Ok(x, none)
           c == Then(b, C)
           D(x) == header(x, lens)
           d == Then(c, D)
<1>1. conn' = d.c
  BY DEF Setup, OwnLength
<1>2. /\ Unused(a) /\ ~a.chunked /\ ~a.buffered /\ a.clen = {}
      /\ a.caching <=> k \in Encoders
  <2> DEFINE v == NewConnection
  <2>1. none \in Seq(Nat) /\ {} \in SUBSET Nat /\ "ok" \in Statuses
    BY DEF Statuses
  <2>2. v \in Connections
    BY <2>1 DEF NewConnection, Connections
  <2>3. /\ ~v.header_sent /\ ~v.finished /\ ~v.hex /\ ~v.chunked /\ ~v.buffered /\ ~v.caching
        /\ v.outbuf = none /\ v.status = "ok" /\ v.cachefile = none /\ v.clen = {}
    BY DEF NewConnection
  <2>4. a = IF k \in Encoders THEN openCacheFile(v) ELSE v
    OBVIOUS
  <2> HIDE DEF v, none, a
  <2>5. CASE k \in Encoders
    <3>1. a = [v EXCEPT !.caching = TRUE, !.cachefile = none]
      BY <2>4, <2>5 DEF openCacheFile, none
    <3> QED
      BY <2>1, <2>2, <2>3, <2>5, <3>1 DEF Unused, Connections, none
  <2>6. CASE k \notin Encoders
    BY <2>2, <2>3, <2>4, <2>6 DEF Unused, none
  <2> QED
    BY <2>5, <2>6
<1> HIDE DEF a
<1>3. /\ b.x = "ok"
      /\ Unused(b.c) /\ ~b.c.chunked /\ b.c.clen = {}
      /\ b.c.caching <=> k \in Encoders
      /\ b.c.buffered <=> k \in Buffered
  BY <1>2 DEF setBuffer, Ok, Throw, Ends, Unused, Connections
<1> HIDE DEF b
<1> DEFINE p == C(b.c)
           q == D(c.c)
<1>4. /\ Result(p) /\ p.x = "ok"
      /\ Unused(p.c) /\ p.c.clen = {}
      /\ p.c.caching <=> k \in Encoders
      /\ p.c.buffered <=> k \in Buffered
      /\ p.c.chunked <=> k \in Chunked
  BY <1>3 DEF setChunkedTransfer, Ok, Throw, Ends, Unused, Connections, Result
<1>5. c = [p EXCEPT !.w = b.w \o p.w]
  BY <1>3 DEF Then
<1> HIDE DEF p, c
<1>6. c.x = "ok" /\ c.c = p.c
  BY <1>4, <1>5 DEF Result, Ends
<1> HIDE DEF lens
<1>7. /\ Result(q)
      /\ Unused(q.c) /\ q.c.clen = lens
      /\ q.c.caching <=> k \in Encoders
      /\ q.c.buffered <=> k \in Buffered
      /\ q.c.chunked <=> k \in Chunked
  <2>1. lens \in SUBSET Nat
    BY DEF lens
  <2> QED
    BY <2>1, <1>4, <1>6 DEF header, Ok, Throw, Ends, Unused, Connections, Result
<1>8. d = [q EXCEPT !.w = c.w \o q.w]
  BY <1>6 DEF Then
<1> HIDE DEF q, d
<1>9. d.c = q.c
  BY <1>7, <1>8 DEF Result, Ends
<1> QED
  BY <1>1, <1>7, <1>9 DEF lens

\* An encoder hands over no more than is left of the image.
LEMMA PortionFacts ==
  ASSUME NEW k \in Portions, JobShape, job.kind \in Encoders,
         job.size \in Nat, job.done \in Nat, job.done <= job.size
  PROVE  k \in Nat /\ job.done + k \in Nat /\ job.done + k <= job.size
<1> DEFINE s == job.size
           t == job.done
           rest == s - t
<1>1. k \in 0..rest
  <2>1. rest \in Nat
    OBVIOUS
  <2>2. CASE job.kind = "jpeg"
    <3>1. k = IF rest >= BufLen THEN BufLen ELSE rest
      BY <2>2 DEF Portions
    <3> HIDE DEF rest
    <3> QED
      BY <2>1, <3>1, ResponseAssumption
  <2>3. CASE job.kind = "tiff"
    <3>1. k = rest
      BY <2>3 DEF Portions
    <3> HIDE DEF rest
    <3> QED
      BY <2>1, <3>1
  <2>4. CASE job.kind \notin {"jpeg", "tiff"}
    <3>1. k \in 1..rest
      BY <2>4 DEF Portions
    <3> HIDE DEF rest
    <3> QED
      BY <2>1, <3>1
  <2> QED
    BY <2>2, <2>3, <2>4
<1> HIDE DEF s, t
<1>2. s \in Nat /\ t \in Nat /\ t <= s
  BY DEF s, t
<1>3. t + k \in Nat /\ t + k <= s /\ k \in Nat
  BY <1>1, <1>2
<1> QED
  BY <1>3 DEF s, t

\* A writer hands over a portion: it reaches the cache file unless the write
\* fails, and then the request is given up.
LEMMA EncodeMirrors ==
  ASSUME CacheInv, job.kind \in Cached, NEW k, NEW f \in Failures, Encode(k, f)
  PROVE  /\ pc' = "produce" => Writing'
         /\ pc' = "encoded" => Mirrored'
         /\ pc' \in {"produce", "encoded", "abort"}
<1> DEFINE t == job.done
           d == Bytes(t, t + k)
           c == conn
           r == sendAndFlush(c, d, f)
           next == IF WriterEnds(k) THEN "encoded" ELSE "produce"
<1>1. /\ pc = "produce" /\ k \in Portions
      /\ conn' = r.c
      /\ pc' = CASE r.x = "ok" -> next [] r.x = "InputFailure" -> "abort" [] OTHER -> "escape"
      /\ job' = [job EXCEPT !.done = @ + k]
  BY DEF Encode, Called, OnInput, Swallows, Cached
<1>2. Writing /\ job.size \in Nat /\ JobShape /\ job.kind \in Encoders
  BY <1>1 DEF CacheInv, Cached, Encoders
<1>3. t \in Nat /\ k \in Nat /\ t + k \in Nat /\ t <= t + k /\ t + k <= job.size
  <2>1. k \in Nat /\ t + k \in Nat /\ t + k <= job.size
    BY <1>1, <1>2, PortionFacts DEF Writing
  <2>2. t \in Nat
    BY <1>2 DEF Writing
  <2> HIDE DEF t
  <2> QED
    BY <2>1, <2>2
<1>4. /\ job'.kind = job.kind /\ job'.size = job.size /\ job'.done = t + k
  BY <1>1, <1>2 DEF JobShape
<1>5. /\ c \in Connections /\ c.caching /\ ~c.buffered /\ ~c.finished
      /\ c.chunked = (job.kind # "tiff") /\ (job.kind = "tiff" => ~c.header_sent /\ t = 0)
      /\ c.cachefile = Bytes(0, t)
  BY <1>2 DEF Writing
<1>6. d \in Seq(Nat) /\ c.cachefile \o d = Bytes(0, t + k)
  <2> DEFINE z == t + k
  <2> HIDE DEF t, c, z
  <2>1. t \in Nat /\ z \in Nat /\ t <= z /\ 0 <= t /\ 0 \in Nat
    BY <1>3 DEF z
  <2>2. Bytes(t, z) \in Seq(Nat) /\ Bytes(0, t) \o Bytes(t, z) = Bytes(0, z)
    BY <2>1, BytesWhole, ZenonT(30)
  <2> QED
    BY <2>2, <1>5 DEF z
<1> HIDE DEF t, d, c
<1>7. /\ r.c \in Connections /\ Alike(r.c, c)
      /\ r.x = IF f = "none" THEN "ok" ELSE "InputFailure"
  <2>1. ~c.finished /\ (c.header_sent => c.chunked) /\ ~(c.buffered /\ c.chunked) /\ c \in Connections
    BY <1>5
  <2>2. r = sendAndFlush(c, d, f)
    OBVIOUS
  <2> HIDE DEF r
  <2> QED
    BY <1>6, <2>1, <2>2, SendAndFlushResult, Z3
<1>8. r.x = "ok" => r.c.cachefile = c.cachefile \o d /\ r.c.finished = (~c.chunked)
  <2>1. ~c.finished /\ (c.header_sent => c.chunked) /\ ~(c.buffered /\ c.chunked) /\ c \in Connections
    BY <1>5
  <2>2. r = sendAndFlush(c, d, f)
    OBVIOUS
  <2> HIDE DEF r
  <2>3. r.x = "ok" => (c.caching => r.c.cachefile = c.cachefile \o d)
    BY <1>6, <2>1, <2>2, SendAndFlushResult
  <2>4. r.x = "ok" => r.c.finished = (~c.chunked)
    BY <1>6, <2>1, <2>2, SendAndFlushResult
  <2> QED
    BY <2>3, <2>4, <1>5
<1> HIDE DEF r
<1>9. CASE r.x = "ok"
  <2>1. pc' = next /\ conn'.cachefile = Bytes(0, t + k) /\ conn' \in Connections
    BY <1>1, <1>6, <1>7, <1>8, <1>9
  <2>2. CASE WriterEnds(k)
    <3>1. t + k = job.size
      BY <2>2 DEF WriterEnds, t
    <3> QED
      BY <2>1, <2>2, <3>1, <1>4 DEF Mirrored
  <2>3. CASE ~WriterEnds(k)
    <3>1. job.kind # "tiff"
      <4> SUFFICES ASSUME job.kind = "tiff" PROVE FALSE
        OBVIOUS
      <4>1. k = job.size - t
        BY <1>1 DEF Portions, t
      <4>2. t + k = job.size
        BY <4>1, <1>3, <1>2
      <4> QED
        BY <2>3, <4>2 DEF WriterEnds, t
    <3>2. c.chunked = TRUE /\ conn'.chunked = c.chunked /\ conn'.buffered = c.buffered /\ conn'.caching = c.caching
      BY <1>1, <1>5, <1>7, <3>1 DEF Alike, Connections
    <3>3. ~conn'.finished
      BY <1>1, <1>8, <1>9, <3>2
    <3>4. Writing'
      BY <1>3, <1>4, <1>5, <2>1, <3>1, <3>2, <3>3 DEF Writing
    <3> QED
      BY <2>1, <2>3, <3>4
  <2> QED
    BY <2>2, <2>3
<1>10. CASE r.x # "ok"
  <2>1. pc' = "abort"
    BY <1>1, <1>7, <1>10
  <2> QED
    BY <2>1
<1> QED
  BY <1>9, <1>10

\* CacheInv is inductive, for every kind of request.
LEMMA CacheInductive == CacheInv /\ [Next]_vars => CacheInv'
<1> SUFFICES ASSUME CacheInv, [Next]_vars PROVE CacheInv'
  OBVIOUS
<1>1. JobShape /\ job.size \in Nat
  BY DEF CacheInv
\* A step that leaves the job alone and goes on behind the encoder.
<1>2. ASSUME job' = job, pc' \notin {"setup", "produce", "encoded"},
             job.kind \in Cached /\ job.added => Mirrored' /\ ~conn'.caching
      PROVE  CacheInv'
  BY <1>2 DEF CacheInv, JobShape
\* A step of a handler that is not one of the encoders.
<1>3. ASSUME JobShape', job'.kind = job.kind, job'.size = job.size, job'.added = job.added,
             job.kind \notin Encoders, pc' # "encoded"
      PROVE  CacheInv'
  BY <1>1, <1>3 DEF CacheInv, Cached, Encoders
<1>4. ASSUME NEW kind \in Kinds, NEW n \in Sizes, NEW keep, NEW range, Accept(kind, n, range, keep)
      PROVE  CacheInv'
  <2>1. /\ conn' = NewConnection /\ pc' = "setup"
        /\ JobShape' /\ job'.kind = kind /\ job'.size = n /\ job'.done = 0 /\ ~job'.added
    BY <1>4 DEF Accept, NoJob, JobShape
  <2>2. n \in Nat
    BY <1>4, ResponseAssumption
  <2> QED
    BY <2>1, <2>2 DEF CacheInv
<1>5. ASSUME Setup PROVE CacheInv'
  <2>1. pc = "setup" /\ pc' = "produce" /\ job' = job
    BY <1>5 DEF Setup
  <2>2. ASSUME job.kind \in Cached PROVE Writing'
    <3>1. conn = NewConnection /\ job.done = 0
      BY <2>1, <2>2 DEF CacheInv
    <3>2. OwnLength = {} /\ OwnLength \in SUBSET Nat
      BY <2>2 DEF OwnLength, Cached
    <3>3. /\ Unused(conn')
          /\ conn'.chunked <=> job.kind \in Chunked
          /\ conn'.buffered <=> job.kind \in Buffered
          /\ conn'.caching <=> job.kind \in Encoders
      BY <1>5, <3>1, <3>2, SetupResult
    <3>4. conn'.chunked = (job.kind # "tiff")
      BY <2>2, <3>3 DEF Cached, Chunked, Unused, Connections
    <3>5. conn'.caching /\ ~conn'.buffered
      BY <2>2, <3>3 DEF Cached, Buffered, Encoders
    <3>6. Bytes(0, 0) = <<>>
      <4>1. 0 \in Nat /\ 0 <= 0
        OBVIOUS
      <4> QED
        BY <4>1, BytesFacts
    <3> QED
      BY <1>1, <2>1, <3>1, <3>3, <3>4, <3>5, <3>6 DEF Writing, Unused
  <2>3. ~job.added
    BY <2>1 DEF CacheInv
  <2> QED
    BY <1>1, <2>1, <2>2, <2>3 DEF CacheInv, JobShape
<1>6. ASSUME NEW f \in Failures, NEW k, SendText(k, f) PROVE CacheInv'
  <2>1. /\ job.kind \in Texts /\ job' = [job EXCEPT !.done = @ + k] /\ pc' # "encoded"
    BY <1>6 DEF SendText, Called, OnInput
  <2>2. JobShape' /\ job'.kind = job.kind /\ job'.size = job.size /\ job'.added = job.added
    BY <2>1, <1>1 DEF JobShape
  <2> QED
    BY <1>3, <2>1, <2>2 DEF Texts, Encoders
<1>7. ASSUME NEW f \in Failures, FlushPart(f) \/ TextEnds(f) PROVE CacheInv'
  <2>1. job.kind \in Texts /\ job' = job /\ pc' # "encoded"
    BY <1>7 DEF FlushPart, TextEnds, Called, OnInput, Texts
  <2> QED
    BY <1>1, <1>3, <2>1 DEF Texts, Encoders, JobShape
<1>8. ASSUME NEW f \in Failures, SendInfo(f) PROVE CacheInv'
  <2>1. job.kind = "info" /\ job' = [job EXCEPT !.done = job.size] /\ pc' # "encoded"
    BY <1>8 DEF SendInfo, Called, OnInput
  <2>2. JobShape' /\ job'.kind = job.kind /\ job'.size = job.size /\ job'.added = job.added
    BY <2>1, <1>1 DEF JobShape
  <2> QED
    BY <1>3, <2>1, <2>2 DEF Encoders
<1>9. ASSUME NEW f \in Failures, NEW k, Encode(k, f) PROVE CacheInv'
  <2>1. /\ pc = "produce" /\ job.kind \in Encoders
        /\ job' = [job EXCEPT !.done = @ + k] /\ pc' # "setup"
    BY <1>9 DEF Encode, Called, OnInput
  <2>2. /\ JobShape' /\ job'.kind = job.kind /\ job'.size = job.size /\ job'.added = job.added
    BY <2>1, <1>1 DEF JobShape
  <2>3. ~job.added
    BY <2>1 DEF CacheInv
  <2>4. job.kind \in Cached => (pc' = "produce" => Writing') /\ (pc' = "encoded" => Mirrored')
    BY <1>9, EncodeMirrors
  <2> QED
    BY <1>1, <2>1, <2>2, <2>3, <2>4 DEF CacheInv
<1>10. ASSUME NEW f \in Failures, HandlerFails(f) PROVE CacheInv'
  <2>1. /\ pc = "produce" /\ job' = Failed(conn.outbuf \o ErrorText)
        /\ pc' \notin {"setup", "produce", "encoded"}
    BY <1>10 DEF HandlerFails, Called
  <2>2. /\ JobShape' /\ job'.kind = job.kind /\ job'.size = job.size /\ job'.added = job.added
    BY <2>1, <1>1 DEF JobShape, Failed
  <2>3. ~job.added
    BY <2>1 DEF CacheInv
  <2> QED
    BY <1>1, <2>1, <2>2, <2>3 DEF CacheInv
<1>11. ASSUME NEW f \in Failures, NEW there, SendFile(there, f) PROVE CacheInv'
  <2>1. /\ job.kind \in Files /\ job' \in {job, Failed(ErrorText)} /\ pc' # "encoded"
    BY <1>11 DEF SendFile, Called, OnInput
  <2>2. /\ JobShape' /\ job'.kind = job.kind /\ job'.size = job.size /\ job'.added = job.added
    <3>1. CASE job' = job
      BY <3>1, <1>1 DEF JobShape
    <3>2. CASE job' = Failed(ErrorText)
      BY <3>2, <1>1 DEF JobShape, Failed
    <3> QED
      BY <2>1, <3>1, <3>2
  <2> QED
    BY <1>3, <2>1, <2>2 DEF Files, Encoders
<1>12. ASSUME NEW f \in Failures, LastFlush(f) PROVE CacheInv'
  <2> DEFINE r == flush(conn, f)
  <2>1. pc = "end" /\ conn' = r.c /\ job' = job /\ pc' \notin {"setup", "produce", "encoded"}
    BY <1>12 DEF LastFlush, Called, OnInput
  <2>2. ASSUME job.kind \in Cached, job.added PROVE Mirrored' /\ ~conn'.caching
    <3>1. conn \in Connections /\ ~conn.caching /\ conn.cachefile = Bytes(0, job.size)
      BY <2>2 DEF CacheInv, Mirrored
    <3>2. r = flush(conn, f)
      OBVIOUS
    <3> HIDE DEF r
    <3>3. r.c \in Connections /\ Alike(r.c, conn) /\ (~conn.caching => r.c.cachefile = conn.cachefile)
      BY <3>1, <3>2, FlushResult
    <3> QED
      BY <2>1, <3>1, <3>3 DEF Mirrored, Alike
  <2> QED
    BY <1>2, <2>1, <2>2
<1>13. ASSUME AddToCache PROVE CacheInv'
  <2>1. /\ pc = "encoded" /\ pc' = "end" /\ conn' = closeCacheFile(conn)
        /\ job' = [job EXCEPT !.added = TRUE]
    BY <1>13 DEF AddToCache
  <2>2. /\ JobShape' /\ job'.kind = job.kind /\ job'.size = job.size
    BY <2>1, <1>1 DEF JobShape
  <2>3. job.kind \in Encoders /\ (job.kind \in Cached => Mirrored)
    BY <2>1 DEF CacheInv
  <2>4. Mirrored => Mirrored' /\ ~conn'.caching
    BY <2>1, <2>2 DEF Mirrored, closeCacheFile, Connections
  <2> QED
    BY <1>1, <2>1, <2>2, <2>3, <2>4 DEF CacheInv
<1>14. ASSUME Return \/ InternalError \/ UNCHANGED vars PROVE CacheInv'
  <2>1. CASE UNCHANGED vars
    BY <2>1 DEF CacheInv, vars, JobShape, Writing, Mirrored
  <2>2. CASE Return \/ InternalError
    <3>1. conn' = conn /\ job' = job /\ pc' \notin {"setup", "produce", "encoded"}
      BY <2>2 DEF Return, InternalError
    <3>2. job.kind \in Cached /\ job.added => Mirrored' /\ ~conn'.caching
      BY <3>1 DEF CacheInv, Mirrored
    <3> QED
      BY <1>2, <3>1, <3>2
  <2> QED
    BY <1>14, <2>1, <2>2
<1> QED
  BY <1>4, <1>5, <1>6, <1>7, <1>8, <1>9, <1>10, <1>11, <1>12, <1>13, <1>14 DEF Next

\* A rendition that is entered in the cache is what was handed to the client,
\* whatever the handlers, the sizes and the failures of the stream are.
THEOREM CacheCorrect == Spec => []CacheMirrorsBody
<1>1. Init => CacheInv
  BY DEF Init, NoJob, CacheInv, JobShape, Cached
<1>2. CacheInv => CacheMirrorsBody
  BY DEF CacheInv, CacheMirrorsBody, Cached, Encoders, Mirrored
<1> QED
  BY <1>1, <1>2, CacheInductive, PTL DEF Spec

-----------------------------------------------------------------------------
(* One lemma for each action that a connection in step can take.           *)

\* A call that left the client there: its result, and where the handler goes on.
LEMMA CalledFacts ==
  ASSUME NEW r, NEW next, NEW onInput, NEW onError, Called(r, next, onInput, onError), ~gone'
  PROVE  /\ r.x # "InputFailure" /\ conn' = r.c /\ client' = FeedAll(client, r.w)
         /\ r.x = "ok" => pc' = next
         /\ r.x # "ok" => pc' = onError
  BY DEF Called

\* The whole body or a range of it is asked for, and sendFile() keeps to that.
Kept == job.range = Whole \/ RangeKept(job.size, job.range)

\* What is asked for lies within the file or image, or is refused by sendFile().
LEMMA AskedFacts ==
  ASSUME Serving
  PROVE  /\ job.size \in Nat /\ job.size < SizeMod
         /\ First \in Nat /\ Last \in Int
         /\ Bytes(First, Last) \in Seq(Nat)
         /\ job.answer \in Replies
         /\ job.kind \notin Ranged => First = 0 /\ Last = job.size
         /\ Kept => /\ Last \in Nat /\ First <= Last /\ Last <= job.size
                    /\ Last - First \in Nat /\ Last - First < SizeMod
                    /\ Asks(job.size, IF job.range = Whole THEN 0 ELSE job.range[1],
                                      IF job.range = Whole THEN 0 ELSE job.range[2], First, Last)
         /\ ~Kept => job.kind # "file" /\ RangeRefused(job.size, job.range)
         /\ job.range # Whole => job.range[1] \in Nat /\ job.range[2] \in Int
<1> DEFINE n == job.size
           r == job.range
<1>1. n \in Sizes /\ n \in Nat /\ n < SizeMod
  BY ResponseAssumption DEF Serving
<1>2. r # Whole => r \in RangesOf[n] /\ job.kind \in Ranged
  BY DEF Serving
<1>3. r # Whole => r[1] \in Nat /\ r[2] \in Int
  BY <1>1, <1>2, ResponseAssumption
<1>4. SizeMod \in Nat
  BY ResponseAssumption
<1>0. ~Kept => job.kind # "file" /\ RangeRefused(job.size, job.range)
  BY DEF Serving, Unguarded, Kept
<1>k. Kept => r = Whole \/ (r[1] <= r[2] /\ 1 <= r[2] /\ r[2] < n) \/ (r[1] = 0 /\ r[2] + 1 = n)
  <2>1. r # Whole /\ RangeKept(n, r) =>
          (r[1] <= r[2] /\ r[2] \in 1..n-1) \/ (r[1] = 0 /\ r[2] + 1 = n)
    BY DEF RangeKept
  <2> DEFINE x == r[1]
             y == r[2]
  <2>2. (x <= y /\ y \in 1..n-1) => x <= y /\ 1 <= y /\ y < n
    <3> HIDE DEF n, x, y
    <3> QED
      BY <1>1
  <2> QED
    BY <2>1, <2>2 DEF Kept
<1> HIDE DEF n, r
<1>w. r = Whole => First = 0 /\ Last = n
  BY DEF First, Last, n, r
<1>r. r # Whole => First = r[1] /\ Last = r[2] + 1
  BY DEF First, Last, n, r
<1>5. First \in Nat /\ Last \in Int
  BY <1>1, <1>3, <1>w, <1>r
<1>6. Kept => /\ Last \in Nat /\ First <= Last /\ Last <= n
              /\ Last - First \in Nat /\ Last - First < SizeMod
  <2>1. CASE r = Whole
    BY <2>1, <1>w, <1>1, <1>4
  <2>2. CASE r # Whole
    <3> DEFINE x == r[1]
               y == r[2]
    <3>1. First = x /\ Last = y + 1
      BY <2>2, <1>r
    <3>2. Kept => x \in Nat /\ y \in Int /\ ((x <= y /\ 1 <= y /\ y < n) \/ (x = 0 /\ y + 1 = n))
      BY <1>3, <1>k, <2>2
    <3> HIDE DEF x, y
    <3> QED
      BY <3>1, <3>2, <1>1, <1>4
  <2> QED
    BY <2>1, <2>2
<1>7. Bytes(First, Last) \in Seq(Nat)
  BY <1>5, BytesType
<1>8. job.answer \in Replies
  BY <1>7 DEF Serving, Replies, Statuses
<1>9. job.kind \notin Ranged => First = 0 /\ Last = job.size
  BY <1>2, <1>w DEF n
<1>10. Kept => Asks(n, IF r = Whole THEN 0 ELSE r[1], IF r = Whole THEN 0 ELSE r[2], First, Last)
  <2>1. CASE r = Whole
    BY <2>1, <1>w, <1>1 DEF Asks
  <2>2. CASE r # Whole
    <3> DEFINE x == r[1]
               y == r[2]
    <3>1. First = x /\ Last = y + 1
      BY <2>2, <1>r
    <3>2. Kept => x \in Nat /\ y \in Int /\ ((x <= y /\ 1 <= y /\ y < n) \/ (x = 0 /\ y + 1 = n))
      BY <1>3, <1>k, <2>2
    <3>3. Kept => Asks(n, x, y, First, Last)
      <4> HIDE DEF x, y
      <4> QED
        BY <3>1, <3>2, <1>1 DEF Asks
    <3> QED
      BY <2>2, <3>3
  <2> QED
    BY <2>1, <2>2
<1> QED
  BY <1>0, <1>1, <1>3, <1>5, <1>6, <1>7, <1>8, <1>9, <1>10 DEF n, r

\* A new request.
LEMMA AcceptStep ==
  ASSUME NEW g, NEW b, Steady(g, b), NEW kind \in Kinds, NEW n \in Sizes, NEW keep,
         NEW range \in {Whole} \cup (IF kind \in Ranged THEN RangesOf[n] ELSE {}),
         Accept(kind, n, range, keep), ~unguarded'
  PROVE  Steady(g, b)'
<1>1. /\ pc = "idle" /\ conn' = NewConnection /\ pc' = "setup" /\ client' = client /\ log' = log
      /\ kind \in Encoders => n > 0
      /\ ~Unguarded(kind, n, range)
  BY DEF Accept
<1>2. /\ JobShape' /\ job'.kind = kind /\ job'.size = n /\ job'.done = 0 /\ job'.range = range
      /\ job'.answer = [kind |-> kind, status |-> "ok",
                        body |-> IF range = Whole THEN Bytes(0, n) ELSE Bytes(range[1], range[2] + 1)]
  BY DEF Accept, NoJob, JobShape
<1>3. First' = (IF range = Whole THEN 0 ELSE range[1]) /\ Last' = IF range = Whole THEN n ELSE range[2] + 1
  BY <1>2 DEF First, Last
<1>4. job'.answer = [kind |-> kind, status |-> "ok", body |-> Bytes(First', Last')]
  BY <1>2, <1>3
<1>5. kind \in AllKinds /\ n \in Nat
  BY ResponseAssumption
<1>6. range = Whole \/ (kind \in Ranged /\ range \in RangesOf[n])
  OBVIOUS
<1>7. Serving'
  BY <1>1, <1>2, <1>4, <1>5, <1>6 DEF Serving
<1>8. Matches(g)' /\ b \in Seq(Nat) /\ client' = Waiting(g)
  BY <1>1 DEF Steady, Matches
<1> QED
  BY <1>1, <1>2, <1>7, <1>8 DEF Steady

\* The handler puts the connection in its mode.
LEMMA SetupStep ==
  ASSUME NEW g, NEW b, Steady(g, b), Setup
  PROVE  Steady(g, <<>>)'
<1> DEFINE none == <<>>
<1>1. /\ pc = "setup" /\ pc' = "produce" /\ job' = job /\ client' = client /\ log' = log
  BY DEF Setup
<1>2. Serving /\ conn = NewConnection /\ job.done = 0 /\ client = Waiting(g) /\ JobShape /\ Matches(g)
  BY <1>1 DEF Steady
<1>3. /\ First \in Nat /\ job.answer \in Replies /\ job.size \in Nat
      /\ job.kind = "file" => Last - First \in Nat
  <2>1. First \in Nat /\ job.answer \in Replies /\ job.size \in Nat
    BY <1>2, AskedFacts
  <2>2. job.kind = "file" => Kept
    BY <1>2, AskedFacts
  <2>3. Kept => Last - First \in Nat
    BY <1>2, AskedFacts
  <2> QED
    BY <2>1, <2>2, <2>3
<1>4. OwnLength = IF job.kind = "file" THEN {Last - First} ELSE {}
  <2>1. CASE job.range = Whole
    <3> DEFINE s == job.size
    <3>1. First = 0 /\ Last = s /\ OwnLength = IF job.kind = "file" THEN {s} ELSE {}
      BY <2>1 DEF OwnLength, First, Last
    <3>2. s \in Nat
      BY <1>3
    <3> HIDE DEF s
    <3>3. Last - First = s
      BY <3>1, <3>2
    <3> QED
      BY <3>1, <3>3
  <2>2. CASE job.range # Whole
    <3> DEFINE x == job.range[1]
               y == job.range[2]
    <3>1. First = x /\ Last = y + 1 /\ OwnLength = IF job.kind = "file" THEN {y - x + 1} ELSE {}
      BY <2>2 DEF First, Last, OwnLength
    <3>2. x \in Nat /\ y \in Int
      BY <1>2, <2>2, AskedFacts
    <3> HIDE DEF x, y
    <3> DEFINE l == y - x + 1
    <3>3. l = Last - First
      BY <3>1, <3>2
    <3>4. OwnLength = IF job.kind = "file" THEN {l} ELSE {}
      BY <3>1
    <3> HIDE DEF l
    <3> QED
      BY <3>3, <3>4
  <2> QED
    BY <2>1, <2>2
<1>5. OwnLength \in SUBSET Nat
  BY <1>3, <1>4
<1>6. /\ Unused(conn')
      /\ conn'.chunked <=> job.kind \in Chunked
      /\ conn'.buffered <=> job.kind \in Buffered
      /\ conn'.caching <=> job.kind \in Encoders
      /\ conn'.clen = OwnLength
  BY <1>2, <1>5, SetupResult
<1>7. conn' \in Connections /\ Seen(conn', g, none) = Waiting(g)
  BY <1>6 DEF Unused, Seen
<1>8. none \in Seq(Nat) /\ Bytes(0, 0) = none /\ none \o none = none
  <2>1. 0 \in Nat /\ 0 <= 0
    OBVIOUS
  <2> QED
    BY <2>1, BytesFacts
<1>9. conn'.chunked = (job.kind \in Chunked) /\ conn'.buffered = (job.kind \in Buffered)
  BY <1>6 DEF Unused, Connections
<1> HIDE DEF none
<1>10. Serving' /\ First' = First /\ Last' = Last /\ Matches(g)' /\ JobShape'
  BY <1>1, <1>2 DEF Serving, First, Last, Matches, JobShape
<1>11. ASSUME job.kind \in Encoders PROVE 0 < job.size
  BY <1>2, <1>11, <1>3 DEF Serving
<1>12. 0 = 0 * BufLen /\ 0 \in Nat
  BY ResponseAssumption
<1>13. job.kind \in Files => ~conn'.caching
  BY <1>6 DEF Files, Encoders
<1>14. ~conn'.header_sent /\ ~conn'.finished /\ ~conn'.hex /\ conn'.outbuf = none /\ conn'.status = "ok"
  BY <1>6 DEF Unused, none
<1>15. Producing(none)'
  <2>1. conn'.clen = IF job'.kind = "file" THEN {Last' - First'} ELSE {}
    BY <1>1, <1>4, <1>6, <1>10
  <2>2. Fresh'
    BY <1>1, <1>2, <1>14 DEF Fresh, none
  <2>3. job'.done = 0 /\ job'.kind = job.kind /\ job'.size = job.size
    BY <1>1, <1>2
  <2>4. job'.kind \in {"jpeg", "png", "jp2"} => job'.done < job'.size
    BY <1>11, <2>3 DEF Encoders
  <2>5. none \o conn'.outbuf = Bytes(0, job'.done) /\ none = Bytes(0, job'.done)
    BY <1>8, <1>14, <2>3
  <2>6. \E i \in Nat : job'.done = i * BufLen
    BY <1>12, <2>3
  <2>7. conn'.finished = conn'.header_sent
    BY <1>6 DEF Unused, Connections
  <2> QED
    BY <1>9, <1>13, <1>14, <2>1, <2>2, <2>3, <2>4, <2>5, <2>6, <2>7 DEF Producing, none
<1>16. client' = Seen(conn', g, none)
  BY <1>1, <1>2, <1>7
<1> QED
  BY <1>1, <1>3, <1>7, <1>8, <1>10, <1>15, <1>16 DEF Steady, none

\* A portion more is done.
LEMMA DoneStep ==
  ASSUME Serving, JobShape, NEW k \in Nat, job.done + k <= job.size, job' = [job EXCEPT !.done = @ + k]
  PROVE  /\ Serving' /\ JobShape' /\ First' = First /\ Last' = Last
         /\ job'.done = job.done + k /\ job'.kind = job.kind /\ job'.size = job.size
         /\ job'.answer = job.answer
<1>1. /\ JobShape' /\ job'.kind = job.kind /\ job'.size = job.size /\ job'.range = job.range
      /\ job'.answer = job.answer /\ job'.done = job.done + k
  BY DEF JobShape
<1>2. First' = First /\ Last' = Last
  BY <1>1 DEF First, Last
<1>3. job.done \in Nat /\ job.done + k \in Nat
  BY DEF Serving
<1>4. Serving'
  BY <1>1, <1>2, <1>3 DEF Serving
<1> QED
  BY <1>1, <1>2, <1>4

\* What a step of a handler that goes on has to show.
LEMMA GoesOn ==
  ASSUME NEW g, NEW b, Steady(g, b), NEW a \in Seq(Nat), pc' = "produce", log' = log,
         JobShape', Serving', conn' \in Connections, job'.answer = job.answer, pc = "produce",
         client' = Seen(conn', g, a), Producing(a)'
  PROVE  Steady(g, a)'
<1>1. job'.answer \in Replies /\ Matches(g)'
  BY DEF Steady, Matches
<1> QED
  BY <1>1 DEF Steady

\* Three portions in a row.
LEMMA Association ==
  \A x, y, z \in Seq(Nat) : x \o (y \o z) = (x \o y) \o z
  BY SMTT(30)

\* A handler prints: to its buffer, or at once.
LEMMA SendTextStep ==
  ASSUME NEW g, NEW b, Steady(g, b), NEW k, NEW f \in Failures, SendText(k, f), ~gone'
  PROVE  \E a : Steady(g, a)'
<1> DEFINE t == job.done
           d == Bytes(t, t + k)
           r == send(conn, d, f)
           c == conn
           o == conn.outbuf
           none == <<>>
<1>1. /\ pc = "produce" /\ job.kind \in Texts /\ k \in 1..(job.size - job.done)
      /\ job' = [job EXCEPT !.done = @ + k] /\ log' = log
      /\ Called(r, "produce", OnInput, IF job.kind = "lua" THEN "produce" ELSE "escape")
  BY DEF SendText
<1>2. /\ r.x # "InputFailure" /\ conn' = r.c /\ client' = FeedAll(client, r.w)
      /\ r.x = "ok" => pc' = "produce"
      /\ r.x # "ok" => pc' = IF job.kind = "lua" THEN "produce" ELSE "escape"
  BY <1>1, CalledFacts
<1>3. /\ Serving /\ Producing(b) /\ JobShape /\ conn \in Connections /\ client = Seen(conn, g, b)
      /\ b \in Seq(Nat)
  BY <1>1 DEF Steady
<1>4. /\ job.size \in Nat /\ job.size < SizeMod /\ t \in Nat /\ t <= job.size
  BY <1>3, AskedFacts DEF Serving
<1>5. k \in Nat /\ t + k \in Nat /\ t <= t + k /\ t + k <= job.size /\ k < SizeMod
  <2> DEFINE s == job.size
  <2>1. k \in 1..(s - t) /\ s \in Nat /\ s < SizeMod /\ t \in Nat /\ t <= s /\ SizeMod \in Nat
    BY <1>1, <1>4, ResponseAssumption
  <2> HIDE DEF s, t
  <2>2. k \in Nat /\ t + k \in Nat /\ t <= t + k /\ t + k <= s /\ k < SizeMod
    BY <2>1
  <2> QED
    BY <2>2 DEF s
<1>6. /\ Serving' /\ JobShape' /\ First' = First /\ Last' = Last
      /\ job'.done = t + k /\ job'.kind = job.kind /\ job'.size = job.size
      /\ job'.answer = job.answer
  BY <1>1, <1>3, <1>5, DoneStep
<1>7. /\ d \in Seq(Nat) /\ Len(d) < SizeMod
      /\ Bytes(0, t) \o d = Bytes(0, t + k) /\ Bytes(0, t) \in Seq(Nat)
  <2> DEFINE z == t + k
  <2>1. t \in Nat /\ z \in Nat /\ t <= z /\ 0 <= t /\ 0 \in Nat /\ z - t = k
    BY <1>4, <1>5
  <2> HIDE DEF t, z
  <2>2. Bytes(t, z) \in Seq(Nat) /\ Bytes(0, t) \o Bytes(t, z) = Bytes(0, z) /\ Bytes(0, t) \in Seq(Nat)
    BY <2>1, BytesWhole, ZenonT(30)
  <2>3. Len(Bytes(t, z)) = z - t
    BY <2>1, BytesFacts
  <2> QED
    BY <2>1, <2>2, <2>3, <1>5 DEF z
<1>8. c \in Connections /\ o \in Seq(Nat) /\ none \in Seq(Nat)
  BY <1>3 DEF Connections
<1>9. r = send(c, d, f)
  OBVIOUS
<1> HIDE DEF t, d, r
\* The handlers with a buffer.
<1>10. CASE job.kind # "lua"
  <2>1. /\ c.buffered /\ ~c.finished /\ b \o o = Bytes(0, t) /\ job.kind \in {"text", "elua", "test"}
    BY <1>1, <1>3, <1>10 DEF Producing, Texts, Buffered, t
  <2> DEFINE e == [c EXCEPT !.outbuf = @ \o d]
             od == o \o d
  <2>2. r = Ok(e, <<>>)
    BY <1>7, <1>8, <1>9, <2>1, SendBuffered
  <2>3. od \in Seq(Nat) /\ b \o od = Bytes(0, t + k)
    <3> HIDE DEF o
    <3>1. b \in Seq(Nat) /\ o \in Seq(Nat) /\ d \in Seq(Nat)
      BY <1>3, <1>7, <1>8
    <3>2. b \o (o \o d) = (b \o o) \o d
      BY <3>1, Association
    <3>3. o \o d \in Seq(Nat)
      BY <3>1
    <3> QED
      BY <3>2, <3>3, <2>1, <1>7
  <2> HIDE DEF od
  <2>4. /\ e \in Connections /\ Alike(e, c) /\ e.header_sent = c.header_sent /\ e.finished = c.finished
        /\ e.hex = c.hex /\ e.outbuf = od
    <3>1. e = [c EXCEPT !.outbuf = od]
      BY DEF od
    <3> QED
      BY <3>1, <1>8, <2>3 DEF Connections, Alike
  <2> HIDE DEF e
  <2>5. r.c = e /\ r.w = none /\ r.x = "ok"
    BY <2>2 DEF Ok, Ends
  <2>6. conn' = e /\ client' = client /\ pc' = "produce"
    BY <1>2, <2>5, FeedNone
  <2>7. Seen(e, g, b) = Seen(conn, g, b)
    BY <2>4 DEF Seen, Alike
  <2>8. Producing(b)'
    BY <1>3, <1>6, <1>10, <2>1, <2>3, <2>4, <2>6 DEF Producing, Alike, Files
  <2>9. Steady(g, b)'
    BY <1>1, <1>3, <1>6, <2>4, <2>6, <2>7, <2>8, GoesOn
  <2> QED
    BY <2>9
\* A script that prints without a buffer.
<1>11. CASE job.kind = "lua"
  <2>1. /\ ~c.chunked /\ ~c.buffered /\ c.finished = c.header_sent /\ o = <<>> /\ c.clen = {}
        /\ c.status = "ok" /\ (~c.header_sent => b = <<>>)
    BY <1>3, <1>11 DEF Producing, Chunked, Buffered
  <2>2. pc' = "produce"
    BY <1>2, <1>11
  <2>3. CASE c.header_sent
    <3>1. r = Throw(c, "Error")
      BY <1>7, <1>8, <1>9, <2>1, <2>3, SendFinished
    <3>2. r.c = c /\ r.w = none
      BY <3>1 DEF Throw, Ends
    <3>3. conn' = c /\ client' = client
      BY <1>2, <3>2, FeedNone
    <3>4. Producing(b)'
      BY <1>3, <1>6, <1>11, <3>3 DEF Producing, Files
    <3>5. Steady(g, b)'
      BY <1>1, <1>3, <1>6, <1>8, <2>2, <3>3, <3>4, GoesOn
    <3> QED
      BY <3>5
  <2>4. CASE ~c.header_sent
    <3>1. /\ r.x = "ok" /\ r.c \in Connections /\ Alike(r.c, c) /\ r.c.header_sent /\ r.c.finished
          /\ r.c.outbuf = c.outbuf
          /\ FeedAll(Seen(c, g, <<>>), r.w) = Seen(r.c, g, d)
      <4>1. /\ c \in Connections /\ d \in Seq(Nat) /\ Len(d) < SizeMod
            /\ ~c.finished /\ ~c.buffered /\ ~c.header_sent /\ ~c.chunked /\ c.clen = {}
        BY <1>7, <1>8, <2>1, <2>4
      <4> HIDE DEF c, o
      <4>2. r.x # "InputFailure"
        BY <1>2
      <4> QED
        BY <1>9, <4>1, <4>2, SendPlain
    <3>0. PICK v : v = d
      OBVIOUS
    <3>2. client' = Seen(conn', g, v)
      BY <1>2, <1>3, <2>1, <2>4, <3>0, <3>1
    <3>4. Producing(v)'
      BY <1>2, <1>3, <1>6, <1>11, <2>1, <3>1 DEF Producing, Files, Alike, Connections
    <3>6. conn' \in Connections /\ v \in Seq(Nat)
      BY <1>2, <1>7, <3>0, <3>1
    <3>5. Steady(g, v)'
      BY <1>1, <1>6, <2>2, <3>2, <3>4, <3>6, GoesOn
    <3> QED
      BY <3>5
  <2> QED
    BY <2>3, <2>4
<1> QED
  BY <1>10, <1>11
\* What the step that writes the last of a body has to show.
LEMMA IsWritten ==
  ASSUME NEW g, NEW b, Steady(g, b), NEW a \in Seq(Nat), pc' \in {"encoded", "end", "return"}, log' = log,
         JobShape', job'.answer \in Replies, conn' \in Connections,
         client' = Seen(conn', g, a), Written(a)', pc' # "return" => job'.answer.status = "ok"
  PROVE  Steady(g, a)'
<1>1. Matches(g)'
  BY DEF Steady, Matches
<1> QED
  BY <1>1 DEF Steady

\* A flush behind the body b is not refused.
Flushes(c, b) ==
  /\ c \in Connections /\ b \in Seq(Nat) /\ Flushable(c, b)
  /\ c.finished => c.header_sent /\ c.outbuf = <<>>

\* A flush that is not refused.
LEMMA FlushStep ==
  ASSUME NEW g, NEW b, NEW f \in Failures, NEW c, Flushes(c, b),
         NEW r, r = flush(c, f), r.x # "InputFailure"
  PROVE  /\ r.x = "ok" /\ r.c \in Connections /\ Alike(r.c, c)
         /\ r.c.header_sent /\ r.c.outbuf = <<>> /\ (c.chunked /\ ~c.finished => ~r.c.finished)
         /\ FeedAll(Seen(c, g, b), r.w) = Seen(r.c, g, b \o c.outbuf)
         /\ b \o c.outbuf \in Seq(Nat)
<1> USE DEF Flushes
<1>1. /\ r.c \in Connections /\ Alike(r.c, c)
      /\ r.x \in {"ok", "InputFailure", "Error"}
      /\ r.x = "ok" => /\ r.c.header_sent /\ r.c.outbuf = <<>> /\ f = "none"
                       /\ r.c.finished = (c.finished \/ ~c.chunked)
      /\ r.x = "Error" => c.finished /\ (c.header_sent => c.outbuf # <<>>)
  BY FlushResult
<1>2. r.x = "ok"
  BY <1>1
<1>3. FeedAll(Seen(c, g, b), r.w) = Seen(r.c, g, b \o c.outbuf)
  BY <1>2, FlushSeen
<1>4. b \o c.outbuf \in Seq(Nat)
  BY DEF Connections
<1> QED
  BY <1>1, <1>2, <1>3, <1>4

\* The test handler flushes in the middle of its body.
LEMMA FlushPartStep ==
  ASSUME NEW g, NEW b, Steady(g, b), NEW f \in Failures, FlushPart(f), ~gone'
  PROVE  \E a : Steady(g, a)'
<1> DEFINE r == flush(conn, f)
           c == conn
           bo == b \o conn.outbuf
<1>1. pc = "produce" /\ job.kind = "test" /\ job' = job /\ log' = log /\ Called(r, "produce", OnInput, "escape")
  BY DEF FlushPart
<1>2. /\ r.x # "InputFailure" /\ conn' = r.c /\ client' = FeedAll(client, r.w)
      /\ r.x = "ok" => pc' = "produce"
  BY <1>1, CalledFacts
<1>3. /\ Serving /\ Producing(b) /\ JobShape /\ c \in Connections /\ client = Seen(c, g, b)
      /\ b \in Seq(Nat)
  BY <1>1 DEF Steady
<1>4. c.chunked /\ c.buffered /\ ~c.finished /\ bo = Bytes(0, job.done) /\ (~c.header_sent => b = <<>>)
  BY <1>1, <1>3 DEF Producing, Chunked, Buffered
<1>5. Flushes(c, b)
  BY <1>3, <1>4 DEF Flushable, Flushes
<1> HIDE DEF r, c
<1>6. r = flush(c, f)
  BY DEF r, c
<1>7. /\ r.x = "ok" /\ r.c \in Connections /\ Alike(r.c, c)
      /\ r.c.header_sent /\ r.c.outbuf = <<>> /\ (c.chunked /\ ~c.finished => ~r.c.finished)
      /\ FeedAll(Seen(c, g, b), r.w) = Seen(r.c, g, b \o c.outbuf)
      /\ b \o c.outbuf \in Seq(Nat)
  <2>1. r.x # "InputFailure"
    BY <1>2
  <2>2. /\ r.x = "ok" /\ r.c \in Connections /\ Alike(r.c, c)
        /\ r.c.header_sent /\ r.c.outbuf = <<>> /\ (c.chunked /\ ~c.finished => ~r.c.finished)
    BY <1>5, <1>6, <2>1, FlushStep
  <2>3. FeedAll(Seen(c, g, b), r.w) = Seen(r.c, g, b \o c.outbuf) /\ b \o c.outbuf \in Seq(Nat)
    BY <1>5, <1>6, <2>1, FlushStep
  <2> QED
    BY <2>2, <2>3
<1>8. PICK v : v = bo
  OBVIOUS
<1>9. v \in Seq(Nat) /\ FeedAll(Seen(c, g, b), r.w) = Seen(r.c, g, v)
  BY <1>7, <1>8 DEF c
<1> HIDE DEF bo
<1>10. ~r.c.finished /\ v \o <<>> = v /\ v = Bytes(0, job.done)
  <2>1. ~r.c.finished
    BY <1>4, <1>7
  <2>2. v = Bytes(0, job.done)
    BY <1>4, <1>8
  <2>3. v \o <<>> = v
    BY <1>9
  <2> QED
    BY <2>1, <2>2, <2>3
<1>11. Producing(v)'
  BY <1>1, <1>2, <1>3, <1>7, <1>10 DEF Producing, Alike, Files, First, Last, c
<1>12. Serving' /\ JobShape' /\ job'.answer = job.answer
  BY <1>1, <1>3 DEF Serving, JobShape, First, Last
<1>13. conn' \in Connections /\ client' = Seen(conn', g, v) /\ pc' = "produce"
  BY <1>2, <1>3, <1>7, <1>9
<1>14. Steady(g, v)'
  BY <1>1, <1>9, <1>11, <1>12, <1>13, GoesOn
<1> QED
  BY <1>14

\* A handler that printed has printed all.
LEMMA TextEndsStep ==
  ASSUME NEW g, NEW b, Steady(g, b), NEW f \in Failures, TextEnds(f), ~gone'
  PROVE  \E a : Steady(g, a)'
<1> DEFINE r == flush(conn, f)
           c == conn
           bo == b \o conn.outbuf
<1>1. /\ pc = "produce" /\ job.kind \in Texts /\ job.done = job.size
      /\ job' = job /\ log' = log /\ Called(r, "return", OnInput, "escape")
  BY DEF TextEnds
<1>2. /\ r.x # "InputFailure" /\ conn' = r.c /\ client' = FeedAll(client, r.w)
      /\ r.x = "ok" => pc' = "return"
  BY <1>1, CalledFacts
<1>3. /\ Serving /\ Producing(b) /\ JobShape /\ c \in Connections /\ client = Seen(c, g, b)
      /\ b \in Seq(Nat) /\ job.answer \in Replies
  BY <1>1 DEF Steady
<1>4. /\ c.clen = {} /\ (~c.header_sent => b = <<>>) /\ c.status = "ok"
      /\ job.kind # "lua" => ~c.finished /\ c.buffered /\ bo = Bytes(0, job.size)
      /\ job.kind \in {"text", "elua"} => ~c.header_sent
      /\ job.kind = "lua" => c.finished = c.header_sent /\ c.outbuf = <<>> /\ ~c.chunked
      /\ job.kind = "test" => c.chunked
  BY <1>1, <1>3 DEF Producing, Texts, Buffered, Chunked
<1>5. Flushes(c, b)
  <2>1. CASE job.kind = "lua"
    BY <1>3, <1>4, <2>1 DEF Flushable, Flushes
  <2>2. CASE job.kind \in {"text", "elua"}
    BY <1>3, <1>4, <2>2 DEF Flushable, Flushes
  <2>3. CASE job.kind = "test"
    BY <1>3, <1>4, <2>3 DEF Flushable, Flushes
  <2> QED
    BY <1>1, <2>1, <2>2, <2>3 DEF Texts
<1>6. job.answer = [kind |-> job.kind, status |-> "ok", body |-> Bytes(0, job.size)]
  <2>1. job.kind \notin Ranged
    BY <1>1 DEF Texts, Ranged
  <2> QED
    BY <1>3, <2>1, AskedFacts DEF Serving
<1> HIDE DEF r, c
<1>7. r = flush(c, f)
  BY DEF r, c
<1>8. /\ r.x = "ok" /\ r.c \in Connections /\ Alike(r.c, c)
      /\ r.c.header_sent /\ r.c.outbuf = <<>> /\ (c.chunked /\ ~c.finished => ~r.c.finished)
      /\ FeedAll(Seen(c, g, b), r.w) = Seen(r.c, g, b \o c.outbuf)
      /\ b \o c.outbuf \in Seq(Nat)
  <2>1. r.x # "InputFailure"
    BY <1>2
  <2>2. /\ r.x = "ok" /\ r.c \in Connections /\ Alike(r.c, c)
        /\ r.c.header_sent /\ r.c.outbuf = <<>> /\ (c.chunked /\ ~c.finished => ~r.c.finished)
    BY <1>5, <1>7, <2>1, FlushStep
  <2>3. FeedAll(Seen(c, g, b), r.w) = Seen(r.c, g, b \o c.outbuf) /\ b \o c.outbuf \in Seq(Nat)
    BY <1>5, <1>7, <2>1, FlushStep
  <2> QED
    BY <2>2, <2>3
<1>9. PICK v : v = bo
  OBVIOUS
<1>10. v \in Seq(Nat) /\ FeedAll(Seen(c, g, b), r.w) = Seen(r.c, g, v)
  BY <1>8, <1>9 DEF c
<1> HIDE DEF bo
<1>11. r.c.chunked => ~r.c.finished
  <2>1. r.c.chunked = c.chunked
    BY <1>8 DEF Alike
  <2>2. c.chunked => ~c.finished
    BY <1>4, <1>1
  <2> QED
    BY <1>8, <2>1, <2>2
<1>12. Meant(Answer(r.c.status, v), job.answer)
  <2>1. r.c.status = "ok"
    BY <1>4, <1>8 DEF Alike
  <2>2. job.answer.kind = job.kind /\ job.answer.status = "ok" /\ job.answer.body = Bytes(0, job.size)
    BY <1>6
  <2>3. job.kind # "lua" => v = Bytes(0, job.size)
    BY <1>4, <1>9
  <2> QED
    BY <2>1, <2>2, <2>3 DEF Meant, Answer
<1>13. Written(v)'
  BY <1>1, <1>2, <1>8, <1>11, <1>12 DEF Written
<1>14. JobShape' /\ job'.answer \in Replies
  BY <1>1, <1>3 DEF JobShape
<1>15. conn' \in Connections /\ client' = Seen(conn', g, v) /\ pc' = "return"
  BY <1>2, <1>3, <1>8, <1>10
<1>16. Steady(g, v)'
  BY <1>1, <1>10, <1>13, <1>14, <1>15, IsWritten
<1> QED
  BY <1>16
\* d may be handed to sendAndFlush(), behind the body b.
Sendable(c, d, b) ==
  /\ c \in Connections /\ d \in Seq(Nat) /\ b \in Seq(Nat)
  /\ ~c.finished /\ (c.header_sent => c.chunked) /\ ~(c.buffered /\ c.chunked)
  /\ ~c.header_sent => b = <<>>
  /\ c.chunked => d # <<>>
  /\ ~c.chunked => c.clen = {} /\ c.outbuf = <<>> /\ Len(d) < SizeMod

\* A portion by sendAndFlush() that is not refused.
LEMMA SendAndFlushStep ==
  ASSUME NEW c, NEW d, NEW b, Sendable(c, d, b), NEW f \in Failures, NEW g,
         NEW r, r = sendAndFlush(c, d, f), r.x # "InputFailure"
  PROVE  /\ r.x = "ok" /\ r.c \in Connections /\ Alike(r.c, c)
         /\ r.c.header_sent /\ r.c.outbuf = <<>> /\ r.c.finished = (~c.chunked)
         /\ FeedAll(Seen(c, g, b), r.w) = Seen(r.c, g, b \o d)
         /\ b \o d \in Seq(Nat)
<1>1. /\ c \in Connections /\ d \in Seq(Nat) /\ b \in Seq(Nat)
      /\ ~c.finished /\ (c.header_sent => c.chunked) /\ ~(c.buffered /\ c.chunked)
  BY DEF Sendable
<1>2. /\ r.c \in Connections /\ Alike(r.c, c)
      /\ r.x = IF f = "none" THEN "ok" ELSE "InputFailure"
  BY <1>1, SendAndFlushResult, Z3
<1>3. r.x = "ok" => r.c.header_sent /\ r.c.outbuf = <<>> /\ r.c.finished = (~c.chunked)
  BY <1>1, SendAndFlushResult
<1>4. r.x = "ok"
  BY <1>2
<1>5. FeedAll(Seen(c, g, b), r.w) = Seen(r.c, g, b \o d)
  BY <1>1, <1>4, SendAndFlushSeen DEF Sendable
<1>6. b \o d \in Seq(Nat)
  BY <1>1
<1> QED
  BY <1>2, <1>3, <1>4, <1>5, <1>6

\* The information about an image is sent in one portion.
LEMMA SendInfoStep ==
  ASSUME NEW g, NEW b, Steady(g, b), NEW f \in Failures, SendInfo(f), ~gone'
  PROVE  \E a : Steady(g, a)'
<1> DEFINE d == Bytes(0, job.size)
           r == sendAndFlush(conn, d, f)
           c == conn
           none == <<>>
<1>1. /\ pc = "produce" /\ job.kind = "info"
      /\ job' = [job EXCEPT !.done = job.size] /\ log' = log /\ Called(r, "return", OnInput, "escape")
  BY DEF SendInfo
<1>2. /\ r.x # "InputFailure" /\ conn' = r.c /\ client' = FeedAll(client, r.w)
      /\ r.x = "ok" => pc' = "return"
  BY <1>1, CalledFacts
<1>3. /\ Serving /\ Producing(b) /\ JobShape /\ c \in Connections /\ client = Seen(c, g, b)
      /\ b \in Seq(Nat) /\ job.answer \in Replies
  BY <1>1 DEF Steady
<1>4. /\ c.clen = {} /\ ~c.header_sent /\ b = none /\ c.status = "ok" /\ ~c.finished /\ c.outbuf = <<>>
      /\ ~c.chunked
  BY <1>1, <1>3 DEF Producing, Chunked, Fresh
<1>5. /\ d \in Seq(Nat) /\ Len(d) < SizeMod
      /\ job.answer = [kind |-> job.kind, status |-> "ok", body |-> d]
  <2>1. job.kind \notin Ranged
    BY <1>1 DEF Ranged
  <2>2. /\ job.size \in Nat /\ job.size < SizeMod /\ First = 0 /\ Last = job.size
    BY <1>3, <2>1, AskedFacts
  <2>3. d \in Seq(Nat) /\ Len(d) = job.size - 0
    <3>1. 0 \in Nat /\ 0 <= job.size
      BY <2>2
    <3> QED
      BY <2>2, <3>1, BytesFacts
  <2>4. Len(d) < SizeMod
    BY <2>2, <2>3
  <2> QED
    BY <1>3, <2>2, <2>3, <2>4 DEF Serving
<1>6. Sendable(c, d, b)
  BY <1>3, <1>4, <1>5 DEF Sendable
<1>7. PICK v : v = d
  OBVIOUS
<1> HIDE DEF r, c, d
<1>8. r = sendAndFlush(c, d, f)
  BY DEF r, c
<1>9. /\ r.x = "ok" /\ r.c \in Connections /\ Alike(r.c, c)
      /\ r.c.header_sent /\ r.c.outbuf = <<>> /\ r.c.finished = (~c.chunked)
      /\ FeedAll(Seen(c, g, b), r.w) = Seen(r.c, g, b \o d)
  BY <1>2, <1>6, <1>8, SendAndFlushStep
<1>10. b \o d = v /\ v \in Seq(Nat)
  BY <1>4, <1>5, <1>7
<1>11. Written(v)'
  <2>1. conn'.header_sent /\ conn'.outbuf = <<>> /\ ~conn'.chunked /\ conn'.status = "ok"
    BY <1>2, <1>4, <1>9 DEF Alike
  <2>2. job'.answer = job.answer
    BY <1>1, <1>3 DEF JobShape
  <2>3. job'.answer.status = "ok" /\ job'.answer.body = v
    BY <1>5, <1>7, <2>2
  <2> QED
    BY <2>1, <2>3 DEF Written, Meant, Answer
<1>12. JobShape' /\ job'.answer \in Replies
  BY <1>1, <1>3 DEF JobShape
<1>13. conn' \in Connections /\ client' = Seen(conn', g, v) /\ pc' = "return"
  BY <1>2, <1>3, <1>9, <1>10
<1>14. Steady(g, v)'
  BY <1>1, <1>10, <1>11, <1>12, <1>13, IsWritten
<1> QED
  BY <1>14

\* The flush behind a handler.
LEMMA LastFlushStep ==
  ASSUME NEW g, NEW b, Steady(g, b), NEW f \in Failures, LastFlush(f), ~gone'
  PROVE  Steady(g, b)'
<1> DEFINE r == flush(conn, f)
           c == conn
<1>1. /\ pc = "end" /\ job' = job /\ log' = log /\ Called(r, "return", OnInput, "escape")
  BY DEF LastFlush
<1>2. /\ r.x # "InputFailure" /\ conn' = r.c /\ client' = FeedAll(client, r.w)
      /\ r.x = "ok" => pc' = "return"
  BY <1>1, CalledFacts
<1>3. /\ Written(b) /\ JobShape /\ c \in Connections /\ client = Seen(c, g, b)
      /\ b \in Seq(Nat) /\ job.answer \in Replies
  BY <1>1 DEF Steady
<1>4. c.header_sent /\ c.outbuf = <<>>
  BY <1>3 DEF Written
<1>11. Flushes(c, b)
  BY <1>3, <1>4 DEF Flushable, Flushes
<1>5. b \o <<>> = b
  BY <1>3
<1> HIDE DEF r, c
<1>6. r = flush(c, f)
  BY DEF r, c
<1>7. /\ r.x = "ok" /\ r.c \in Connections /\ Alike(r.c, c)
      /\ r.c.header_sent /\ r.c.outbuf = <<>> /\ (c.chunked /\ ~c.finished => ~r.c.finished)
      /\ FeedAll(Seen(c, g, b), r.w) = Seen(r.c, g, b \o c.outbuf)
      /\ b \o c.outbuf \in Seq(Nat)
  <2>1. r.x # "InputFailure"
    BY <1>2
  <2>2. /\ r.x = "ok" /\ r.c \in Connections /\ Alike(r.c, c)
        /\ r.c.header_sent /\ r.c.outbuf = <<>> /\ (c.chunked /\ ~c.finished => ~r.c.finished)
    BY <1>6, <1>11, <2>1, FlushStep
  <2>3. FeedAll(Seen(c, g, b), r.w) = Seen(r.c, g, b \o c.outbuf) /\ b \o c.outbuf \in Seq(Nat)
    BY <1>6, <1>11, <2>1, FlushStep
  <2> QED
    BY <2>2, <2>3
<1>8. Written(b)'
  BY <1>1, <1>2, <1>3, <1>7 DEF Written, Alike, c
<1>9. JobShape' /\ job'.answer \in Replies
  BY <1>1, <1>3 DEF JobShape
<1>10. conn' \in Connections /\ client' = Seen(conn', g, b) /\ pc' = "return"
  BY <1>2, <1>3, <1>4, <1>5, <1>7
<1> QED
  BY <1>1, <1>3, <1>8, <1>9, <1>10, IsWritten

\* The rendition goes to the cache.
LEMMA AddToCacheStep ==
  ASSUME NEW g, NEW b, Steady(g, b), AddToCache
  PROVE  Steady(g, b)'
<1>1. /\ pc = "encoded" /\ pc' = "end" /\ conn' = [conn EXCEPT !.caching = FALSE]
      /\ job' = [job EXCEPT !.added = TRUE] /\ client' = client /\ log' = log
  BY DEF AddToCache, closeCacheFile
<1>2. /\ Written(b) /\ JobShape /\ conn \in Connections /\ client = Seen(conn, g, b)
      /\ b \in Seq(Nat) /\ job.answer \in Replies /\ job.answer.status = "ok"
  BY <1>1 DEF Steady
<1>3. /\ conn' \in Connections /\ conn'.header_sent = conn.header_sent /\ conn'.outbuf = conn.outbuf
      /\ conn'.chunked = conn.chunked /\ conn'.finished = conn.finished /\ conn'.status = conn.status
  BY <1>1, <1>2 DEF Connections
<1>4. JobShape' /\ job'.answer = job.answer
  BY <1>1, <1>2 DEF JobShape
<1>5. Seen(conn', g, b) = Seen(conn, g, b)
  BY <1>3 DEF Seen
<1>6. Written(b)'
  BY <1>2, <1>3, <1>4 DEF Written
<1> QED
  BY <1>1, <1>2, <1>3, <1>4, <1>5, <1>6, IsWritten
\* A portion is never empty, and what is behind it is the end of the image or
\* the place of the next portion.
LEMMA PortionFits ==
  ASSUME Serving, JobShape, job.kind \in Encoders, NEW k \in Portions,
         job.kind = "tiff" => job.done = 0,
         job.kind # "tiff" => job.done < job.size,
         job.kind = "jpeg" => \E i \in Nat : job.done = i * BufLen
  PROVE  /\ k \in Nat /\ k > 0 /\ job.done + k \in Nat /\ job.done + k <= job.size
         /\ WriterEnds(k) <=> job.done + k = job.size
         /\ job.kind = "tiff" => job.done + k = job.size
         /\ job.kind = "jpeg" /\ job.done + k # job.size => \E i \in Nat : job.done + k = i * BufLen
<1> DEFINE s == job.size
           t == job.done
           rest == s - t
<1>1. s \in Nat /\ t \in Nat /\ t <= s /\ s > 0 /\ s \in Sizes /\ BufLen \in Nat /\ BufLen > 0
  BY AskedFacts, ResponseAssumption DEF Serving
<1>2. t < s
  BY <1>1
<1>3. k \in Nat /\ t + k \in Nat /\ t + k <= s
  BY <1>1, PortionFacts
<1>4. CASE job.kind = "jpeg"
  <2>1. k = IF rest >= BufLen THEN BufLen ELSE rest
    BY <1>4 DEF Portions
  <2>2. PICK i \in Nat : t = i * BufLen
    BY <1>4
  <2>3. t + BufLen = (i + 1) * BufLen /\ i + 1 \in Nat
    <3> HIDE DEF t
    <3> QED
      BY <1>1, <2>2, Z3
  <2>4. s # (i + 1) * BufLen
    <3> DEFINE j == i + 1
    <3>1. j \in Nat /\ j >= 1 /\ \A m \in 1..s : s # m * BufLen
      BY <1>4, <2>3 DEF Serving, Unguarded
    <3> HIDE DEF j
    <3>2. ASSUME s = j * BufLen PROVE j <= s
      BY <1>1, <3>1, <3>2
    <3>3. s # j * BufLen
      BY <1>1, <3>1, <3>2
    <3> QED
      BY <3>3 DEF j
  <2>5. WriterEnds(k) <=> t + k = s /\ k < BufLen
    BY <1>4 DEF WriterEnds
  <2> HIDE DEF s, t
  <2>6. k > 0 /\ (t + k = s => k < BufLen) /\ (t + k # s => k = BufLen)
    BY <1>1, <1>2, <2>1, <2>3, <2>4
  <2>7. t + k # s => t + k = (i + 1) * BufLen
    BY <2>3, <2>6
  <2> QED
    BY <1>3, <1>4, <2>3, <2>5, <2>6, <2>7 DEF s, t
<1>5. CASE job.kind = "tiff"
  <2>1. k = rest
    BY <1>5 DEF Portions
  <2>2. WriterEnds(k) <=> t + k = s
    BY <1>5 DEF WriterEnds
  <2> HIDE DEF s, t
  <2>3. k > 0 /\ t + k = s
    BY <1>1, <1>2, <2>1
  <2> QED
    BY <1>3, <1>5, <2>2, <2>3 DEF s, t
<1>6. CASE job.kind \notin {"jpeg", "tiff"}
  <2>1. k \in 1..rest
    BY <1>6 DEF Portions
  <2>2. WriterEnds(k) <=> t + k = s
    BY <1>6 DEF WriterEnds
  <2> HIDE DEF s, t
  <2>3. k > 0
    BY <1>1, <2>1
  <2> QED
    BY <1>3, <1>6, <2>2, <2>3 DEF s, t
<1> QED
  BY <1>4, <1>5, <1>6

\* An encoder hands over a portion.
LEMMA EncodeStep ==
  ASSUME NEW g, NEW b, Steady(g, b), NEW k, NEW f \in Failures, Encode(k, f), ~gone'
  PROVE  \E a : Steady(g, a)'
<1> DEFINE t == job.done
           d == Bytes(t, t + k)
           r == sendAndFlush(conn, d, f)
           c == conn
           bd == Bytes(0, t + k)
           next == IF WriterEnds(k) THEN "encoded" ELSE "produce"
<1>1. /\ pc = "produce" /\ job.kind \in Encoders /\ k \in Portions
      /\ job' = [job EXCEPT !.done = @ + k] /\ log' = log
      /\ Called(r, next, IF job.kind = "png" THEN next ELSE OnInput, "escape")
  BY DEF Encode
<1>2. /\ r.x # "InputFailure" /\ conn' = r.c /\ client' = FeedAll(client, r.w)
      /\ r.x = "ok" => pc' = next
  BY <1>1, CalledFacts
<1>3. /\ Serving /\ Producing(b) /\ JobShape /\ c \in Connections /\ client = Seen(c, g, b)
      /\ b \in Seq(Nat) /\ job.answer \in Replies
  BY <1>1 DEF Steady
<1>4. /\ ~c.finished /\ ~c.buffered /\ c.outbuf = <<>> /\ c.clen = {} /\ c.status = "ok"
      /\ ~c.header_sent => b = <<>>
      /\ c.chunked <=> job.kind # "tiff"
      /\ job.kind = "tiff" => ~c.header_sent /\ t = 0
      /\ job.kind # "tiff" => t < job.size /\ b = Bytes(0, t)
      /\ job.kind = "jpeg" => \E i \in Nat : t = i * BufLen
  BY <1>1, <1>3 DEF Producing, Encoders, Chunked, Buffered, Fresh, Connections
<1>5. /\ k \in Nat /\ k > 0 /\ t + k \in Nat /\ t + k <= job.size
      /\ WriterEnds(k) <=> t + k = job.size
      /\ job.kind = "tiff" => t + k = job.size
      /\ job.kind = "jpeg" /\ t + k # job.size => \E i \in Nat : t + k = i * BufLen
  BY <1>1, <1>3, <1>4, PortionFits
<1>6. /\ Serving' /\ JobShape' /\ First' = First /\ Last' = Last
      /\ job'.done = t + k /\ job'.kind = job.kind /\ job'.size = job.size
      /\ job'.answer = job.answer
  BY <1>1, <1>3, <1>5, DoneStep
<1>7. job.size \in Nat /\ job.size < SizeMod /\ t \in Nat /\ job.answer.status = "ok"
      /\ job.answer.body = Bytes(0, job.size)
  <2>1. job.kind \notin Ranged
    BY <1>1 DEF Ranged, Encoders
  <2> QED
    BY <1>3, <2>1, AskedFacts DEF Serving
<1>8. /\ d \in Seq(Nat) /\ d # <<>> /\ Len(d) < SizeMod /\ b \o d = bd /\ bd \in Seq(Nat)
  <2> DEFINE z == t + k
             s == job.size
             none == <<>>
  <2>1. t \in Nat /\ z \in Nat /\ t <= z /\ t # z /\ 0 <= t /\ 0 \in Nat /\ z - t = k /\ z <= s
        /\ s \in Nat /\ s < SizeMod /\ SizeMod \in Nat /\ 0 <= z
    <3> HIDE DEF t, s
    <3> QED
      BY <1>5, <1>7, ResponseAssumption DEF s
  <2> HIDE DEF t, z, s
  <2>2. Bytes(t, z) \in Seq(Nat) /\ Bytes(0, t) \o Bytes(t, z) = Bytes(0, z) /\ Bytes(0, z) \in Seq(Nat)
    BY <2>1, BytesWhole, ZenonT(30)
  <2>3. Len(Bytes(t, z)) = z - t /\ (Bytes(t, z) = none <=> t = z) /\ (Bytes(0, t) = none <=> 0 = t)
    BY <2>1, BytesFacts
  <2>4. z - t < SizeMod
    BY <2>1
  <2>5. b = Bytes(0, t)
    BY <1>4, <2>3
  <2> QED
    BY <2>1, <2>2, <2>3, <2>4, <2>5 DEF z
<1>9. Sendable(c, d, b)
  <2> HIDE DEF d, c
  <2> QED
    BY <1>3, <1>4, <1>8 DEF Sendable
<1>10. PICK v : v = bd
  OBVIOUS
<1> HIDE DEF r, c, d, bd, t
<1>11. r = sendAndFlush(c, d, f)
  BY DEF r, c
<1>12. /\ r.x = "ok" /\ r.c \in Connections /\ Alike(r.c, c)
       /\ r.c.header_sent /\ r.c.outbuf = <<>> /\ r.c.finished = (~c.chunked)
       /\ FeedAll(Seen(c, g, b), r.w) = Seen(r.c, g, b \o d)
  BY <1>2, <1>9, <1>11, SendAndFlushStep
<1>13. v \in Seq(Nat) /\ FeedAll(Seen(c, g, b), r.w) = Seen(r.c, g, v)
  BY <1>8, <1>10, <1>12
<1>14. conn' \in Connections /\ client' = Seen(conn', g, v) /\ pc' = next
  BY <1>2, <1>3, <1>12, <1>13
<1>15. conn'.header_sent /\ conn'.outbuf = <<>> /\ (conn'.chunked => ~conn'.finished)
       /\ conn'.status = "ok" /\ conn'.chunked = c.chunked /\ conn'.buffered = c.buffered
       /\ conn'.clen = {}
  BY <1>2, <1>4, <1>12 DEF Alike
<1>16. CASE WriterEnds(k)
  <2>1. v = job'.answer.body /\ job'.answer.status = "ok"
    BY <1>5, <1>6, <1>7, <1>10, <1>16 DEF bd
  <2>2. Written(v)'
    BY <2>1, <1>15 DEF Written, Meant, Answer
  <2>3. pc' = "encoded" /\ job'.answer \in Replies
    BY <1>3, <1>6, <1>14, <1>16
  <2>4. Steady(g, v)'
    BY <1>1, <1>6, <1>13, <1>14, <2>1, <2>2, <2>3, IsWritten
  <2> QED
    BY <2>4
<1>17. CASE ~WriterEnds(k)
  <2>1. t + k # job.size /\ job.kind # "tiff"
    BY <1>5, <1>17
  <2>2. t + k < job.size
    BY <1>5, <1>7, <2>1
  <2>3. v = Bytes(0, job'.done) /\ job'.done < job'.size
    BY <1>6, <1>10, <2>2 DEF bd
  <2>4. ~conn'.finished
    BY <1>4, <1>15, <2>1
  <2>5. job'.kind = "jpeg" => \E i \in Nat : job'.done = i * BufLen
    BY <1>5, <1>6, <2>1
  <2>6. conn'.chunked = (job'.kind \in Chunked) /\ conn'.buffered = (job'.kind \in Buffered)
    BY <1>3, <1>6, <1>15 DEF Producing, c
  <2>7. job'.kind \in {"jpeg", "png", "jp2"}
    BY <1>1, <1>6, <2>1 DEF Encoders
  <2>8. Producing(v)'
    BY <1>15, <2>3, <2>4, <2>5, <2>6, <2>7 DEF Producing, Files
  <2>9. pc' = "produce"
    BY <1>14, <1>17
  <2>10. Steady(g, v)'
    BY <1>1, <1>6, <1>13, <1>14, <2>8, <2>9, GoesOn
  <2> QED
    BY <2>10
<1> QED
  BY <1>16, <1>17
\* What a step in which an Error leaves the handler has to show.
LEMMA IsEscaped ==
  ASSUME NEW g, NEW b, Steady(g, b), pc' = "escape", log' = log,
         JobShape', job'.answer \in Replies, conn' \in Connections, Escaped(g)'
  PROVE  Steady(g, b)'
<1>1. Matches(g)' /\ b \in Seq(Nat)
  BY DEF Steady, Matches
<1> QED
  BY <1>1 DEF Steady

\* The answer that is meant is an error page.
LEMMA FailedFacts ==
  ASSUME JobShape, job.answer \in Replies, NEW text \in Seq(Nat), job' = Failed(text)
  PROVE  /\ JobShape' /\ job'.answer \in Replies
         /\ job'.answer.status = "error" /\ job'.answer.body = text
<1>1. JobShape' /\ job'.answer = [job.answer EXCEPT !.status = "error", !.body = text]
  BY DEF Failed, JobShape
<1> QED
  BY <1>1 DEF Replies, Statuses

\* An error page is the response.
LEMMA ErrorPage ==
  ASSUME NEW g, NEW b, Steady(g, b), NEW c \in Connections, NEW f \in Failures,
         ~c.header_sent, ~c.finished, ~c.chunked => c.clen = {},
         NEW r, r = send_error(c, f), r.x # "InputFailure",
         client = Waiting(g), conn' = r.c, client' = FeedAll(client, r.w), log' = log,
         r.x = "ok" => pc' = "return",
         JobShape', job'.answer \in Replies, job'.answer.status = "error",
         job'.answer.body = c.outbuf \o ErrorText
  PROVE  \E a : Steady(g, a)'
<1>1. /\ r.x = "ok" /\ r.c \in Connections /\ r.c.header_sent /\ r.c.outbuf = <<>>
      /\ r.c.status = "error" /\ r.c.chunked = c.chunked /\ r.c.finished = (~c.chunked)
      /\ FeedAll(Waiting(g), r.w) = Seen(r.c, g, c.outbuf \o ErrorText)
  BY SendErrorSeen
<1> DEFINE v == c.outbuf \o ErrorText
<1>2. v \in Seq(Nat)
  BY DEF Connections, ErrorText
<1> HIDE DEF v
<1>3. conn' \in Connections /\ client' = Seen(conn', g, v) /\ pc' = "return"
  BY <1>1 DEF v
<1>4. Written(v)'
  <2>1. job'.answer.body = v
    BY DEF v
  <2> QED
    BY <1>1, <2>1 DEF Written, Meant, Answer
<1>5. Steady(g, v)'
  BY <1>2, <1>3, <1>4, IsWritten
<1> QED
  BY <1>5

\* A handler fails and asks for an error page.
LEMMA HandlerFailsStep ==
  ASSUME NEW g, NEW b, Steady(g, b), NEW f \in Failures, HandlerFails(f), ~gone'
  PROVE  \E a : Steady(g, a)'
<1> DEFINE c == [conn EXCEPT !.caching = FALSE]
           r == send_error(c, f)
           o == conn.outbuf \o ErrorText
<1>1. /\ pc = "produce" /\ job.kind \in Fallible /\ job' = Failed(o) /\ log' = log
      /\ Called(r, "return", "return", "escape")
  BY DEF HandlerFails, closeCacheFile
<1>2. /\ r.x # "InputFailure" /\ conn' = r.c /\ client' = FeedAll(client, r.w)
      /\ r.x = "ok" => pc' = "return"
      /\ r.x # "ok" => pc' = "escape"
  BY <1>1, CalledFacts
<1>3. /\ Serving /\ Producing(b) /\ JobShape /\ conn \in Connections /\ client = Seen(conn, g, b)
      /\ job.answer \in Replies
  BY <1>1 DEF Steady
<1>4. /\ c \in Connections /\ c.header_sent = conn.header_sent /\ c.finished = conn.finished
      /\ c.chunked = conn.chunked /\ c.clen = conn.clen /\ c.outbuf = conn.outbuf
  BY <1>3 DEF Connections
<1>5. /\ conn.clen = {}
      /\ conn.chunked => ~conn.finished
      /\ ~conn.header_sent => ~conn.finished
  BY <1>1, <1>3 DEF Producing, Fallible, Chunked, Encoders, Fresh
<1>6. o \in Seq(Nat)
  BY <1>3 DEF Connections, ErrorText
<1> HIDE DEF c, o
<1>7. JobShape' /\ job'.answer \in Replies /\ job'.answer.status = "error" /\ job'.answer.body = o
  BY <1>1, <1>3, <1>6, FailedFacts
<1>8. r = send_error(c, f)
  OBVIOUS
<1> HIDE DEF r
<1>9. CASE conn.header_sent
  <2> DEFINE e == [c EXCEPT !.status = "error"]
  <2>1. r = Throw(e, "Error")
    BY <1>4, <1>8, <1>9, SendErrorSent
  <2>2. e \in Connections /\ e.chunked = conn.chunked /\ e.finished = conn.finished
    BY <1>4 DEF Connections, Statuses
  <2> HIDE DEF e
  <2>3. r.c = e /\ r.w = <<>> /\ r.x = "Error"
    BY <2>1 DEF Throw, Ends
  <2>4. conn' = e /\ client' = client /\ pc' = "escape"
    BY <1>2, <2>3, FeedNone
  <2>5. Escaped(g)'
    <3> DEFINE a == Answer(conn.status, b)
    <3>0. a \in Answers /\ a.status = conn.status /\ a.body = b
      BY <1>3 DEF Answer, Answers, Connections, Steady
    <3> HIDE DEF a
    <3>1. CASE conn.chunked
      <4>1. client = Client("size", 0, conn.status, b, g)
        BY <1>3, <1>9, <3>1 DEF Seen
      <4>2. \E x \in Answers : client' = Client("size", 0, x.status, x.body, g)
        BY <4>1, <2>4, <3>0
      <4> QED
        BY <1>5, <2>2, <2>4, <3>1, <4>2 DEF Escaped
    <3>2. CASE ~conn.chunked
      <4>1. client = Waiting(Append(g, a))
        BY <1>3, <1>9, <3>2 DEF Seen, a
      <4>2. \E x \in Answers : client' = Waiting(Append(g, x))
        BY <4>1, <2>4, <3>0
      <4> QED
        BY <2>2, <2>4, <3>2, <4>2 DEF Escaped
    <3> QED
      BY <3>1, <3>2
  <2>6. Steady(g, b)'
    BY <1>1, <1>7, <2>2, <2>4, <2>5, IsEscaped
  <2> QED
    BY <2>6
<1>10. CASE ~conn.header_sent
  <2>1. client = Waiting(g)
    BY <1>3, <1>10 DEF Seen
  <2>2. job'.answer.body = c.outbuf \o ErrorText
    BY <1>4, <1>7 DEF o
  <2>3. ~c.header_sent /\ ~c.finished /\ (~c.chunked => c.clen = {})
    BY <1>4, <1>5, <1>10
  <2> QED
    BY <1>1, <1>2, <1>4, <1>7, <1>8, <2>1, <2>2, <2>3, ErrorPage
<1> QED
  BY <1>9, <1>10

\* sendFile() of a file that is gone, or of a range it refuses.
LEMMA FileMissing ==
  ASSUME NEW c, NEW there, NEW size, NEW from, NEW to, NEW f,
         ~there \/ RangeRefused(size, <<from, to>>)
  PROVE  sendFile(c, there, size, from, to, f) = Throw(c, "Error")
  BY DEF sendFile

\* The file handlers send a file, or fail to.
LEMMA SendFileStep ==
  ASSUME NEW g, NEW b, Steady(g, b), NEW there, NEW f \in Failures, SendFile(there, f), ~gone', ~unguarded'
  PROVE  \E a : Steady(g, a)'
<1> DEFINE from == IF job.range = Whole THEN 0 ELSE job.range[1]
           to   == IF job.range = Whole THEN 0 ELSE job.range[2]
           r    == sendFile(conn, there, job.size, from, to, f)
           e    == send_error(r.c, f)
           c    == conn
           body == Bytes(First, Last)
<1>1. /\ pc = "produce" /\ job.kind \in Files /\ (there \/ job.kind # "file") /\ log' = log
      /\ IF r.x = "Error" /\ job.kind \in Pages
         THEN Called(e, "return", "return", "escape")
         ELSE Called(r, IF job.kind \in Ranged THEN "end" ELSE "return", OnInput, "escape")
      /\ job' = IF r.x = "Error" THEN Failed(ErrorText) ELSE job
  BY DEF SendFile
<1>2. /\ Serving /\ Producing(b) /\ JobShape /\ c \in Connections /\ client = Seen(c, g, b)
      /\ job.answer \in Replies
  BY <1>1 DEF Steady
<1>3. /\ ~c.header_sent /\ ~c.finished /\ c.outbuf = <<>> /\ ~c.caching /\ ~c.hex /\ c.status = "ok"
      /\ ~c.chunked /\ ~c.buffered
      /\ c.clen = IF job.kind = "file" THEN {Last - First} ELSE {}
  BY <1>1, <1>2 DEF Producing, Files, Chunked, Buffered, Fresh
<1>4. client = Waiting(g)
  BY <1>2, <1>3 DEF Seen
<1>5. CASE there /\ Kept
  <2> DEFINE size == job.size
  <2>1. /\ size \in Nat /\ First \in Nat /\ Last \in Nat /\ body \in Seq(Nat)
        /\ Asks(size, from, to, First, Last) /\ from \in Nat /\ to \in Int
    <3>1. from \in Nat /\ to \in Int
      BY <1>2, AskedFacts
    <3> QED
      BY <1>2, <1>5, <3>1, AskedFacts
  <2>2. c.clen \subseteq {Last - First}
    BY <1>3
  <2>3. job.answer.status = "ok" /\ job.answer.body = body
    BY <1>2 DEF Serving
  <2>4. PICK a, z, v : a = First /\ z = Last /\ v = body
    OBVIOUS
  <2> HIDE DEF from, to, size, c, r, body
  <2>5. FileCall(c, there, size, from, to, a, z, f, r)
    BY <1>2, <1>3, <1>5, <2>1, <2>4 DEF FileCall, Plain, r, c, size
  <2>6. \/ r.x = "InputFailure"
        \/ /\ r.x = "ok" /\ r.c \in Connections /\ Alike(r.c, c) /\ r.c.header_sent /\ ~r.c.finished
           /\ r.c.outbuf = c.outbuf
           /\ FeedAll(Waiting(g), r.w) = Seen(r.c, g, Bytes(a, z))
    <3>1. ~c.header_sent /\ c.clen \subseteq {z - a}
      BY <1>3, <2>2, <2>4
    <3> QED
      BY <2>5, <3>1, SendFileSeen
  <2>7. r.x # "Error"
    BY <2>6
  <2>8. Called(r, IF job.kind \in Ranged THEN "end" ELSE "return", OnInput, "escape") /\ job' = job
    BY <1>1, <2>7
  <2>9. /\ r.x # "InputFailure" /\ conn' = r.c /\ client' = FeedAll(client, r.w)
        /\ r.x = "ok" => pc' = IF job.kind \in Ranged THEN "end" ELSE "return"
    BY <2>8, CalledFacts
  <2>10. v = Bytes(a, z) /\ v \in Seq(Nat)
    BY <2>1, <2>4 DEF body
  <2>11. conn' \in Connections /\ client' = Seen(conn', g, v) /\ pc' \in {"end", "return"}
    BY <1>4, <2>6, <2>9, <2>10
  <2>12. Written(v)'
    <3>1. conn'.header_sent /\ conn'.outbuf = <<>> /\ ~conn'.finished /\ conn'.status = "ok"
      BY <1>3, <2>6, <2>9 DEF Alike
    <3>2. job'.answer.status = "ok" /\ job'.answer.body = v
      BY <2>3, <2>4, <2>8
    <3> QED
      BY <3>1, <3>2 DEF Written, Meant, Answer
  <2>13. JobShape' /\ job'.answer \in Replies /\ job'.answer.status = "ok"
    BY <1>2, <2>3, <2>8 DEF JobShape
  <2>14. Steady(g, v)'
    BY <1>1, <2>10, <2>11, <2>12, <2>13, IsWritten
  <2> QED
    BY <2>14
<1>6. CASE ~(there /\ Kept)
  <2>0. there => RangeRefused(job.size, <<from, to>>) /\ job.kind # "file"
    <3> SUFFICES ASSUME there PROVE RangeRefused(job.size, <<from, to>>) /\ job.kind # "file"
      OBVIOUS
    <3>1. RangeRefused(job.size, job.range) /\ job.kind # "file" /\ job.range # Whole
      BY <1>2, <1>6, AskedFacts DEF Kept
    <3> QED
      BY <3>1 DEF RangeRefused
  <2>1. r = Throw(c, "Error")
    BY <1>6, <2>0, FileMissing
  <2> HIDE DEF r, c
  <2>2. r.c = c /\ r.w = <<>> /\ r.x = "Error"
    BY <2>1 DEF Throw, Ends
  <2>3. ErrorText \in Seq(Nat) /\ <<>> \o ErrorText = ErrorText
    BY DEF ErrorText
  <2>4. job' = Failed(ErrorText)
    BY <1>1, <2>2
  <2>5. /\ JobShape' /\ job'.answer \in Replies /\ job'.answer.status = "error"
        /\ job'.answer.body = ErrorText
    BY <1>2, <2>3, <2>4, FailedFacts
  <2>6. job.kind # "file" /\ c.clen = {}
    BY <1>1, <1>3, <2>0
  <2>7. CASE job.kind \in Pages
    <3>1. e = send_error(c, f)
      BY <2>2
    <3> HIDE DEF e
    <3>2. Called(e, "return", "return", "escape")
      BY <1>1, <2>2, <2>7
    <3>3. /\ e.x # "InputFailure" /\ conn' = e.c /\ client' = FeedAll(client, e.w)
          /\ e.x = "ok" => pc' = "return"
      BY <3>2, CalledFacts
    <3>4. job'.answer.body = c.outbuf \o ErrorText
      BY <1>3, <2>3, <2>5
    <3>5. ~c.header_sent /\ ~c.finished /\ (~c.chunked => c.clen = {}) /\ c \in Connections
      BY <1>2, <1>3, <2>6
    <3> QED
      BY <1>1, <1>4, <2>5, <3>1, <3>3, <3>4, <3>5, ErrorPage
  <2>8. CASE job.kind \notin Pages
    <3>1. Called(r, IF job.kind \in Ranged THEN "end" ELSE "return", OnInput, "escape")
      BY <1>1, <2>2, <2>8
    <3>2. conn' = c /\ client' = FeedAll(client, r.w) /\ pc' = "escape"
      BY <2>2, <3>1, CalledFacts
    <3>3. client' = Waiting(g)
      BY <1>4, <2>2, <3>2, FeedNone
    <3>4. Escaped(g)'
      BY <1>3, <3>2, <3>3 DEF Escaped
    <3>5. Steady(g, b)'
      BY <1>1, <1>2, <2>5, <3>2, <3>4, IsEscaped
    <3> QED
      BY <3>5
  <2> QED
    BY <2>7, <2>8
<1> QED
  BY <1>5, <1>6

\* One more request that was answered as it was meant.
LEMMA MatchesOneMore ==
  ASSUME NEW g, Matches(g), NEW a \in Answers, NEW m \in Replies, Meant(a, m), log' = Append(log, m)
  PROVE  Matches(Append(g, a))'
<1> DEFINE n == Len(log)
           h == Append(g, a)
           l == Append(log, m)
<1>1. /\ g \in Seq(Answers) /\ log \in Seq(Replies) /\ Len(g) = n /\ n \in Nat
      /\ \A i \in 1..n : Meant(g[i], log[i])
  BY DEF Matches
<1>2. /\ h \in Seq(Answers) /\ Len(h) = n + 1 /\ h[n + 1] = a
      /\ \A i \in 1..n : h[i] = g[i]
  BY <1>1
<1>3. /\ l \in Seq(Replies) /\ Len(l) = n + 1 /\ l[n + 1] = m
      /\ \A i \in 1..n : l[i] = log[i]
  BY <1>1
<1> HIDE DEF n, h, l
<1>4. ASSUME NEW i \in 1..(n + 1) PROVE Meant(h[i], l[i])
  <2>1. CASE i = n + 1
    BY <1>2, <1>3, <2>1
  <2>2. CASE i # n + 1
    <3>1. i \in 1..n
      BY <1>1, <2>2
    <3> QED
      BY <3>1, <1>1, <1>2, <1>3
  <2> QED
    BY <2>1, <2>2
<1>5. log' = l
  BY DEF l
<1>6. Append(g, a)' = h
  BY DEF h
<1>7. Matches(Append(g, a))' <=> /\ h \in Seq(Answers) /\ l \in Seq(Replies) /\ Len(h) = Len(l)
                                 /\ \A i \in 1..Len(l) : Meant(h[i], l[i])
  BY <1>5 DEF Matches, h
<1> QED
  BY <1>2, <1>3, <1>4, <1>7

\* finalize() ends a chunked transfer and is nothing to a client that waits.
LEMMA Finalized ==
  ASSUME NEW c \in Connections, NEW g
  PROVE  /\ finalize(c) \in Seq(Tokens)
         /\ ~c.chunked => FeedAll(Waiting(g), finalize(c)) = Waiting(g)
         /\ c.chunked /\ ~c.finished => \A a \in Answers :
              FeedAll(Client("size", 0, a.status, a.body, g), finalize(c))
                = Waiting(Append(g, Answer(a.status, a.body)))
<1> DEFINE none == <<>>
           end == <<Size(0), Crlf>>
           crlf == <<Crlf>>
<1>1. crlf \in Seq(Tokens) /\ end \in Seq(Tokens) /\ none \o crlf = crlf /\ end \o crlf \in Seq(Tokens)
  <2>1. Crlf \in Tokens /\ Size(0) \in Tokens
    BY TokenTypes
  <2> DEFINE x == Crlf
             y == Size(0)
  <2> HIDE DEF x, y
  <2>2. <<x>> \in Seq(Tokens) /\ <<y, x>> \in Seq(Tokens) /\ <<>> \o <<x>> = <<x>>
    BY <2>1 DEF x, y
  <2>3. <<y, x>> \o <<x>> \in Seq(Tokens)
    BY <2>2
  <2> QED
    BY <2>2, <2>3 DEF x, y
<1>2. finalize(c) = (IF c.chunked /\ ~c.finished THEN end ELSE none) \o crlf
  BY DEF finalize
<1>3. /\ \A h : FeedAll(Waiting(h), crlf) = Waiting(h)
      /\ \A h, st, b : FeedAll(Client("size", 0, st, b, h), end \o crlf) = Waiting(Append(h, Answer(st, b)))
  BY ResponseEnds
<1> HIDE DEF none, end, crlf
<1>4. CASE c.chunked /\ ~c.finished
  BY <1>1, <1>2, <1>3, <1>4
<1>5. CASE ~(c.chunked /\ ~c.finished)
  BY <1>1, <1>2, <1>3, <1>5
<1> QED
  BY <1>4, <1>5

\* What is seen of a written response that is finalized.
LEMMA ReturnStep ==
  ASSUME NEW g, NEW b, Steady(g, b), Return, pc = "return", ~gone
  PROVE  \E h : /\ Matches(h)' /\ client' = Waiting(h)
                /\ pc' \in {"idle", "closed"} /\ job' = job
<1> DEFINE c == conn
           a == Answer(conn.status, b)
<1>1. /\ client' = FeedAll(client, finalize(c)) /\ log' = Append(log, job.answer)
      /\ pc' \in {"idle", "closed"} /\ job' = job
  BY DEF Return
<1>2. /\ Written(b) /\ c \in Connections /\ client = Seen(c, g, b) /\ b \in Seq(Nat)
      /\ job.answer \in Replies /\ Matches(g)
  BY DEF Steady
<1>3. a \in Answers /\ Meant(a, job.answer) /\ a.status = c.status /\ a.body = b
  BY <1>2 DEF Written, Answers, Answer, Connections
<1>4. PICK v : v = a
  OBVIOUS
<1>5. c.header_sent /\ (c.chunked => ~c.finished)
  BY <1>2 DEF Written
<1>6. client' = Waiting(Append(g, v))
  <2>1. /\ ~c.chunked => FeedAll(Waiting(Append(g, v)), finalize(c)) = Waiting(Append(g, v))
        /\ c.chunked /\ ~c.finished => \A x \in Answers :
              FeedAll(Client("size", 0, x.status, x.body, g), finalize(c))
                = Waiting(Append(g, Answer(x.status, x.body)))
    BY <1>2, Finalized
  <2>2. CASE c.chunked
    <3>1. client = Client("size", 0, a.status, a.body, g)
      BY <1>2, <1>3, <1>5, <2>2 DEF Seen
    <3>2. FeedAll(client, finalize(c)) = Waiting(Append(g, Answer(a.status, a.body)))
      BY <1>3, <1>5, <2>1, <2>2, <3>1
    <3>3. Answer(a.status, a.body) = v
      BY <1>3, <1>4 DEF Answer
    <3> QED
      BY <1>1, <3>2, <3>3
  <2>3. CASE ~c.chunked
    <3>1. client = Waiting(Append(g, v))
      BY <1>2, <1>4, <1>5, <2>3 DEF Seen
    <3> QED
      BY <1>1, <2>1, <2>3, <3>1
  <2> QED
    BY <2>2, <2>3
<1>7. Matches(Append(g, v))'
  <2>1. v \in Answers /\ Meant(v, job.answer)
    BY <1>3, <1>4
  <2> QED
    BY <1>1, <1>2, <2>1, MatchesOneMore
<1> QED
  BY <1>1, <1>6, <1>7
\* The last resort of processRequest(): it is a response if its length can be
\* read, and what was got before it stays.
LEMMA LastResort ==
  ASSUME NEW g
  PROVE  LET d == Data(ErrorText) IN
         /\ <<PlainHead("error", {})>> \o d \in Seq(Tokens)
         /\ <<PlainHead("error", {1})>> \o d \in Seq(Tokens)
         /\ FeedAll(Waiting(g), <<PlainHead("error", {1})>> \o d).got = Append(g, Answer("error", ErrorText))
         /\ FeedAll(Waiting(g), <<PlainHead("error", {})>> \o d).got = g
<1> DEFINE d == Data(ErrorText)
           e == PlainHead("error", {})
           y == PlainHead("error", {1})
           byte == Token("byte", 0)
           lost == Client("lost", 0, "none", <<>>, g)
<1>1. ErrorText \in Seq(Nat) /\ Len(ErrorText) = 1 /\ ErrorText = Append(<<>>, 0)
  BY DEF ErrorText
<1>2. d \in Seq(Tokens) /\ byte \in Tokens /\ d = <<byte>>
  <2>1. d \in Seq(Tokens)
    BY <1>1, DataFacts
  <2>2. byte \in Tokens
    BY TokenTypes
  <2>3. d = Append(<<>>, byte)
    <3>1. <<>> \in Seq(Nat) /\ 0 \in Nat
      OBVIOUS
    <3>2. Data(Append(<<>>, 0)) = Append(Data(<<>>), Token("byte", 0))
      BY <3>1, DataFacts
    <3> QED
      BY <1>1, <3>2, DataFacts
  <2> QED
    BY <2>1, <2>2, <2>3
<1>3. e \in Tokens /\ y \in Tokens
  <2>1. "error" \in Statuses /\ {} \in SUBSET Nat /\ {1} \in SUBSET Nat /\ FALSE \in BOOLEAN
    BY DEF Statuses
  <2> QED
    BY <2>1, TokenTypes DEF PlainHead
<1>4. <<e>> \o d \in Seq(Tokens) /\ <<y>> \o d \in Seq(Tokens)
  <2> HIDE DEF e, y, d
  <2> QED
    BY <1>2, <1>3
<1>5. FeedAll(Waiting(g), <<y>> \o d) = Waiting(Append(g, Answer("error", ErrorText)))
  <2>1. "error" \in Statuses
    BY DEF Statuses
  <2>2. {Len(ErrorText)} = {1}
    BY <1>1
  <2>3. FeedAll(Waiting(g), <<PlainHead("error", {Len(ErrorText)})>> \o d)
          = Waiting(Append(g, Answer("error", ErrorText)))
    BY <1>1, <2>1, PlainResponse
  <2> QED
    BY <2>2, <2>3
<1>6. Feed(Waiting(g), e) = lost
  <2>1. e.t = "head" /\ ~e.v.chunked /\ e.v.lens = {}
    BY HeadFields
  <2>2. Waiting(g).mode = "start"
    BY ClientFields DEF Waiting
  <2>3. Cardinality({}) # 1
    BY FS_EmptySet
  <2>4. Feed(Waiting(g), e) = [Waiting(g) EXCEPT !.mode = "lost"]
    <3> DEFINE w == Waiting(g)
    <3> HIDE DEF e, w
    <3>1. w.mode = "start" /\ e.t = "head" /\ ~e.v.chunked /\ Cardinality(e.v.lens) # 1
      BY <2>1, <2>2, <2>3 DEF w
    <3>2. Feed(w, e) = [w EXCEPT !.mode = "lost"]
      BY <3>1, FeedCases
    <3> QED
      BY <3>2 DEF w
  <2> QED
    BY <2>4 DEF Waiting, Client
<1>7. Feed(lost, byte).got = g
  <2>1. lost.mode = "lost" /\ lost.got = g /\ \A m : [lost EXCEPT !.mode = m].got = g
    BY DEF Client
  <2> HIDE DEF lost, byte
  <2>2. Feed(lost, byte) = [lost EXCEPT !.mode = "lost"]
    BY <2>1 DEF Feed
  <2> QED
    BY <2>1, <2>2
<1>8. FeedAll(Waiting(g), <<e>> \o d) = Feed(lost, byte)
  <2> HIDE DEF e, d, byte, lost
  <2>0. d \in Seq(Tokens) /\ e \in Tokens
    BY <1>2, <1>3
  <2>1. FeedAll(Waiting(g), <<e>> \o d) = FeedAll(Feed(Waiting(g), e), d)
    BY <2>0, FeedEnds
  <2>2. FeedAll(lost, d) = Feed(lost, byte)
    BY <1>2, FeedOne
  <2> QED
    BY <2>1, <2>2, <1>6
<1>9. Waiting(Append(g, Answer("error", ErrorText))).got = Append(g, Answer("error", ErrorText))
  BY DEF Waiting, Client
<1> QED
  BY <1>4, <1>5, <1>7, <1>8, <1>9

\* The last resort of processRequest() closes the connection; as many responses
\* were got as requests were served.
LEMMA InternalErrorStep ==
  ASSUME NEW g, NEW b, Steady(g, b), InternalError, ~gone
  PROVE  log' \in Seq(Replies) /\ Len(client'.got) >= Len(log') /\ pc' = "closed"
<1> DEFINE c == conn
           d == Data(ErrorText)
           m == Failed(ErrorText).answer
           fin == finalize(c)
           e == IF c.hex THEN PlainHead("error", {}) ELSE PlainHead("error", {1})
           rest == <<e>> \o d
           n == Len(log)
<1>1. /\ pc = "escape" /\ log' = Append(log, m) /\ pc' = "closed"
      /\ client' = FeedAll(client, fin \o <<HeadToken("error", FALSE, IF c.hex THEN {} ELSE {Len(ErrorText)})>> \o d)
  BY DEF InternalError
<1>2. /\ c \in Connections /\ job.answer \in Replies /\ Escaped(g) /\ Matches(g) /\ JobShape
  BY <1>1 DEF Steady
<1>3. m \in Replies
  <2>1. ErrorText \in Seq(Nat)
    BY DEF ErrorText
  <2>2. m = [job.answer EXCEPT !.status = "error", !.body = ErrorText]
    BY <1>2 DEF Failed, JobShape
  <2> QED
    BY <1>2, <2>1, <2>2 DEF Replies, Statuses
<1>4. /\ g \in Seq(Answers) /\ Len(g) = n /\ n \in Nat
      /\ log' \in Seq(Replies) /\ Len(log') = n + 1
  BY <1>1, <1>2, <1>3 DEF Matches
<1>5. HeadToken("error", FALSE, IF c.hex THEN {} ELSE {Len(ErrorText)}) = e
  <2>1. Len(ErrorText) = 1
    BY DEF ErrorText
  <2>2. CASE c.hex
    BY <2>2 DEF PlainHead
  <2>3. CASE ~c.hex
    BY <2>1, <2>3 DEF PlainHead
  <2> QED
    BY <2>2, <2>3
<1>6. /\ rest \in Seq(Tokens)
      /\ \A h : FeedAll(Waiting(h), rest).got = IF c.hex THEN h ELSE Append(h, Answer("error", ErrorText))
  <2>1. CASE c.hex
    BY <2>1, LastResort
  <2>2. CASE ~c.hex
    BY <2>2, LastResort
  <2> QED
    BY <2>1, <2>2
<1>7. fin \in Seq(Tokens) /\ <<e>> \in Seq(Tokens) /\ d \in Seq(Tokens)
  <2>1. fin \in Seq(Tokens)
    BY <1>2, Finalized
  <2>2. e \in Tokens
    <3>1. "error" \in Statuses /\ {} \in SUBSET Nat /\ {1} \in SUBSET Nat /\ FALSE \in BOOLEAN
      BY DEF Statuses
    <3>2. PlainHead("error", {}) \in Tokens /\ PlainHead("error", {1}) \in Tokens
      BY <3>1, TokenTypes DEF PlainHead
    <3> QED
      BY <3>2
  <2>3. d \in Seq(Tokens)
    <3>1. ErrorText \in Seq(Nat)
      BY DEF ErrorText
    <3> QED
      BY <3>1, DataFacts
  <2> HIDE DEF e
  <2> QED
    BY <2>1, <2>2, <2>3
<1>8. client' = FeedAll(FeedAll(client, fin), rest)
  <2> HIDE DEF fin, e, d
  <2>1. (fin \o <<e>>) \o d = fin \o (<<e>> \o d)
    <3> DEFINE y == <<e>>
    <3> HIDE DEF y
    <3>1. \A x, z, w \in Seq(Tokens) : (x \o z) \o w = x \o (z \o w)
      OBVIOUS
    <3>2. (fin \o y) \o d = fin \o (y \o d)
      BY <1>7, <3>1 DEF y
    <3> QED
      BY <3>2 DEF y
  <2>2. client' = FeedAll(client, fin \o rest)
    BY <1>1, <1>5, <2>1
  <2> HIDE DEF rest
  <2> QED
    BY <1>6, <1>7, <2>2, FeedBoth
<1> HIDE DEF fin, e, d, rest, m
<1>9. \A h \in Seq(Answers) : Len(FeedAll(Waiting(h), rest).got) >= Len(h)
                              /\ (~c.hex => Len(FeedAll(Waiting(h), rest).got) = Len(h) + 1)
  <2> TAKE h \in Seq(Answers)
  <2> DEFINE a == Answer("error", ErrorText)
  <2>1. a \in Answers
    BY DEF Answer, Answers, Statuses, ErrorText
  <2>2. FeedAll(Waiting(h), rest).got = IF c.hex THEN h ELSE Append(h, a)
    BY <1>6
  <2> HIDE DEF a
  <2>3. Len(Append(h, a)) = Len(h) + 1 /\ Len(h) \in Nat
    BY <2>1
  <2> QED
    BY <2>2, <2>3
<1>10. CASE ~c.header_sent /\ ~c.chunked /\ ~c.hex /\ client = Waiting(g)
  <2>1. FeedAll(client, fin) = Waiting(g)
    BY <1>2, <1>10, Finalized DEF fin
  <2> QED
    BY <1>1, <1>4, <1>8, <1>9, <1>10, <2>1
<1>11. CASE ~c.chunked /\ \E a \in Answers : client = Waiting(Append(g, a))
  <2>1. PICK a \in Answers : client = Waiting(Append(g, a))
    BY <1>11
  <2>2. FeedAll(client, fin) = Waiting(Append(g, a))
    BY <1>2, <1>11, <2>1, Finalized DEF fin
  <2>3. Append(g, a) \in Seq(Answers) /\ Len(Append(g, a)) = n + 1
    BY <1>4
  <2> QED
    BY <1>1, <1>4, <1>8, <1>9, <2>2, <2>3
<1>12. CASE c.chunked /\ ~c.finished /\ \E a \in Answers : client = Client("size", 0, a.status, a.body, g)
  <2>1. PICK a \in Answers : client = Client("size", 0, a.status, a.body, g)
    BY <1>12
  <2> DEFINE v == Answer(a.status, a.body)
  <2>2. FeedAll(client, fin) = Waiting(Append(g, v))
    BY <1>2, <1>12, <2>1, Finalized DEF fin
  <2>3. v \in Answers
    BY DEF Answer, Answers
  <2> HIDE DEF v
  <2>4. Append(g, v) \in Seq(Answers) /\ Len(Append(g, v)) = n + 1
    BY <1>4, <2>3
  <2> QED
    BY <1>1, <1>4, <1>8, <1>9, <2>2, <2>4
<1> QED
  BY <1>2, <1>10, <1>11, <1>12 DEF Escaped

\* The file handlers make a call and go on behind it.
LEMMA SendFileCalls ==
  ASSUME NEW there, NEW f, SendFile(there, f)
  PROVE  \E r, next, in : /\ Called(r, next, in, "escape")
                          /\ next \in {"end", "return"} /\ in \in {OnInput, "return"}
<1> DEFINE from == IF job.range = Whole THEN 0 ELSE job.range[1]
           to   == IF job.range = Whole THEN 0 ELSE job.range[2]
           r    == sendFile(conn, there, job.size, from, to, f)
           next == IF job.kind \in Ranged THEN "end" ELSE "return"
<1>1. IF r.x = "Error" /\ job.kind \in Pages
      THEN Called(send_error(r.c, f), "return", "return", "escape")
      ELSE Called(r, next, OnInput, "escape")
  BY DEF SendFile
<1>2. next \in {"end", "return"}
  OBVIOUS
<1> HIDE DEF r, next
<1>3. CASE r.x = "Error" /\ job.kind \in Pages
  BY <1>1, <1>3
<1>4. CASE ~(r.x = "Error" /\ job.kind \in Pages)
  BY <1>1, <1>2, <1>4
<1> QED
  BY <1>3, <1>4

\* The places of the program.
Places == {"idle", "setup", "produce", "encoded", "end", "return", "abort", "escape", "closed"}

\* A client that is gone stays gone, and so does an unguarded request.
Marks == (gone => gone') /\ (unguarded => unguarded')

\* The places of the program, and what a step does not take back.
LEMMA PlacesKept == pc \in Places /\ [Next]_vars => pc' \in Places /\ Marks
<1> SUFFICES ASSUME pc \in Places, [Next]_vars PROVE pc' \in Places /\ Marks
  OBVIOUS
<1>1. ASSUME NEW r, NEW next \in Places, NEW onInput \in Places, NEW onError \in Places,
             Called(r, next, onInput, onError), unguarded => unguarded'
      PROVE  pc' \in Places /\ Marks
  BY <1>1 DEF Called, Marks
<1>2. OnInput \in Places /\ "produce" \in Places /\ "return" \in Places /\ "escape" \in Places
      /\ "encoded" \in Places /\ "end" \in Places
  BY DEF OnInput, Places
<1>3. ASSUME NEW f \in Failures, NEW k, SendText(k, f) PROVE pc' \in Places /\ Marks
  BY <1>1, <1>2, <1>3 DEF SendText
<1>4. ASSUME NEW f \in Failures, FlushPart(f) \/ TextEnds(f) \/ SendInfo(f) \/ LastFlush(f)
      PROVE  pc' \in Places /\ Marks
  BY <1>1, <1>2, <1>4 DEF FlushPart, TextEnds, SendInfo, LastFlush
<1>5. ASSUME NEW f \in Failures, NEW k, Encode(k, f) PROVE pc' \in Places /\ Marks
  <2> DEFINE next == IF WriterEnds(k) THEN "encoded" ELSE "produce"
             in == IF job.kind = "png" THEN next ELSE OnInput
  <2>1. next \in Places /\ in \in Places
    BY <1>2
  <2>2. /\ Called(sendAndFlush(conn, Bytes(job.done, job.done + k), f), next, in, "escape")
        /\ unguarded' = unguarded
    BY <1>5 DEF Encode
  <2> HIDE DEF next, in
  <2> QED
    BY <1>1, <1>2, <2>1, <2>2
<1>6. ASSUME NEW f \in Failures, HandlerFails(f) PROVE pc' \in Places /\ Marks
  BY <1>1, <1>2, <1>6 DEF HandlerFails
<1>7. ASSUME NEW f \in Failures, NEW there, SendFile(there, f) PROVE pc' \in Places /\ Marks
  <2>1. PICK r, next, in : /\ Called(r, next, in, "escape")
                           /\ next \in {"end", "return"} /\ in \in {OnInput, "return"}
    BY <1>7, SendFileCalls
  <2>2. next \in Places /\ in \in Places /\ (unguarded => unguarded')
    BY <1>2, <1>7, <2>1 DEF SendFile
  <2> QED
    BY <1>1, <1>2, <2>1, <2>2
<1>8. ASSUME NEW kind, NEW n, NEW range, NEW keep, Accept(kind, n, range, keep)
      PROVE  pc' \in Places /\ Marks
  BY <1>8 DEF Accept, Places, Marks
<1>9. ASSUME Setup \/ AddToCache \/ Return \/ InternalError \/ UNCHANGED vars
      PROVE  pc' \in Places /\ Marks
  BY <1>9 DEF Setup, AddToCache, Return, InternalError, vars, Places, Marks
<1> QED
  BY <1>3, <1>4, <1>5, <1>6, <1>7, <1>8, <1>9 DEF Next

\* StepInv is inductive.
LEMMA StepInductive == StepInv /\ [Next]_vars => StepInv'
<1> SUFFICES ASSUME StepInv, [Next]_vars PROVE StepInv'
  OBVIOUS
<1>1. pc' \in Places /\ (gone => gone') /\ (unguarded => unguarded')
  BY PlacesKept DEF StepInv, Places, Marks
<1> SUFFICES ASSUME ~gone', ~unguarded'
             PROVE  /\ pc' # "abort"
                    /\ pc' # "closed" => \E g, b : Steady(g, b)'
                    /\ pc' = "closed" => log' \in Seq(Replies) /\ Len(client'.got) >= Len(log')
  BY <1>1 DEF StepInv, Places
<1>2. ~gone /\ ~unguarded
  BY <1>1
<1>3. /\ pc # "abort"
      /\ pc # "closed" => \E g, b : Steady(g, b)
      /\ pc = "closed" => log \in Seq(Replies) /\ Len(client.got) >= Len(log)
  BY <1>2 DEF StepInv
\* A step to a place where the invariant of the open connection holds.
<1>4. ASSUME pc' \notin {"abort", "closed"}, \E g, b : Steady(g, b)'
      PROVE  /\ pc' # "abort"
             /\ pc' # "closed" => \E g, b : Steady(g, b)'
             /\ pc' = "closed" => log' \in Seq(Replies) /\ Len(client'.got) >= Len(log')
  BY <1>4
<1>5. ASSUME NEW r, NEW next, NEW onInput, NEW onError, Called(r, next, onInput, onError),
             next \notin {"abort", "closed"}, onError \notin {"abort", "closed"}
      PROVE  pc' \notin {"abort", "closed"}
  BY <1>5, CalledFacts
<1>6. ASSUME NEW kind \in Kinds, NEW n \in Sizes, NEW keep \in BOOLEAN,
             NEW range \in {Whole} \cup (IF kind \in Ranged THEN RangesOf[n] ELSE {}),
             Accept(kind, n, range, keep)
      PROVE  pc' \notin {"abort", "closed"} /\ \E g, b : Steady(g, b)'
  <2>1. pc = "idle" /\ pc' = "setup"
    BY <1>6 DEF Accept
  <2>2. PICK g, b : Steady(g, b)
    BY <1>3, <2>1
  <2>3. Steady(g, b)'
    BY <1>6, <2>2, AcceptStep
  <2> QED
    BY <2>1, <2>3
<1>7. ASSUME Setup PROVE pc' \notin {"abort", "closed"} /\ \E g, b : Steady(g, b)'
  <2>1. pc = "setup" /\ pc' = "produce"
    BY <1>7 DEF Setup
  <2>2. PICK g, b : Steady(g, b)
    BY <1>3, <2>1
  <2>3. Steady(g, <<>>)'
    BY <1>7, <2>2, SetupStep
  <2> QED
    BY <2>1, <2>3
<1>8. ASSUME NEW f \in Failures, NEW k, SendText(k, f)
      PROVE  pc' \notin {"abort", "closed"} /\ \E g, b : Steady(g, b)'
  <2>1. pc = "produce" /\ pc' \notin {"abort", "closed"}
    <3> DEFINE onError == IF job.kind = "lua" THEN "produce" ELSE "escape"
    <3>1. pc = "produce" /\ Called(send(conn, Bytes(job.done, job.done + k), f), "produce", OnInput, onError)
      BY <1>8 DEF SendText
    <3>2. onError \notin {"abort", "closed"}
      OBVIOUS
    <3> HIDE DEF onError
    <3> QED
      BY <1>5, <3>1, <3>2
  <2>2. PICK g, b : Steady(g, b)
    BY <1>3, <2>1
  <2> QED
    BY <1>8, <2>1, <2>2, SendTextStep
<1>9. ASSUME NEW f \in Failures, FlushPart(f)
      PROVE  pc' \notin {"abort", "closed"} /\ \E g, b : Steady(g, b)'
  <2>1. pc = "produce" /\ pc' \notin {"abort", "closed"}
    BY <1>5, <1>9 DEF FlushPart
  <2>2. PICK g, b : Steady(g, b)
    BY <1>3, <2>1
  <2> QED
    BY <1>9, <2>1, <2>2, FlushPartStep
<1>10. ASSUME NEW f \in Failures, TextEnds(f)
       PROVE  pc' \notin {"abort", "closed"} /\ \E g, b : Steady(g, b)'
  <2>1. pc = "produce" /\ pc' \notin {"abort", "closed"}
    BY <1>5, <1>10 DEF TextEnds
  <2>2. PICK g, b : Steady(g, b)
    BY <1>3, <2>1
  <2> QED
    BY <1>10, <2>1, <2>2, TextEndsStep
<1>11. ASSUME NEW f \in Failures, SendInfo(f)
       PROVE  pc' \notin {"abort", "closed"} /\ \E g, b : Steady(g, b)'
  <2>1. pc = "produce" /\ pc' \notin {"abort", "closed"}
    BY <1>5, <1>11 DEF SendInfo
  <2>2. PICK g, b : Steady(g, b)
    BY <1>3, <2>1
  <2> QED
    BY <1>11, <2>1, <2>2, SendInfoStep
<1>12. ASSUME NEW f \in Failures, NEW k, Encode(k, f)
       PROVE  pc' \notin {"abort", "closed"} /\ \E g, b : Steady(g, b)'
  <2>1. pc = "produce" /\ pc' \notin {"abort", "closed"}
    <3> DEFINE next == IF WriterEnds(k) THEN "encoded" ELSE "produce"
               in == IF job.kind = "png" THEN next ELSE OnInput
    <3>1. pc = "produce" /\ Called(sendAndFlush(conn, Bytes(job.done, job.done + k), f), next, in, "escape")
      BY <1>12 DEF Encode
    <3>2. next \notin {"abort", "closed"}
      OBVIOUS
    <3> HIDE DEF next, in
    <3> QED
      BY <1>5, <3>1, <3>2
  <2>2. PICK g, b : Steady(g, b)
    BY <1>3, <2>1
  <2> QED
    BY <1>12, <2>1, <2>2, EncodeStep
<1>13. ASSUME NEW f \in Failures, HandlerFails(f)
       PROVE  pc' \notin {"abort", "closed"} /\ \E g, b : Steady(g, b)'
  <2>1. pc = "produce" /\ pc' \notin {"abort", "closed"}
    BY <1>5, <1>13 DEF HandlerFails
  <2>2. PICK g, b : Steady(g, b)
    BY <1>3, <2>1
  <2> QED
    BY <1>13, <2>1, <2>2, HandlerFailsStep
<1>14. ASSUME NEW f \in Failures, NEW there, SendFile(there, f)
       PROVE  pc' \notin {"abort", "closed"} /\ \E g, b : Steady(g, b)'
  <2>1. pc = "produce" /\ pc' \notin {"abort", "closed"}
    <3>1. PICK r, next, in : Called(r, next, in, "escape") /\ next \in {"end", "return"}
      BY <1>14, SendFileCalls
    <3>2. next \notin {"abort", "closed"}
      BY <3>1
    <3>3. pc = "produce"
      BY <1>14 DEF SendFile
    <3> QED
      BY <1>5, <3>1, <3>2, <3>3
  <2>2. PICK g, b : Steady(g, b)
    BY <1>3, <2>1
  <2> QED
    BY <1>14, <2>1, <2>2, SendFileStep
<1>15. ASSUME NEW f \in Failures, LastFlush(f)
       PROVE  pc' \notin {"abort", "closed"} /\ \E g, b : Steady(g, b)'
  <2>1. pc = "end" /\ pc' \notin {"abort", "closed"}
    BY <1>5, <1>15 DEF LastFlush
  <2>2. PICK g, b : Steady(g, b)
    BY <1>3, <2>1
  <2>3. Steady(g, b)'
    BY <1>15, <2>2, LastFlushStep
  <2> QED
    BY <2>1, <2>3
<1>16. ASSUME AddToCache PROVE pc' \notin {"abort", "closed"} /\ \E g, b : Steady(g, b)'
  <2>1. pc = "encoded" /\ pc' = "end"
    BY <1>16 DEF AddToCache
  <2>2. PICK g, b : Steady(g, b)
    BY <1>3, <2>1
  <2>3. Steady(g, b)'
    BY <1>16, <2>2, AddToCacheStep
  <2> QED
    BY <2>1, <2>3
<1>17. ASSUME Return
       PROVE  /\ pc' # "abort"
              /\ pc' # "closed" => \E g, b : Steady(g, b)'
              /\ pc' = "closed" => log' \in Seq(Replies) /\ Len(client'.got) >= Len(log')
  <2>1. pc = "return"
    BY <1>3, <1>17 DEF Return
  <2>2. PICK g, b : Steady(g, b)
    BY <1>3, <2>1
  <2>3. PICK h : Matches(h)' /\ client' = Waiting(h) /\ pc' \in {"idle", "closed"} /\ job' = job
    BY <1>2, <1>17, <2>1, <2>2, ReturnStep
  <2>4. client'.got = h /\ Len(h) = Len(log') /\ log' \in Seq(Replies)
    BY <2>3 DEF Waiting, Client, Matches
  <2>5. JobShape' /\ b \in Seq(Nat)
    BY <2>2, <2>3 DEF Steady, JobShape
  <2>6. pc' = "idle" => Steady(h, b)'
    BY <2>3, <2>5 DEF Steady
  <2> QED
    BY <2>3, <2>4, <2>6
<1>18. ASSUME InternalError
       PROVE  /\ pc' # "abort"
              /\ pc' # "closed" => \E g, b : Steady(g, b)'
              /\ pc' = "closed" => log' \in Seq(Replies) /\ Len(client'.got) >= Len(log')
  <2>1. pc = "escape"
    BY <1>18 DEF InternalError
  <2>2. PICK g, b : Steady(g, b)
    BY <1>3, <2>1
  <2>3. log' \in Seq(Replies) /\ Len(client'.got) >= Len(log') /\ pc' = "closed"
    BY <1>2, <1>18, <2>2, InternalErrorStep
  <2> QED
    BY <2>3
<1>19. ASSUME UNCHANGED vars
       PROVE  /\ pc' # "abort"
              /\ pc' # "closed" => \E g, b : Steady(g, b)'
              /\ pc' = "closed" => log' \in Seq(Replies) /\ Len(client'.got) >= Len(log')
  <2>1. ASSUME NEW g, NEW b, Steady(g, b) PROVE Steady(g, b)'
    BY <1>19, <2>1 DEF vars, Steady, JobShape, Matches, Serving, First, Last, Producing, Fresh, Written, Escaped
  <2> QED
    BY <1>3, <1>19, <2>1 DEF vars
<1> QED
  BY <1>4, <1>6, <1>7, <1>8, <1>9, <1>10, <1>11, <1>12, <1>13, <1>14, <1>15, <1>16, <1>17, <1>18, <1>19
  DEF Next
\* Between two requests the connection and its client agree, and so they do at
\* every step of a handler whose client is still there: what the client has made
\* of the tokens is what the state of the connection says was written.
THEOREM StepInvariance == Spec => []StepInv
<1>1. Init => StepInv
  <2> SUFFICES ASSUME Init PROVE StepInv
    OBVIOUS
  <2>1. JobShape
    BY DEF Init, NoJob, JobShape
  <2> DEFINE none == <<>>
  <2>2. none \in Seq(Answers) /\ none \in Seq(Replies) /\ none \in Seq(Nat) /\ Len(none) = 0
    OBVIOUS
  <2>3. Matches(none)
    BY <2>2 DEF Init, Matches
  <2>4. client = Waiting(none)
    BY DEF Init, NewClient, Waiting, Client
  <2> HIDE DEF none
  <2>5. Steady(none, none)
    BY <2>1, <2>2, <2>3, <2>4 DEF Init, Steady
  <2> QED
    BY <2>5 DEF Init, StepInv
<1>2. StepInv /\ [Next]_vars => StepInv'
  BY StepInductive
<1> QED
  BY <1>1, <1>2, PTL DEF Spec

\* Between two requests the client waits and has the answers that were meant.
LEMMA IdleMatches ==
  ASSUME StepInv, pc = "idle", ~gone, ~unguarded
  PROVE  \E g : Matches(g) /\ client = Waiting(g) /\ client.mode = "start" /\ client.got = g
<1>1. PICK g, b : Steady(g, b)
  BY DEF StepInv
<1>2. Matches(g) /\ client = Waiting(g)
  BY <1>1 DEF Steady
<1> QED
  BY <1>2 DEF Waiting, Client

\* A connection that is kept is in step, whatever was served on it.
THEOREM InStepCorrect == Spec => []InStep
<1>1. StepInv => InStep
  <2> SUFFICES ASSUME StepInv, pc = "idle", ~gone, ~unguarded
               PROVE  /\ client.mode = "start" /\ Len(client.got) = Len(log)
                      /\ \A i \in DOMAIN log : client.got[i].status = log[i].status
    BY DEF InStep
  <2>1. PICK g : Matches(g) /\ client = Waiting(g) /\ client.mode = "start" /\ client.got = g
    BY IdleMatches
  <2> QED
    BY <2>1 DEF Matches, Meant
<1> QED
  BY <1>1, StepInvariance, PTL

\* The bodies on such a connection are those the handlers produced.
THEOREM BodiesCorrect == Spec => []BodiesDelivered
<1>1. StepInv => BodiesDelivered
  <2> SUFFICES ASSUME StepInv, pc = "idle", ~gone, ~unguarded,
                      NEW i \in DOMAIN log, log[i].kind # "lua"
               PROVE  i \in DOMAIN client.got /\ client.got[i].body = log[i].body
    BY DEF BodiesDelivered
  <2>1. PICK g : Matches(g) /\ client = Waiting(g) /\ client.mode = "start" /\ client.got = g
    BY IdleMatches
  <2>2. i \in 1..Len(log) /\ i \in DOMAIN g
    BY <2>1 DEF Matches
  <2> QED
    BY <2>1, <2>2 DEF Matches, Meant
<1> QED
  BY <1>1, StepInvariance, PTL

\* A client that is still there when processRequest() returns has a response for
\* every request, the last resort of an escaped Error included.
THEOREM AnsweredCorrect == Spec => []Answered
<1>1. StepInv => Answered
  <2> SUFFICES ASSUME StepInv, pc \in {"idle", "closed"}, ~gone, ~unguarded
               PROVE  Len(client.got) >= Len(log)
    BY DEF Answered
  <2>1. CASE pc = "closed"
    BY <2>1 DEF StepInv
  <2>2. CASE pc = "idle"
    <3>1. PICK g : Matches(g) /\ client = Waiting(g) /\ client.mode = "start" /\ client.got = g
      BY <2>2, IdleMatches
    <3> DEFINE n == Len(log)
    <3>2. Len(client.got) = n /\ n \in Nat
      BY <3>1 DEF Matches
    <3> HIDE DEF n
    <3>3. Len(client.got) >= n
      BY <3>2
    <3> QED
      BY <3>3 DEF n
  <2> QED
    BY <2>1, <2>2
<1> QED
  BY <1>1, StepInvariance, PTL

=============================================================================
