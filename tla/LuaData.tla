------------------------------- MODULE LuaData -------------------------------
(***************************************************************************)
(* Values that cross the border between Lua, JSON and C++                  *)
(* (src/lib/LuaServer.cpp, src/lib/Parsing.cpp and                         *)
(* src/handlers/iiifhandler/IIIFPreflight.cpp): the conversions behind     *)
(* server.table_to_json, json_to_table, generate_jwt, decode_jwt,          *)
(* requireAuth, http, file_mimetype and file_mimeconsistency, the pages    *)
(* with embedded Lua, and the arguments and results of preflight functions.*)
(*                                                                         *)
(* The functions are pure; the specification evaluates one of them on one  *)
(* input.  Integers beyond Half stand for those beyond 2^31; floats are    *)
(* counted in halves.                                                      *)
(***************************************************************************)
EXTENDS Integers, Sequences, FiniteSets, TLC, SequencesExt

CONSTANTS
  Half,        \* C++ int holds -Half..Half-1
  Depth        \* bound: nesting of tables

ASSUME HalfAssumption == Half \in Nat \ {0}

VARIABLES job, result

vars == <<job, result>>

\* static_cast<int> of a wide integer.
Int32(n) == ((n + Half) % (2 * Half)) - Half

(***************************************************************************)
(* Lua values.  A table is the sequence of its entries in the order in     *)
(* which lua_next visits them.  A string may look like a number, and may   *)
(* contain a dot.                                                          *)
(***************************************************************************)

LNil == [k |-> "nil"]
LBool(b) == [k |-> "bool", b |-> b]
LInt(n) == [k |-> "int", n |-> n]
LFloat(h) == [k |-> "float", h |-> h]
LStr(s) == [k |-> "str", s |-> s]
LTab(es) == [k |-> "tab", v |-> es]

NumericStrings == {"12"}
DottedStrings == {"x.y"}
Scalars == {LBool(TRUE), LInt(1), LInt(Half), LFloat(1), LFloat(2)} \cup
           {LStr(s) : s \in {"a", "12", "x.y"}}
Keys == {LInt(1), LInt(2), LStr("k"), LStr("exp"), LStr("iss")}

RECURSIVE Tables(_)
Tables(d) ==
  LET vals == IF d = 0 THEN Scalars \cup {LTab(<<>>)} ELSE {LInt(1), LStr("a")} \cup Tables(d - 1)
      vals2 == {LInt(1), LStr("x.y")}
  IN {LTab(<<>>)} \cup {LTab(<<<<key, v>>>>) : key \in Keys, v \in vals}
       \cup {LTab(<<<<k1, v1>>, <<k2, v2>>>>) : k1, k2 \in Keys, v1 \in vals, v2 \in vals2}

\* A key occurs once; the integer keys of the array part come first and in order.
ProperTable(t) ==
  \A i, j \in DOMAIN t.v : i < j => t.v[i][1] # t.v[j][1]

(***************************************************************************)
(* JSON.                                                                   *)
(***************************************************************************)

JNull == [k |-> "null"]
JArr(es) == [k |-> "arr", v |-> es]
JObj(es) == [k |-> "obj", v |-> es]     \* a sequence of <<name, value>>
Error == [k |-> "error"]

RECURSIVE subtable(_)
subtable(t) ==
  LET es == t.v
      kinds == {es[i][1].k : i \in DOMAIN es}
      conv(v) == CASE v.k = "float" /\ v.h % 2 = 0 -> LInt(v.h \div 2)
                   [] v.k = "tab" -> subtable(v)
                   [] OTHER -> v
      vals == [i \in DOMAIN es |-> conv(es[i][2])]
  IN CASE es = <<>> -> JNull
       [] Cardinality(kinds) > 1 \/ (\E i \in DOMAIN es : vals[i] = Error) -> Error
       [] kinds = {"str"} -> JObj([i \in DOMAIN es |-> <<es[i][1].s, vals[i]>>])
       [] OTHER -> JArr(vals)

\* The catch clause pushes false and a message, and falls through to true and
\* the dump of the root, still null: Lua gets the last two.
lua_table_to_json(t) ==
  LET root == subtable(t) IN [ok |-> TRUE, json |-> IF root = Error THEN JNull ELSE root]

\* What a number, a string or a boolean of a JSON text becomes in Lua.
FromScalar(v) == CASE v.k = "int" -> LInt(Int32(v.n))
                   [] v.k = "null" -> LNil
                   [] OTHER -> v

\* lua_rawset with nil adds nothing to the table.
WithoutNil(es) == SelectSeq(es, LAMBDA e : e[2] # LNil)

RECURSIVE FromJson(_)
lua_jsonobj(j) ==
  LTab(WithoutNil([i \in DOMAIN j.v |-> <<LStr(j.v[i][1]), FromJson(j.v[i][2])>>]))
lua_jsonarr(j) ==
  LTab(WithoutNil([i \in DOMAIN j.v |-> <<LInt(i - 1), FromJson(j.v[i])>>]))
FromJson(j) == CASE j.k = "obj" -> lua_jsonobj(j)
                 [] j.k = "arr" -> lua_jsonarr(j)
                 [] OTHER -> FromScalar(j)

lua_json_to_table(j) ==
  IF j.k \in {"obj", "arr"} THEN [ok |-> TRUE, val |-> FromJson(j)] ELSE [ok |-> FALSE, val |-> LNil]

(***************************************************************************)
(* Tokens.  The library (external) signs the claims and gives them back.   *)
(***************************************************************************)

Dates == {"exp", "nbf", "iat"}
Texts == {"iss", "sub", "aud"}

\* get<long long> of a value that is no number, or get<string> of one that is
\* no string, throws an exception nobody catches.
Uncaught(claim) ==
  \/ claim[1] \in Dates /\ claim[2].k \notin {"int", "float", "bool"}
  \/ claim[1] = "jti" /\ claim[2].k # "str"

\* Dates are whole seconds.
Claim(claim) == CASE claim[1] \in Dates /\ claim[2].k = "float" -> LInt(claim[2].h \div 2)
                  [] OTHER -> claim[2]

\* A claim iss, sub or aud that is no string is left out without a word.
lua_generate_jwt(t) ==
  LET root == subtable(t)
      kept == SelectSeq(root.v, LAMBDA c : c[1] \in Texts => c[2].k = "str")
  IN
  CASE root = Error -> [ok |-> FALSE, dies |-> FALSE, claims |-> <<>>]
    [] root.k = "obj" /\ (\E i \in DOMAIN root.v : Uncaught(root.v[i])) ->
         [ok |-> FALSE, dies |-> TRUE, claims |-> <<>>]
    [] root.k = "obj" ->
         [ok |-> TRUE, dies |-> FALSE,
          claims |-> [i \in DOMAIN kept |-> <<kept[i][1], Claim(kept[i])>>]]
    [] root.k = "arr" ->
         [ok |-> TRUE, dies |-> FALSE,
          claims |-> [i \in DOMAIN root.v |-> <<ToString(i - 1), root.v[i]>>]]
    [] OTHER -> [ok |-> TRUE, dies |-> FALSE, claims |-> <<>>]

RECURSIVE HasDot(_)
HasDot(j) == CASE j.k = "str" -> j.s \in DottedStrings
               [] j.k = "float" -> TRUE
               [] j.k \in {"arr"} -> \E i \in DOMAIN j.v : HasDot(j.v[i])
               [] j.k = "obj" -> \E i \in DOMAIN j.v : HasDot(j.v[i][2])
               [] OTHER -> FALSE

\* The payload is cut after its first dot, and what is left is no JSON text.
lua_decode_jwt(claims) ==
  IF HasDot(JObj(claims)) THEN [ok |-> FALSE, val |-> LNil]
  ELSE [ok |-> TRUE, val |-> FromJson(JObj(claims))]

(***************************************************************************)
(* Arguments and results of a Lua function called from C++.                *)
(***************************************************************************)

\* Sequences of entries in which the keys are 1, 2, ... as visited.
IsArray(es) == \A i \in DOMAIN es : es[i][1] = LInt(i)

\* Mutant: names are not kept.
KeyText_Lost(key) == "k"

KeyText(key) == IF key.k = "int" THEN ToString(key.n) ELSE key.s

\* LuaValstruct: an array or a table with names; numeric strings are numbers.
RECURSIVE getLuaValue(_)
getLuaValue(v) ==
  CASE v.k = "int" -> LInt(Int32(v.n))
    [] v.k = "tab" ->
         LET vals == [i \in DOMAIN v.v |-> getLuaValue(v.v[i][2])] IN
         CASE \E i \in DOMAIN vals : vals[i] = Error -> Error
           [] IsArray(v.v) -> JArr(vals)
           [] OTHER -> JObj([i \in DOMAIN vals |-> <<KeyText(v.v[i][1]), vals[i]>>])
    [] v.k = "nil" -> Error
    [] v.k = "str" /\ v.s \in NumericStrings -> LFloat(24)
    [] OTHER -> v

\* get_float() returns the integer member, which is 0.  After an array there is
\* a rawset too many: it takes two values the stack does not hold for it.
RECURSIVE pushLuaValue(_)
pushLuaValue(lv) ==
  CASE lv.k = "float" -> LFloat(0)
    [] lv.k = "arr" -> Error
    [] lv.k = "obj" ->
         LET vals == [i \in DOMAIN lv.v |-> pushLuaValue(lv.v[i][2])] IN
         IF \E i \in DOMAIN vals : vals[i] = Error THEN Error
         ELSE LTab([i \in DOMAIN vals |-> <<LStr(lv.v[i][1]), vals[i]>>])
    [] OTHER -> lv

\* An object without members is built by no assignment, and stays null.
RECURSIVE get_json(_)
get_json(lv) ==
  CASE lv.k = "arr" -> JArr([i \in DOMAIN lv.v |-> get_json(lv.v[i])])
    [] lv.k = "obj" /\ lv.v = <<>> -> JNull
    [] lv.k = "obj" -> JObj([i \in DOMAIN lv.v |-> <<lv.v[i][1], get_json(lv.v[i][2])>>])
    [] OTHER -> lv

\* The results of the Lua function, or an Error.
executeLuafunction(rets) ==
  LET vals == [i \in DOMAIN rets |-> getLuaValue(rets[i])] IN
  IF \E i \in DOMAIN vals : vals[i] = Error THEN <<Error>> ELSE vals

IiifTypes == {"allow", "login", "clickthrough", "kiosk", "external", "restrict", "deny"}
BlobTypes == {"allow", "login", "restrict", "deny"}

Field(lv, name) == LET i == CHOOSE i \in DOMAIN lv.v : lv.v[i][1] = name IN lv.v[i][2]
HasField(lv, name) == \E i \in DOMAIN lv.v : lv.v[i][1] = name

\* The permission a preflight function returned as a string, or as a table of
\* strings with a field "type"; "" stands for an IIIFError.
Permission(lv) ==
  CASE lv.k = "str" -> lv.s
    [] lv.k = "obj" /\ HasField(lv, "type") /\ (\A i \in DOMAIN lv.v : lv.v[i][2].k = "str") ->
         Field(lv, "type").s
    [] OTHER -> ""

Refused == [type |-> "", infile |-> ""]

\* Mutant: "deny" does not clear the file name.
Preflight_DenyKeepsFile(rets, types) ==
  LET vals == executeLuafunction(rets)
      type == IF vals = <<>> \/ vals[1] = Error THEN "" ELSE Permission(vals[1])
  IN IF type \in types /\ Len(vals) >= 2 /\ vals[2].k = "str"
       THEN [type |-> type, infile |-> vals[2].s] ELSE Refused

Preflight(rets, types) ==
  LET vals == executeLuafunction(rets)
      type == IF vals = <<>> \/ vals[1] = Error THEN "" ELSE Permission(vals[1])
  IN CASE type \notin types -> Refused
       [] type = "deny" -> [type |-> "deny", infile |-> ""]
       [] Len(vals) >= 2 /\ vals[2].k = "str" -> [type |-> type, infile |-> vals[2].s]
       [] OTHER -> Refused

call_iiif_preflight(rets) == Preflight(rets, IiifTypes)
call_blob_preflight(rets) == Preflight(rets, BlobTypes)

(***************************************************************************)
(* The Authorization header.                                               *)
(***************************************************************************)

Bytes == {0, 58, 97, 255}       \* 58 is ':'

\* Encoding as RFC 4648 has it, without the padding, to state what decoding
\* should give back; base64 digits are their values.
Encode(b) ==
  LET at(i) == IF i <= Len(b) THEN b[i] ELSE 0
      digit(k) == LET g == (k \div 4) * 3 IN
        CASE k % 4 = 0 -> at(g + 1) \div 4
          [] k % 4 = 1 -> (at(g + 1) % 4) * 16 + at(g + 2) \div 16
          [] k % 4 = 2 -> (at(g + 2) % 16) * 4 + at(g + 3) \div 64
          [] k % 4 = 3 -> at(g + 3) % 64
  IN [k \in 1..((4 * Len(b) + 2) \div 3) |-> digit(k - 1)]

\* The bytes of a group of four; a missing digit is base64_chars.find(0), which
\* is npos and 255 in an unsigned char.
Group(c) ==
  <<(c[1] * 4 + (c[2] % 64) \div 16) % 256,
    ((c[2] % 16) * 16 + (c[3] % 64) \div 4) % 256,
    ((c[3] % 4) * 64 + c[4]) % 256>>

base64_decode(d) ==
  LET digit(k) == IF k <= Len(d) THEN d[k] ELSE 255
      groups == (Len(d) + 3) \div 4
      bytes == [k \in 1..(3 * groups) |->
                  LET g == ((k - 1) \div 3) * 4 IN
                  Group(<<digit(g + 1), digit(g + 2), digit(g + 3), digit(g + 4)>>)[((k - 1) % 3) + 1]]
      left == Len(d) % 4
      n == IF left = 0 THEN 3 * groups ELSE 3 * (groups - 1) + left - 1
  IN SubSeq(bytes, 1, n)

Colon == 58
FirstColon(b) == SelectInSeq(b, LAMBDA x : x = Colon)

\* lua_pushstring(s.c_str()) ends at the first zero byte.
CString(b) ==
  LET zero == SelectInSeq(b, LAMBDA x : x = 0) IN IF zero = 0 THEN b ELSE SubSeq(b, 1, zero - 1)

\* header: [scheme, digits]; the scheme "" is a header without a space.
lua_require_auth(header) ==
  LET none == [status |-> "", username |-> <<>>, password |-> <<>>]
      text == base64_decode(header.digits)
      pos == FirstColon(text)
  IN CASE header.scheme = "absent" -> [none EXCEPT !.status = "NOAUTH"]
       [] header.scheme = "" -> [none EXCEPT !.status = "ERROR"]
       [] header.scheme = "basic" /\ pos = 0 -> [none EXCEPT !.status = "ERROR"]
       [] header.scheme = "basic" ->
            [status |-> "BASIC", username |-> CString(SubSeq(text, 1, pos - 1)),
             password |-> CString(SubSeq(text, pos + 1, Len(text)))]
       [] header.scheme = "bearer" -> [none EXCEPT !.status = "BEARER"]
       [] OTHER -> none

(***************************************************************************)
(* MIME types.                                                             *)
(***************************************************************************)

\* Some entries of the table: the type a list begins with is the preferred one.
\* "mp4" is there twice, and an unordered_map keeps the first.
mimetypes ==
  [jpx |-> <<"image/jpx", "image/jp2">>, jp2 |-> <<"image/jp2", "image/jpx">>,
   jpg |-> <<"image/jpeg">>, mp4 |-> <<"audio/mp4">>, txt |-> <<"text/plain">>]

\* libmagic (external): the type its contents show.
Magic == {"image/jpx", "image/jp2", "image/jpeg", "audio/mp4", "video/mp4", "text/plain"}

\* A file name by its extension, "" for none; upper case is told apart.
FileNames == [ext: DOMAIN mimetypes \cup {"", "unknown"}, upper: BOOLEAN]

\* A Content-Type is "type" or "type; charset=..."; anything else is an Error.
parseMimetype(str) ==
  CASE str.rest = "" -> [ok |-> TRUE, type |-> str.type, charset |-> ""]
    [] str.rest = "charset" -> [ok |-> TRUE, type |-> str.type, charset |-> str.charset]
    [] OTHER -> [ok |-> FALSE, type |-> "", charset |-> ""]

getFileMimetype(actual) ==
  parseMimetype([type |-> actual, rest |-> "charset", charset |-> "binary"]).type

Listed(type, ext) == Contains(mimetypes[ext], type)

\* The extension is looked up as it is written.
getBestFileMimetype(name, actual) ==
  LET type == getFileMimetype(actual) IN
  IF name.ext \in DOMAIN mimetypes /\ ~name.upper /\ Listed(type, name.ext)
    THEN mimetypes[name.ext][1] ELSE type

\* The extension is looked up in lower case; without one it is an Error.
checkMimeTypeConsistency(name, actual, given) ==
  IF name.ext \notin DOMAIN mimetypes THEN "error"
  ELSE IF Listed(getFileMimetype(actual), name.ext) /\ (given = "" \/ Listed(given, name.ext))
    THEN "yes" ELSE "no"

lua_file_mimetype(actual) == getFileMimetype(actual)
lua_file_mimeconsistency(name, actual, given) == checkMimeTypeConsistency(name, actual, given)

(***************************************************************************)
(* server.http: the steps that set a curl handle up may each fail.         *)
(***************************************************************************)

SetupSteps == 10    \* curl_easy_setopt calls of the constructor

\* How often the handle was made and cleaned up, and what the script gets.
\* "fails" is the step that fails: 0 curl_easy_init, then the options, then the
\* transfer; a number beyond them is none.
CurlConnection(fails) ==
  CASE fails = 0 -> [made |-> 0, cleaned |-> 0, ok |-> FALSE]
    [] fails \in 1..SetupSteps -> [made |-> 1, cleaned |-> 1, ok |-> FALSE]  \* the catch clause
    [] OTHER -> [made |-> 1, cleaned |-> 1, ok |-> fails > SetupSteps + 1]    \* the destructor

\* The timeout is taken from argument 1, the method: lua_tointeger gives 0.
lua_http_client(method, third, fails) ==
  LET timeout == IF third = "timeout" THEN 0 ELSE 2000 IN
  IF method = "GET" THEN [timeout |-> timeout] @@ CurlConnection(fails)
  ELSE [timeout |-> timeout, made |-> 0, cleaned |-> 0, ok |-> FALSE]

(***************************************************************************)
(* Pages with embedded Lua, as tokens.                                     *)
(***************************************************************************)

Tokens == {"<lua>", "</lua>", "html", "code"}
\* Mutant: the last occurrence (rfind).
NextToken_Last(page, tok, from) ==
  LET is == {i \in from..Len(page) : page[i] = tok}
  IN IF is = {} THEN 0 ELSE CHOOSE i \in is : \A j \in is : i >= j

NextToken(page, tok, from) ==
  LET is == {i \in from..Len(page) : page[i] = tok}
  IN IF is = {} THEN 0 ELSE CHOOSE i \in is : \A j \in is : i <= j

\* The text sent and the chunks run, in order.  A <lua> that is not closed
\* leaves "end" at npos, and substr throws std::out_of_range.
RECURSIVE Elua(_, _)
Elua(page, end) ==
  LET pos == NextToken(page, "<lua>", end)
      html == SubSeq(page, end, IF pos = 0 THEN Len(page) ELSE pos - 1)
      close == NextToken(page, "</lua>", pos + 1)
      text == IF html = <<>> THEN <<>> ELSE <<<<"send", html>>>>
  IN CASE pos = 0 -> <<<<"send", html>>>>
       [] close = 0 -> text \o <<<<"run", SubSeq(page, pos + 1, Len(page))>>, <<"dies", <<>>>>>>
       [] OTHER -> text \o <<<<"run", SubSeq(page, pos + 1, close - 1)>>>> \o Elua(page, close + 1)

(***************************************************************************)
(* One function is evaluated on one input.                                 *)
(***************************************************************************)

AllTables == {t \in Tables(Depth) : ProperTable(t)}

\* What a preflight function may return first: every kind of value.
Permits == {LStr(s) : s \in {"allow", "kiosk", "deny", "any"}} \cup
  {LTab(<<<<LStr("type"), t>>, <<LStr("infile"), f>>>>) : t \in {LStr("allow"), LStr("deny"), LInt(1)},
                                                        f \in {LStr("f"), LNil, LInt(1)}} \cup
  {LTab(<<<<LInt(1), LStr("allow")>>>>), LInt(1), LNil}
Files == {LStr("f"), LStr("12"), LInt(1), LNil}
Returns == {<<>>} \cup {<<p>> : p \in Permits} \cup {<<p, f>> : p \in Permits, f \in Files}

BoundedBytes == UNION {[1..n -> Bytes] : n \in 0..4}
Pages == UNION {[1..n -> Tokens] : n \in 0..4}

Asked(fn, arg) == job = [fn |-> fn, arg |-> arg]

Init ==
  /\ result = [done |-> FALSE]
  /\ \/ \E t \in AllTables : Asked("json", t) \/ Asked("jwt", t) \/ Asked("echo", t)
     \/ \E v \in Scalars : Asked("echo", v)
     \/ \E r \in Returns : Asked("iiif", r) \/ Asked("blob", r)
     \/ \E b \in BoundedBytes, sch \in {"basic", "bearer", "digest", "", "absent"} :
          Asked("auth", [scheme |-> sch, digits |-> Encode(b), bytes |-> b])
     \/ \E n \in FileNames, m \in Magic, g \in {"", "image/jpx", "text/plain"} :
          Asked("mime", [name |-> n, actual |-> m, given |-> g])
     \/ \E m \in {"GET", "PUT"}, t \in {"none", "timeout"}, f \in 0..(SetupSteps + 2) :
          Asked("http", [method |-> m, third |-> t, fails |-> f])
     \/ \E p \in Pages : Asked("elua", p)

Table(arg) == LET j == lua_table_to_json(arg) IN [json |-> j, back |-> lua_json_to_table(j.json)]
Token(arg) == LET g == lua_generate_jwt(arg) IN [token |-> g, back |-> lua_decode_jwt(g.claims)]
Echo(arg) == LET lv == getLuaValue(arg) IN
             [value |-> lv, back |-> IF lv = Error THEN Error ELSE pushLuaValue(lv), json |-> get_json(lv)]
Mime(arg) == [best |-> getBestFileMimetype(arg.name, arg.actual),
              same |-> lua_file_mimeconsistency(arg.name, arg.actual, arg.given)]

Value ==
  CASE job.fn = "json" -> Table(job.arg)
    [] job.fn = "jwt" -> Token(job.arg)
    [] job.fn = "echo" -> Echo(job.arg)
    [] job.fn = "iiif" -> call_iiif_preflight(job.arg)
    [] job.fn = "blob" -> call_blob_preflight(job.arg)
    [] job.fn = "auth" -> lua_require_auth(job.arg)
    [] job.fn = "mime" -> Mime(job.arg)
    [] job.fn = "http" -> lua_http_client(job.arg.method, job.arg.third, job.arg.fails)
    [] job.fn = "elua" -> [parts |-> Elua(job.arg, 1)]

Next == /\ ~result.done
        /\ result' = [done |-> TRUE] @@ Value
        /\ UNCHANGED job

Spec == Init /\ [][Next]_vars

(***************************************************************************)
(* Properties.                                                             *)
(***************************************************************************)

Done(fn) == job.fn = fn /\ result.done

\* A table as table_to_json and json_to_table should carry it to the other
\* side of a JSON text: the entries under names keep them, the others are
\* numbered as they come, and nothing can stand for an empty table.
RECURSIVE Carried(_)
Carried(t) ==
  LET es == t.v
      val(v) == CASE v.k = "tab" -> Carried(v)
                  [] v.k = "float" /\ v.h % 2 = 0 -> LInt(v.h \div 2)
                  [] OTHER -> v
      keep(i) == es[i][2] # LTab(<<>>)
      entry(i) == <<IF es[i][1].k = "int" THEN LInt(i - 1) ELSE es[i][1], val(es[i][2])>>
  IN LTab(SelectSeq([i \in DOMAIN es |-> IF keep(i) THEN entry(i) ELSE <<>>], LAMBDA e : e # <<>>))

RECURSIVE Regular(_)
Regular(t) ==
  /\ \A i, j \in DOMAIN t.v : t.v[i][1].k = t.v[j][1].k
  /\ \A i \in DOMAIN t.v : /\ t.v[i][2].k = "tab" => Regular(t.v[i][2])
                           /\ t.v[i][2].k = "int" => t.v[i][2].n < Half

\* A table whose keys are all names or all numbers survives the way to JSON
\* and back, nested tables included, up to what Carried says; integers do if
\* they fit in 32 bits (lua_jsonobj, lua_jsonarr).
JsonRoundTrip ==
  Done("json") /\ Regular(job.arg) /\ job.arg.v # <<>> =>
    result.back = [ok |-> TRUE, val |-> Carried(job.arg)]

\* A token that generate_jwt made for a table of names is decoded to the same
\* claims, unless a dot in the payload cuts it short.
TokenRoundTrip ==
  Done("jwt") /\ Regular(job.arg) /\ result.token.ok /\ job.arg.v # <<>>
      /\ job.arg.v[1][1].k = "str" /\ ~HasDot(subtable(job.arg)) =>
    /\ result.back.ok
    /\ \A i \in DOMAIN job.arg.v :
         \/ job.arg.v[i][2] = LTab(<<>>)
         \/ job.arg.v[i][1] = LStr("iss") /\ job.arg.v[i][2].k # "str"
         \/ Contains(result.back.val.v, Carried(LTab(<<job.arg.v[i]>>)).v[1])

RECURSIVE Faithful(_)
Faithful(v) ==
  CASE v.k = "int" -> v.n < Half
    [] v.k = "float" -> FALSE
    [] v.k = "str" -> v.s \notin NumericStrings
    [] v.k = "tab" -> /\ ~IsArray(v.v)
                      /\ \A i \in DOMAIN v.v : v.v[i][1].k = "str" /\ Faithful(v.v[i][2])
    [] OTHER -> TRUE

\* A value a Lua function returned, and that C++ passes on to a Lua function,
\* arrives unchanged: booleans, integers of 32 bits, strings that are no
\* numerals, and tables of such values under names.
ArgumentsSurvive == Done("echo") /\ Faithful(job.arg) => result.back = job.arg

\* A preflight function opens a file only by saying so: the result is an error,
\* or "deny" without a file, or a permission of the list with the very file
\* that the function returned second.
PreflightDecides ==
  Done("iiif") \/ Done("blob") =>
    \/ result.infile = ""
    \/ /\ Len(job.arg) = 2 /\ job.arg[2] = LStr(result.infile)
       /\ result.type \in (IF job.fn = "iiif" THEN IiifTypes ELSE BlobTypes) \ {"deny"}
       /\ \/ job.arg[1] = LStr(result.type)
          \/ job.arg[1].k = "tab" /\ Contains(job.arg[1].v, <<LStr("type"), LStr(result.type)>>)

\* Basic credentials are the bytes the client encoded, split at the first
\* colon: base64_decode inverts the encoding for every length, and a password
\* may contain colons, but no zero byte.
CredentialsIntact ==
  Done("auth") /\ job.arg.scheme = "basic" =>
    IF Contains(job.arg.bytes, Colon)
      THEN /\ result.status = "BASIC"
           /\ \/ Contains(job.arg.bytes, 0)
              \/ result.username \o <<Colon>> \o result.password = job.arg.bytes
           /\ ~Contains(result.username, Colon)
      ELSE result.status = "ERROR"

\* Values survive the conversions they go through on their way into and out of
\* Lua: tables through JSON and tokens, arguments of functions, credentials
\* through base64 (the four properties above).
ValuesSurvive == JsonRoundTrip /\ TokenRoundTrip /\ ArgumentsSurvive /\ CredentialsIntact

\* A page is sent and run in the order of its text: put together again, with
\* the tags around the chunks, the parts are the page, and no text beyond a
\* closing tag is run, nor a chunk sent as text.
PageInOrder ==
  Done("elua") =>
    LET part(p) == CASE p[1] = "send" -> p[2]
                     [] p[1] = "run" -> <<"<lua>">> \o p[2] \o <<"</lua>">>
                     [] OTHER -> <<>>
        whole == FlattenSeq([i \in DOMAIN result.parts |-> part(result.parts[i])])
        closed == \A i \in DOMAIN result.parts : result.parts[i][1] # "dies"
    IN /\ whole = IF closed THEN job.arg ELSE job.arg \o <<"</lua>">>
       /\ \A i \in DOMAIN result.parts :
            ~Contains(result.parts[i][2], IF result.parts[i][1] = "run" THEN "</lua>" ELSE "<lua>")
=============================================================================
