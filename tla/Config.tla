------------------------------- MODULE Config -------------------------------
(***************************************************************************)
(* From the start of main() to the choice of a handler for a request:      *)
(* options with built-in defaults, the command line, the environment and   *)
(* the Lua configuration file (CserverConf, ConfValue, the config...       *)
(* functions of LuaServer), the routes of the handlers (addRoute,          *)
(* add_route_data) and Server::get_handler.                                *)
(*                                                                         *)
(* One option per type is enough: the options do not influence each other. *)
(* The value of an option carries the place it came from.  A data size is  *)
(* a number of megabytes, a path a sequence of characters, a route string  *)
(* the sequence of the fields that ':' separates.                          *)
(***************************************************************************)
EXTENDS Integers, Sequences, FiniteSets, SequencesExt

CONSTANTS
  Handlers,     \* the request handlers
  HasRoutes,    \* the handler whose routes the LUAROUTES option configures
  FixedRoutes,  \* handler -> route strings, for the others
  DefaultSizes, \* default values of a DATASIZE option, in megabytes
  RouteLists,   \* lists of route strings an option may hold
  Chars,        \* the characters of a path
  Uris,         \* paths of requests
  MaxOptions    \* bound: options of a server, at most one per type

\* l is a list of route strings: sequences of fields, of which the second one, where
\* there are three, is a path.
RouteStrings(l) ==
  /\ Len(l) \in Nat /\ DOMAIN l = 1..Len(l)
  /\ \A i \in DOMAIN l : Len(l[i]) \in Nat /\ (Len(l[i]) >= 3 => l[i][2] \in Seq(Chars))

ASSUME HandlersAssumption == HasRoutes \in Handlers
ASSUME SizesAssumption == DefaultSizes \subseteq Nat
ASSUME RoutesAssumption ==
  /\ Uris \subseteq Seq(Chars)
  /\ \A l \in RouteLists : RouteStrings(l)
  /\ \A h \in Handlers \ {HasRoutes} : RouteStrings(FixedRoutes[h])

Types == {"BOOL", "INTEGER", "FLOAT", "STRING", "STRINGVEC", "DATASIZE", "LOGLEVEL", "LUAROUTES"}
Methods == {"GET", "POST", "PUT", "DELETE", "OPTIONS", "HEAD", "OTHER"}
Sources == {"default", "cmd", "env", "file"}

VARIABLES
  phase,    \* how far main() is
  given,    \* option -> the place outside the file that sets it: "none", "cmd", "env"
  file,     \* option -> what the Lua file says, or NoFile
  asked,    \* option -> its default and the values given for it
  values,   \* option -> its ConfValue
  valmap,   \* option -> what was read from the file, with the alternative it is stored as
  handler,  \* method -> path -> handler (Server::handler)
  routedata,\* handler -> path -> data of the route (RequestHandler::routedata)
  hit       \* the last answer of get_handler

vars == <<phase, given, file, asked, values, valmap, handler, routedata, hit>>

Options == DOMAIN given
NoFile == <<>>
NoHit == [handler |-> "none", path |-> <<>>, method |-> "GET", uri |-> <<>>]

(***************************************************************************)
(* Data sizes.                                                             *)
(***************************************************************************)

RoundDiv(a, b) == (2 * a + b) \div (2 * b)

\* The integer that stoll reads from the text that "{:.2}" makes of n / unit: two
\* significant digits, in exponent notation from 100 on.
Prefix2(n, unit) ==
  LET tenths == RoundDiv(10 * n, unit)
      whole  == RoundDiv(n, unit)
  IN IF tenths < 100 THEN tenths \div 10
     ELSE IF whole < 100 THEN whole
     ELSE LET two == IF whole < 1000 THEN RoundDiv(whole, 10) ELSE RoundDiv(whole, 100)
          IN IF two >= 100 THEN 1 ELSE two \div 10

\* data_volume(size_t) and data_volume(const std::string&): the number and the unit
\* of the text, and the size it is read back as.
VolumeText(mb) ==
  IF mb >= 1024 * 1024 THEN <<Prefix2(mb, 1024 * 1024), "TB">>
  ELSE IF mb >= 1024 THEN <<Prefix2(mb, 1024), "GB">>
  ELSE <<Prefix2(mb, 1), "MB">>

VolumeOf(text) ==
  text[1] * (CASE text[2] = "TB" -> 1024 * 1024 [] text[2] = "GB" -> 1024 [] OTHER -> 1)

(***************************************************************************)
(* Routes.                                                                 *)
(***************************************************************************)

\* RouteInfo(const std::string&): fewer than three fields, or an unknown method, is
\* the method OTHER with an empty route.
RouteInfo(fields) ==
  IF Len(fields) < 3 \/ fields[1] \notin Methods
    THEN [method |-> "OTHER", route |-> <<>>, data |-> "none"]
    ELSE [method |-> fields[1], route |-> fields[2], data |-> fields[3]]

to_string(r) == <<r.method, r.route, r.data>>

\* ConfValue::get_luaroutes
get_luaroutes(strings) == [i \in DOMAIN strings |-> RouteInfo(strings[i])]

(***************************************************************************)
(* The values of an option.                                                *)
(***************************************************************************)

\* The default of an option and the value that another place gives it: sizes,
\* routes, or just something that tells the places apart.
Asked(o, size, routes) ==
  CASE o = "DATASIZE"  -> [def |-> size[1], set |-> size[2]]
    [] o = "LUAROUTES" -> [def |-> routes[1], set |-> routes[2]]
    [] OTHER           -> [def |-> 0, set |-> 1]

Value(src, v) == [src |-> src, v |-> v]

\* What the Lua file may hold for an option: nothing, a value of the documented
\* type, or one of another type.  A level must be one of the names, in upper case.
FileEntries == {"nil", "good", "bad"}

Init ==
  /\ phase = "start"
  /\ \E opts \in {o \in SUBSET Types : Cardinality(o) <= MaxOptions} :
       /\ given \in [opts -> {"none", "cmd", "env"}]
       /\ file \in [opts -> FileEntries] \cup {NoFile}
       /\ \E size \in DefaultSizes \X DefaultSizes, routes \in RouteLists \X RouteLists :
            asked = [o \in opts |-> Asked(o, size, routes)]
  /\ values = <<>> /\ valmap = <<>>
  /\ handler = [m \in Methods |-> <<>>]
  /\ routedata = [h \in Handlers |-> <<>>]
  /\ hit = NoHit

\* The constructors of ConfValue: the option gets its default and the places CLI11
\* looks for a value.
ConfValue(o) == Value("default", asked[o].def)

\* add_config: each option is registered with its default; an option with routes
\* keeps them as strings.
add_config ==
  /\ phase = "start"
  /\ values' = [o \in Options |-> ConfValue(o)]
  /\ phase' = "options"
  /\ UNCHANGED <<given, file, asked, valmap, handler, routedata, hit>>

\* parse_cmdline_args, up to the file.  The command line wins over the environment
\* (CLI11 reads the environment only for options without a result).  When the command
\* line is not accepted, the options parsed until then keep their new values, the file
\* is not read, and main() goes on.
parse_cmdline ==
  /\ phase = "options"
  /\ \E bad \in BOOLEAN, done \in SUBSET Options :
       /\ bad \/ done = Options
       /\ values' = [o \in Options |-> IF o \in done /\ given[o] # "none"
                                         THEN Value(given[o], asked[o].set) ELSE values[o]]
       /\ phase' = IF bad \/ file = NoFile THEN "server" ELSE "reading"
  /\ UNCHANGED <<given, file, asked, valmap, handler, routedata, hit>>

\* What the config... function of LuaServer that parse_cmdline_args calls for an
\* option returns: the default when the file has nothing, an Error when the entry has
\* another type; a list has no default.  alt is the alternative of the variant.
configBoolean(o) == [ok |-> file[o] # "bad", alt |-> "BOOL",
  val |-> IF file[o] = "nil" THEN values[o] ELSE Value("file", asked[o].set)]

configInteger(o) == [ok |-> file[o] # "bad", alt |-> "INTEGER",
  val |-> IF file[o] = "nil" THEN values[o] ELSE Value("file", asked[o].set)]

configFloat(o) == [ok |-> file[o] # "bad", alt |-> "FLOAT",
  val |-> IF file[o] = "nil" THEN values[o] ELSE Value("file", asked[o].set)]

configString(o) == [ok |-> file[o] # "bad", alt |-> "STRING",
  val |-> IF file[o] = "nil" THEN values[o] ELSE Value("file", asked[o].set)]

configStringList(o) == [ok |-> file[o] # "bad", alt |-> "STRINGVEC",
  val |-> IF file[o] = "nil" THEN Value("default", 0) ELSE Value("file", asked[o].set)]

configLoglevel(o) == [ok |-> file[o] # "bad", alt |-> "LOGLEVEL",
  val |-> IF file[o] = "nil" THEN values[o] ELSE Value("file", asked[o].set)]

\* The default of a size goes through the text of the size.
configDataSize(o) == [ok |-> file[o] # "bad", alt |-> "DATASIZE",
  val |-> IF file[o] = "nil" THEN Value(values[o].src, VolumeOf(VolumeText(values[o].v)))
          ELSE Value("file", asked[o].set)]

\* A route of the file is a table with method, route and script; an unknown method is
\* an Error, and the route is kept as the string to_string makes of it.
configRoute(o) ==
  LET rs == get_luaroutes(asked[o].set)
  IN [ok |-> file[o] # "bad" /\ (file[o] = "good" =>
                \A i \in DOMAIN asked[o].set : Len(asked[o].set[i]) = 3 /\ asked[o].set[i][1] \in Methods),
      alt |-> "LUAROUTES",
      val |-> IF file[o] = "nil"
                THEN Value(values[o].src, [i \in DOMAIN values[o].v |-> to_string(RouteInfo(values[o].v[i]))])
                ELSE Value("file", [i \in DOMAIN rs |-> to_string(rs[i])])]

\* The function called for each type: a boolean is read as an integer.
ReadOption(o) ==
  CASE o \in {"BOOL", "INTEGER"} -> configInteger(o)
    [] o = "FLOAT"     -> configFloat(o)
    [] o = "STRING"    -> configString(o)
    [] o = "STRINGVEC" -> configStringList(o)
    [] o = "DATASIZE"  -> configDataSize(o)
    [] o = "LOGLEVEL"  -> configLoglevel(o)
    [] o = "LUAROUTES" -> configRoute(o)

\* The first loop over the options, in the order of the map; an Error ends the program.
ReadFile(o) ==
  /\ phase = "reading" /\ o \notin DOMAIN valmap
  /\ LET r == ReadOption(o)
     IN IF ~r.ok THEN phase' = "aborted" /\ UNCHANGED valmap
        ELSE /\ valmap' = [x \in DOMAIN valmap \cup {o} |-> IF x = o THEN r ELSE valmap[x]]
             /\ phase' = IF DOMAIN valmap' = Options THEN "applying" ELSE "reading"
  /\ UNCHANGED <<given, file, asked, values, handler, routedata, hit>>

\* The second loop: an option without a result on the command line or in the
\* environment takes the value read, which must be stored under its type.
Applied_Always(o) == valmap[o].val

Applied(o) == IF given[o] = "none" THEN valmap[o].val ELSE values[o]

set_values ==
  /\ phase = "applying"
  /\ IF \A o \in Options : given[o] = "none" => valmap[o].alt = o
       THEN values' = [o \in Options |-> Applied(o)] /\ phase' = "server"
       ELSE phase' = "aborted" /\ UNCHANGED values
  /\ UNCHANGED <<given, file, asked, valmap, handler, routedata, hit>>

(***************************************************************************)
(* Routes and requests.                                                    *)
(***************************************************************************)

\* The paths on which the routes rs are entered for a method.
PathsFor(rs, m) == {rs[i].route : i \in {j \in DOMAIN rs : rs[j].method = m}}

\* add_route_data, for one route after the other: the data of the last one on a path stay.
DataOf(rs) ==
  [x \in {rs[i].route : i \in DOMAIN rs} |->
     LET last == CHOOSE i \in DOMAIN rs : /\ rs[i].route = x
                                         /\ \A j \in DOMAIN rs : rs[j].route = x => j <= i
     IN rs[last].data]

\* The getters of CserverConf: the value of an option, a default for an unknown one.
value_or(o, def) == IF o \in DOMAIN values THEN values[o].v ELSE def

RoutesOf(h) ==
  IF h = HasRoutes
    THEN get_luaroutes(value_or("LUAROUTES", <<>>))
    ELSE get_luaroutes(FixedRoutes[h])

\* The handlers' routes are added handler by handler, in the order of an unordered map;
\* the data of a route is kept per path only.
addRoute(h) ==
  LET rs == RoutesOf(h)
  IN /\ phase = "server" /\ routedata[h] = <<>>
     /\ handler' = [m \in Methods |-> [x \in DOMAIN handler[m] \cup PathsFor(rs, m) |->
                                        IF x \in PathsFor(rs, m) THEN h ELSE handler[m][x]]]
     /\ routedata' = [routedata EXCEPT ![h] = DataOf(rs)]
     /\ UNCHANGED <<phase, given, file, asked, values, valmap, hit>>

run ==
  /\ phase = "server"
  /\ \A h \in Handlers : RoutesOf(h) # <<>> => routedata[h] # <<>>
  /\ phase' = "running"
  /\ UNCHANGED <<given, file, asked, values, valmap, handler, routedata, hit>>

\* The routes that the path of a request begins with.
Matching(m, uri) == {r \in DOMAIN handler[m] : IsPrefix(r, uri)}

BestMatch_First(m, uri) == CHOOSE r \in Matching(m, uri) : \A q \in Matching(m, uri) : Len(r) <= Len(q)

BestMatch(m, uri) == CHOOSE r \in Matching(m, uri) : \A q \in Matching(m, uri) : Len(q) <= Len(r)

\* get_handler: the longest matching route that is not empty, or the default handler.
\* Requests leave the routes alone, so that one request per behaviour is enough (hit = NoHit).
get_handler(m, uri) ==
  /\ phase = "running" /\ hit = NoHit
  /\ hit' = IF Matching(m, uri) \ {<<>>} = {}
              THEN [handler |-> "default", path |-> <<>>, method |-> m, uri |-> uri]
              ELSE [handler |-> handler[m][BestMatch(m, uri)], path |-> BestMatch(m, uri),
                    method |-> m, uri |-> uri]
  /\ UNCHANGED <<phase, given, file, asked, values, valmap, handler, routedata>>

Next ==
  \/ add_config
  \/ parse_cmdline
  \/ \E o \in Options : ReadFile(o)
  \/ set_values
  \/ \E h \in Handlers : addRoute(h)
  \/ run
  \/ \E m \in Methods, u \in Uris : get_handler(m, u)

Spec == Init /\ [][Next]_vars

(***************************************************************************)
(* Properties.                                                             *)
(***************************************************************************)

\* The priority that main() promises: when the command line was accepted and the file
\* read, the command line and the environment win over the file, and the file over the
\* defaults (except that an unset size option is rounded, see SizesSurvive).
Priority ==
  phase = "running" /\ file # NoFile /\ DOMAIN valmap = Options =>
    \A o \in Options :
      values[o].src = (IF given[o] # "none" THEN given[o]
                       ELSE IF file[o] = "good" THEN "file" ELSE "default")

\* A size that no place sets is the default, unless the default has more than two
\* digits or a fraction of its unit: the file's default goes through a text with two
\* significant digits.
SizesSurvive ==
  phase = "running" /\ "DATASIZE" \in Options /\ given["DATASIZE"] = "none"
    /\ values["DATASIZE"].src = "default" /\ asked["DATASIZE"].def < 100
    => values["DATASIZE"].v = asked["DATASIZE"].def

\* Options have the value of the place that is to win, through the ways the
\* values take as numbers and as text (CserverConf::serverconf).
OptionsAsPromised == Priority /\ SizesSurvive

\* A request goes to a handler whose route the path begins with, no longer route of the
\* method fits, and the data the handler then finds for the route is data the
\* configuration gave that handler for that path.
DispatchedToLongestRoute ==
  hit # NoHit /\ hit.handler # "default" =>
    /\ IsPrefix(hit.path, hit.uri) /\ hit.path # <<>>
    /\ \E i \in DOMAIN RoutesOf(hit.handler) :
         LET r == RoutesOf(hit.handler)[i] IN r.method = hit.method /\ r.route = hit.path
    /\ \A h \in Handlers : \A i \in DOMAIN RoutesOf(h) :
         LET r == RoutesOf(h)[i]
         IN r.method = hit.method /\ IsPrefix(r.route, hit.uri) => Len(r.route) <= Len(hit.path)
    /\ \E i \in DOMAIN RoutesOf(hit.handler) :
         LET r == RoutesOf(hit.handler)[i]
         IN r.route = hit.path /\ routedata[hit.handler][hit.path] = r.data

=============================================================================
