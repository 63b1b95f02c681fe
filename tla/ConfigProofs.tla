---------------------------- MODULE ConfigProofs ----------------------------
(***************************************************************************)
(* Proofs that the options get the values main() promises and that a       *)
(* request goes to the longest route, for any handlers, routes, sizes and  *)
(* paths: ConfInv says phase by phase how far the values and the routes    *)
(* are.                                                                    *)
(***************************************************************************)
EXTENDS Config, SequenceTheorems, WellFoundedInduction, TLAPS

(* What the places say: the options, the file and the values of Asked.     *)
GivenInv ==
  /\ Options \subseteq Types
  /\ given \in [Options -> {"none", "cmd", "env"}]
  /\ file # NoFile => file \in [Options -> FileEntries]
  /\ "DATASIZE" \in Options => asked["DATASIZE"].def \in Nat
  /\ "LUAROUTES" \in Options => /\ RouteStrings(asked["LUAROUTES"].def)
                                /\ RouteStrings(asked["LUAROUTES"].set)

(* The value of an option after the command line and the environment.      *)
Parsed(o) == IF given[o] # "none" THEN Value(given[o], asked[o].set) ELSE Value("default", asked[o].def)

(* How far the values are, phase by phase: registered, parsed, read from   *)
(* the file, applied.                                                      *)
ReadingInv ==
  /\ file # NoFile
  /\ values = [o \in Options |-> Parsed(o)]
  /\ DOMAIN valmap \subseteq Options
  /\ \A o \in DOMAIN valmap : valmap[o] = ReadOption(o) /\ valmap[o].ok

Promised(o) == IF given[o] # "none" THEN given[o] ELSE IF file[o] = "good" THEN "file" ELSE "default"

FinalInv ==
  /\ DOMAIN values = Options
  /\ file # NoFile /\ DOMAIN valmap = Options => \A o \in Options : values[o].src = Promised(o)
  /\ "DATASIZE" \in Options /\ given["DATASIZE"] = "none" /\ values["DATASIZE"].src = "default"
       /\ asked["DATASIZE"].def < 100 => values["DATASIZE"].v = asked["DATASIZE"].def
  /\ "LUAROUTES" \in Options => RouteStrings(values["LUAROUTES"].v)

ValuesInv ==
  /\ phase \in {"start", "options"} => valmap = <<>>
  /\ phase = "options" => values = [o \in Options |-> ConfValue(o)]
  /\ phase \in {"reading", "applying"} => ReadingInv
  /\ phase = "applying" => DOMAIN valmap = Options
  /\ phase \in {"server", "running"} => FinalInv

(* Routes: what is entered for a method and a path is a route of that      *)
(* handler, whose data are there too; a handler with data has entered all  *)
(* its routes.                                                             *)
HasRoute(h, m, x) == \E i \in DOMAIN RoutesOf(h) : RoutesOf(h)[i].method = m /\ RoutesOf(h)[i].route = x

EntriesInv ==
  \A m \in Methods : \A x \in DOMAIN handler[m] :
    /\ handler[m][x] \in Handlers
    /\ HasRoute(handler[m][x], m, x)
    /\ routedata[handler[m][x]] = DataOf(RoutesOf(handler[m][x]))

AddedInv ==
  \A h \in Handlers : routedata[h] # <<>> =>
    \A i \in DOMAIN RoutesOf(h) : RoutesOf(h)[i].route \in DOMAIN handler[RoutesOf(h)[i].method]

RoutingInv ==
  /\ handler = [m \in Methods |-> handler[m]] /\ DOMAIN routedata = Handlers
  /\ phase \notin {"server", "running"} =>
       handler = [m \in Methods |-> <<>>] /\ routedata = [h \in Handlers |-> <<>>]
  /\ phase \in {"server", "running"} => EntriesInv /\ AddedInv
  /\ phase = "running" => \A h \in Handlers : RoutesOf(h) # <<>> => routedata[h] # <<>>

HitInv == hit = NoHit \/ (phase = "running" /\ DispatchedToLongestRoute)

ConfInv == GivenInv /\ ValuesInv /\ RoutingInv /\ HitInv

(***************************************************************************)
(* Greatest elements, sizes and routes.                                    *)
(***************************************************************************)

(* A function with values up to n has a greatest one.                      *)
LEMMA Greatest ==
  ASSUME NEW T, T # {}, NEW n \in Nat, NEW f \in [T -> 0..n]
  PROVE  \E r \in T : \A q \in T : f[q] <= f[r]
<1> DEFINE Less == OpToRel(<, Nat)
           Gaps == {n - f[q] : q \in T}
<1>1. Gaps \subseteq Nat /\ Gaps # {}
  OBVIOUS
<1>2. \E x \in Gaps : \A y \in Gaps : ~(<<y, x>> \in Less)
  <2>1. IsWellFoundedOn(Less, Nat)
    BY NatLessThanWellFounded
  <2> HIDE DEF Less, Gaps
  <2> QED BY <1>1, <2>1, WFMin
<1>3. PICK x \in Gaps : \A y \in Gaps : ~(y < x)
  BY <1>1, <1>2 DEF OpToRel
<1>4. PICK r \in T : x = n - f[r]
  BY <1>3
<1>5. ASSUME NEW q \in T PROVE f[q] <= f[r]
  <2>1. ~(n - f[q] < n - f[r])
    BY <1>3, <1>4
  <2>2. f[q] \in Nat /\ f[r] \in Nat
    OBVIOUS
  <2> QED BY <2>1, <2>2
<1> QED BY <1>5

(* Sizes below 100 survive the way through the text.                       *)
LEMMA SmallSizeKept ==
  ASSUME NEW n \in Nat, n < 100
  PROVE  VolumeOf(VolumeText(n)) = n
<1>1. RoundDiv(10 * n, 1) = 10 * n /\ RoundDiv(n, 1) = n
  BY DEF RoundDiv
<1>2. Prefix2(n, 1) = n
  BY <1>1 DEF Prefix2
<1>3. VolumeText(n) = <<n, "MB">>
  BY <1>2 DEF VolumeText
<1> QED BY <1>3 DEF VolumeOf

(* The routes made of route strings.                                       *)
RoutesIn(rs) ==
  /\ \E n \in Nat : DOMAIN rs = 1..n
  /\ \A i \in DOMAIN rs : rs[i].method \in Methods /\ rs[i].route \in Seq(Chars)

LEMMA RoutesOfStrings ==
  ASSUME NEW l, RouteStrings(l)
  PROVE  RoutesIn(get_luaroutes(l))
<1>1. \E n \in Nat : DOMAIN get_luaroutes(l) = 1..n
  BY DEF RouteStrings, get_luaroutes
<1>2. ASSUME NEW i \in DOMAIN get_luaroutes(l)
      PROVE  get_luaroutes(l)[i].method \in Methods /\ get_luaroutes(l)[i].route \in Seq(Chars)
  <2>1. /\ i \in DOMAIN l /\ get_luaroutes(l)[i] = RouteInfo(l[i])
        /\ Len(l[i]) \in Nat /\ (Len(l[i]) >= 3 => l[i][2] \in Seq(Chars))
    BY DEF RouteStrings, get_luaroutes
  <2>2. CASE Len(l[i]) < 3 \/ l[i][1] \notin Methods
    <3>1. RouteInfo(l[i]) = [method |-> "OTHER", route |-> <<>>, data |-> "none"]
      BY <2>2 DEF RouteInfo
    <3> QED BY <2>1, <3>1 DEF Methods
  <2>3. CASE ~(Len(l[i]) < 3 \/ l[i][1] \notin Methods)
    <3>1. RouteInfo(l[i]) = [method |-> l[i][1], route |-> l[i][2], data |-> l[i][3]]
      BY <2>3 DEF RouteInfo
    <3>2. l[i][2] \in Seq(Chars)
      BY <2>1, <2>3
    <3> QED BY <2>1, <2>3, <3>1, <3>2
  <2> QED BY <2>2, <2>3
<1> QED BY <1>1, <1>2 DEF RoutesIn

(* Routes kept as the text of to_string are route strings again.           *)
LEMMA RoutesKept ==
  ASSUME NEW l, RouteStrings(l)
  PROVE  RouteStrings([i \in DOMAIN l |-> to_string(RouteInfo(l[i]))])
<1> DEFINE k == [i \in DOMAIN l |-> to_string(RouteInfo(l[i]))]
<1>1. Len(l) \in Nat /\ DOMAIN k = 1..Len(l)
  BY DEF RouteStrings
<1>2. Len(k) = Len(l)
  <2>1. k \in [1..Len(l) -> {k[i] : i \in 1..Len(l)}]
    BY <1>1
  <2>2. k \in Seq({k[i] : i \in 1..Len(l)})
    BY <1>1, <2>1
  <2> HIDE DEF k
  <2> QED BY <1>1, <2>2, LenProperties
<1>3. ASSUME NEW i \in DOMAIN k
      PROVE  Len(k[i]) \in Nat /\ (Len(k[i]) >= 3 => k[i][2] \in Seq(Chars))
  <2>1. i \in DOMAIN l /\ k[i] = to_string(RouteInfo(l[i])) /\ get_luaroutes(l)[i] = RouteInfo(l[i])
    BY DEF get_luaroutes
  <2>2. RouteInfo(l[i]).route \in Seq(Chars)
    BY <2>1, RoutesOfStrings DEF RoutesIn, get_luaroutes
  <2>3. k[i] = <<RouteInfo(l[i]).method, RouteInfo(l[i]).route, RouteInfo(l[i]).data>>
    BY <2>1 DEF to_string
  <2>4. Len(k[i]) = 3 /\ k[i][2] = RouteInfo(l[i]).route
    BY <2>3
  <2> QED BY <2>2, <2>4
<1> QED BY <1>1, <1>2, <1>3 DEF RouteStrings

(* The data kept for a path are those of a route on that path.             *)
LEMMA DataOfRoute ==
  ASSUME NEW rs, RoutesIn(rs), NEW i \in DOMAIN rs
  PROVE  /\ DataOf(rs) # <<>>
         /\ \E j \in DOMAIN rs : rs[j].route = rs[i].route /\ DataOf(rs)[rs[i].route] = rs[j].data
<1> DEFINE x == rs[i].route
           T  == {j \in DOMAIN rs : rs[j].route = x}
           Latest(j) == rs[j].route = x /\ \A q \in DOMAIN rs : rs[q].route = x => q <= j
           last == CHOOSE j \in DOMAIN rs : Latest(j)
<1>1. PICK n \in Nat : DOMAIN rs = 1..n
  BY DEF RoutesIn
<1>2. \E j \in DOMAIN rs : Latest(j)
  <2>1. T # {} /\ [j \in T |-> j] \in [T -> 0..n]
    BY <1>1
  <2>2. \E r \in T : \A q \in T : [j \in T |-> j][q] <= [j \in T |-> j][r]
    <3> HIDE DEF T
    <3> QED BY <2>1, Greatest
  <2> QED BY <2>2
<1>3. last \in DOMAIN rs /\ Latest(last)
  <2> HIDE DEF Latest
  <2> QED BY <1>2
<1>4. x \in DOMAIN DataOf(rs) /\ DataOf(rs)[x] = rs[last].data
  BY DEF DataOf
<1>5. DataOf(rs) # <<>>
  BY <1>4
<1> QED BY <1>3, <1>4, <1>5

(***************************************************************************)
(* The invariant.                                                          *)
(***************************************************************************)

LEMMA ConfInitially == Init => ConfInv
<1> SUFFICES ASSUME Init PROVE ConfInv
  OBVIOUS
<1>1. GivenInv
  <2>1. PICK opts \in SUBSET Types :
          /\ given \in [opts -> {"none", "cmd", "env"}]
          /\ file \in [opts -> FileEntries] \cup {NoFile}
          /\ \E size \in DefaultSizes \X DefaultSizes, routes \in RouteLists \X RouteLists :
               asked = [o \in opts |-> Asked(o, size, routes)]
    BY DEF Init
  <2>2. PICK size \in DefaultSizes \X DefaultSizes, routes \in RouteLists \X RouteLists :
          asked = [o \in opts |-> Asked(o, size, routes)]
    BY <2>1
  <2>3. Options = opts
    BY <2>1 DEF Options
  <2>4. "DATASIZE" \in Options => asked["DATASIZE"].def \in Nat
    BY <2>2, <2>3, SizesAssumption DEF Asked
  <2>5. "LUAROUTES" \in Options => /\ RouteStrings(asked["LUAROUTES"].def)
                                   /\ RouteStrings(asked["LUAROUTES"].set)
    <3>1. RouteStrings(routes[1]) /\ RouteStrings(routes[2])
      BY RoutesAssumption
    <3>2. "LUAROUTES" \in Options => asked["LUAROUTES"] = [def |-> routes[1], set |-> routes[2]]
      BY <2>2, <2>3 DEF Asked
    <3> QED BY <3>1, <3>2
  <2> QED BY <2>1, <2>3, <2>4, <2>5 DEF GivenInv
<1>2. ValuesInv
  BY DEF Init, ValuesInv
<1>3. RoutingInv
  BY DEF Init, RoutingInv
<1> QED BY <1>1, <1>2, <1>3 DEF Init, HitInv, ConfInv

(* The routes depend on the values alone; nothing else has moved when only *)
(* the values are at work.                                                 *)
LEMMA RoutesUnchanged == UNCHANGED values => \A h : RoutesOf(h)' = RoutesOf(h)
BY DEF RoutesOf, value_or

LEMMA GivenKept ==
  ASSUME GivenInv, UNCHANGED <<given, file, asked>>
  PROVE  GivenInv'
BY DEF GivenInv, Options, NoFile

(* Before the routes are entered.                                          *)
LEMMA NoRoutesKept ==
  ASSUME RoutingInv, HitInv, phase \notin {"server", "running"}, phase' # "running",
         UNCHANGED <<handler, routedata, hit>>
  PROVE  RoutingInv' /\ HitInv'
<1>1. handler' = [m \in Methods |-> <<>>] /\ routedata' = [h \in Handlers |-> <<>>]
  BY DEF RoutingInv
<1>2. EntriesInv' /\ AddedInv'
  <2>1. EntriesInv'
    BY <1>1 DEF EntriesInv
  <2>2. AddedInv'
    BY <1>1 DEF AddedInv
  <2> QED BY <2>1, <2>2
<1>3. HitInv'
  BY DEF HitInv, NoHit
<1>4. handler' = [m \in Methods |-> handler'[m]] /\ DOMAIN routedata' = Handlers
  BY <1>1
<1> QED BY <1>1, <1>2, <1>3, <1>4 DEF RoutingInv

LEMMA AddConfigKeeps == ConfInv /\ add_config => ConfInv'
<1> SUFFICES ASSUME ConfInv, add_config PROVE ConfInv'
  OBVIOUS
<1> USE DEF ConfInv
<1>1. GivenInv'
  BY GivenKept DEF add_config
<1>2. ValuesInv'
  BY DEF add_config, ValuesInv, Options, ConfValue
<1>3. RoutingInv' /\ HitInv'
  BY NoRoutesKept DEF add_config
<1> QED BY <1>1, <1>2, <1>3

(* The values that are left when the file is not read: some of the options *)
(* parsed, the others as they were registered.                             *)
LEMMA ParseKeeps == ConfInv /\ parse_cmdline => ConfInv'
<1> SUFFICES ASSUME ConfInv, parse_cmdline PROVE ConfInv'
  OBVIOUS
<1> USE DEF ConfInv
<1>1. GivenInv'
  BY GivenKept DEF parse_cmdline
<1>2. RoutingInv' /\ HitInv'
  BY NoRoutesKept DEF parse_cmdline
<1>3. ValuesInv'
  <2>1. PICK bad \in BOOLEAN, done \in SUBSET Options :
          /\ bad \/ done = Options
          /\ values' = [o \in Options |-> IF o \in done /\ given[o] # "none"
                                            THEN Value(given[o], asked[o].set) ELSE values[o]]
          /\ phase' = IF bad \/ file = NoFile THEN "server" ELSE "reading"
    BY DEF parse_cmdline
  <2>2. /\ phase = "options" /\ valmap = <<>> /\ UNCHANGED <<given, file, asked, valmap>>
        /\ values = [o \in Options |-> ConfValue(o)]
    BY DEF parse_cmdline, ValuesInv
  <2>3. Options' = Options
    BY <2>2 DEF Options
  <2>4. CASE bad \/ file = NoFile
    <3>1. phase' = "server"
      BY <2>1, <2>4
    <3>2. FinalInv'
      <4>1. DOMAIN values' = Options'
        BY <2>1, <2>3
      <4>2. (file # NoFile /\ DOMAIN valmap = Options => \A o \in Options : values[o].src = Promised(o))'
        <5>1. DOMAIN valmap' = {}
          BY <2>2
        <5> QED BY <5>1, <2>3
      <4>3. ASSUME "DATASIZE" \in Options, given["DATASIZE"] = "none"
            PROVE  values'["DATASIZE"].v = asked["DATASIZE"].def
        BY <2>1, <2>2, <4>3 DEF ConfValue, Value
      <4>4. ASSUME "LUAROUTES" \in Options PROVE RouteStrings(values'["LUAROUTES"].v)
        <5>1. values'["LUAROUTES"].v \in {asked["LUAROUTES"].set, asked["LUAROUTES"].def}
          BY <2>1, <2>2, <4>4 DEF ConfValue, Value
        <5>2. RouteStrings(asked["LUAROUTES"].def) /\ RouteStrings(asked["LUAROUTES"].set)
          BY <4>4 DEF GivenInv
        <5> QED BY <5>1, <5>2
      <4> QED BY <2>2, <2>3, <4>1, <4>2, <4>3, <4>4 DEF FinalInv
    <3> QED BY <3>1, <3>2 DEF ValuesInv
  <2>5. CASE ~(bad \/ file = NoFile)
    <3>1. phase' = "reading" /\ done = Options /\ file' # NoFile' /\ valmap' = <<>>
      BY <2>1, <2>2, <2>5 DEF NoFile
    <3>2. ReadingInv'
      <4>1. values' = [o \in Options |-> Parsed(o)]
        BY <2>1, <2>2, <3>1 DEF Parsed, ConfValue
      <4>2. values' = [o \in Options |-> Parsed(o)]'
        BY <2>2, <2>3, <4>1 DEF Parsed
      <4> QED BY <3>1, <4>2 DEF ReadingInv
    <3> QED BY <3>1, <3>2 DEF ValuesInv
  <2> QED BY <2>4, <2>5
<1> QED BY <1>1, <1>2, <1>3

LEMMA ReadFileKeeps == ConfInv /\ (\E o \in Options : ReadFile(o)) => ConfInv'
<1> SUFFICES ASSUME ConfInv, NEW o \in Options, ReadFile(o) PROVE ConfInv'
  OBVIOUS
<1> USE DEF ConfInv
<1>1. GivenInv'
  BY GivenKept DEF ReadFile
<1>2. phase = "reading" /\ phase' \in {"aborted", "reading", "applying"}
  BY DEF ReadFile
<1>3. RoutingInv' /\ HitInv'
  BY <1>2, NoRoutesKept DEF ReadFile
<1>4. ValuesInv'
  <2>1. ReadingInv /\ UNCHANGED <<given, file, asked, values>> /\ Options' = Options
    BY <1>2 DEF ValuesInv, ReadFile, Options
  <2>2. CASE ~ReadOption(o).ok
    BY <2>2 DEF ReadFile, ValuesInv
  <2>3. CASE ReadOption(o).ok
    <3>1. /\ valmap' = [x \in DOMAIN valmap \cup {o} |-> IF x = o THEN ReadOption(o) ELSE valmap[x]]
          /\ phase' = IF DOMAIN valmap' = Options THEN "applying" ELSE "reading"
      BY <2>3 DEF ReadFile
    <3>2. \A x : ReadOption(x)' = ReadOption(x)
      BY <2>1 DEF ReadOption, configInteger, configFloat, configString, configStringList,
                  configDataSize, configLoglevel, configRoute
    <3>3. \A x : Parsed(x)' = Parsed(x)
      BY <2>1 DEF Parsed
    <3>4. ReadingInv'
      <4>1. DOMAIN valmap' \subseteq Options
        BY <2>1, <3>1 DEF ReadingInv
      <4>2. ASSUME NEW x \in DOMAIN valmap' PROVE valmap'[x] = ReadOption(x) /\ valmap'[x].ok
        BY <2>1, <2>3, <3>1 DEF ReadingInv
      <4>3. values' = [x \in Options' |-> Parsed(x)']
        BY <2>1, <3>3 DEF ReadingInv
      <4> QED BY <2>1, <3>2, <4>1, <4>2, <4>3 DEF ReadingInv
    <3> QED BY <2>1, <3>1, <3>4 DEF ValuesInv
  <2> QED BY <2>2, <2>3
<1> QED BY <1>1, <1>3, <1>4

(* What an option without a value from the command line or the environment *)
(* takes from the file.                                                    *)
LEMMA ReadRight ==
  ASSUME GivenInv, ReadingInv, NEW o \in Options, given[o] = "none", ReadOption(o).ok
  PROVE  /\ ReadOption(o).val.src = Promised(o)
         /\ o = "DATASIZE" /\ file[o] # "good" /\ asked[o].def < 100 => ReadOption(o).val.v = asked[o].def
<1>1. values[o] = Value("default", asked[o].def) /\ file[o] \in FileEntries
  BY DEF ReadingInv, Parsed, GivenInv
<1>2. file[o] = "nil" \/ file[o] = "good"
  BY <1>1 DEF FileEntries, ReadOption, configInteger, configFloat, configString, configStringList,
              configDataSize, configLoglevel, configRoute, GivenInv, Types
<1>3. CASE o \in {"BOOL", "INTEGER"}
  BY <1>1, <1>2, <1>3 DEF ReadOption, configInteger, Promised, Value
<1>4. CASE o = "FLOAT"
  BY <1>1, <1>2, <1>4 DEF ReadOption, configFloat, Promised, Value
<1>5. CASE o = "STRING"
  BY <1>1, <1>2, <1>5 DEF ReadOption, configString, Promised, Value
<1>6. CASE o = "STRINGVEC"
  BY <1>1, <1>2, <1>6 DEF ReadOption, configStringList, Promised, Value
<1>7. CASE o = "LOGLEVEL"
  BY <1>1, <1>2, <1>7 DEF ReadOption, configLoglevel, Promised, Value
<1>8. CASE o = "LUAROUTES"
  BY <1>1, <1>2, <1>8 DEF ReadOption, configRoute, Promised, Value
<1>9. CASE o = "DATASIZE"
  <2>1. ReadOption(o) = configDataSize(o)
    BY <1>9 DEF ReadOption
  <2>2. CASE file[o] = "nil"
    <3>1. ReadOption(o).val = Value("default", VolumeOf(VolumeText(asked[o].def)))
      BY <1>1, <2>1, <2>2 DEF configDataSize, Value
    <3>2. asked[o].def \in Nat
      BY <1>9 DEF GivenInv
    <3>3. asked[o].def < 100 => VolumeOf(VolumeText(asked[o].def)) = asked[o].def
      BY <3>2, SmallSizeKept
    <3> QED BY <2>2, <3>1, <3>3 DEF Promised, Value
  <2>3. CASE file[o] = "good"
    BY <2>1, <2>3 DEF configDataSize, Promised, Value
  <2> QED BY <1>2, <2>2, <2>3
<1> QED BY <1>3, <1>4, <1>5, <1>6, <1>7, <1>8, <1>9 DEF GivenInv, Types

(* The routes of the file, and the default ones, are route strings.        *)
LEMMA ReadRoutesRight ==
  ASSUME GivenInv, ReadingInv, "LUAROUTES" \in Options, given["LUAROUTES"] = "none"
  PROVE  RouteStrings(ReadOption("LUAROUTES").val.v)
<1> DEFINE o == "LUAROUTES"
<1>1. values[o] = Value("default", asked[o].def)
  BY DEF ReadingInv, Parsed
<1>2. ReadOption(o) = configRoute(o)
  BY DEF ReadOption
<1>3. RouteStrings(asked[o].def) /\ RouteStrings(asked[o].set)
  BY DEF GivenInv
<1>4. CASE file[o] = "nil"
  <2>1. ReadOption(o).val.v = [i \in DOMAIN asked[o].def |-> to_string(RouteInfo(asked[o].def[i]))]
    BY <1>1, <1>2, <1>4 DEF configRoute, Value
  <2> QED BY <1>3, <2>1, RoutesKept
<1>5. CASE file[o] # "nil"
  <2>1. ReadOption(o).val.v = [i \in DOMAIN asked[o].set |-> to_string(RouteInfo(asked[o].set[i]))]
    <3>1. DOMAIN get_luaroutes(asked[o].set) = DOMAIN asked[o].set
      BY DEF get_luaroutes
    <3>2. \A i \in DOMAIN asked[o].set : get_luaroutes(asked[o].set)[i] = RouteInfo(asked[o].set[i])
      BY DEF get_luaroutes
    <3>3. ReadOption(o).val.v = [i \in DOMAIN get_luaroutes(asked[o].set) |->
                                   to_string(get_luaroutes(asked[o].set)[i])]
      BY <1>2, <1>5 DEF configRoute, Value
    <3> QED BY <3>1, <3>2, <3>3
  <2> QED BY <1>3, <2>1, RoutesKept
<1> QED BY <1>4, <1>5

LEMMA SetValuesKeeps == ConfInv /\ set_values => ConfInv'
<1> SUFFICES ASSUME ConfInv, set_values PROVE ConfInv'
  OBVIOUS
<1> USE DEF ConfInv
<1>1. GivenInv'
  BY GivenKept DEF set_values
<1>2. phase = "applying" /\ phase' \in {"aborted", "server"}
  BY DEF set_values
<1>3. RoutingInv' /\ HitInv'
  BY <1>2, NoRoutesKept DEF set_values
<1>4. ValuesInv'
  <2>1. /\ ReadingInv /\ DOMAIN valmap = Options
        /\ UNCHANGED <<given, file, asked, valmap>> /\ Options' = Options
    BY <1>2 DEF ValuesInv, set_values, Options
  <2>2. CASE phase' = "aborted"
    BY <2>2 DEF ValuesInv
  <2>3. CASE phase' = "server"
    <3>1. values' = [o \in Options |-> Applied(o)]
      BY <2>3 DEF set_values
    <3>2. ASSUME NEW o \in Options
          PROVE  values'[o] = IF given[o] = "none" THEN ReadOption(o).val ELSE Value(given[o], asked[o].set)
      BY <2>1, <3>1 DEF Applied, ReadingInv, Parsed
    <3>3. ASSUME NEW o \in Options PROVE ReadOption(o).ok
      BY <2>1 DEF ReadingInv
    <3>4. ASSUME NEW o \in Options PROVE values'[o].src = Promised(o)
      <4>1. CASE given[o] = "none"
        <5>1. GivenInv /\ ReadingInv /\ ReadOption(o).ok
          BY <2>1, <3>3
        <5>2. ReadOption(o).val.src = Promised(o)
          BY <4>1, <5>1, ReadRight
        <5> QED BY <3>2, <4>1, <5>2
      <4>2. CASE given[o] # "none"
        <5>1. values'[o] = Value(given[o], asked[o].set)
          BY <3>2, <4>2
        <5> QED BY <4>2, <5>1 DEF Value, Promised
      <4> QED BY <4>1, <4>2
    <3>5. ASSUME "DATASIZE" \in Options, given["DATASIZE"] = "none", values'["DATASIZE"].src = "default",
                 asked["DATASIZE"].def < 100
          PROVE  values'["DATASIZE"].v = asked["DATASIZE"].def
      <4>1. file["DATASIZE"] # "good"
        BY <3>4, <3>5 DEF Promised
      <4>2. ReadOption("DATASIZE").val.v = asked["DATASIZE"].def
        BY <2>1, <3>3, <3>5, <4>1, ReadRight
      <4> QED BY <3>2, <3>5, <4>2
    <3>6. ASSUME "LUAROUTES" \in Options PROVE RouteStrings(values'["LUAROUTES"].v)
      <4>1. CASE given["LUAROUTES"] = "none"
        <5>1. GivenInv /\ ReadingInv
          BY <2>1
        <5>2. RouteStrings(ReadOption("LUAROUTES").val.v)
          BY <3>6, <4>1, <5>1, ReadRoutesRight
        <5>3. values'["LUAROUTES"] = ReadOption("LUAROUTES").val
          BY <3>2, <3>6, <4>1
        <5> QED BY <5>2, <5>3
      <4>2. CASE given["LUAROUTES"] # "none"
        <5>1. values'["LUAROUTES"] = Value(given["LUAROUTES"], asked["LUAROUTES"].set)
          BY <3>2, <3>6, <4>2
        <5>2. values'["LUAROUTES"].v = asked["LUAROUTES"].set
          BY <5>1 DEF Value
        <5> QED BY <3>6, <5>2 DEF GivenInv
      <4> QED BY <4>1, <4>2
    <3>7. \A o \in Options : Promised(o)' = Promised(o)
      BY <2>1 DEF Promised
    <3>8. DOMAIN values' = Options
      BY <3>1
    <3>9. FinalInv'
      BY <2>1, <3>4, <3>5, <3>6, <3>7, <3>8 DEF FinalInv
    <3> QED BY <2>3, <3>9 DEF ValuesInv
  <2> QED BY <1>2, <2>2, <2>3
<1> QED BY <1>1, <1>3, <1>4

(***************************************************************************)
(* Routes and requests.                                                    *)
(***************************************************************************)

LEMMA RoutesRight ==
  ASSUME FinalInv, NEW h \in Handlers
  PROVE  RoutesIn(RoutesOf(h))
<1>1. CASE h = HasRoutes /\ "LUAROUTES" \in DOMAIN values
  <2>1. RouteStrings(values["LUAROUTES"].v)
    BY <1>1 DEF FinalInv
  <2>2. RoutesOf(h) = get_luaroutes(values["LUAROUTES"].v)
    BY <1>1 DEF RoutesOf, value_or
  <2> QED BY <2>1, <2>2, RoutesOfStrings
<1>2. CASE h = HasRoutes /\ "LUAROUTES" \notin DOMAIN values
  <2>1. RoutesOf(h) = get_luaroutes(<<>>)
    BY <1>2 DEF RoutesOf, value_or
  <2>2. RouteStrings(<<>>)
    BY DEF RouteStrings
  <2> QED BY <2>1, <2>2, RoutesOfStrings
<1>3. CASE h # HasRoutes
  <2>1. RoutesOf(h) = get_luaroutes(FixedRoutes[h]) /\ RouteStrings(FixedRoutes[h])
    BY <1>3, RoutesAssumption DEF RoutesOf
  <2> QED BY <2>1, RoutesOfStrings
<1> QED BY <1>1, <1>2, <1>3

LEMMA AddRouteKeeps == ConfInv /\ (\E h \in Handlers : addRoute(h)) => ConfInv'
<1> SUFFICES ASSUME ConfInv, NEW h \in Handlers, addRoute(h) PROVE ConfInv'
  OBVIOUS
<1> USE DEF ConfInv
<1> DEFINE rs == RoutesOf(h)
<1>1. GivenInv'
  BY GivenKept DEF addRoute
<1>2. /\ phase = "server" /\ routedata[h] = <<>>
      /\ UNCHANGED <<phase, given, file, asked, values, valmap, hit>>
  BY DEF addRoute
<1>3. FinalInv /\ FinalInv'
  <2>1. FinalInv
    BY <1>2 DEF ValuesInv
  <2> QED BY <1>2, <2>1 DEF FinalInv, Promised, Options, NoFile
<1>4. ValuesInv'
  BY <1>2, <1>3 DEF ValuesInv
<1>5. HitInv'
  BY <1>2 DEF HitInv, NoHit
<1>6. RoutesIn(rs)
  BY <1>3, RoutesRight
<1>7. \A g : RoutesOf(g)' = RoutesOf(g)
  BY <1>2, RoutesUnchanged
<1>8. /\ handler' = [m \in Methods |-> [x \in DOMAIN handler[m] \cup PathsFor(rs, m) |->
                                         IF x \in PathsFor(rs, m) THEN h ELSE handler[m][x]]]
      /\ routedata' = [routedata EXCEPT ![h] = DataOf(rs)]
  BY DEF addRoute
<1>9. EntriesInv /\ AddedInv /\ DOMAIN routedata = Handlers
  BY <1>2 DEF RoutingInv
<1> HIDE DEF rs
<1>10. \A g \in Handlers : routedata'[g] = IF g = h THEN DataOf(rs) ELSE routedata[g]
  BY <1>8, <1>9
<1>11. EntriesInv'
  <2> SUFFICES ASSUME NEW m \in Methods, NEW x \in DOMAIN handler'[m]
               PROVE  /\ handler'[m][x] \in Handlers
                      /\ HasRoute(handler'[m][x], m, x)
                      /\ routedata'[handler'[m][x]] = DataOf(RoutesOf(handler'[m][x]))
    BY <1>7 DEF EntriesInv, HasRoute
  <2>1. CASE x \in PathsFor(rs, m)
    <3>1. handler'[m][x] = h
      BY <1>8, <2>1
    <3>2. HasRoute(h, m, x)
      BY <2>1 DEF HasRoute, PathsFor, rs
    <3>3. routedata'[h] = DataOf(RoutesOf(h))
      BY <1>10 DEF rs
    <3> QED BY <3>1, <3>2, <3>3
  <2>2. CASE x \notin PathsFor(rs, m)
    <3>1. x \in DOMAIN handler[m] /\ handler'[m][x] = handler[m][x]
      BY <1>8, <2>2
    <3> DEFINE g == handler[m][x]
    <3>2. g \in Handlers /\ HasRoute(g, m, x) /\ routedata[g] = DataOf(RoutesOf(g))
      BY <1>9, <3>1 DEF EntriesInv
    <3> HIDE DEF g
    <3>3. routedata'[g] = DataOf(RoutesOf(g))
      BY <1>10, <3>2 DEF rs
    <3> QED BY <3>1, <3>2, <3>3 DEF g
  <2> QED BY <2>1, <2>2
<1>12. AddedInv'
  <2> SUFFICES ASSUME NEW g \in Handlers, routedata'[g] # <<>>, NEW i \in DOMAIN RoutesOf(g)
               PROVE  RoutesOf(g)[i].route \in DOMAIN handler'[RoutesOf(g)[i].method]
    BY <1>7 DEF AddedInv
  <2> DEFINE r == RoutesOf(g)[i]
  <2>1. r.method \in Methods
    BY <1>3, RoutesRight DEF RoutesIn
  <2>2. DOMAIN handler'[r.method] = DOMAIN handler[r.method] \cup PathsFor(rs, r.method)
    BY <1>8, <2>1
  <2>3. CASE g = h
    <3>1. r.route \in PathsFor(rs, r.method)
      BY <2>3 DEF PathsFor, rs
    <3> QED BY <2>2, <3>1
  <2>4. CASE g # h
    <3>1. routedata[g] # <<>>
      BY <1>10, <2>4
    <3>2. r.route \in DOMAIN handler[r.method]
      BY <1>9, <3>1 DEF AddedInv
    <3> QED BY <2>2, <3>2
  <2> QED BY <2>3, <2>4
<1>13. handler' = [m \in Methods |-> handler'[m]] /\ DOMAIN routedata' = Handlers
  BY <1>8, <1>9
<1>14. RoutingInv'
  BY <1>2, <1>11, <1>12, <1>13 DEF RoutingInv
<1> QED BY <1>1, <1>4, <1>5, <1>14

LEMMA RunKeeps == ConfInv /\ run => ConfInv'
<1> SUFFICES ASSUME ConfInv, run PROVE ConfInv'
  OBVIOUS
<1> USE DEF ConfInv
<1>1. GivenInv'
  BY GivenKept DEF run
<1>2. /\ phase = "server" /\ phase' = "running"
      /\ UNCHANGED <<given, file, asked, values, valmap, handler, routedata, hit>>
  BY DEF run
<1>3. ValuesInv'
  <2>1. FinalInv
    BY <1>2 DEF ValuesInv
  <2>2. FinalInv'
    BY <1>2, <2>1 DEF FinalInv, Promised, Options, NoFile
  <2> QED BY <1>2, <2>2 DEF ValuesInv
<1>4. HitInv'
  BY <1>2 DEF HitInv, NoHit
<1>5. \A g : RoutesOf(g)' = RoutesOf(g)
  BY <1>2, RoutesUnchanged
<1>6. EntriesInv' /\ AddedInv'
  <2>1. EntriesInv /\ AddedInv
    BY <1>2 DEF RoutingInv
  <2>2. EntriesInv'
    BY <1>2, <1>5, <2>1 DEF EntriesInv, HasRoute
  <2>3. AddedInv'
    BY <1>2, <1>5, <2>1 DEF AddedInv
  <2> QED BY <2>2, <2>3
<1>7. \A h \in Handlers : RoutesOf(h)' # <<>> => routedata'[h] # <<>>
  BY <1>2, <1>5 DEF run
<1>8. RoutingInv'
  BY <1>2, <1>6, <1>7 DEF RoutingInv
<1> QED BY <1>1, <1>3, <1>4, <1>8

(* Among the routes a path begins with there is a longest one, and         *)
(* BestMatch is one.                                                       *)
LEMMA BestMatchRight ==
  ASSUME NEW m \in Methods, NEW uri \in Seq(Chars),
         \A x \in DOMAIN handler[m] : x \in Seq(Chars),
         Matching(m, uri) # {}
  PROVE  /\ BestMatch(m, uri) \in Matching(m, uri)
         /\ \A q \in Matching(m, uri) : Len(q) <= Len(BestMatch(m, uri))
<1> DEFINE M == Matching(m, uri)
           f == [r \in M |-> Len(r)]
           Longest(r) == \A q \in M : Len(q) <= Len(r)
<1>1. f \in [M -> 0..Len(uri)]
  <2> SUFFICES ASSUME NEW r \in M PROVE Len(r) \in 0..Len(uri)
    OBVIOUS
  <2>1. r \in Seq(Chars) /\ Len(r) <= Len(uri)
    BY DEF Matching, IsPrefix
  <2>2. Len(r) \in Nat /\ Len(uri) \in Nat
    BY <2>1, LenProperties
  <2> QED BY <2>1, <2>2
<1>2. Len(uri) \in Nat
  BY LenProperties
<1>3. \E r \in M : Longest(r)
  <2>1. \E r \in M : \A q \in M : f[q] <= f[r]
    <3> HIDE DEF f, M
    <3> QED BY <1>1, <1>2, Greatest DEF M
  <2> HIDE DEF M
  <2> QED BY <2>1
<1>4. BestMatch(m, uri) = CHOOSE r \in M : Longest(r)
  BY DEF BestMatch
<1>5. BestMatch(m, uri) \in M /\ Longest(BestMatch(m, uri))
  <2> HIDE DEF M, Longest
  <2> QED BY <1>3, <1>4
<1> QED BY <1>5

LEMMA GetHandlerKeeps == ConfInv /\ (\E m \in Methods, u \in Uris : get_handler(m, u)) => ConfInv'
<1> SUFFICES ASSUME ConfInv, NEW m \in Methods, NEW u \in Uris, get_handler(m, u) PROVE ConfInv'
  OBVIOUS
<1> USE DEF ConfInv
<1>1. /\ phase = "running" /\ hit = NoHit
      /\ UNCHANGED <<phase, given, file, asked, values, valmap, handler, routedata>>
  BY DEF get_handler
<1>2. GivenInv'
  BY <1>1, GivenKept
<1>3. FinalInv /\ EntriesInv /\ AddedInv
      /\ \A h \in Handlers : RoutesOf(h) # <<>> => routedata[h] # <<>>
  BY <1>1 DEF ValuesInv, RoutingInv
<1>4. ValuesInv'
  <2>1. FinalInv'
    BY <1>1, <1>3 DEF FinalInv, Promised, Options, NoFile
  <2> QED BY <1>1, <2>1 DEF ValuesInv
<1>5. \A g : RoutesOf(g)' = RoutesOf(g)
  BY <1>1, RoutesUnchanged
<1>6. RoutingInv'
  <2>1. EntriesInv'
    BY <1>1, <1>3, <1>5 DEF EntriesInv, HasRoute
  <2>2. AddedInv'
    BY <1>1, <1>3, <1>5 DEF AddedInv
  <2> QED BY <1>1, <1>3, <1>5, <2>1, <2>2 DEF RoutingInv
<1>7. DispatchedToLongestRoute'
  <2>1. CASE Matching(m, u) \ {<<>>} = {}
    <3>1. hit'.handler = "default"
      BY <2>1 DEF get_handler
    <3> QED BY <3>1 DEF DispatchedToLongestRoute
  <2>2. CASE Matching(m, u) \ {<<>>} # {}
    <3> DEFINE best == BestMatch(m, u)
               h == handler[m][best]
    <3>1. hit' = [handler |-> h, path |-> best, method |-> m, uri |-> u]
      BY <2>2 DEF get_handler
    <3>2. u \in Seq(Chars)
      BY RoutesAssumption
    <3>3. \A x \in DOMAIN handler[m] : x \in Seq(Chars)
      <4> SUFFICES ASSUME NEW x \in DOMAIN handler[m] PROVE x \in Seq(Chars)
        OBVIOUS
      <4>1. handler[m][x] \in Handlers /\ HasRoute(handler[m][x], m, x)
        BY <1>3 DEF EntriesInv
      <4>2. RoutesIn(RoutesOf(handler[m][x]))
        BY <1>3, <4>1, RoutesRight
      <4> QED BY <4>1, <4>2 DEF HasRoute, RoutesIn
    <3>4. Matching(m, u) # {}
      BY <2>2
    <3>5. best \in Matching(m, u) /\ \A q \in Matching(m, u) : Len(q) <= Len(best)
      BY <3>2, <3>3, <3>4, BestMatchRight
    <3>6. best \in DOMAIN handler[m] /\ IsPrefix(best, u)
      BY <3>5 DEF Matching
    <3>7. best # <<>>
      <4>1. PICK q \in Matching(m, u) : q # <<>>
        BY <2>2
      <4>2. q \in Seq(Chars) /\ Len(q) <= Len(best)
        BY <3>3, <3>5, <4>1 DEF Matching
      <4>3. Len(q) # 0 /\ Len(q) \in Nat
        BY <4>1, <4>2, EmptySeq, LenProperties
      <4>4. best = <<>> => Len(best) = 0
        OBVIOUS
      <4> QED BY <4>2, <4>3, <4>4
    <3>8. h \in Handlers /\ HasRoute(h, m, best) /\ routedata[h] = DataOf(RoutesOf(h))
      BY <1>3, <3>6 DEF EntriesInv
    <3> HIDE DEF best, h
    <3>9. \E i \in DOMAIN RoutesOf(h) : RoutesOf(h)[i].method = m /\ RoutesOf(h)[i].route = best
      BY <3>8 DEF HasRoute
    <3>10. \E i \in DOMAIN RoutesOf(h) : RoutesOf(h)[i].route = best /\ routedata[h][best] = RoutesOf(h)[i].data
      <4>1. RoutesIn(RoutesOf(h))
        BY <1>3, <3>8, RoutesRight
      <4>2. PICK i \in DOMAIN RoutesOf(h) : RoutesOf(h)[i].route = best
        BY <3>9
      <4>3. \E j \in DOMAIN RoutesOf(h) : /\ RoutesOf(h)[j].route = RoutesOf(h)[i].route
                                          /\ DataOf(RoutesOf(h))[RoutesOf(h)[i].route] = RoutesOf(h)[j].data
        BY <4>1, DataOfRoute
      <4> QED BY <3>8, <4>2, <4>3
    <3>11. ASSUME NEW g \in Handlers, NEW i \in DOMAIN RoutesOf(g),
                  RoutesOf(g)[i].method = m, IsPrefix(RoutesOf(g)[i].route, u)
           PROVE  Len(RoutesOf(g)[i].route) <= Len(best)
      <4>1. RoutesOf(g) # <<>>
        BY <3>11
      <4>2. routedata[g] # <<>>
        BY <1>3, <4>1
      <4>3. RoutesOf(g)[i].route \in DOMAIN handler[m]
        BY <1>3, <3>11, <4>2 DEF AddedInv
      <4>4. RoutesOf(g)[i].route \in Matching(m, u)
        BY <3>11, <4>3 DEF Matching
      <4> QED BY <3>5, <4>4
    <3>12. hit'.handler = h /\ hit'.path = best /\ hit'.method = m /\ hit'.uri = u
      BY <3>1
    <3>13. routedata' = routedata
      BY <1>1
    <3> QED BY <1>5, <3>6, <3>7, <3>9, <3>10, <3>11, <3>12, <3>13 DEF DispatchedToLongestRoute
  <2> QED BY <2>1, <2>2
<1>8. HitInv'
  BY <1>1, <1>7 DEF HitInv
<1> QED BY <1>2, <1>4, <1>6, <1>8

LEMMA StutterKeeps == ConfInv /\ UNCHANGED vars => ConfInv'
<1> SUFFICES ASSUME ConfInv, UNCHANGED vars PROVE ConfInv'
  OBVIOUS
<1> USE DEF ConfInv, vars
<1>1. \A g : RoutesOf(g)' = RoutesOf(g)
  BY RoutesUnchanged
<1>2. GivenInv'
  BY GivenKept
<1>3. Options' = Options /\ \A x : Parsed(x)' = Parsed(x) /\ Promised(x)' = Promised(x)
                                    /\ ConfValue(x)' = ConfValue(x)
  BY DEF Options, Parsed, Promised, ConfValue
<1>4. \A x : ReadOption(x)' = ReadOption(x)
  BY DEF ReadOption, configInteger, configFloat, configString, configStringList,
         configDataSize, configLoglevel, configRoute
<1>5. ReadingInv => ReadingInv'
  BY <1>3, <1>4 DEF ReadingInv
<1>6. FinalInv => FinalInv'
  BY <1>3 DEF FinalInv
<1>7. ValuesInv'
  BY <1>3, <1>5, <1>6 DEF ValuesInv
<1>8. (EntriesInv => EntriesInv') /\ (AddedInv => AddedInv')
  BY <1>1 DEF EntriesInv, AddedInv, HasRoute
<1>9. RoutingInv'
  BY <1>1, <1>8 DEF RoutingInv
<1>10. HitInv'
  BY <1>1 DEF HitInv, DispatchedToLongestRoute
<1> QED BY <1>2, <1>7, <1>9, <1>10

LEMMA ConfNext == ConfInv /\ [Next]_vars => ConfInv'
BY AddConfigKeeps, ParseKeeps, ReadFileKeeps, SetValuesKeeps, AddRouteKeeps, RunKeeps, GetHandlerKeeps,
   StutterKeeps DEF Next

(* In every state, what the places say, the values, the routes and the     *)
(* last answer fit together.                                               *)
THEOREM ConfigInvariance == Spec => []ConfInv
BY ConfInitially, ConfNext, PTL DEF Spec

(* The command line and the environment win over the file, the file over   *)
(* the defaults (main, CserverConf::parse_cmdline_args), and sizes of two  *)
(* digits survive their way through the text.                              *)
THEOREM OptionsCorrect == Spec => []OptionsAsPromised
<1>1. ConfInv => OptionsAsPromised
  <2> SUFFICES ASSUME ConfInv, phase = "running" PROVE OptionsAsPromised
    BY DEF OptionsAsPromised, Priority, SizesSurvive
  <2>1. FinalInv
    BY DEF ConfInv, ValuesInv
  <2>2. Priority
    BY <2>1 DEF FinalInv, Priority, Promised
  <2>3. SizesSurvive
    BY <2>1 DEF FinalInv, SizesSurvive
  <2> QED BY <2>2, <2>3 DEF OptionsAsPromised
<1> QED BY <1>1, ConfigInvariance, PTL

(* A request goes to the handler of the longest route that its path begins *)
(* with, and the data found for it are that handler's (get_handler).       *)
THEOREM RoutingCorrect == Spec => []DispatchedToLongestRoute
<1>1. ConfInv => DispatchedToLongestRoute
  BY DEF ConfInv, HitInv, NoHit, DispatchedToLongestRoute
<1> QED BY <1>1, ConfigInvariance, PTL

=============================================================================
