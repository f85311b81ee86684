---------------------------- MODULE MCAlgorithms ----------------------------
(***************************************************************************)
(* The functions of the library, one call in each behaviour: a step that   *)
(* begins it with an input and a step that returns, at which what the      *)
(* function promises of that input is checked.  Beside them the state      *)
(* machines whose calls are cut into steps and interleave: Synchronized,   *)
(* the singletons, the event loop's dispatch, which has application        *)
(* threads beside it, and the manager of the threads' loops.               *)
(***************************************************************************)
EXTENDS Integers, Sequences

CONSTANTS Limit, IntBits

VARIABLES part,    \* which function is called
          in,      \* with what
          stage,   \* idle, called or returned
          grants, datum, whole, owner, legal, syncCalls,  \* Synchronized
          event, pending, taken, fdEvents, interest,      \* EventDispatch
            deadline, listenFds, stop, loop, ready, reported, now, clock,
          holder, ask, made, registered, late,            \* Singleton
          globalManager, user, loops, alive               \* EventLoopManager

G == INSTANCE Gen
S == INSTANCE Strings
C == INSTANCE Conv
U == INSTANCE Encodings
D == INSTANCE DoubleText
J == INSTANCE Json
K == INSTANCE Storage WITH SizeBits <- 5
Y == INSTANCE Synchronized WITH
       Owners <- 1 .. 2, MaxSyncCalls <- 2, MaxDatum <- 3
E == INSTANCE EventDispatch WITH
       Events <- 1 .. 3, Fds <- 1 .. 2, Limit <- 1, LongPoll <- 1,
       MaxTime <- 2
I == INSTANCE Singleton WITH
       Askers <- 1 .. 2, MaxAsks <- 2, MaxRegistered <- 2,
       Users <- 1 .. 3, MaxCalls <- 2

-----------------------------------------------------------------------------
(* gen: a source, two operators and a sink.                                *)
V(n) == G!V(n)
Three == <<V(1), V(2), V(3)>>
GenSources == <<
  [op |-> "from", vals |-> <<V(3), V(1), V(3), V(2)>>],
  [op |-> "from", vals |-> <<G!Whole(Three), V(0), G!Whole(<<V(4)>>)>>],
  [op |-> "yield", vals |-> Three],
  [op |-> "single", vals |-> <<>>],
  [op |-> "single", vals |-> <<V(3)>>],
  [op |-> "seq", impl |-> "seq", start |-> 1, end |-> 5, step |-> 2],
  [op |-> "seq", impl |-> "range", start |-> 1, end |-> 5, step |-> 2],
  [op |-> "seq", impl |-> "infinite", start |-> 0, end |-> 0, step |-> 1]>>
GenOps == <<
  [op |-> "map"], [op |-> "filter"], [op |-> "until", at |-> 3],
  [op |-> "take", count |-> 0], [op |-> "take", count |-> 2],
  [op |-> "stride", stride |-> 2], [op |-> "skip", count |-> 0],
  [op |-> "sample", count |-> 2, draws |-> [n \in 1 .. 40 |-> n \div 2]],
  [op |-> "skip", count |-> 1], [op |-> "order"], [op |-> "groupBy"],
  [op |-> "distinct"], [op |-> "batch", size |-> 2], [op |-> "concat"],
  [op |-> "rconcat"], [op |-> "dereference"], [op |-> "indirect"],
  [op |-> "cycle", limit |-> 2], [op |-> "cycle", limit |-> -1],
  [op |-> "interleave", with |-> <<V(7), V(8)>>],
  [op |-> "zip", with |-> <<V(7), V(8)>>],
  [op |-> "zip", with |-> [i \in 1 .. 9 |-> V(i)]],
  [op |-> "virtual"], [op |-> "chain", second |-> GenSources[3]]>>
GenSinks == <<
  [op |-> "user", k |-> 0, bad |-> 99], [op |-> "user", k |-> 1, bad |-> 99],
  [op |-> "user", k |-> 3, bad |-> 99], [op |-> "user", k |-> 0, bad |-> 2],
  [op |-> "collect", bad |-> 99], [op |-> "append", bad |-> 99],
  [op |-> "sum", bad |-> 99], [op |-> "count", bad |-> 99],
  [op |-> "first", bad |-> 99], [op |-> "isEmpty", bad |-> 99],
  [op |-> "contains", needle |-> 2, bad |-> 99],
  [op |-> "reduce", bad |-> 99], [op |-> "min", bad |-> 99]>>

Pipeline(i) == G!Composed(GenSources[i[1]], GenOps[i[2]], GenOps[i[3]])
Sink(i) == GenSinks[i[4]]

GenInputs == {i \in (DOMAIN GenSources) \X (DOMAIN GenOps) \X (DOMAIN GenOps)
                     \X (DOMAIN GenSinks) : G!Allowed(Pipeline(i), Sink(i))}

SampleInputs == [vs : {[i \in 1 .. n |-> V(i)] : n \in 1 .. 5}, count : 1 .. 3]

-----------------------------------------------------------------------------
(* Strings: all short ones over few characters.                            *)
Texts(chars, n) == UNION {[1 .. k -> chars] : k \in 0 .. n}

SearchInputs ==
  [s : Texts({0, 1}, 6), needle : Texts({0, 1}, 3),
   sparse : [{0, 1} -> {0, 1}], dense : [{0, 1} -> {0, 1}]]
SplitInputs == [s : Texts({1, 2, 3}, 5), d : Texts({1, 2}, 2)]
CharInputs ==
  [s : Texts({32, 37, 43, 47, 65, 91, 255}, 3), address : {0}] \cup
  [s : {<<a, b>> : a, b \in {0, 64, 65, 90, 91, 97, 127, 128, 193, 218, 219}},
   address : {0}] \cup
  [s : [1 .. 5 -> {32, 9, 90}], address : {0}] \cup
  [s : {[i \in 1 .. n |-> 64 + i] : n \in 0 .. 22}, address : 0 .. 7]
StreamInputs ==
  [chunks : {<<a, b, c>> : a, b \in Texts({0, 1}, 3), c \in Texts({0, 1}, 1)},
   max : 0 .. 3, k : 0 .. 2]
LineInputs ==
  [s : Texts({1, 10, 13}, 4), d : {<<1>>, <<1, 1>>, <<10>>, <<13, 1>>}]
FileInputs ==
  [chunks : {<<a, b, c>> : a \in Texts({0}, 2), b, c \in Texts({1}, 3)},
   reads : {[i \in 1 .. 20 |-> IF i % m = 0 THEN -1 ELSE n] :
              m \in 2 .. 3, n \in 1 .. 3},
   capacity : 0 .. 4, takes : 1 .. 2]

(* Cursors: every place in chains of up to three buffers, empty ones too.  *)
Cuts == UNION {[1 .. k -> 0 .. 2] : k \in 1 .. 3}
CursorInputs ==
  [cut : Cuts, crt : 1 .. 3, off : 0 .. 2, shared : 0 .. 7, maybe : BOOLEAN,
   n : 0 .. 5]
TerminatedInputs ==
  [cut : Cuts, crt : 1 .. 3, off : 0 .. 2, shared : {0}, maybe : {TRUE},
   marked : SUBSET (1 .. 6), max : 0 .. 4]
AppendInputs ==
  [cut : Cuts, crt : 1 .. 3, off : 0 .. 2, shared : {0}, maybe : {TRUE},
   room : 0 .. 3, growth : 0 .. 3, n : 0 .. 6]
(* Arena and SArray.                                                       *)
ArenaInputs ==
  [min : {4, 5, 8}, align : {1, 2, 4},
   sizes : [1 .. 4 -> {0, 1, 3, 4, 6, 9, 28}]]
SArrayCalls ==
  {<<"resize", n>> : n \in 0 .. 4} \cup {<<"reserve", 5>>, <<"push", 8>>} \cup
  {<<c, 0>> : c \in {"pop", "clear", "append", "copy", "other"}}
SArrayInputs ==
  [n : 0 .. 3, k : 0 .. 2, how : {"own", "copy", "slice", "start"},
   calls : [1 .. 3 -> SArrayCalls]]
(* Compression: chains, cuts of what they are compressed to, sizes of the  *)
(* buffers that take it.                                                   *)
CodecInputs == [cut : Cuts, n : 0 .. 4, max : 2 .. 9, default : 1 .. 2]
ZlibInputs ==
  [cut : Cuts, second : {c \in Cuts : Len(c) < 3}, n : 0 .. 3,
   chunk : 1 .. 3, minsize : 1 .. 2, growth : 1 .. 3]
Places(inputs) ==
  {i \in inputs : i.crt \in DOMAIN i.cut /\ i.off =< i.cut[i.crt]}
Before(cut, i) ==
  IF i = 1 THEN 0 ELSE IF i = 2 THEN cut[1] ELSE cut[1] + cut[2]
Upto(n) == [i \in 1 .. n |-> i]
Chain(cut) ==
  [k \in DOMAIN cut |-> [j \in 1 .. cut[k] |-> Before(cut, k) + j]]
CursorAt(i, text) ==
  [chain |-> [k \in DOMAIN i.cut |->
                K!Buffer([j \in 1 .. i.cut[k] |-> text[Before(i.cut, k) + j]],
                         0, (i.shared \div 2^(k - 1)) % 2 = 1)],
   crt |-> i.crt, off |-> i.off, maybe |-> i.maybe, leak |-> FALSE]
Two == <<K!Buffer(<<8>>, 0, TRUE), K!Buffer(<<>>, 0, FALSE)>>

-----------------------------------------------------------------------------
(* Conversions: small types, around an int of IntBits bits, and 8, 16 and  *)
(* 20 bits for texts.                                                      *)
Type(bits) == [signed : BOOLEAN, bits : bits]
CastInputs == [src : Type({2, IntBits, 5, 7}), tgt : Type({2, IntBits, 5, 7})]
NumberInputs ==
  [t : Type({8}), s : Texts({32, 43, 45, 48, 50, 53, 54, 97}, 4)] \cup
  [t : Type({16}),
   s : {a \o C!ToAppend(n) \o b :
          a \in {<<>>, <<43>>, <<45>>, <<32, 45>>, <<45, 48, 48, 48, 48>>},
          b \in {<<>>, <<32>>, <<32, 97>>, <<48>>},
          n \in {0, 7, 99, 9999, 10000, 32767, 32768, 32769, 65535, 65536,
                 99999, 100000}}]
DigitInputs ==
  LET near(n) == {n - 1, n, n + 1, 0 - n, 1 - n}
  IN  UNION {near(2^i) : i \in 1 .. 29} \cup UNION {near(10^i) : i \in 0 .. 8}
BoolInputs ==
  Texts({32, 48, 49, 50, 121}, 4) \cup
  {a \o w \o b : a \in {<<>>, <<32>>}, b \in {<<>>, <<32>>, <<101>>},
                 w \in {C!Yes, C!No, C!True, C!False, C!On, C!Off,
                        <<89, 69, 83>>, <<111>>, <<116, 114>>, <<79, 70>>}}

-----------------------------------------------------------------------------
(* Encodings: the edges of every range of code points and bytes, all words *)
(* of a byte, short paths and URIs.                                        *)
CodePointInputs ==
  [cp : UNION {{e - 1, e, e + 1} : e \in {1, 128, 2048, 55296, 57344, 65533}}
        \cup {65535}, rest : Texts({65, 128, 192}, 2)]
ByteInputs ==
  [s : Texts({0, 127, 128, 159, 160, 191, 192, 193, 194, 223, 224, 225, 237,
              239, 240, 244, 248, 255}, 3)]
Base64Inputs ==
  [s : Texts({0, 1, 62, 191, 255}, 4), mode : {U!COMMON, U!URI},
   junk : {10, 128, 255}]
Base64Texts == [t : Texts({43, 45, 47, 65, 61, 122, 33, 200}, 5)]
WordInputs ==
  [x : 0 .. 255, w : {8}] \cup
  [x : UNION {{2^i - 1, 2^i} : i \in 0 .. 15} \cup {40000, 65535}, w : {16}]
PathInputs == [s : Texts({46, 47, 97}, 5), t : Texts({46, 47, 97}, 3)]
UriInputs ==
  [s : {<<65, 58, 47, 47>> \o t : t \in Texts({58, 64, 91, 93, 97, 49}, 5)} \cup
       {<<97, 58, 47, 47>> \o t : t \in Texts({47, 58, 63, 35, 97}, 4)} \cup
       {<<97, 58>> \o t : t \in Texts({47, 58, 63, 35, 64}, 4)} \cup
       {<<97, 58, 63>> \o t : t \in Texts({38, 61, 97, 98}, 5)} \cup
       {<<97, 58, 47, 47, 97, 58>> \o C!ToAppend(n) :
          n \in {0, 80, 65535, 65536, 99999, 100000}} \cup
       Texts({58, 49, 97, 47}, 3)]

-----------------------------------------------------------------------------
(* Dynamic values: numbers, strings, and arrays and objects of them.       *)
Numbers == {J!Integer(n) : n \in {-128, -99, -17, -1, 0, 1, 17, 32, 99, 127}}
           \cup {J!Double(d) : d \in {0, 1, 60, 80, 84, 96, 97, 113, 118, 119,
                                      128, 208, 239}}
Scalars == Numbers \cup {J!Null, J!Bool(TRUE), J!Bool(FALSE), J!Str(<<>>),
                         J!Str(<<49>>), J!Str(<<34, 47, 47>>)}
ArrayOf(vs, n) == {J!Array(a) : a \in Texts(vs, n)}
Few == {J!Null, J!Integer(1), J!Double(80), J!Bool(TRUE), J!Str(<<49>>)}
Comparable == Few \cup {J!Integer(16), J!Integer(17), J!Double(96)} \cup
              ArrayOf({J!Integer(1), J!Str(<<>>)}, 2) \cup
              ArrayOf({J!Object(<<>>)}, 1) \cup {J!Object(<<>>)}
Item(k, v) == [k |-> k, v |-> v]
Keys == {J!Str(<<97>>), J!Str(<<>>), J!Integer(0), J!Double(0), J!Double(56),
         J!Integer(1), J!Bool(TRUE)}
FewKeys == Keys \ {J!Str(<<>>), J!Bool(TRUE)}
Objects(keys, vs) ==
  {J!Object(<<>>)} \cup {J!Object(<<Item(k, v)>>) : k \in keys, v \in vs} \cup
  {J!Object(<<Item(p[1], v), Item(p[2], w)>>) :
     p \in {p \in keys \X keys : ~J!SameKey(p[1], p[2])}, v, w \in vs}
AssignInputs ==
  UNION {[types : [1 .. n -> {"null", "int", "string", "array"}],
          throws : [1 .. n -> BOOLEAN]] : n \in 0 .. 3}

(* JSON: the options one by one; documents of a few values; short texts.   *)
Plain == J!Options
OptionSets ==
  {Plain, [Plain EXCEPT !.pretty_formatting = TRUE],
   [Plain EXCEPT !.encode_non_ascii = TRUE],
   [Plain EXCEPT !.validate_utf8 = TRUE],
   [Plain EXCEPT !.skip_invalid_utf8 = TRUE],
   [Plain EXCEPT !.encode_non_ascii = TRUE, !.skip_invalid_utf8 = TRUE],
   [Plain EXCEPT !.sort_keys = TRUE, !.javascript_safe = TRUE,
                 !.allow_trailing_comma = TRUE],
   [Plain EXCEPT !.double_fallback = TRUE, !.allow_non_string_keys = TRUE,
                 !.allow_nan_inf = TRUE]}
Infinite == {J!Double(120), J!Double(248)}
Words == {J!Str(<<97>>), J!Str(<<34, 98>>), J!Str(<<>>)}
Documents == Scalars \cup Infinite \cup ArrayOf(Few \cup {J!Array(<<>>)}, 2)
             \cup Objects(Words, {J!Null, J!Array(<<J!Null>>)})
             \cup Objects({J!Integer(-99), J!Bool(TRUE)}, {J!Integer(1)})
             \cup {J!Array(<<d>>) : d \in Objects(Words, {J!Integer(-99)})}
Comments == {<<>>, <<47, 47, 34>>, <<47, 42, 34, 42, 47>>,
             <<47, 47, 10, 47, 42, 47, 42, 47>>}
JsonStringInputs ==
  [s : Texts({0, 10, 34, 47, 92, 65, 127, 128, 194, 239, 191, 189}, 3),
   o : OptionSets]
JsonTextInputs ==
  [s : Texts({32, 34, 44, 49, 58, 91, 93}, 5) \cup
       {<<91>> \o t : t \in Texts({91, 93, 44, 49}, 5)} \cup
       {<<123, 34, 34>> \o t : t \in Texts({58, 49, 44, 34, 125, 123}, 5)},
   o : {[Plain EXCEPT !.recursion_limit = 1],
        [Plain EXCEPT !.recursion_limit = 1, !.allow_trailing_comma = TRUE]}]
JsonNumberInputs ==
  [s : Texts({45, 49, 48, 46, 101, 43}, 5) \cup
       {J!ToAppend(n) : n \in -140 .. 140},
   o : {Plain, [Plain EXCEPT !.double_fallback = TRUE],
        [Plain EXCEPT !.parse_numbers_as_strings = TRUE]}]
SurrogateInputs ==
  LET edges == {0, 127, 128, 2047, 2048, 55295, 55296, 55297, 56319, 56320,
                57343, 57344, 65535}
  IN  [first : edges, second : edges]
ResolveInputs ==
  [j : {J!Object(<<Item(J!Str(<<97>>), d)>>) :
          d \in Objects({J!Str(<<97>>), J!Str(<<>>)}, {J!Integer(1), J!Null})},
   p : Texts({97, 46}, 3), q : Texts({97, 46}, 2)]

-----------------------------------------------------------------------------
(* Numbers: every number of the small formats; digits on, under and over   *)
(* the middles between them; long fixed-point numbers.                     *)
Edges == {0, 1, 2, 3, 7, 8, 15, 16, 17, 31, 127, 128, 200, 239, 240, 255}
BignumInputs == [v : Edges, n : {0, 1, 3, 4, 5, 8, 9}, w : Edges,
                 m : {0, 1, 3, 4, 5, 8, 9}]
PowerInputs == [base : {2, 3, 5, 6, 10, 12}, e : 0 .. 7]
DecimalInputs == [ds : Texts({0, 5, 9}, 7)]
Finite == 1 .. D!Infinity(D!Double) - 1
NumberOf(F) == 1 .. D!Infinity(F) - 1
FloatInputs == [F : {D!Double}, v : Finite] \cup
               [F : {D!Single}, v : NumberOf(D!Single)]
RoundInputs == [v : 0 .. 2 * D!SignBit(D!Double) - 1, n : 0 .. 5]
FixedInputs == [s : {1, 5, 7, 10, 19, 99, 625, 999, 4095, 15624, 15625, 16384,
                     19999, 24999, 32767}, e : -42 .. 10, n : 0 .. 7]
Near(v) ==
  LET y == D!DecimalOf(D!UpperBoundary(D!Double, v))
      under == D!DigitsOf(D!IntOf(y.ds) - 1)
      at(ds, n) == [ds |-> ds, e |-> y.e - n]
  IN  {at(y.ds, 0), at(y.ds \o <<1>>, 1), at(y.ds \o <<0, 0, 0, 1>>, 4),
       at(<<0>> \o y.ds \o <<0, 0>>, 2), at(under \o <<9>>, 1),
       at(under \o <<9, 9, 9, 9>>, 4)}
NearInputs == UNION {Near(v) : v \in {0} \cup Finite} \cup
              [ds : {D!DigitsOf(n) : n \in 0 .. 260}, e : -6 .. 2]
RadixInputs == UNION {[log2 : {4}, ds : [1 .. n -> {0, 1, 7, 8, 15}]] \cup
                      [log2 : {3}, ds : [1 .. n -> {0, 1, 4, 7}]] :
                        n \in 1 .. 4}

Machines == {"synchronized", "events", "singleton", "manager"}

Functions ==
  {"gen", "sample", "search", "split", "chars", "stream",
   "lines", "files", "cursor", "terminated", "append", "codec",
   "zlib", "cast", "number", "digits", "bool", "utf8",
   "bytes", "base64", "base64text", "words", "path", "uri",
   "dynamic", "order", "object", "array", "assign", "json",
   "jsonstring", "jsontext", "jsonnumber", "surrogates", "resolve", "arena",
   "sarray", "bignum", "power", "decimal", "shortest", "rounded",
   "fixed", "nearest", "read", "radix", "stride"}

Init ==
  /\ part \in Functions \cup Machines /\ in = <<>> /\ stage = "idle"
  /\ Y!SyncInit /\ E!DispatchInit /\ I!SingletonInit /\ I!ManagerInit

(* The input of the call.                                                  *)
Input ==
  \/ part = "gen" /\ in' \in GenInputs
  \/ part = "sample" /\ in' \in SampleInputs
  \/ part = "search" /\ in' \in SearchInputs
  \/ part = "split" /\ in' \in SplitInputs
  \/ part = "chars" /\ in' \in CharInputs
  \/ part = "stream" /\ in' \in StreamInputs
  \/ part = "lines" /\ in' \in LineInputs
  \/ part = "files" /\ in' \in FileInputs
  \/ part = "cursor" /\ in' \in Places(CursorInputs)
  \/ part = "terminated" /\ in' \in Places(TerminatedInputs)
  \/ part = "append" /\ in' \in Places(AppendInputs)
  \/ part = "codec" /\ in' \in CodecInputs
  \/ part = "zlib" /\ in' \in ZlibInputs
  \/ part = "cast" /\ in' \in CastInputs
  \/ part = "number" /\ in' \in NumberInputs
  \/ part = "digits" /\ in' \in [v : DigitInputs]
  \/ part = "bool" /\ in' \in [s : BoolInputs]
  \/ part = "utf8" /\ in' \in CodePointInputs
  \/ part = "bytes" /\ in' \in ByteInputs
  \/ part = "base64" /\ in' \in Base64Inputs
  \/ part = "base64text" /\ in' \in Base64Texts
  \/ part = "words" /\ in' \in WordInputs
  \/ part = "path" /\ in' \in PathInputs
  \/ part = "uri" /\ in' \in UriInputs
  \/ part = "dynamic" /\ in' \in [a : Numbers, b : Numbers]
  \/ part = "order" /\ in' \in [a : Comparable, b : Comparable,
                                c : Comparable]
  \/ part = "object" /\ in' \in [d : Objects(Keys, {J!Integer(1)}),
                                 e : Objects(FewKeys, {J!Null}),
                                 k : Keys, v : {J!Str(<<>>)}]
  \/ part = "array" /\ in' \in [d : ArrayOf({J!Null, J!Bool(TRUE)}, 3),
                                i : -1 .. 4, n : 0 .. 4,
                                v : {J!Integer(1)}]
  \/ part = "assign" /\ in' \in AssignInputs
  \/ part = "json" /\ in' \in [v : Documents, o : OptionSets,
                               comment : Comments]
  \/ part = "jsonstring" /\ in' \in JsonStringInputs
  \/ part = "jsontext" /\ in' \in JsonTextInputs
  \/ part = "jsonnumber" /\ in' \in JsonNumberInputs
  \/ part = "surrogates" /\ in' \in SurrogateInputs
  \/ part = "resolve" /\ in' \in ResolveInputs
  \/ part = "arena" /\ in' \in ArenaInputs
  \/ part = "sarray" /\ in' \in SArrayInputs
  \/ part = "bignum" /\ in' \in BignumInputs
  \/ part = "power" /\ in' \in PowerInputs
  \/ part = "decimal" /\ in' \in DecimalInputs
  \/ part = "shortest" /\ in' \in FloatInputs
  \/ part = "rounded" /\ in' \in RoundInputs
  \/ part = "fixed" /\ in' \in FixedInputs
  \/ part = "nearest" /\ in' \in NearInputs
  \/ part = "read" /\ in' \in [s : Texts({48, 53, 46, 101, 45, 32}, 5)]
  \/ part = "radix" /\ in' \in RadixInputs
  \/ part = "stride" /\ in' \in 1 .. 150

syncVars == <<grants, datum, whole, owner, legal, syncCalls>>

eventVars == <<event, pending, taken, fdEvents, interest, deadline, listenFds,
               stop, loop, ready, reported, now, clock>>

singletonVars == <<holder, ask, made, registered, late>>

managerVars == <<globalManager, user, loops, alive>>

machineVars == <<syncVars, eventVars, singletonVars, managerVars>>

Begin ==
  /\ stage = "idle" /\ stage' = "called" /\ Input
  /\ UNCHANGED machineVars

Return ==
  /\ stage = "called" /\ stage' = "returned" /\ in' = <<>>
  /\ UNCHANGED machineVars

Synchronize ==
  /\ part = "synchronized" /\ Y!SyncNext
  /\ UNCHANGED <<in, stage, eventVars, singletonVars, managerVars>>

Dispatch ==
  /\ part = "events" /\ E!DispatchNext
  /\ UNCHANGED <<in, stage, syncVars, singletonVars, managerVars>>

GetSingleton ==
  /\ part = "singleton" /\ I!SingletonNext
  /\ UNCHANGED <<in, stage, syncVars, eventVars, managerVars>>

Manage ==
  /\ part = "manager" /\ I!ManagerNext
  /\ UNCHANGED <<in, stage, syncVars, eventVars, singletonVars>>

Next ==
  /\ Begin \/ Return \/ Synchronize \/ Dispatch \/ GetSingleton \/ Manage
  /\ UNCHANGED part

vars == <<part, in, stage, machineVars>>

Spec == Init /\ [][Next]_vars

(* gen.  A pipeline of a source, two operators and a sink computes what    *)
(* the operators promise one after the other, whoever of them stops early  *)
(* or throws; and sample() gives every value the same chance.              *)
PipelinesRight == [][Return =>
    /\ part = "gen" => /\ G!PipelineRight(Pipeline(in), Sink(in))
                       /\ G!GuardRight(Pipeline(in), Sink(in))
    /\ part = "sample" => G!SampleFair(in.vs, in.count)]_vars

(* Strings.  Searches find the first place; splitting, escaping and        *)
(* hexlifying come back to the same text; lower case by words is lower     *)
(* case by characters; a stream cut into chunks, read by short reads and   *)
(* written by short writes has the lines of the whole text; and a cursor   *)
(* reads and writes a chain of buffers as if it were one.                  *)
TextRight == [][Return =>
    /\ part = "search" => S!SearchesRight(in.s, in.needle, in)
    /\ part = "split" => S!SplitRight(in.s, in.d)
    /\ part = "chars" => S!EscapesRight(in.s) /\ S!CharsRight(in.s, in.address)
    /\ part = "stream" => S!StreamRight(in.chunks, 0, in.max, in.k)
    /\ part = "lines" => S!PiecesRight(in.s, in.d)
    /\ part = "files" => S!FilesRight(in.chunks, in.reads, in.capacity,
                                      in.takes)
    /\ part = "cursor" =>
         LET c == CursorAt(in, Upto(6))
         IN  /\ K!WritesRight(c, SubSeq(<<21, 22, 23>>, 1, in.n % 4), Two)
             /\ \A i \in DOMAIN c.chain :
                  K!ReadsRight(c, in.n, [c EXCEPT !.crt = i, !.off = 0])
    /\ part = "terminated" =>
         K!TerminatedRight(
           CursorAt(in, [i \in 1 .. 6 |-> IF i \in in.marked THEN 0 ELSE i]),
           0, in.max)
    /\ part = "append" =>
         K!AppendsRight(<<K!Buffer(<<1>>, in.room, FALSE)>>, in.growth,
                        Upto(in.n), CursorAt(in, Upto(6)), in.n)]_vars

(* Values.  A dynamic keeps numbers through its conversions, keys and      *)
(* values through its operations, and one live member through assignments  *)
(* that throw; JSON reads back what it wrote and accepts nothing else; an  *)
(* SArray is the sequence its calls make of it, and no two pieces of an    *)
(* arena's memory overlap.                                                 *)
ValuesRight == [][Return =>
    /\ part = "dynamic" => J!NumbersKept(in.a, in.b)
    /\ part = "order" => J!OrderRight(in.a, in.b, in.c)
    /\ part = "object" => J!ObjectRight(in.d, in.e, in.k, in.v)
    /\ part = "array" => J!ArrayRight(in.d, in.i, in.n, in.v)
    /\ part = "assign" => J!AssignRight(in.types, in.throws)
    /\ part = "json" => J!RoundTripRight(in.v, in.o, in.comment)
    /\ part = "jsonstring" => J!StringRight(in.s, in.o)
    /\ part = "jsontext" => J!ParseRight(in.s, in.o)
    /\ part = "jsonnumber" => J!NumberRight(in.s, in.o)
    /\ part = "surrogates" => J!UnicodeEscapeRight(in.first, in.second)
    /\ part = "resolve" => J!ResolveRight(in.j, in.p, in.q)
    /\ part = "arena" => K!ArenaRight(in.min, in.align, in.sizes)
    /\ part = "sarray" =>
         K!SArrayRight(Upto(in.n), [i \in 1 .. in.k |-> 10 + i], in.how,
                       in.calls)]_vars

(* Encodings.  UTF-8 and Base64 read back what they wrote and refuse the   *)
(* rest; bit operations compute what they are named for; paths stay in     *)
(* normal form; a URI's text is put together again from its parts; and     *)
(* what a codec or a stream compressed it uncompresses to the same bytes.  *)
EncodingsRight == [][Return =>
    /\ part = "utf8" => U!CodePointRight(in.cp, in.rest)
    /\ part = "bytes" => U!BytesRight(in.s)
    /\ part = "base64" => U!Base64Right(in.s, in.mode, in.junk)
    /\ part = "base64text" => U!DecodeFits(in.t)
    /\ part = "words" => U!BitOpsRight(in.x, in.w)
    /\ part = "path" => U!PathRight(in.s, in.t)
    /\ part = "uri" => U!UriRight(in.s)
    /\ part = "codec" =>
         U!CodecRight(Chain(in.cut), in.n, in.max, in.default)
    /\ part = "zlib" =>
         U!CompressedRight(Chain(in.cut), Chain(in.second), in.n, in.chunk,
                       in.minsize, in.growth)]_vars

(* Numbers.  An integer becomes the text that reads back as it, a text     *)
(* becomes the number it denotes or an error where the type has none, and  *)
(* a cast between signed types refuses what would change the value.        *)
(* The big integers compute what they are named for.  A number's shortest  *)
(* digits read back as the number, none shorter does and none as short is  *)
(* closer; counted and fixed digits are rounded right; wherever the fast   *)
(* algorithms give an answer it is the exact one.  Read digits give the    *)
(* nearest number, ties to even, and written text reads back.  The stride  *)
(* of a queue lets its tickets use every slot.                             *)
NumbersRight == [][Return =>
    /\ part = "cast" /\ C!SignedTest(in.src, in.tgt) =>
         C!IntegralChecked(in.src, in.tgt)
    /\ part = "number" => C!TextToIntegralRight(in.t, in.s)
    /\ part = "digits" => C!TextRight(in.v, [signed |-> TRUE, bits |-> 20])
    /\ part = "bool" => C!BoolRight(in.s)
    /\ part = "bignum" => D!BignumRight(in.v, in.n, in.w, in.m)
    /\ part = "power" => D!PowerRight(in.base, in.e)
    /\ part = "decimal" => D!DecimalRight(in.ds)
    /\ part = "shortest" => /\ D!ShortestRight(in.F, in.v)
                            /\ D!FastRight(in.F, in.v, "shortest", 0)
    /\ part = "rounded" =>
         /\ in.v \in Finite /\ in.n > 0 =>
              /\ D!CountedRight(in.v, in.n)
              /\ D!FastRight(D!Double, in.v, "precision", in.n)
         /\ in.v \in Finite =>
              D!FixedRight(in.v, in.n,
                           D!BignumDtoa(D!Double, in.v, "fixed", in.n))
         /\ D!RoundedRight(in.v, in.n)
         /\ in.n = 0 => D!WrittenRight(in.v)
    /\ part = "fixed" => D!FastFixedRight(in.s, in.e, in.n)
    /\ part = "nearest" => D!NearestRight(in.ds, in.e)
    /\ part = "read" => D!ReadRight(in.s) /\ D!StrictRight(in.s)
    /\ part = "radix" => D!RadixRight(in.log2, in.ds)
    /\ part = "stride" => K!StrideIsBest(in)]_vars

(* A thread holds exactly the locks that its LockedPtrs say, through       *)
(* moves, conversions, timeouts and scoped unlocks; assignments and swaps  *)
(* of two Synchronized objects are atomic, and threads that lock two of    *)
(* them never wait for each other in a circle.  And threads that ask a     *)
(* singleton for its instance, with or without its lock, all get the one   *)
(* that was made, however its registration and a throwing create interfere.*)
SynchronizedSound ==
  /\ part = "synchronized" => Y!SynchronizedSound
  /\ part = "singleton" => I!OneInstance

(* The event loop's table, epoll set and deadlines agree on the events it  *)
(* has, and name no other; it waits only when no deadline has passed; and  *)
(* an event is not told what was reported of the one that had its          *)
(* descriptor before.  Threads share one EventLoopManager, and a visitor   *)
(* of its set of loops meets every thread's loop and no deleted one but    *)
(* those of threads that ended without clearing theirs.                    *)
EventsSound ==
  /\ part = "events" => E!DispatchSound
  /\ part = "manager" => I!OneManager

=============================================================================
