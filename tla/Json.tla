-------------------------------- MODULE Json --------------------------------
(***************************************************************************)
(* dynamic values, and JSON to and from them.                              *)
(***************************************************************************)
EXTENDS Conv

-----------------------------------------------------------------------------
(***************************************************************************)
(* dynamic (dynamic.h, dynamic-inl.h, dynamic.cpp): a value with a type    *)
(* found out at run time.  A value is a record with its type t and one     *)
(* field named for it; an object's items stand in the order of iteration.  *)
(* int64_t is scaled to 8 bits as double is to 4 significant ones: here    *)
(* too an integer may be too long for a double.  A result is a sequence of *)
(* one, or empty when the call throws.                                     *)
(***************************************************************************)

D == INSTANCE DoubleText

Int64 == [signed |-> TRUE, bits |-> 8]
Throws == <<>>

Null == [t |-> "null"]
Bool(b) == [t |-> "bool", b |-> b]
Integer(n) == [t |-> "int", n |-> n]
Double(d) == [t |-> "double", d |-> d]
Str(s) == [t |-> "string", s |-> s]
Array(a) == [t |-> "array", a |-> a]
Object(o) == [t |-> "object", o |-> o]

(* enum Type, in its order.                                                *)
Types == <<"null", "array", "bool", "double", "int", "object", "string">>
Rank(v) == CHOOSE i \in DOMAIN Types : Types[i] = v.t
IsNumber(v) == v.t \in {"int", "double"}

-----------------------------------------------------------------------------
(* The hardware's doubles: a finite one in units of the smallest, and the  *)
(* nearest one to a number of units.                                       *)
Unit == D!DenormalExponent(D!Double)
Units(d) == D!Sign(D!Double, d) * D!Significand(D!Double, d)
              * 2^(D!Exponent(D!Double, d) - Unit)
IsFinite(d) == ~D!IsSpecial(D!Double, d)
Nearest(u) ==
  LET m == IF u < 0 THEN 0 - u ELSE u
      r == IF m < 2^D!Double.p THEN D!Diy(m, 0)
           ELSE D!RadixRound(D!Double, m, 1, <<>>)
  IN  D!Negated(D!Double, u < 0, D!FromDiyFp(D!Double, D!Diy(r.f, r.e + Unit)))
OfInt(n) == Nearest(n * 2^(0 - Unit))

(* to<double>(int64_t) and back: refused where the witness is another.     *)
IntToDouble(n) ==
  IF Units(OfInt(n)) = n * 2^(0 - Unit) THEN <<OfInt(n)>> ELSE Throws
DoubleToInt(d) ==
  LET n == Units(d) \div 2^(0 - Unit)
  IN  IF IsFinite(d) /\ Units(d) % 2^(0 - Unit) = 0 /\ n \in ValuesOf(Int64)
      THEN <<n>> ELSE Throws

-----------------------------------------------------------------------------
(* asImpl: to<T> of what is inside.                                        *)
Zero1(b) == IF b THEN 1 ELSE 0
AsInt(v) ==
  CASE v.t = "int" -> <<v.n>>
    [] v.t = "double" -> DoubleToInt(v.d)
    [] v.t = "bool" -> <<Zero1(v.b)>>
    [] v.t = "string" -> ToInteger(Int64, v.s)
    [] OTHER -> Throws
AsDouble(v) ==
  CASE v.t = "int" -> IntToDouble(v.n)
    [] v.t = "double" -> <<v.d>>
    [] v.t = "bool" -> <<OfInt(Zero1(v.b))>>
    [] v.t = "string" -> D!ToDoubleWhole(v.s)
    [] OTHER -> Throws
AsBool(v) ==
  LET truth(n) == IF n = Throws THEN Throws ELSE <<n[1] = 1>>
      r == StrToBool(v.s)
  IN
  CASE v.t = "int" -> truth(ToIntegral(Int64, [signed |-> FALSE, bits |-> 1],
                                       v.n))
    [] v.t = "double" -> IF DoubleToInt(v.d) \in {<<0>>, <<1>>}
                         THEN truth(DoubleToInt(v.d)) ELSE Throws
    [] v.t = "bool" -> <<v.b>>
    [] v.t = "string" -> IF EnforceWhitespace(r.src) THEN r.result ELSE Throws
    [] OTHER -> Throws
AsString(v) ==
  CASE v.t = "int" -> <<ToAppend(v.n)>>
    [] v.t = "double" ->
         <<D!ToShortestIeeeNumber(D!Writer, D!Double, v.d)>>
    [] v.t = "bool" -> <<ToAppend(Zero1(v.b))>>
    [] v.t = "string" -> <<v.s>>
    [] OTHER -> Throws

(* The promotion of numericOp, whose first operand is the integer whatever *)
(* the order of a and b.                                                   *)
Add(x, y) == x + y
Sub(x, y) == x - y
NumericOp(Op(_, _), a, b) ==
  LET integ == IF a.t = "int" THEN a ELSE b
      nonint == IF a.t = "int" THEN b ELSE a
      x == IntToDouble(integ.n)
  IN  IF ~IsNumber(a) \/ ~IsNumber(b) THEN Throws
      ELSE IF a.t # b.t
        THEN IF x = Throws THEN Throws
             ELSE <<Double(Nearest(Op(Units(x[1]), Units(nonint.d))))>>
      ELSE IF a.t = "double"
        THEN <<Double(Nearest(Op(Units(a.d), Units(b.d))))>>
      ELSE <<Integer(Cast(Int64, Op(a.n, b.n)))>>
PlusAssign(a, b) ==
  IF a.t = "string" /\ b.t = "string" THEN <<Str(a.s \o b.s)>>
  ELSE NumericOp(Add, a, b)
MinusAssign(a, b) == NumericOp(Sub, a, b)

-----------------------------------------------------------------------------
(* operator== of an integer and a double: in double, to which the integer  *)
(* is rounded.                                                             *)
SameDouble(c, d) ==
  IF IsFinite(c) /\ IsFinite(d) THEN Units(c) = Units(d)
  ELSE c = d /\ D!Magnitude(D!Double, c) = D!Infinity(D!Double)

(* A key is found by its hash: equal numbers of different types have the   *)
(* same one only if they are zero.                                         *)
Hash(v) ==
  CASE v.t = "int" -> <<v>>
    [] v.t = "double" -> IF Units(v.d) = 0 THEN <<Integer(0)>> ELSE <<v>>
    [] v.t \in {"bool", "string"} -> <<v>>
    [] OTHER -> Throws

RECURSIVE Equal(_, _)
Equal(a, b) ==
  LET key(k, j) == Hash(k) = Hash(j) /\ Equal(k, j)
  IN
  IF a.t # b.t
  THEN /\ IsNumber(a) /\ IsNumber(b)
       /\ IF a.t = "int" THEN SameDouble(OfInt(a.n), b.d)
                         ELSE SameDouble(a.d, OfInt(b.n))
  ELSE CASE a.t = "double" -> SameDouble(a.d, b.d)
         [] a.t = "array" -> /\ Len(a.a) = Len(b.a)
                             /\ \A i \in DOMAIN a.a : Equal(a.a[i], b.a[i])
         [] a.t = "object" -> /\ Len(a.o) = Len(b.o)
                              /\ \A i \in DOMAIN a.o : \E j \in DOMAIN b.o :
                                   /\ key(a.o[i].k, b.o[j].k)
                                   /\ Equal(a.o[i].v, b.o[j].v)
         [] OTHER -> a = b
SameKey(k, j) == Hash(k) = Hash(j) /\ Equal(k, j)

(* operator<: no object anywhere; types in their order; arrays by their    *)
(* first difference.                                                       *)
RECURSIVE Less(_, _)
Less(a, b) ==
  LET n == IF Len(a.a) < Len(b.a) THEN Len(a.a) ELSE Len(b.a)
      ab(i) == Less(a.a[i], b.a[i])
      ba(i) == Less(b.a[i], a.a[i])
      decides(i) == Throws \in {ab(i), ba(i)} \/ ab(i)[1] \/ ba(i)[1]
      i == Least({j \in 1 .. n : decides(j)})
  IN
  IF "object" \in {a.t, b.t} THEN Throws
  ELSE IF a.t # b.t THEN <<Rank(a) < Rank(b)>>
  ELSE CASE a.t = "null" -> <<FALSE>>
         [] a.t = "bool" -> <<~a.b /\ b.b>>
         [] a.t = "int" -> <<a.n < b.n>>
         [] a.t = "double" -> <<Units(a.d) < Units(b.d)>>
         [] a.t = "string" -> <<Compare(a.s, b.s) < 0>>
         [] a.t = "array" -> IF i = npos THEN <<Len(a.a) < Len(b.a)>>
                             ELSE ab(i)

-----------------------------------------------------------------------------
(* What an object or an array holds.  Operations return the new value.     *)
Find(d, k) == Least({i \in DOMAIN d.o : SameKey(d.o[i].k, k)})
Has(d, k) == Find(d, k) # npos

Size(d) ==
  CASE d.t = "array" -> <<Len(d.a)>>
    [] d.t = "object" -> <<Len(d.o)>>
    [] d.t = "string" -> <<Len(d.s)>>
    [] OTHER -> Throws
Empty(d) == IF d = Null THEN <<TRUE>>
            ELSE IF Size(d) = Throws THEN Throws ELSE <<Size(d)[1] = 0>>

(* get_ptr, at and operator[]: an element, Absent, or a throw.             *)
Absent == <<[t |-> "absent"]>>
GetPtr(d, k) ==
  CASE d.t = "array" ->
         IF k.t # "int" THEN Throws
         ELSE IF k.n < 0 \/ k.n >= Len(d.a) THEN Absent ELSE <<d.a[k.n + 1]>>
    [] d.t = "object" ->
         IF Hash(k) = Throws THEN Throws
         ELSE IF Has(d, k) THEN <<d.o[Find(d, k)].v>> ELSE Absent
    [] OTHER -> Throws
GetAt(d, k) == IF GetPtr(d, k) = Absent THEN Throws ELSE GetPtr(d, k)

(* insert: the value of a key that is there is overwritten, its key kept.  *)
Insert(d, k, v) ==
  IF d.t # "object" \/ Hash(k) = Throws THEN Throws
  ELSE IF Has(d, k) THEN <<[d EXCEPT !.o[Find(d, k)].v = v]>>
  ELSE <<Object(Append(d.o, [k |-> k, v |-> v]))>>
SetDefault(d, k, v) ==
  IF d.t # "object" \/ Hash(k) = Throws THEN Throws
  ELSE IF Has(d, k) THEN <<d>> ELSE Insert(d, k, v)
GetDefault(d, k, v) ==
  IF d.t # "object" \/ Hash(k) = Throws THEN Throws
  ELSE IF Has(d, k) THEN GetPtr(d, k) ELSE <<v>>

(* d[k] = v; a key that is not there is inserted first.                    *)
AssignAt(d, k, v) ==
  CASE d.t = "object" -> Insert(d, k, v)
    [] d.t = "array" -> IF GetAt(d, k) = Throws THEN Throws
                        ELSE <<[d EXCEPT !.a[k.n + 1] = v]>>
    [] OTHER -> Throws

Update(d, e) ==
  IF d.t # "object" \/ e.t # "object" THEN Throws
  ELSE <<FoldLeft(LAMBDA x, i : AssignAt(x, i.k, i.v)[1], d, e.o)>>
UpdateMissing(d, e) ==
  IF d.t # "object" \/ e.t # "object" THEN Throws
  ELSE <<FoldLeft(LAMBDA x, i : IF Has(x, i.k) THEN x
                                ELSE AssignAt(x, i.k, i.v)[1], d, e.o)>>
Merge(d, e) == UpdateMissing(e, d)

Erase(d, k) ==
  IF d.t # "object" \/ Hash(k) = Throws THEN Throws
  ELSE <<Object(SelectSeq(d.o, LAMBDA i : ~SameKey(i.k, k)))>>
EraseRange(d, i, j) ==
  IF d.t # "array" THEN Throws
  ELSE <<Array(SubSeq(d.a, 1, i) \o SubSeq(d.a, j + 1, Len(d.a)))>>
Resize(d, n, v) ==
  IF d.t # "array" THEN Throws
  ELSE <<Array([i \in 1 .. n |-> IF i =< Len(d.a) THEN d.a[i] ELSE v])>>
PushBack(d, v) == IF d.t # "array" THEN Throws ELSE <<Array(Append(d.a, v))>>
PopBack(d) == IF d.t # "array" THEN Throws ELSE <<Array(Front(d.a))>>

-----------------------------------------------------------------------------
(* The storage: type_ says which member of the union is alive.  Copying a  *)
(* member may throw (an allocation that fails), and an assignment of the   *)
(* same type may stop half way with a member that is alive.                *)
Slot(t) == [type |-> t, alive |-> t]
Destroy(x) ==
  IF x.type = "null" THEN x ELSE [type |-> "null", alive |-> "null"]
Assign(x, o, throws) ==
  LET y == Destroy(x)
  IN  IF x.type = o.type THEN x
      ELSE IF throws THEN y
      ELSE [y EXCEPT !.alive = o.type, !.type = o.type]

-----------------------------------------------------------------------------
(* The conversions keep a number: what comes out is equal to what was      *)
(* inside, also by way of its text, or the call throws.  Sums commute, and *)
(* a difference is right when the integer, if there is one, stands left.   *)
NumbersKept(a, b) ==
  LET n == AsInt(a)
      d == AsDouble(a)
      s == AsString(a)
      sum == PlusAssign(a, b)
      difference == MinusAssign(a, b)
  IN  /\ n # Throws => Equal(Integer(n[1]), a)
      /\ d # Throws => Equal(Double(d[1]), a)
      /\ AsBool(a) # Throws => AsInt(Bool(AsBool(a)[1])) = n
      /\ IF a.t = "int" THEN AsInt(Str(s[1])) = n ELSE AsDouble(Str(s[1])) = d
      /\ sum = PlusAssign(b, a)
      /\ a.t = "int" /\ b.t = "double" /\ d # Throws =>
           difference = MinusAssign(Double(d[1]), b)

(* Equality is an equivalence, integers too long for a double left aside,  *)
(* and the order a strict weak one on values without objects.  Equal       *)
(* values of a type are one key.                                           *)
OrderRight(a, b, c) ==
  LET lt(x, y) == Less(x, y) = <<TRUE>>
      same(x, y) == Less(x, y) = <<FALSE>> /\ Less(y, x) = <<FALSE>>
      short == \A x \in {a, b, c} : x.t = "int" => AsDouble(x) # Throws
  IN  /\ Equal(a, a)
      /\ Equal(a, b) <=> Equal(b, a)
      /\ Equal(a, b) /\ Equal(b, c) /\ short => Equal(a, c)
      /\ a.t = b.t /\ Equal(a, b) => Hash(a) = Hash(b) /\ ~lt(a, b)
      /\ lt(a, b) => ~lt(b, a)
      /\ lt(a, b) /\ lt(b, c) => lt(a, c)
      /\ same(a, b) /\ same(b, c) => same(a, c)

(* Objects hold one item for a key.  Whatever was done before, a key leads *)
(* to the value put in last; merging prefers the second object; erasing    *)
(* takes one key and no other.                                             *)
ObjectRight(d, e, k, v) ==
  LET at(r) == GetPtr(r[1], k)
      one(x) == \A i, j \in DOMAIN x.o : SameKey(x.o[i].k, x.o[j].k) => i = j
      all == {Insert(d, k, v), SetDefault(d, k, v), Update(d, e),
              UpdateMissing(d, e), Merge(d, e), Erase(d, k)}
      others(x) == {i \in DOMAIN x.o : ~SameKey(x.o[i].k, k)}
  IN  /\ \A r \in all : one(r[1])
      /\ at(Insert(d, k, v)) = <<v>>
      /\ at(SetDefault(d, k, v)) = GetDefault(d, k, v)
      /\ at(Update(d, e)) = IF Has(e, k) THEN GetPtr(e, k) ELSE GetPtr(d, k)
      /\ at(Merge(d, e)) = at(Update(d, e))
      /\ at(UpdateMissing(d, e)) = at(Merge(e, d))
      /\ Equal(Update(d, e)[1], Merge(d, e)[1])
      /\ at(Erase(d, k)) = Absent
      /\ \A i \in others(d) :
           \A r \in {Insert(d, k, v), Erase(d, k), SetDefault(d, k, v)} :
             GetAt(r[1], d.o[i].k) = <<d.o[i].v>>

(* Arrays.  What is put at the end is taken from it, an index is the place *)
(* of one element, and everything else stays where it was.                 *)
ArrayRight(d, i, n, v) ==
  LET k == Integer(i)
      r == AssignAt(d, k, v)
      pushed == PushBack(d, v)[1]
  IN  /\ PopBack(pushed) = <<d>>
      /\ GetAt(pushed, Integer(Len(d.a))) = <<v>>
      /\ r # Throws <=> i \in 0 .. Len(d.a) - 1
      /\ r # Throws => \A j \in 0 .. Len(d.a) - 1 :
           GetAt(r[1], Integer(j)) = IF j = i THEN <<v>>
                                     ELSE GetAt(d, Integer(j))
      /\ Size(Resize(d, n, v)[1]) = <<n>>
      /\ r # Throws =>
           \A j \in i .. Len(d.a) :
             LET e == EraseRange(d, i, j)[1]
             IN  /\ Size(e) = <<Len(d.a) - (j - i)>>
                 /\ Empty(e) = <<j - i = Len(d.a)>>
                 /\ j < Len(d.a) => GetAt(e, k) = GetAt(d, Integer(j))

(* An assignment that throws leaves a value that can be destroyed and      *)
(* assigned again: the member that is alive is the one type_ names.        *)
AssignRight(types, throws) ==
  LET step(x, i) == Assign(x, Slot(types[i]), throws[i])
      x == FoldLeft(step, Slot("null"), [i \in DOMAIN types |-> i])
      n == Len(types)
  IN  /\ x.alive = x.type
      /\ n > 0 /\ ~throws[n] => x = Slot(types[n])
      /\ Destroy(x) = Slot("null")

-----------------------------------------------------------------------------
(***************************************************************************)
(* json.h and json.cpp: dynamic values to text and back.  A text is a      *)
(* sequence of bytes; a reader's result is the value and the rest of the   *)
(* input, or Fail where the code throws.                                   *)
(***************************************************************************)

U == INSTANCE Encodings

Quote == 34
Backslash == 92
Comma == 44
Colon == 58
Dot == 46
Star == 42
Newline == 10
EOF == -1

(* serialization_opts, as constructed.                                     *)
Options ==
  [allow_non_string_keys |-> FALSE, javascript_safe |-> FALSE,
   pretty_formatting |-> FALSE, encode_non_ascii |-> FALSE,
   validate_utf8 |-> FALSE, allow_trailing_comma |-> FALSE,
   sort_keys |-> FALSE, skip_invalid_utf8 |-> FALSE, allow_nan_inf |-> FALSE,
   double_fallback |-> FALSE, parse_numbers_as_strings |-> FALSE,
   recursion_limit |-> 100]

(* toAppend writes a number of up to 21 digits without an exponent, more   *)
(* than an int64_t has.                                                    *)
Writer == [D!Writer EXCEPT !.high = 4]

-----------------------------------------------------------------------------
(* escapeString.  q is where the next character to be validated begins,    *)
(* counted from the front of the rest of the input.                        *)
Hex4(v) == [i \in 1 .. 4 |-> HexDigit((v \div 16^(4 - i)) % 16)]
Short == [c \in {8, 9, 10, 12, 13} |->
            CASE c = 8 -> 98 [] c = 9 -> 116 [] c = 10 -> 110
              [] c = 12 -> 102 [] c = 13 -> 114]
Escape(c) ==
  IF c \in {Backslash, Quote} THEN <<Backslash, c>>
  ELSE IF c \in DOMAIN Short THEN <<Backslash, Short[c]>>
  ELSE IF c =< 31 THEN <<Backslash, 117>> \o Hex4(c)
  ELSE <<c>>

RECURSIVE EscapeFrom(_, _, _, _)
EscapeFrom(s, q, o, out) ==
  LET v == U!Utf8ToCodePoint(s, o.skip_invalid_utf8)
      validates == /\ o.validate_utf8 \/ o.skip_invalid_utf8
                   /\ ~o.encode_non_ascii
      ahead == IF validates /\ q = 0 THEN v[2] - 1 ELSE q - 1
  IN
  IF s = <<>> THEN <<out>>
  ELSE IF validates /\ q = 0 /\ v = <<>> THEN Throws
  ELSE IF validates /\ q = 0 /\ o.skip_invalid_utf8 /\ v[1] = U!Replacement
    THEN EscapeFrom(Drop(s, v[2]), 0, o,
                    out \o U!CodePointToUtf8(U!Replacement))
  ELSE IF o.encode_non_ascii /\ s[1] >= 128
    THEN IF v = <<>> THEN Throws
         ELSE EscapeFrom(Drop(s, v[2]), 0, o,
                         out \o <<Backslash, 117>> \o Hex4(v[1]))
  ELSE EscapeFrom(Tail(s), IF validates THEN ahead ELSE 0, o,
                  out \o Escape(s[1]))

EscapeString(s, o) ==
  LET r == EscapeFrom(s, 0, o, <<Quote>>)
  IN  IF r = Throws THEN Throws ELSE <<Append(r[1], Quote)>>

-----------------------------------------------------------------------------
(* Printer; level is the indentation.                                      *)
NewlineText(o, level) ==
  IF o.pretty_formatting
  THEN <<Newline>> \o [i \in 1 .. 2 * level |-> Space] ELSE <<>>
MapColon(o) == IF o.pretty_formatting THEN <<Space, Colon, Space>>
                                      ELSE <<Colon>>

(* Parts between brackets, none of which may have thrown.                  *)
Bracketed(open, parts, close, o, level) ==
  LET sep == <<Comma>> \o NewlineText(o, level + 1)
      texts == [i \in DOMAIN parts |-> parts[i][1]]
  IN  IF parts = <<>> THEN <<<<open, close>>>>
      ELSE IF \E i \in DOMAIN parts : parts[i] = Throws THEN Throws
      ELSE <<<<open>> \o NewlineText(o, level + 1) \o InternalJoin(sep, texts)
               \o NewlineText(o, level) \o <<close>>>>

RECURSIVE PrintValue(_, _, _)
PrintValue(v, o, level) ==
  LET wide == o.javascript_safe /\ IntToDouble(v.n) = Throws
      bad == ~o.allow_nan_inf /\ ~IsFinite(v.d)
      items == IF o.sort_keys
               THEN SortSeq(v.o, LAMBDA i, j : Less(i.k, j.k)[1]) ELSE v.o
      kv(i) ==
        LET k == PrintValue(i.k, o, level + 1)
            w == PrintValue(i.v, o, level + 1)
        IN  IF ~o.allow_non_string_keys /\ i.k.t # "string" THEN Throws
            ELSE IF Throws \in {k, w} THEN Throws
            ELSE <<k[1] \o MapColon(o) \o w[1]>>
  IN
  CASE v.t = "double" ->
         IF bad THEN Throws
         ELSE <<D!ToShortestIeeeNumber(Writer, D!Double, v.d)>>
    [] v.t = "int" -> IF wide THEN Throws ELSE <<ToAppend(v.n)>>
    [] v.t = "bool" -> <<IF v.b THEN True ELSE False>>
    [] v.t = "null" -> <<<<110, 117, 108, 108>>>>
    [] v.t = "string" -> EscapeString(v.s, o)
    [] v.t = "object" ->
         Bracketed(123, [i \in DOMAIN items |-> kv(items[i])], 125, o, level)
    [] v.t = "array" ->
         Bracketed(91, [i \in DOMAIN v.a |-> PrintValue(v.a[i], o, level + 1)],
                   93, o, level)

Serialize(v, o) == PrintValue(v, o, 0)
PrintAsPseudoJson(v) ==
  Serialize(v, [Options EXCEPT !.allow_non_string_keys = TRUE,
                               !.allow_nan_inf = TRUE])

-----------------------------------------------------------------------------
(* Input: what is left of the text.  A byte is a char, so 255 looks like   *)
(* the end.                                                                *)
Current(s) == IF s = <<>> THEN EOF ELSE IF s[1] > 127 THEN s[1] - 256 ELSE s[1]
Consume(s, text) == StartsWith(s, text)
Fail == [ok |-> FALSE]
Done(v, s) == [ok |-> TRUE, v |-> v, s |-> s]
Expect(s, c, v) == IF Current(s) = c THEN Done(v, Tail(s)) ELSE Fail

SkipWhile(s, Is(_)) ==
  LET stop == {i \in DOMAIN s : ~Is(s[i])}
  IN  IF stop = {} THEN Len(s) ELSE Least(stop) - 1

(* decodeUnicodeEscape, after the "u".                                     *)
ReadHex(s) ==
  IF Len(s) < 4 \/ \E i \in 1 .. 4 : HexValue(s[i]) = 16 THEN Fail
  ELSE Done(HexValue(s[1]) * 4096 + HexValue(s[2]) * 256
              + HexValue(s[3]) * 16 + HexValue(s[4]), Drop(s, 4))
DecodeUnicodeEscape(s) ==
  LET first == ReadHex(s)
      second == ReadHex(Drop(first.s, 2))
      pair == 65536 + (first.v % 1024) * 1024 + (second.v % 1024)
  IN  IF ~first.ok THEN Fail
      ELSE IF first.v \in 55296 .. 56319
        THEN IF ~Consume(first.s, <<Backslash, 117>>) THEN Fail
             ELSE IF ~second.ok THEN Fail
             ELSE IF second.v \notin 56320 .. 57343 THEN Fail
             ELSE Done(U!CodePointToUtf8(pair), second.s)
      ELSE IF first.v \in 56320 .. 57343 THEN Fail
      ELSE Done(U!CodePointToUtf8(first.v), first.s)

Unescape == [c \in {Quote, Backslash, Slash, 98, 102, 110, 114, 116} |->
               CASE c = 98 -> 8 [] c = 102 -> 12 [] c = 110 -> 10
                 [] c = 114 -> 13 [] c = 116 -> 9 [] OTHER -> c]

(* parseString, after the opening quote.  The bytes up to the next quote   *)
(* or backslash are taken as they are, zero bytes too.                     *)
PlainByte(c) == c \notin {Quote, Backslash}
RECURSIVE ParseStringFrom(_, _)
ParseStringFrom(s, ret) ==
  LET n == SkipWhile(s, PlainByte)
      r == Drop(s, n)
      text == ret \o First(s, n)
      c == Current(Tail(r))
      u == DecodeUnicodeEscape(Drop(r, 2))
  IN  IF r = <<>> THEN Fail
      ELSE IF r[1] = Quote THEN Done(text, Tail(r))
      ELSE IF c \in DOMAIN Unescape
        THEN ParseStringFrom(Drop(r, 2), Append(text, Unescape[c]))
      ELSE IF c = 117 /\ u.ok THEN ParseStringFrom(u.s, text \o u.v)
      ELSE Fail

ParseString(s) == ParseStringFrom(Tail(s), <<>>)

(* parseNumber.                                                            *)
MaxInt == ToAppend(TypeMax(Int64))
MinInt == ToAppend(TypeMin(Int64))
LooksLikeIntAnyway(integral, negative, o) ==   \* mutant
  \/ ~o.double_fallback
  \/ Len(integral) =< Len(MaxInt)
  \/ negative /\ Len(integral) = Len(MinInt)
LooksLikeInt(integral, negative, o) ==
  \/ ~o.double_fallback
  \/ Len(integral) < Len(MaxInt)
  \/ /\ ~negative /\ Len(integral) = Len(MaxInt)
     /\ Compare(integral, MaxInt) =< 0
  \/ /\ negative /\ Len(integral) = Len(MinInt)
     /\ Compare(integral, MinInt) =< 0

NumberOf(text, isInt, rest) ==
  LET x == IF isInt THEN ToInteger(Int64, text) ELSE D!ToDoubleWhole(text)
  IN  IF x = Throws THEN Fail
      ELSE Done(IF isInt THEN Integer(x[1]) ELSE Double(x[1]), rest)

ParseNumber(s, o) ==
  LET negative == s[1] = Minus
      infinity == <<Minus>> \o D!InfinityText
      inf == D!Negated(D!Double, TRUE, D!Infinity(D!Double))
      digits == IF negative THEN Tail(s) ELSE s
      n == SkipWhile(digits, IsDigit) + (IF negative THEN 1 ELSE 0)
      integral == First(s, n)
      r == Drop(s, n)
      e == {69, 101}
      wasE == Current(r) \in e
      m == IF wasE THEN n ELSE n + 1 + SkipWhile(Tail(r), IsDigit)
      x == Drop(s, m)
      sign == IF Current(Tail(x)) \in {Plus, Minus} THEN 2 ELSE 1
      end == IF Current(x) \in e
             THEN m + sign + SkipWhile(Drop(x, sign), IsDigit) ELSE m
      full == First(s, end)
  IN  IF negative /\ Consume(s, infinity)
        THEN Done(IF o.parse_numbers_as_strings THEN Str(infinity)
                  ELSE Double(inf), Drop(s, Len(infinity)))
      ELSE IF negative /\ n < 2 THEN Fail
      ELSE IF Current(r) # Dot /\ ~wasE
        THEN IF o.parse_numbers_as_strings THEN Done(Str(integral), r)
             ELSE NumberOf(integral, LooksLikeInt(integral, negative, o),
                           LtrimWhitespace(r))
      ELSE IF o.parse_numbers_as_strings THEN Done(Str(full), Drop(s, end))
      ELSE NumberOf(full, FALSE, Drop(s, end))

-----------------------------------------------------------------------------
(* parseValue, at a depth of recursion; parseArray and parseObject are     *)
(* loops that have collected ret and stand before the next item.           *)
Named(s, text, v) == Done(v, Drop(s, Len(text)))

RECURSIVE ParseValue(_, _, _)
RECURSIVE ParseItems(_, _, _, _)

(* One element of an array, or a key, a colon and a value.                 *)
ParseItem(s, ret, o, depth) ==
  LET v == ParseValue(s, o, depth)
      k == IF Current(s) = Quote THEN LET x == ParseString(s)
                                      IN  IF x.ok THEN Done(Str(x.v), x.s)
                                          ELSE Fail
           ELSE IF o.allow_non_string_keys THEN v ELSE Fail
      colon == Expect(LtrimWhitespace(k.s), Colon, k.v)
      w == ParseValue(LtrimWhitespace(colon.s), o, depth)
      put == Insert(ret, k.v, w.v)
  IN  IF ret.t = "array"
        THEN IF v.ok THEN Done(PushBack(ret, v.v)[1], v.s) ELSE Fail
      ELSE IF ~k.ok THEN Fail
      ELSE IF ~colon.ok THEN Fail
      ELSE IF ~w.ok THEN Fail
      ELSE IF put = Throws THEN Fail
      ELSE Done(put[1], w.s)

ParseItems(s, ret, o, depth) ==
  LET close == IF ret.t = "array" THEN 93 ELSE 125
      i == ParseItem(s, ret, o, depth)
      r == LtrimWhitespace(i.s)
  IN  IF o.allow_trailing_comma /\ Current(s) = close
        THEN Expect(s, close, ret)
      ELSE IF ~i.ok THEN Fail
      ELSE IF Current(r) # Comma THEN Expect(r, close, i.v)
      ELSE ParseItems(LtrimWhitespace(Tail(r)), i.v, o, depth)

ParseBracketed(s, ret, o, depth) ==
  LET close == IF ret.t = "array" THEN 93 ELSE 125
      r == LtrimWhitespace(Tail(s))
  IN  IF Current(r) = close THEN Done(ret, Tail(r))
      ELSE ParseItems(r, ret, o, depth)

ParseValue(in, o, depth) ==
  LET s == LtrimWhitespace(in)
      c == Current(s)
      text == ParseString(s)
      nothing == <<110, 117, 108, 108>>
      named(word, d) == Named(s, word, IF o.parse_numbers_as_strings
                                      THEN Str(word) ELSE Double(d))
  IN  CASE depth > o.recursion_limit -> Fail
        [] OTHER ->
           CASE c = 91 -> ParseBracketed(s, Array(<<>>), o, depth + 1)
             [] c = 123 -> ParseBracketed(s, Object(<<>>), o, depth + 1)
             [] c = Quote -> IF text.ok THEN Done(Str(text.v), text.s)
                             ELSE Fail
             [] c = Minus \/ IsDigit(c) -> ParseNumber(s, o)
             [] Consume(s, True) -> Named(s, True, Bool(TRUE))
             [] Consume(s, False) -> Named(s, False, Bool(FALSE))
             [] Consume(s, nothing) -> Named(s, nothing, Null)
             [] Consume(s, D!InfinityText) ->
                  named(D!InfinityText, D!Infinity(D!Double))
             [] Consume(s, D!NaNText) -> named(D!NaNText, D!NaN(D!Double))
             [] OTHER -> Fail

(* A zero byte ends the text.                                              *)
ParseJson(text, o) ==
  LET r == ParseValue(text, o, 0)
      rest == LtrimWhitespace(r.s)
  IN  IF ~r.ok THEN Throws
      ELSE IF rest # <<>> /\ Current(rest) # 0 THEN Throws
      ELSE <<r.v>>

-----------------------------------------------------------------------------
(* stripComments, from a state; a string keeps what looks like a comment.  *)
(* The loop over characters goes at once over those that do nothing but    *)
(* be kept, or be left out.                                                *)
Telling == [none |-> {Slash, Quote}, string |-> {Quote, Backslash},
            inline |-> {Star}, line |-> {Newline}]
RECURSIVE StripFrom(_, _, _)
StripFrom(s, state, out) ==
  LET n == SkipWhile(s, LAMBDA c : c \notin Telling[state])
      r == Drop(s, n)
      two == First(r, IF Len(r) < 2 THEN Len(r) ELSE 2)
      kept == IF state \in {"none", "string"} THEN out \o First(s, n) ELSE out
      put == Append(kept, r[1])
  IN
  IF r = <<>> THEN <<kept>>
  ELSE CASE state = "none" ->
              IF two = <<Slash, Star>> THEN StripFrom(Drop(r, 2), "inline", kept)
              ELSE IF two = <<Slash, Slash>>
                THEN StripFrom(Drop(r, 2), "line", kept)
              ELSE StripFrom(Tail(r), IF r[1] = Quote THEN "string" ELSE state,
                             put)
         [] state = "string" ->
              IF r[1] = Quote THEN StripFrom(Tail(r), "none", put)
              ELSE IF Len(r) = 1 THEN Throws
              ELSE StripFrom(Drop(r, 2), state, kept \o two)
         [] state = "inline" ->
              IF two = <<Star, Slash>> THEN StripFrom(Drop(r, 2), "none", kept)
              ELSE StripFrom(Tail(r), state, kept)
         [] state = "line" -> StripFrom(Tail(r), "none", kept)
StripComments(s) == StripFrom(s, "none", <<>>)

(* get and resolve: a key or a default, and keys with dots between them.   *)
Get(j, key, dflt) ==
  LET v == GetDefault(j, Str(key), Integer(dflt))
  IN  IF v = Throws THEN Throws ELSE AsInt(v[1])
RECURSIVE ResolveKeys(_, _)
ResolveKeys(j, keys) ==
  LET x == GetAt(j, Str(Head(keys)))
  IN  IF keys = <<>> THEN <<j>>
      ELSE IF x = Throws THEN Throws ELSE ResolveKeys(x[1], Tail(keys))
Resolve(j, path) == ResolveKeys(j, InternalSplit(<<Dot>>, path, FALSE))

-----------------------------------------------------------------------------
(* Doubles that are written like an integer no int64_t holds.              *)
RECURSIVE Wide(_)
Wide(v) ==
  CASE v.t = "double" -> /\ IsFinite(v.d)
                         /\ Units(v.d) % 2^(0 - Unit) = 0
                         /\ DoubleToInt(v.d) = Throws
    [] v.t = "array" -> \E i \in DOMAIN v.a : Wide(v.a[i])
    [] v.t = "object" -> \E i \in DOMAIN v.o :
                           Wide(v.o[i].k) \/ Wide(v.o[i].v)
    [] OTHER -> FALSE

(* Negative integers as long as the largest one, minus sign included.      *)
RECURSIVE Longish(_)
Longish(v) ==
  CASE v.t = "int" -> v.n < 0 /\ Len(ToAppend(v.n)) = Len(MaxInt)
    [] v.t = "array" -> \E i \in DOMAIN v.a : Longish(v.a[i])
    [] v.t = "object" -> \E i \in DOMAIN v.o :
                           Longish(v.o[i].k) \/ Longish(v.o[i].v)
    [] OTHER -> FALSE

(* What is written is read as an equal value, however it is laid out, with *)
(* comments or without.  Two cases are apart.  A whole double beyond the   *)
(* integers is read only with double_fallback; and with it a negative      *)
(* integer as long as the largest one is read as a double, the nearest.    *)
(* Printing for debugging never throws.                                    *)
RoundTripRight(v, o, comment) ==
  LET t == Serialize(v, o)
      r == ParseJson(t[1], o)
      commented == StripComments(t[1] \o comment)
  IN  t # Throws =>
        /\ IF ~o.double_fallback /\ Wide(v) THEN r = Throws
           ELSE IF o.double_fallback /\ Longish(v) THEN r # Throws
           ELSE r # Throws /\ Equal(r[1], v)
        /\ commented = t
        /\ PrintAsPseudoJson(v) # Throws

(* A string comes back byte by byte; with encode_non_ascii the text is     *)
(* ASCII; where UTF-8 is checked, a throw or a replacement happens exactly *)
(* if some character is not one.                                           *)
RECURSIVE ValidUtf8(_)
ValidUtf8(s) ==
  LET v == U!Utf8ToCodePoint(s, FALSE)
  IN  s = <<>> \/ (v # <<>> /\ ValidUtf8(Drop(s, v[2])))
StringRight(s, o) ==
  LET t == EscapeString(s, o)
      checks == o.validate_utf8 \/ o.encode_non_ascii \/ o.skip_invalid_utf8
      r == ParseJson(t[1], o)
  IN  /\ t = Throws <=> checks /\ ~o.skip_invalid_utf8 /\ ~ValidUtf8(s)
      /\ t # Throws =>
           /\ \A i \in DOMAIN t[1] : t[1][i] >= 32
           /\ o.encode_non_ascii => \A i \in DOMAIN t[1] : t[1][i] < 128
           /\ r # Throws
           /\ r = <<Str(s)>> <=> ~checks \/ ValidUtf8(s)
           /\ o.skip_invalid_utf8 => ValidUtf8(r[1].s)
           /\ StripComments(t[1]) = t

(* A reference for the parser: the texts of values, by all the ways to cut *)
(* them, to a depth.  Blanks may stand around every token.                 *)
Trimmed(s) == TrimWhitespace(s)
RECURSIVE IsJson(_, _, _)
RECURSIVE IsList(_, _, _, _)
IsString(s) == /\ Len(s) > 1 /\ s[1] = Quote /\ s[Len(s)] = Quote
               /\ \A i \in 2 .. Len(s) - 1 : PlainByte(s[i])
IsPair(s, n, o) == \E i \in DOMAIN s : /\ s[i] = Colon
                                       /\ IsString(Trimmed(First(s, i - 1)))
                                       /\ IsJson(Drop(s, i), n, o)
IsList(s, n, o, pairs) ==
  LET item(t) == IF pairs THEN IsPair(t, n, o) ELSE IsJson(t, n, o)
  IN  \/ item(s)
      \/ \E i \in DOMAIN s :
           /\ s[i] = Comma
           /\ item(First(s, i - 1))
           /\ \/ IsList(Drop(s, i), n, o, pairs)
              \/ o.allow_trailing_comma /\ Trimmed(Drop(s, i)) = <<>>
IsJson(s, n, o) ==
  LET t == Trimmed(s)
      inside == SubSeq(t, 2, Len(t) - 1)
      between(c, d) == Len(t) > 1 /\ t[1] = c /\ t[Len(t)] = d
  IN  /\ n > 0
      /\ \/ IsString(t)
         \/ ToInteger(Int64, t) # Throws /\ t[1] # Plus
         \/ /\ between(91, 93)
            /\ Trimmed(inside) = <<>> \/ IsList(inside, n - 1, o, FALSE)
         \/ /\ between(123, 125)
            /\ Trimmed(inside) = <<>> \/ IsList(inside, n - 1, o, TRUE)

(* The parser takes exactly the texts of values, nested to one level more  *)
(* than recursion_limit; writing what it read and reading that gives the   *)
(* same.                                                                   *)
ParseRight(s, o) ==
  LET r == ParseJson(s, o)
      t == Serialize(r[1], o)
  IN  /\ r # Throws <=> IsJson(s, o.recursion_limit + 1, o)
      /\ r # Throws => ParseJson(t[1], o) = r

(* Any escape in a string is decoded to UTF-8 or refused.                  *)
UnicodeEscapeRight(first, second) ==
  LET u(v) == <<Backslash, 117>> \o Hex4(v)
      one == ParseJson(<<Quote>> \o u(first) \o <<Quote>>, Options)
      two == ParseJson(<<Quote>> \o u(first) \o u(second) \o <<Quote>>,
                       Options)
      high(v) == v \in 55296 .. 56319
      low(v) == v \in 56320 .. 57343
  IN  /\ one = IF high(first) \/ low(first) THEN Throws
               ELSE <<Str(U!CodePointToUtf8(first))>>
      /\ high(first) => (two # Throws <=> low(second))
      /\ high(first) /\ two # Throws =>
           LET s == two[1].s
               cp == (s[1] % 8) * 262144 + (s[2] % 64) * 4096
                       + (s[3] % 64) * 64 + (s[4] % 64)
           IN  cp = (first - 55296) * 1024 + (second - 56320) + 65536

(* A number's text is read as the nearest number, or kept as it is, to its *)
(* end or not at all.                                                      *)
NumberRight(s, o) ==
  LET r == ParseJson(s, o)
      whole == D!ToDoubleWhole(s)
  IN  r # Throws =>
        IF o.parse_numbers_as_strings THEN r = <<Str(s)>>
        ELSE IF r[1].t = "int" THEN ToInteger(Int64, s) = <<r[1].n>>
        ELSE whole = <<r[1].d>>

(* Paths.  Resolving two paths with a dot between them is resolving one    *)
(* after the other; a path of one key finds what get() finds.              *)
ResolveRight(j, p, q) ==
  LET x == Resolve(j, p)
      keys == InternalSplit(<<Dot>>, p, FALSE)
  IN  /\ Resolve(j, p \o <<Dot>> \o q) =
           IF x = Throws THEN Throws ELSE Resolve(x[1], q)
      /\ Len(keys) = 1 /\ j.t = "object" =>
           Get(j, p, 9) = IF x = Throws THEN <<9>> ELSE AsInt(x[1])

=============================================================================
