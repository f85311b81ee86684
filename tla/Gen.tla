-------------------------------- MODULE Gen --------------------------------
(***************************************************************************)
(* The generators of gen/: a source pushes its values through the lambdas  *)
(* of the operators to a sink, until somebody asks it to stop.             *)
(*                                                                         *)
(* A generator is a tree of records: a source, or an operator "op" with    *)
(* the generator "of" it is composed with.  Run is apply() or foreach();   *)
(* a handler is the list of lambdas a value still has to go through, the   *)
(* nearest first and the sink last, with one local state for each.  A      *)
(* handler answers "more" (true), "stop" (false) or "throw".               *)
(*                                                                         *)
(* A value has a weight n, which predicates, keys and selectors look at,   *)
(* and parts: the values of a batch, tuple or group, or the target of a    *)
(* pointer.                                                                *)
(***************************************************************************)
EXTENDS Integers, FiniteSets, TLC, SequencesExt, Functions

CONSTANT Limit    \* how much of an infinite sequence its meaning lists

V(n)     == [n |-> n, parts |-> <<>>]
Weights(vs) == FoldLeft(LAMBDA a, v : a + v.n, 0, vs)
Whole(vs) == [n |-> Weights(vs), parts |-> vs]
Odd(v)   == v.n % 2 = 1
Double(v) == [v EXCEPT !.n = 2 * @]

RECURSIVE Call(_, _, _), Run(_, _, _, _), Feed(_, _, _), Count(_, _, _, _),
          Rounds(_, _, _, _)

Answer(ok, st) == [ok |-> ok, st |-> st]

(* The answer of the rest of the chain, behind a lambda with state s.      *)
Behind(s, r) == Answer(r.ok, <<s>> \o r.st)

(* The answer of a source whose handler had a lambda in front: without it. *)
Before(r) == Answer(r.ok, Tail(r.st))

-----------------------------------------------------------------------------
(* Sources.                                                                *)

(* The values of a container, range or group, one after the other.         *)
Feed(vs, k, st) ==
  IF vs = <<>>
    THEN Answer("more", st)
    ELSE LET r == Call(k, st, Head(vs))
         IN  IF r.ok = "more" THEN Feed(Tail(vs), k, r.st) ELSE r

GroupApply(g, k, st) == Feed(g.parts, k, st)

(* seq(first, last), range(begin, end), with a step, or without an end.    *)
Test(g, current) ==
  \/ g.impl = "infinite"
  \/ g.impl = "range" /\ current < g.end
  \/ g.impl = "seq" /\ current =< g.end

Count(g, current, k, st) ==
  IF ~Test(g, current)
    THEN Answer("more", st)
    ELSE LET r == Call(k, st, V(current))
         IN  IF r.ok = "more" THEN Count(g, current + g.step, k, r.st) ELSE r

(* A function that calls its argument with values: a stop leaves it at     *)
(* once, with an exception that apply() catches.                           *)
YieldApply(g, k, st) == Feed(g.vals, k, st)

(* empty() and just(value).                                                *)
SingleApply(g, k, st) ==
  IF g.vals = <<>> THEN Answer("more", st) ELSE Call(k, st, Head(g.vals))

-----------------------------------------------------------------------------
(* Operators: what the lambda h with state s does with a value v, before   *)
(* the handlers ks with states ss.                                         *)

MapValue(h, s, ks, ss, v) == Behind(s, Call(ks, ss, Double(v)))

FilterValue(h, s, ks, ss, v) ==
  IF Odd(v) THEN Behind(s, Call(ks, ss, v)) ELSE Answer("more", <<s>> \o ss)

(* The state is "cancelled": the handler, not the predicate, said stop.    *)
UntilValue(h, s, ks, ss, v) ==
  IF v.n >= h.at
    THEN Answer("stop", <<s>> \o ss)
    ELSE LET r == Call(ks, ss, v) IN Behind(r.ok = "stop", r)

UntilApply(g, k, st) ==
  LET r == Run(g.of, <<g>> \o k, <<FALSE>> \o st, FALSE)
      ok == IF Head(r.st) THEN "stop" ELSE "more"
  IN  Answer(IF r.ok = "throw" THEN "throw" ELSE ok, Tail(r.st))

(* The count is a size_t: below 0 stands for the largest values.           *)
TakeValue(h, s, ks, ss, v) ==
  LET r == Call(ks, ss, v)
      n == s.n - 1
  IN  CASE r.ok = "throw" -> Behind(s, r)
        [] r.ok = "stop"  -> Behind([s EXCEPT !.cancelled = TRUE], r)
        [] OTHER -> Answer(IF n = 0 THEN "stop" ELSE "more",
                           <<[s EXCEPT !.n = n]>> \o r.st)

TakeApplyStops(g, k, st) ==   \* mutant
  LET r == Run(g.of, <<g>> \o k, <<[n |-> g.count, cancelled |-> FALSE]>> \o st,
               FALSE)
  IN  Answer(r.ok, Tail(r.st))
TakeApply(g, k, st) ==
  IF g.count = 0
    THEN Answer("stop", st)
    ELSE LET s == [n |-> g.count, cancelled |-> FALSE]
             r == Run(g.of, <<g>> \o k, <<s>> \o st, FALSE)
             ok == IF Head(r.st).cancelled THEN "stop" ELSE "more"
         IN  Answer(IF r.ok = "throw" THEN "throw" ELSE ok, Tail(r.st))

StrideValue(h, s, ks, ss, v) ==
  IF s + 1 < h.stride
    THEN Answer("more", <<s + 1>> \o ss)
    ELSE LET r == Call(ks, ss, v)
         IN  Behind(IF r.ok = "more" THEN 0 ELSE s + 1, r)

SkipValue(h, s, ks, ss, v) ==
  IF s < h.count
    THEN Answer("more", <<s + 1>> \o ss)
    ELSE Behind(s, Call(ks, ss, v))

(* The values of g, for an operator that needs all of them first.          *)
Vals(g) == Run(g, <<[op |-> "collect"]>>, << <<>> >>, TRUE)

(* Reservoir sampling; draws[n] is what the random generator says to the   *)
(* n-th value.                                                             *)
Reservoir(g, vs) ==
  FoldLeft(LAMBDA v, n :
             IF Len(v) < g.count THEN Append(v, vs[n])
             ELSE LET index == g.draws[n] % n
                  IN  IF index < Len(v) THEN [v EXCEPT ![index + 1] = vs[n]]
                                        ELSE v,
           <<>>, [n \in 1 .. Len(vs) |-> n])

SampleApply(g, k, st) ==
  LET all == Vals(g.of) IN
  IF g.count = 0 THEN Answer("stop", st)
  ELSE IF all.ok = "throw" THEN Answer("throw", st)
  ELSE Feed(Reservoir(g, all.st[1]), k, st)

(* make_heap and pop_heap, or sort: the lightest value first.              *)
RECURSIVE Ordered(_)
Ordered(vs) ==
  IF vs = <<>> THEN <<>>
  ELSE LET i == CHOOSE i \in DOMAIN vs :
                  \A j \in DOMAIN vs :
                    vs[i].n < vs[j].n \/ (vs[i].n = vs[j].n /\ i =< j)
       IN  <<vs[i]>> \o Ordered(RemoveAt(vs, i))

OrderApply(g, k, st) ==
  LET all == Vals(g.of) IN
  IF all.ok = "throw" THEN Answer("throw", st)
                      ELSE Feed(Ordered(all.st[1]), k, st)

(* The values of one parity each; the order of the groups in the           *)
(* unordered_map is taken to be that of their first values.                *)
Groups(vs) ==
  LET push(gs, v) ==
        LET same == {i \in DOMAIN gs : Odd(gs[i][1]) = Odd(v)}
        IN  IF same = {} THEN Append(gs, <<v>>)
            ELSE LET i == CHOOSE i \in same : TRUE
                 IN  [gs EXCEPT ![i] = Append(@, v)]
      gs == FoldLeft(push, <<>>, vs)
  IN  [i \in DOMAIN gs |-> Whole(gs[i])]

GroupByApply(g, k, st) ==
  LET all == Vals(g.of) IN
  IF all.ok = "throw" THEN Answer("throw", st)
                      ELSE Feed(Groups(all.st[1]), k, st)

(* The state is the set of keys seen.                                      *)
DistinctValue(h, s, ks, ss, v) ==
  IF v.n \in s THEN Answer("more", <<s>> \o ss)
               ELSE Behind(s \cup {v.n}, Call(ks, ss, v))

(* The state is the batch that fills.                                      *)
BatchValue(h, s, ks, ss, v) ==
  LET batch == Append(s, v) IN
  IF Len(batch) = h.size
    THEN Behind(<<>>, Call(ks, ss, Whole(batch)))
    ELSE Answer("more", <<batch>> \o ss)

BatchApply(g, k, st) ==
  LET r == Run(g.of, <<g>> \o k, << <<>> >> \o st, FALSE)
      batch == Head(r.st)
  IN  IF r.ok = "more" /\ batch # <<>>
        THEN Call(k, Tail(r.st), Whole(batch))
        ELSE Before(r)

(* concat: the value is a generator.                                       *)
ConcatValue(h, s, ks, ss, v) == Behind(s, GroupApply(v, ks, ss))

(* rconcat: the value is a range.                                          *)
RangeConcatValue(h, s, ks, ss, v) == Behind(s, Feed(v.parts, ks, ss))

(* The error handler answers for a handler that throws.                    *)
GuardValue(h, s, ks, ss, v) ==
  LET r == Call(ks, ss, v)
  IN  Behind(s, Answer(IF r.ok = "throw" THEN h.onError ELSE "more", r.st))

DereferenceValue(h, s, ks, ss, v) ==
  IF v.parts # <<>>
    THEN Behind(s, Call(ks, ss, v.parts[1]))
    ELSE Answer("more", <<s>> \o ss)

IndirectValue(h, s, ks, ss, v) == Behind(s, Call(ks, ss, Whole(<<v>>)))

(* The state is "cont", the handler's last answer.                         *)
CycleValue(h, s, ks, ss, v) ==
  LET r == Call(ks, ss, v) IN Behind(r.ok = "more", r)

(* The rounds from count on; a limit below 0 stands for forever.           *)
Rounds(g, count, k, st) ==
  IF count = g.limit
    THEN Answer("more", st)
    ELSE LET r == Run(g.of, <<g>> \o k, <<FALSE>> \o st, FALSE)
         IN  IF r.ok = "throw" THEN Before(r)
             ELSE IF ~Head(r.st) THEN Answer("stop", Tail(r.st))
             ELSE Rounds(g, count + 1, k, Tail(r.st))

(* The state of interleave and zip is the position in the container.       *)
InterleaveValue(h, s, ks, ss, v) ==
  IF s > Len(h.with)
    THEN Answer("stop", <<s>> \o ss)
    ELSE LET r == Call(ks, ss, v) IN
         IF r.ok # "more" THEN Behind(s, r)
         ELSE LET q == Call(ks, r.st, h.with[s])
              IN  Behind(IF q.ok = "more" THEN s + 1 ELSE s, q)

ZipValue(h, s, ks, ss, v) ==
  IF s > Len(h.with)
    THEN Answer("stop", <<s>> \o ss)
    ELSE LET r == Call(ks, ss, Whole(<<v, h.with[s]>>))
         IN  Behind(IF r.ok = "more" THEN s + 1 ELSE s, r)

(* A VirtualGen calls what it wraps.                                       *)
VirtualApply(g, k, st, each) == Run(g.of, k, st, each)

(* gen + gen.                                                              *)
ChainApply(g, k, st, each) ==
  LET r == Run(g.of, k, st, each)
  IN  IF r.ok = "more" \/ (each /\ r.ok # "throw")
        THEN Run(g.second, k, r.st, each)
        ELSE r
-----------------------------------------------------------------------------
(* Sinks: the last handler.  The state is what it has made of the values   *)
(* so far; an Optional is a sequence of at most one value.                 *)

FoldValue(s, v)  == Answer("more", <<s + v.n>>)
CountValue(s, v) == Answer("more", <<s + 1>>)
SumValue(s, v)   == FoldValue(s, v)
FirstValue(s, v) == Answer("stop", << <<v>> >>)
IsEmptyValue(s, v) == Answer("stop", <<FALSE>>)

(* reduce by the heavier of the two values.                                *)
ReduceValue(s, v) ==
  Answer("more", <<IF s = <<>> \/ v.n > s[1].n THEN <<v>> ELSE s>>)

(* contains() answers true when its apply() was stopped.                   *)
ContainsValue(h, s, v) ==
  Answer(IF v.n = h.needle THEN "stop" ELSE "more", <<s>>)

MinValue(s, v) ==
  Answer("more", <<IF s = <<>> \/ v.n < s[1].n THEN <<v>> ELSE s>>)

AppendValue(s, v)  == Answer("more", <<Append(s, v)>>)
CollectValue(s, v) == Answer("more", <<Append(s, v)>>)

(* A caller's lambda, which has enough with its k-th value (never, for 0)  *)
(* and throws at values of weight "bad".                                   *)
UserValue(h, s, v) ==
  IF v.n = h.bad THEN Answer("throw", <<s>>)
  ELSE Answer(IF Len(s) + 1 = h.k THEN "stop" ELSE "more", <<Append(s, v)>>)

SinkValue(h, s, v) ==
  CASE h.op = "user"     -> UserValue(h, s, v)
    [] h.op = "collect"  -> CollectValue(s, v)
    [] h.op = "append"   -> AppendValue(s, v)
    [] h.op = "sum"      -> SumValue(s, v)
    [] h.op = "count"    -> CountValue(s, v)
    [] h.op = "first"    -> FirstValue(s, v)
    [] h.op = "isEmpty"  -> IsEmptyValue(s, v)
    [] h.op = "reduce"   -> ReduceValue(s, v)
    [] h.op = "contains" -> ContainsValue(h, s, v)
    [] h.op = "min"      -> MinValue(s, v)

(* The sinks with a lambda that returns bool, which call apply().          *)
Stops(h) == h.op \in {"first", "isEmpty", "contains"}
              \/ (h.op = "user" /\ h.k > 0)

SinkStart(h) ==
  CASE h.op \in {"sum", "count"} -> 0
    [] h.op = "isEmpty" -> TRUE
    [] OTHER -> <<>>

(* gen | op, and gen | (first | second).                                   *)
With(g, op) == op @@ [of |-> g]
Composed(g, first, second) == With(With(g, first), second)

(* gen | sink.                                                             *)
Compose(g, h) ==
  LET r == Run(g, <<h>>, <<SinkStart(h)>>, ~Stops(h))
  IN  [ok |-> r.ok,
       result |-> IF h.op = "contains" THEN r.ok = "stop" ELSE r.st[1]]

(* The unwrap and unwrapOr of an Optional result.                          *)
UnwrapOr(opt, fallback) == IF opt = <<>> THEN fallback ELSE opt[1]

-----------------------------------------------------------------------------
(* A value reaches the nearest lambda.                                     *)
Call(k, st, v) ==
  LET h == Head(k)  s == Head(st)  ks == Tail(k)  ss == Tail(st) IN
  IF ks = <<>> THEN SinkValue(h, s, v) ELSE
  CASE h.op = "map"      -> MapValue(h, s, ks, ss, v)
    [] h.op = "filter"   -> FilterValue(h, s, ks, ss, v)
    [] h.op = "until"    -> UntilValue(h, s, ks, ss, v)
    [] h.op = "take"     -> TakeValue(h, s, ks, ss, v)
    [] h.op = "stride"   -> StrideValue(h, s, ks, ss, v)
    [] h.op = "skip"     -> SkipValue(h, s, ks, ss, v)
    [] h.op = "distinct" -> DistinctValue(h, s, ks, ss, v)
    [] h.op = "batch"    -> BatchValue(h, s, ks, ss, v)
    [] h.op = "concat"   -> ConcatValue(h, s, ks, ss, v)
    [] h.op = "rconcat"  -> RangeConcatValue(h, s, ks, ss, v)
    [] h.op = "guard"    -> GuardValue(h, s, ks, ss, v)
    [] h.op = "dereference" -> DereferenceValue(h, s, ks, ss, v)
    [] h.op = "indirect" -> IndirectValue(h, s, ks, ss, v)
    [] h.op = "cycle"    -> CycleValue(h, s, ks, ss, v)
    [] h.op = "interleave" -> InterleaveValue(h, s, ks, ss, v)
    [] h.op = "zip"      -> ZipValue(h, s, ks, ss, v)

(* The operators that have no foreach() inherit one from GenImpl, which    *)
(* calls apply() and drops its answer.                                     *)
Inherits(g) ==
  g.op \in {"until", "take", "sample", "groupBy", "batch", "guard", "cycle",
            "interleave", "zip"}

(* The lambda of an operator that only wraps the handler, with its first   *)
(* state.                                                                  *)
Wrap(g, k, st, each) ==
  LET s == CASE g.op = "stride"   -> g.stride
             [] g.op = "distinct" -> {}
             [] g.op \in {"interleave", "zip"} -> 1
             [] OTHER -> 0
  IN  Before(Run(g.of, <<g>> \o k, <<s>> \o st, each))

(* apply(), or foreach() when "each".                                      *)
Run(g, k, st, each) ==
  LET r == CASE g.op = "from"    -> Feed(g.vals, k, st)
             [] g.op = "seq"     -> Count(g, g.start, k, st)
             [] g.op = "yield"   -> YieldApply(g, k, st)
             [] g.op = "single"  -> SingleApply(g, k, st)
             [] g.op = "chain"   -> ChainApply(g, k, st, each)
             [] g.op = "virtual" -> VirtualApply(g, k, st, each)
             [] g.op = "until"   -> UntilApply(g, k, st)
             [] g.op = "take"    -> TakeApply(g, k, st)
             [] g.op = "sample"  -> SampleApply(g, k, st)
             [] g.op = "order"   -> OrderApply(g, k, st)
             [] g.op = "groupBy" -> GroupByApply(g, k, st)
             [] g.op = "batch"   -> BatchApply(g, k, st)
             [] g.op = "cycle"   -> Rounds(g, 0, k, st)
             [] OTHER -> Wrap(g, k, st, each /\ ~Inherits(g))
  IN  IF each /\ Inherits(g) /\ r.ok = "stop" THEN Answer("more", r.st)
                                             ELSE r
-----------------------------------------------------------------------------
(* What a generator stands for: the sequence of its values, of an infinite *)
(* one the first Limit.                                                    *)

Min2(a, b) == IF a < b THEN a ELSE b
Upto(vs, n) == SubSeq(vs, 1, Min2(n, Len(vs)))
From(vs, i) == SubSeq(vs, i, Len(vs))

(* The values before the first that has the property.                      *)
Until(vs, P(_)) ==
  LET hits == {i \in DOMAIN vs : P(vs[i])}
  IN  IF hits = {} THEN vs
      ELSE SubSeq(vs, 1, (CHOOSE i \in hits : \A j \in hits : i =< j) - 1)

Every(vs, n) ==
  [i \in 1 .. (Len(vs) + n - 1) \div n |-> vs[(i - 1) * n + 1]]

Chunks(vs, n) ==
  [i \in 1 .. (Len(vs) + n - 1) \div n |->
     Whole(SubSeq(vs, (i - 1) * n + 1, Min2(i * n, Len(vs))))]

Sorted(vs) ==
  FlattenSeq([w \in 1 .. 1 + Weights(vs) |->
                SelectSeq(vs, LAMBDA v : v.n = w - 1)])

ByParity(vs) ==
  IF vs = <<>> THEN <<>>
  ELSE LET same  == SelectSeq(vs, LAMBDA v : Odd(v) = Odd(vs[1]))
           other == SelectSeq(vs, LAMBDA v : Odd(v) # Odd(vs[1]))
       IN  <<Whole(same)>> \o IF other = <<>> THEN <<>> ELSE <<Whole(other)>>

FirstOfEach(vs) ==
  LET new(i) == \A j \in 1 .. i - 1 : vs[j].n # vs[i].n
      at == SelectSeq([i \in DOMAIN vs |-> i], new)
  IN  [i \in DOMAIN at |-> vs[at[i]]]

RECURSIVE Values(_)
Values(g) ==
  IF g.op \in {"from", "yield", "single"} THEN g.vals
  ELSE IF g.op = "seq" THEN
    LET n == Cardinality({i \in 0 .. Limit - 1 : Test(g, g.start + g.step * i)})
    IN  [i \in 1 .. n |-> V(g.start + g.step * (i - 1))]
  ELSE
  LET vs == Values(g.of)
      n == Len(vs)
      m == IF g.op \in {"zip", "interleave"} THEN Min2(n, Len(g.with)) ELSE 0
  IN
  CASE g.op = "map"      -> [i \in 1 .. n |-> Double(vs[i])]
    [] g.op = "filter"   -> SelectSeq(vs, Odd)
    [] g.op = "until"    -> Until(vs, LAMBDA v : v.n >= g.at)
    [] g.op = "take"     -> Upto(vs, g.count)
    [] g.op = "stride"   -> Every(vs, g.stride)
    [] g.op = "skip"     -> From(vs, g.count + 1)
    [] g.op = "sample"   -> Reservoir(g, vs)
    [] g.op = "order"    -> Sorted(vs)
    [] g.op = "groupBy"  -> ByParity(vs)
    [] g.op = "distinct" -> FirstOfEach(vs)
    [] g.op = "batch"    -> Chunks(vs, g.size)
    [] g.op \in {"concat", "rconcat"} ->
         FlattenSeq([i \in 1 .. n |-> vs[i].parts])
    [] g.op = "dereference" ->
         FlattenSeq([i \in 1 .. n |-> Upto(vs[i].parts, 1)])
    [] g.op = "indirect" -> [i \in 1 .. n |-> Whole(<<vs[i]>>)]
    [] g.op = "cycle"    ->
         IF g.limit >= 0 THEN FlattenSeq([i \in 1 .. g.limit |-> vs])
         ELSE Upto(FlattenSeq([i \in 1 .. Limit |-> vs]), Limit)
    [] g.op = "interleave" ->
         [i \in 1 .. 2 * m |-> IF i % 2 = 1 THEN vs[(i + 1) \div 2]
                                            ELSE g.with[i \div 2]]
    [] g.op = "zip"      -> [i \in 1 .. m |-> Whole(<<vs[i], g.with[i]>>)]
    [] g.op = "chain"    -> vs \o Values(g.second)
    [] g.op \in {"virtual", "guard"} -> vs

(* The types' own idea of an endless generator.                            *)
RECURSIVE Infinite(_), Ends(_)
Infinite(g) ==
  CASE g.op = "seq" -> g.impl = "infinite"
    [] g.op = "cycle" -> g.limit < 0 \/ Infinite(g.of)
    [] g.op = "chain" -> Infinite(g.of) \/ Infinite(g.second)
    [] g.op \in {"from", "yield", "single", "until", "take", "sample",
                 "order", "groupBy", "interleave", "zip"} -> FALSE
    [] OTHER -> Infinite(g.of)

(* A pipeline that compiles, and comes to an end once its handler says so: *)
(* only an operator that gets what it waits for ends an endless source.    *)
Ends(g) ==
  g.op \in {"from", "yield", "single", "seq"} \/
  /\ Ends(g.of)
  /\ Infinite(g.of) =>
       CASE g.op \in {"sample", "order", "groupBy", "chain"} -> FALSE
         [] g.op = "take" -> Len(Values(g.of)) >= g.count
         [] g.op = "until" -> \E v \in Range(Values(g.of)) : v.n >= g.at
         [] g.op \in {"interleave", "zip"} ->
              Len(Values(g.of)) > Len(g.with)
         [] OTHER -> TRUE

Allowed(g, h) ==
  /\ Ends(g)
  /\ Infinite(g) =>
       \/ h.op = "first" /\ Values(g) # <<>>
       \/ h.op = "user" /\ h.k \in 1 .. Len(Values(g))

(* apply() may answer false although no handler did: take(0), and zip and  *)
(* interleave with a container that is too short, and a cycle of nothing.  *)
RECURSIVE Breaks(_), Lossy(_)
Breaks(g) ==
  CASE g.op = "take" -> g.count = 0
    [] g.op \in {"zip", "interleave"} ->
         Len(g.with) < Len(Values(g.of)) \/ Breaks(g.of)
    [] g.op = "cycle" -> g.limit # 0 /\ Values(g.of) = <<>>
    [] g.op = "chain" -> Breaks(g.of) \/ Breaks(g.second)
    [] g.op \in {"from", "yield", "single", "seq", "until", "sample",
                 "order", "groupBy"} -> FALSE
    [] OTHER -> Breaks(g.of)

(* That answer reaches an operator that trusts it: a chain does not go on, *)
(* a batch does not send its last values.                                  *)
Lossy(g) ==
  \/ g.op \in {"chain", "batch"} /\ Breaks(g.of)
  \/ g.op \notin {"from", "yield", "single", "seq"} /\ Lossy(g.of)

(* What a sink makes of a sequence of values.                              *)
Meaning(vs, h) ==
  LET heavier == {v \in Range(vs) : \A w \in Range(vs) : w.n =< v.n}
      lighter == {v \in Range(vs) : \A w \in Range(vs) : v.n =< w.n}
      good == Until(vs, LAMBDA v : v.n = h.bad)
  IN
  CASE h.op \in {"collect", "append"} -> vs
    [] h.op = "user" -> IF h.k = 0 THEN good ELSE Upto(good, h.k)
    [] h.op = "sum" -> Weights(vs)
    [] h.op = "count" -> Len(vs)
    [] h.op = "first" -> Upto(vs, 1)
    [] h.op = "isEmpty" -> vs = <<>>
    [] h.op = "contains" -> \E v \in Range(vs) : v.n = h.needle
    [] h.op = "reduce" -> Upto(SelectSeq(vs, LAMBDA v : v \in heavier), 1)
    [] h.op = "min" -> Upto(SelectSeq(vs, LAMBDA v : v \in lighter), 1)

(* A pipeline gives its sink the values it stands for, in their order, as  *)
(* far as the sink wants them and up to an exception, unless an operator   *)
(* trusts a false answer that nobody gave.                                 *)
PipelineRight(g, h) ==
  ~Lossy(g) /\ ~(h.op = "contains" /\ Breaks(g)) =>
    LET got == Compose(g, h).result
    IN  /\ got = Meaning(Values(g), h)
        /\ h.op \in {"first", "reduce", "min"} =>
             UnwrapOr(got, V(9)) \in
               IF Values(g) = <<>> THEN {V(9)} ELSE Range(Values(g))

(* A guard between a pipeline and its sink: the error handler decides      *)
(* whether values after the one that threw still arrive.                   *)
GuardRight(g, h) ==
  \A onError \in {"more", "stop", "throw"} :
    LET r == Compose(With(g, [op |-> "guard", onError |-> onError]), h)
        vs == Values(g)
    IN  h.op = "user" /\ h.k = 0 /\ ~Lossy(g) =>
          /\ r.result = IF onError = "more"
                          THEN SelectSeq(vs, LAMBDA v : v.n # h.bad)
                          ELSE Until(vs, LAMBDA v : v.n = h.bad)
          /\ r.ok = "throw" <=>
               onError = "throw" /\ \E v \in Range(vs) : v.n = h.bad

(* Every value of the source is as likely as every other to be sampled,    *)
(* when every draw is.                                                     *)
SampleFair(vs, count) ==
  LET draws == {d \in [DOMAIN vs -> 0 .. Len(vs) - 1] :
                  \A n \in DOMAIN vs : d[n] < n}
      hits(v) == {d \in draws :
        v \in Range(Reservoir([count |-> count, draws |-> d], vs))}
  IN  \A v, w \in Range(vs) : Cardinality(hits(v)) = Cardinality(hits(w))
=============================================================================
