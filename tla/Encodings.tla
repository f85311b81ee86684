----------------------------- MODULE Encodings ------------------------------
(***************************************************************************)
(* Words, bytes and names in another form: Bits.h, UTF-8, Base64,          *)
(* compression, paths and URIs.                                            *)
(***************************************************************************)
EXTENDS Conv

-----------------------------------------------------------------------------
(***************************************************************************)
(* Bits.h, on unsigned words of w bits.                                    *)
(***************************************************************************)

(* The compiler's ffs, clz, popcount and bswap.                            *)
SetBits(x, w) == {i \in 0 .. w - 1 : (x \div 2^i) % 2 = 1}
Ffs(x, w) == IF x = 0 THEN 0
             ELSE 1 + CHOOSE i \in SetBits(x, w) :
                        \A j \in SetBits(x, w) : i =< j
Clz(x, w) == w - 1 - CHOOSE i \in SetBits(x, w) :
                       \A j \in SetBits(x, w) : j =< i
Octets(x, n) == [i \in 1 .. n |-> (x \div 256^(i - 1)) % 256]
RECURSIVE FromOctets(_)
FromOctets(b) == IF b = <<>> THEN 0 ELSE Head(b) + 256 * FromOctets(Tail(b))

FindFirstSet(x, w) == Ffs(x, w)
FindLastSet(x, w) == IF x = 0 THEN 0 ELSE ((w - 1) ^^ Clz(x, w)) + 1
Popcount(x, w) == Cardinality(SetBits(x, w))

(* Shifting by the whole width is undefined: any word may come out.        *)
NextPowTwo(v, w) ==
  IF v = 0 THEN {1}
  ELSE LET n == FindLastSet(v - 1, w)
       IN  IF n = w THEN 0 .. 2^w - 1 ELSE {2^n}
IsPowTwo(v, w) == v # 0 /\ (v & (v - 1)) = 0

EndianSwap(x, n) ==
  FromOctets([i \in 1 .. n |-> Octets(x, n)[n + 1 - i]])
Big(x, n) == EndianSwap(x, n)

-----------------------------------------------------------------------------
(* The bit tricks agree with what they stand for, and the next power of    *)
(* two is the least one, as long as there is one.                          *)
BitOpsRight(x, w) ==
  LET n == w \div 8 IN
  /\ x # 0 => /\ 2^(FindLastSet(x, w) - 1) =< x
              /\ x < 2^FindLastSet(x, w)
              /\ x % 2^(FindFirstSet(x, w) - 1) = 0
              /\ x % 2^FindFirstSet(x, w) # 0
  /\ IsPowTwo(x, w) <=> Popcount(x, w) = 1
  /\ x =< 2^(w - 1) =>
       \E p \in NextPowTwo(x, w) :
         /\ NextPowTwo(x, w) = {p}
         /\ IsPowTwo(p, w)
         /\ x =< p
         /\ p > 1 => p \div 2 < x
  /\ Big(Big(x, n), n) = x
  /\ Octets(Big(x, n), n)[1] = x \div 256^(n - 1)

-----------------------------------------------------------------------------
(***************************************************************************)
(* UTF-8 (Unicode.cpp).  A byte string is a sequence of 0 .. 255.          *)
(***************************************************************************)

Cont(v) == 128 + (v % 64)

CodePointToUtf8(cp) ==
  IF cp =< 127 THEN <<cp>>
  ELSE IF cp =< 2047 THEN <<192 + cp \div 64, Cont(cp)>>
  ELSE IF cp =< 65535
    THEN <<224 + cp \div 4096, Cont(cp \div 64), Cont(cp)>>
  ELSE IF cp =< 1114111
    THEN <<240 + cp \div 262144, Cont(cp \div 4096), Cont(cp \div 64),
           Cont(cp)>>
  ELSE <<>>

Surrogates == 55296 .. 57343
Replacement == 65533

(* The number of bits that i + 1 bytes can encode.                         *)
BitMask == [i \in 0 .. 3 |-> <<7, 11, 16, 21>>[i + 1]]

(* Whether the first byte announces more than i + 1 bytes.                 *)
More(fst, i) == (fst \div 2^(6 - i)) % 2 = 1

(* What is wrong with i + 1 bytes that encode d.                           *)
Overlong(i, d) == i = 2 /\ (d \in Surrogates \/ d > 1114111)      \* mutant
Refused(i, d) ==
  \/ d < 2^BitMask[i - 1]
  \/ i = 2 /\ (d \in Surrogates \/ d > 1114111)

(* The loop over the continuation bytes of s, with d read so far: a code   *)
(* point and its length, or nothing.                                       *)
RECURSIVE Continue(_, _, _)
Continue(s, i, d) ==
  IF i = 3 \/ i >= Len(s) \/ s[i + 1] \div 64 # 2 THEN <<>>
  ELSE LET e == d * 64 + (s[i + 1] % 64)
           cp == e % 2^BitMask[i]
       IN  IF More(s[1], i) THEN Continue(s, i + 1, e)
           ELSE IF Refused(i, cp) THEN <<>> ELSE <<cp, i + 1>>

(* utf8ToCodePoint: the code point at the start of s and how far p moves,  *)
(* or nothing when it throws.                                              *)
Utf8ToCodePoint(s, skipOnError) ==
  LET found == IF s = <<>> THEN <<>>
               ELSE IF s[1] < 128 THEN <<s[1], 1>>
               ELSE IF s[1] < 192 THEN <<>>
               ELSE Continue(s, 1, s[1])
  IN  IF found = <<>> /\ skipOnError THEN <<Replacement, 1>> ELSE found

-----------------------------------------------------------------------------
(* Decoding the encoding of a code point gives it back, whatever follows.  *)
CodePointRight(cp, rest) ==
  cp \notin Surrogates =>
    \A skip \in BOOLEAN :
      LET s == CodePointToUtf8(cp)
      IN  Utf8ToCodePoint(s \o rest, skip) = <<cp, Len(s)>>

(* Of all byte strings, only encodings are decoded: no code point has a    *)
(* second, overlong form.  Skipping moves on by one byte, also at the end  *)
(* of the string.                                                          *)
BytesRight(s) ==
  LET r == Utf8ToCodePoint(s, FALSE)
      skipped == Utf8ToCodePoint(s, TRUE)
  IN  IF r = <<>> THEN skipped = <<Replacement, 1>>
      ELSE /\ skipped = r
           /\ r[1] \notin Surrogates
           /\ CodePointToUtf8(r[1]) = SubSeq(s, 1, r[2])

-----------------------------------------------------------------------------
(***************************************************************************)
(* base64Encode and base64Decode (Base64-inl.h).  A string is a sequence   *)
(* of character codes.                                                     *)
(***************************************************************************)

COMMON == 0
URI    == 1
Pad    == 61

Encode(i, mode) ==
  IF i = 62 THEN (IF mode = URI THEN 45 ELSE 43)
  ELSE IF i = 63 THEN (IF mode = URI THEN 95 ELSE 47)
  ELSE IF i < 26 THEN 65 + i
  ELSE IF i < 52 THEN 71 + i ELSE i - 4

(* kBase64DecTable, with -1 for a character to skip.                       *)
Decode(c) ==
  IF c \in {43, 45} THEN 62
  ELSE IF c \in {47, 95} THEN 63
  ELSE IF c \in 48 .. 57 THEN c + 4
  ELSE IF c \in 65 .. 90 THEN c - 65
  ELSE IF c \in 97 .. 122 THEN c - 71
  ELSE IF c = Pad THEN 0 ELSE -1

(* The unsigned int that shifts data through keeps WordBits low bits; the  *)
(* code's 32 and the 20 kept here are more than any step looks at.         *)
WordBits == 20
Shifted(word, bits, v) == (word * 2^bits + v) % 2^WordBits

(* Bytes in, sextets out, then padding.                                    *)
RECURSIVE Groups(_, _, _)
Groups(word, bits, mode) ==
  IF bits < 6 THEN <<>>
  ELSE <<Encode((word \div 2^(bits - 6)) % 64, mode)>>
       \o Groups(word, bits - 6, mode)

RECURSIVE EncodeFrom(_, _, _, _)
EncodeFrom(input, word, bits, mode) ==
  IF input # <<>>
  THEN LET w == Shifted(word, 8, Head(input))
       IN  Groups(w, bits + 8, mode)
           \o EncodeFrom(Tail(input), w, (bits + 8) % 6, mode)
  ELSE IF bits = 2 THEN <<Encode((word % 4) * 16, mode), Pad, Pad>>
  ELSE IF bits = 4 THEN <<Encode((word % 16) * 4, mode), Pad>>
  ELSE <<>>

Base64Encode(input, mode) == EncodeFrom(input, 0, 0, mode)
EncodedSize(n) == ((n + 2) \div 3) * 4

(* Sextets in, bytes out; what is no sextet is skipped, a pad ends.        *)
RECURSIVE DecodeFrom(_, _, _, _)
DecodeFrom(input, value, bits, out) ==
  IF input = <<>> THEN [out |-> out, ok |-> bits = 0]
  ELSE LET c == Head(input)
           w == Shifted(value, 6, Decode(c))
       IN  IF c = Pad THEN [out |-> out, ok |-> TRUE]
           ELSE IF c > 127 \/ Decode(c) = -1
             THEN DecodeFrom(Tail(input), value, bits, out)
           ELSE IF bits + 6 >= 8
             THEN DecodeFrom(Tail(input), w, bits - 2,
                             Append(out, (w \div 2^(bits - 2)) % 256))
             ELSE DecodeFrom(Tail(input), w, bits + 6, out)

Base64Decode(input) == DecodeFrom(input, 0, 0, <<>>)
DecodedSize(n) == ((n + 3) \div 4) * 3

-----------------------------------------------------------------------------
(* Decoding undoes encoding in either mode, also when other characters are *)
(* strewn in; neither writes past the output it was given.                 *)
Base64Right(s, mode, junk) ==
  LET e == Base64Encode(s, mode)
      d == Base64Decode(e)
  IN  /\ Len(e) = EncodedSize(Len(s))
      /\ d = [out |-> s, ok |-> TRUE]
      /\ \A i \in 0 .. Len(e) :
           Base64Decode(SubSeq(e, 1, i) \o <<junk>> \o SubSeq(e, i + 1, Len(e)))
             = d

(* Decoding any text stays within the output it was given.                 *)
DecodeFits(s) == Len(Base64Decode(s).out) =< DecodedSize(Len(s))

-----------------------------------------------------------------------------
(***************************************************************************)
(* accelerator/compression: ZlibStreamCompressor and -Decompressor, and    *)
(* the codecs.  zlib is outside: a coder that turns two bytes into one     *)
(* symbol, holds back what it need not give yet and stops where the room   *)
(* for its output ends.  A chain of IOBufs is a sequence of sequences.     *)
(***************************************************************************)

HEADER == <<100>>   \* symbols beside the data's
SYNC   == <<101>>
END    == <<102>>
Null   == <<>>      \* no IOBuf; a buffer is <<content>>
Garbage == <<99>>   \* what lies behind a buffer

Content(chain) == FlattenSeq(chain)
Behind(buf, n) == IF n =< Len(buf) THEN SubSeq(buf, n + 1, Len(buf))
                                   ELSE Garbage

-----------------------------------------------------------------------------
(* zlib *)

DeflateInit ==
  [held |-> <<>>, ready |-> <<HEADER>>, synced |-> TRUE, done |-> FALSE]
InflateInit == [owed |-> <<>>, begun |-> FALSE, done |-> FALSE]

Flushed(z, mark) ==
  [z EXCEPT !.held = <<>>, !.synced = TRUE, !.done = (mark = END),
            !.ready = (IF z.held = <<>> THEN <<>> ELSE <<z.held>>)
                      \o <<mark>>]

Taken(z, byte) ==
  IF z.held = <<>>
    THEN [z EXCEPT !.held = <<byte>>, !.synced = FALSE]
    ELSE [z EXCEPT !.held = <<>>, !.ready = <<Append(z.held, byte)>>]

(* deflate(): the coder, what is left of the input and of the room, the    *)
(* symbols written and the result.                                         *)
RECURSIVE Deflate(_, _, _, _, _)
Deflate(z, in, room, out, flush) ==
  CASE z.done /\ z.ready = <<>> ->
         [z |-> z, in |-> in, room |-> room, out |-> out,
          rc |-> IF flush = "finish" THEN "end" ELSE "stream error"]
    [] z.ready # <<>> /\ room = 0 ->
         [z |-> z, in |-> in, room |-> 0, out |-> out, rc |-> "ok"]
    [] z.ready # <<>> /\ room > 0 ->
         Deflate([z EXCEPT !.ready = Tail(@)], in, room - 1,
                 Append(out, Head(z.ready)), flush)
    [] ~z.done /\ z.ready = <<>> /\ in # <<>> ->
         Deflate(Taken(z, Head(in)), Tail(in), room, out, flush)
    [] ~z.done /\ z.ready = <<>> /\ in = <<>> ->
         IF flush = "finish" THEN Deflate(Flushed(z, END), in, room, out, flush)
         ELSE IF flush = "sync" /\ ~z.synced
           THEN Deflate(Flushed(z, SYNC), in, room, out, flush)
         ELSE [z |-> z, in |-> in, room |-> room, out |-> out, rc |-> "ok"]

(* inflate().                                                              *)
RECURSIVE InflateFrom(_, _, _, _)
InflateFrom(z, in, room, out) ==
  LET stop(rc) ==
        [z |-> z, in |-> in, room |-> room, out |-> out, rc |-> rc]
  IN  CASE z.done -> stop("end")
        [] ~z.done /\ z.owed # <<>> ->
             IF room = 0 THEN stop("ok")
             ELSE InflateFrom([z EXCEPT !.owed = Tail(@)], in, room - 1,
                              Append(out, Head(z.owed)))
        [] ~z.done /\ z.owed = <<>> /\ in = <<>> -> stop("ok")
        [] ~z.done /\ z.owed = <<>> /\ in # <<>> ->
             LET s == Head(in)
             IN  IF ~z.begun /\ s # HEADER THEN stop("data error")
                 ELSE InflateFrom(
                        [owed |-> IF s \in {HEADER, SYNC, END} THEN <<>>
                                                               ELSE s,
                         begun |-> TRUE, done |-> s = END],
                        Tail(in), room, out)

Inflate(z, in, room) ==
  LET r == InflateFrom(z, in, room, <<>>)
  IN  IF r.rc = "ok" /\ r.in = in /\ r.out = <<>>
        THEN [r EXCEPT !.rc = "buf error"] ELSE r

-----------------------------------------------------------------------------
(* ZlibStreamCompressor *)

(* Deflate as long as it fills the chunk that it is given.                 *)
RECURSIVE DeflateChunks(_, _, _, _)
DeflateChunks(z, in, flush, chunkSize) ==
  LET d == Deflate(z, in, chunkSize, <<>>, flush)
  IN  IF d.room > 0 THEN d
      ELSE LET e == DeflateChunks(d.z, d.in, flush, chunkSize)
           IN  [e EXCEPT !.out = d.out \o @]

(* The loop of compress(); at the end of the chain crtBuf is the head and  *)
(* offset still that of the last buffer.                                   *)
RECURSIVE CompressFrom(_, _, _, _, _, _, _)
CompressFrom(c, chain, crt, offset, trailer, chunkSize, out) ==
  LET over  == Len(chain[crt]) = offset
      crt2  == IF over THEN (crt % Len(chain)) + 1 ELSE crt
      flush == IF ~over \/ crt2 # 1 THEN "none"
               ELSE IF trailer THEN "finish" ELSE "sync"
      from  == IF over /\ crt2 # 1 THEN 0 ELSE offset
      in    == Behind(chain[crt2], from)
      d     == DeflateChunks(c.z, in, flush, chunkSize)
      to    == [z |-> d.z, status |-> d.rc]
  IN  IF c.status = "stream error" THEN [c |-> c, out |-> Null]
      ELSE IF flush # "none" THEN [c |-> to, out |-> <<out \o d.out>>]
      ELSE CompressFrom(to, chain, crt2, from + Len(in) - Len(d.in), trailer,
                        chunkSize, out \o d.out)

NewCompressor == [z |-> DeflateInit, status |-> "ok"]
StreamCompress(c, chain, trailer, chunkSize) ==
  CompressFrom(c, chain, 1, 0, trailer, chunkSize, <<>>)

-----------------------------------------------------------------------------
(* ZlibStreamDecompressor *)

Ensured(room, minsize, growth) ==   \* Appender::ensure
  IF room >= minsize THEN room
  ELSE IF growth > minsize THEN growth ELSE minsize

RECURSIVE DecompressFrom(_, _, _, _, _, _, _, _)
DecompressFrom(c, chain, crt, offset, room, minsize, growth, out) ==
  LET over == Len(chain[crt]) = offset
      crt2 == IF over THEN (crt % Len(chain)) + 1 ELSE crt
      from == IF over THEN 0 ELSE offset
      in   == Behind(chain[crt2], from)
      i    == Inflate(c.z, in, Ensured(room, minsize, growth))
      to   == [z |-> i.z, status |-> i.rc]
  IN  IF over /\ crt2 = 1 THEN [c |-> c, out |-> <<out>>]
      ELSE IF c.status = "end"
        THEN [c |-> [c EXCEPT !.status = "stream error"], out |-> Null]
      ELSE IF i.rc \notin {"ok", "end"} THEN [c |-> to, out |-> Null]
      ELSE DecompressFrom(to, chain, crt2, from + Len(in) - Len(i.in), i.room,
                          minsize, growth, out \o i.out)

NewDecompressor == [z |-> InflateInit, status |-> "ok"]
StreamDecompress(c, chain, minsize, growth) ==
  DecompressFrom(c, chain, 1, 0, growth, minsize, growth, <<>>)

-----------------------------------------------------------------------------
(* The codecs.  fine: no ACCCHECK failed; threw: an exception.             *)

Unknown == -1   \* UNKNOWN_UNCOMPRESSED_LENGTH

(* addOutputBuffer().                                                      *)
AddOutputBuffer(s, length) ==
  [s EXCEPT !.fine = @ /\ s.room = 0, !.room = length]
WithRoom(s, length) == IF s.room = 0 THEN AddOutputBuffer(s, length) ELSE s

Coding(z) == [z |-> z, room |-> 0, out |-> <<>>, fine |-> TRUE,
              threw |-> FALSE, end |-> FALSE]
Went(s, r) == [s EXCEPT !.z = r.z, !.room = r.room, !.out = @ \o r.out]

RECURSIVE DeflateStep(_, _, _)
DeflateStep(s, in, default) ==
  IF in = <<>> THEN s
  ELSE LET r == WithRoom(s, default)
           d == Deflate(r.z, in, r.room, <<>>, "none")
       IN  DeflateStep([Went(r, d) EXCEPT !.fine = @ /\ d.rc = "ok"],
                       d.in, default)

RECURSIVE DeflateRange(_, _, _, _)
DeflateRange(s, range, maxStep, default) ==
  IF range = <<>> THEN s
  ELSE LET step == IF Len(range) > maxStep THEN maxStep ELSE Len(range)
       IN  DeflateRange(DeflateStep(s, SubSeq(range, 1, step), default),
                        Behind(range, step), maxStep, default)

RECURSIVE DeflateFinish(_, _)
DeflateFinish(s, default) ==
  LET r == WithRoom(s, default)
      d == Deflate(r.z, <<>>, r.room, <<>>, "finish")
      t == Went(r, d)
  IN  IF d.rc = "ok" THEN DeflateFinish(t, default)
      ELSE [t EXCEPT !.fine = @ /\ d.rc = "end"]

DeflateBound(n) == n + 3

(* ZlibCodec::doCompress(); what is left of the last buffer is trimmed.    *)
DoCompress(data, maxStep, default) ==
  LET bound == DeflateBound(Len(Content(data)))
      first == AddOutputBuffer(Coding(DeflateInit),
                               IF bound =< maxStep THEN bound ELSE default)
      all   == FoldLeft(LAMBDA s, range :
                          DeflateRange(s, range, maxStep, default),
                        first, data)
  IN  DeflateFinish(all, default)

DoInflate(s, in, default) ==
  LET r == WithRoom(s, default)
      i == Inflate(r.z, in, r.room)
      t == Went(r, i)
  IN  [s |-> [t EXCEPT !.end = (i.rc = "end"),
                       !.threw = i.rc \notin {"ok", "end"}],
       in |-> i.in]

RECURSIVE InflateRange(_, _, _)
InflateRange(s, in, default) ==
  IF in = <<>> \/ s.threw THEN s
  ELSE IF s.end THEN [s EXCEPT !.threw = TRUE]   \* junk after end of data
  ELSE LET i == DoInflate(s, in, default)
       IN  InflateRange(i.s, i.in, default)

RECURSIVE InflateRest(_, _)
InflateRest(s, default) ==
  IF s.end \/ s.threw THEN s
  ELSE InflateRest(DoInflate(s, <<>>, default).s, default)

DoUncompress(data, length, maxStep, default) ==
  LET first == AddOutputBuffer(Coding(InflateInit),
                 IF length # Unknown /\ length =< maxStep THEN length
                                                          ELSE default)
      all   == FoldLeft(LAMBDA s, range : InflateRange(s, range, default),
                        first, data)
      s     == InflateRest(all, default)
  IN  IF ~s.threw /\ length # Unknown /\ length # Len(s.out)
        THEN [s EXCEPT !.threw = TRUE] ELSE s

Compress(data, maxStep, default) ==
  IF Content(data) = <<>> THEN Coding(DeflateInit)
  ELSE DoCompress(data, maxStep, default)

Uncompress(data, length, maxStep, default) ==
  IF Content(data) = <<>>
    THEN [Coding(InflateInit) EXCEPT !.threw = length \notin {Unknown, 0}]
    ELSE DoUncompress(data, length, maxStep, default)

-----------------------------------------------------------------------------

Cut(bytes, n) ==
  IF n > Len(bytes) THEN <<bytes>>
  ELSE <<SubSeq(bytes, 1, n), SubSeq(bytes, n + 1, Len(bytes))>>

(* What a codec compresses, however the chain is cut and whatever buffers  *)
(* it takes for the output, it uncompresses to the same bytes; it refuses  *)
(* a wrong length, data that is cut short and junk behind the end.         *)
CodecRight(data, n, maxStep, default) ==
  LET c == Compress(data, maxStep, default)
      length == Len(Content(data))
      back(bytes, l) == Uncompress(Cut(bytes, n), l, maxStep, default)
      refuses(bytes, l) == back(bytes, l).threw
  IN  /\ c.fine
      /\ \A l \in {Unknown, length} :
           LET u == back(c.out, l)
           IN  u.fine /\ ~u.threw /\ u.out = Content(data)
      /\ refuses(c.out, length + 1)
      /\ c.out # <<>> =>
           /\ length > 1 => refuses(c.out, length - 1)
           /\ \A k \in 1 .. Len(c.out) - 1 :
                refuses(SubSeq(c.out, 1, k), Unknown)
           /\ refuses(Append(c.out, END), Unknown)

(* The messages of one stream, each compressed by a call, are uncompressed *)
(* message by message, and the stream ends with the last.  compress() is   *)
(* given chains whose last buffer is as long as the first: it flushes with *)
(* that offset into the head.                                              *)
FlushesAtEnd(chain) == Len(chain[1]) = Len(chain[Len(chain)])
CompressedRight(first, second, n, chunkSize, minsize, growth) ==
  FlushesAtEnd(first) /\ FlushesAtEnd(second) =>
    LET c1 == StreamCompress(NewCompressor, first, FALSE, chunkSize)
        c2 == StreamCompress(c1.c, second, TRUE, chunkSize)
        cut(out) == IF n \in 1 .. Len(out[1]) - 1 THEN Cut(out[1], n) ELSE out
        d1 == StreamDecompress(NewDecompressor, cut(c1.out), minsize, growth)
        d2 == StreamDecompress(d1.c, cut(c2.out), minsize, growth)
        d3 == StreamDecompress(d2.c, <<<<END>>>>, minsize, growth)
    IN  /\ c1.out # Null /\ c2.out # Null /\ c2.c.status = "end"
        /\ d1.out = <<Content(first)>> /\ d1.c.status = "ok"
        /\ d2.out = <<Content(second)>> /\ d2.c.status = "end"
        /\ d3.out = Null

-----------------------------------------------------------------------------
(***************************************************************************)
(* Path (io/Path.cpp): the normal form of a path's text under appending.   *)
(* A string is a sequence of character codes; "" is the empty Path.        *)
(***************************************************************************)

Dot == <<46>>
DotDot == <<46, 46>>

IsAbsolute(path) == StartsWith(path, <<Slash>>)

RECURSIVE PopFront(_, _)
PopFront(q, p) == IF q # <<>> /\ Head(q) = p THEN PopFront(Tail(q), p) ELSE q

(* One name of the appended path.                                          *)
Walk(q, p) ==
  IF p = DotDot
  THEN IF q = <<>> \/ Last(q) = DotDot THEN Append(q, p) ELSE Front(q)
  ELSE IF p = Dot THEN q ELSE Append(q, p)

AppendPath(path, sp) ==
  LET split(s) == PopFront(InternalSplit(<<Slash>>, s, TRUE), Dot)
      q1 == IF IsAbsolute(sp) THEN <<>> ELSE split(path)
      q == FoldLeft(Walk, q1, split(sp))
  IN  IF sp = <<>> THEN path
      ELSE IF IsAbsolute(path) \/ IsAbsolute(sp)
        THEN <<Slash>> \o InternalJoin(<<Slash>>, PopFront(q, DotDot))
      ELSE IF q = <<>> THEN Dot
      ELSE InternalJoin(<<Slash>>, q)

NewPath(s) == AppendPath(<<>>, s)
Plus2(path, s) == NewPath(path \o s)
Parent(path) == AppendPath(path, DotDot)

Name(path) == Drop(path, RfindChar(path, Slash) + 1)

(* Where the extension of a name starts.                                   *)
ExtAt(s) ==
  LET p == RfindChar(s, 46)
  IN  IF s \in {Dot, DotDot} \/ p = npos \/ p = 0 \/ p + 1 = Len(s)
      THEN Len(s) ELSE p
Base(path) == First(Name(path), ExtAt(Name(path)))
Ext(path) == Drop(Name(path), ExtAt(Name(path)))
ReplaceExt(path, ext) == AppendPath(Parent(path), NewPath(Base(path) \o ext))

-----------------------------------------------------------------------------
(* A reference: how far up a path goes from where it starts, and the names *)
(* it goes down from there.                                                *)
RECURSIVE Meaning(_, _)
Meaning(names, m) ==
  IF names = <<>> THEN m
  ELSE LET n == Head(names)
       IN  Meaning(Tail(names),
                   IF n \in {<<>>, Dot} THEN m
                   ELSE IF n # DotDot THEN [m EXCEPT !.down = Append(@, n)]
                   ELSE IF m.down # <<>> THEN [m EXCEPT !.down = Front(@)]
                   ELSE IF m.root THEN m
                   ELSE [m EXCEPT !.up = @ + 1])
MeaningOf(s) ==
  Meaning(InternalSplit(<<Slash>>, s, FALSE),
          [root |-> IsAbsolute(s), up |-> 0, down |-> <<>>])

(* A path is kept in one normal form that means what its text meant;       *)
(* appending goes where the second path leads from the first; name, base   *)
(* and extension fit together, and changing the extension changes nothing  *)
(* else.                                                                   *)
PathRight(s, t) ==
  LET a == NewPath(s)
      b == NewPath(t)
  IN  /\ NewPath(a) = a
      /\ s # <<>> => MeaningOf(a) = MeaningOf(s)
      /\ s # <<>> /\ t # <<>> =>
           AppendPath(a, b) = NewPath(IF IsAbsolute(t) THEN t
                                      ELSE s \o <<Slash>> \o t)
      /\ a # <<>> /\ t # <<>> => MeaningOf(Plus2(a, t)) = MeaningOf(a \o t)
      /\ Base(a) \o Ext(a) = Name(a)
      /\ MeaningOf(a).down # <<>> =>
           /\ AppendPath(Parent(a), Name(a)) = a
           /\ ReplaceExt(a, Ext(a)) = a
           /\ LET c == ReplaceExt(a, <<46, 98>>)
              IN  Ext(c) = <<46, 98>> /\ Base(c) = Base(a)

-----------------------------------------------------------------------------
(***************************************************************************)
(* Uri (Uri.h, Uri.cpp).  The regular expressions are given by what they   *)
(* match; a match that fails is the empty sequence, as is a Uri whose      *)
(* constructor throws.                                                     *)
(***************************************************************************)

Colon == 58
At2 == 64
Query == 63
Hash == 35
Open == 91
Close == 93
Equals == 61
Amp == 38
Alpha == (65 .. 90) \cup (97 .. 122)
SchemeChar == Alpha \cup (48 .. 57) \cup {43, 45, 46}
Port16 == [signed |-> FALSE, bits |-> 16]

(* s up to the first of the characters cs, and the rest from it on.        *)
Until(s, cs) ==
  LET i == Least({j \in 0 .. Len(s) - 1 : At(s, j) \in cs})
  IN  IF i = npos THEN <<s, <<>>>> ELSE <<First(s, i), Drop(s, i)>>
Starts(s, c) == s # <<>> /\ s[1] = c

(* [host] or host, then nothing or a colon and digits.                     *)
HostPort(s) ==
  LET cut == IF Starts(s, Open)
             THEN LET u == Until(s, {Close})
                  IN  IF u[2] = <<>> THEN <<>>
                      ELSE <<Append(u[1], Close), Tail(u[2])>>
             ELSE Until(s, {Open, Colon})
      rest == cut[2]
  IN  IF cut = <<>> THEN <<>>
      ELSE IF rest = <<>> THEN <<[host |-> cut[1], port |-> <<>>]>>
      ELSE IF rest[1] = Colon /\ \A i \in 2 .. Len(rest) : IsDigit(rest[i])
        THEN <<[host |-> cut[1], port |-> Tail(rest)]>>
      ELSE <<>>

(* An optional user and password before the first @, then the host.        *)
Authority(s) ==
  LET at == Until(s, {At2})
      user == Until(at[1], {Colon})
      password == IF user[2] = <<>> THEN <<>> ELSE Tail(user[2])
      tail == IF at[2] = <<>> THEN <<>> ELSE HostPort(Tail(at[2]))
      bare == HostPort(s)
      with(h, u, p) == [host |-> h.host, port |-> h.port,
                        username |-> u, password |-> p]
  IN  IF tail # <<>> THEN <<with(tail[1], user[1], password)>>
      ELSE IF bare # <<>> THEN <<with(bare[1], <<>>, <<>>)>> ELSE <<>>

NewUri(s) ==
  LET scheme == Until(s, {Colon})
      path == Until(Tail(scheme[2]), {Query, Hash})
      query == IF Starts(path[2], Query)
               THEN Until(Tail(path[2]), {Hash}) ELSE <<<<>>, path[2]>>
      fragment == IF query[2] = <<>> THEN <<>> ELSE Tail(query[2])
      split == Until(Drop(path[1], 2), {Slash})
      auth == Authority(split[1])
      port == IF auth[1].port = <<>> THEN <<0>>
              ELSE ToInteger(Port16, auth[1].port)
      uri(has, u, n, p) ==
        <<[scheme |-> ToLowerAscii(scheme[1], 0), hasAuthority |-> has,
           username |-> u.username, password |-> u.password,
           host |-> u.host, port |-> n, path |-> p,
           query |-> query[1], fragment |-> fragment]>>
  IN  IF \/ scheme[2] = <<>> \/ scheme[1] = <<>>
         \/ scheme[1][1] \notin Alpha
         \/ \E i \in DOMAIN scheme[1] : scheme[1][i] \notin SchemeChar
      THEN <<>>
      ELSE IF ~StartsWith(path[1], <<Slash, Slash>>)
        THEN uri(FALSE, [username |-> <<>>, password |-> <<>>, host |-> <<>>],
                 0, path[1])
      ELSE IF auth = <<>> \/ port = RangeError THEN <<>>
      ELSE uri(TRUE, auth[1], port[1], split[2])

LOCAL Opt(mark, s) == IF s = <<>> THEN <<>> ELSE mark \o s
LOCAL PortText(u) == IF u.port = 0 THEN <<>> ELSE <<Colon>> \o ToAppend(u.port)

AuthorityText(u) ==
  (IF u.username = <<>> /\ u.password = <<>> THEN <<>>
   ELSE u.username \o Opt(<<Colon>>, u.password) \o <<At2>>)
  \o u.host \o PortText(u)

Str(u) ==
  u.scheme \o
  (IF u.hasAuthority
   THEN <<Colon, Slash, Slash>>
        \o (IF u.password # <<>>
            THEN u.username \o <<Colon>> \o u.password \o <<At2>>
            ELSE IF u.username # <<>> THEN Append(u.username, At2) ELSE <<>>)
        \o u.host \o PortText(u)
   ELSE <<Colon>>)
  \o u.path \o Opt(<<Query>>, u.query) \o Opt(<<Hash>>, u.fragment)

Hostname(u) == IF Starts(u.host, Open)
               THEN SubSeq(u.host, 2, Len(u.host) - 1) ELSE u.host

SetPort(u, port) == [u EXCEPT !.hasAuthority = TRUE, !.port = port]

(* The parameters between ampersands with a name and at most one = sign.   *)
GetQueryParams(u) ==
  LET params == InternalSplit(<<Amp>>, u.query, FALSE)
      signs(p) == {i \in DOMAIN p : p[i] = Equals}
      taken == SelectSeq(params,
                 LAMBDA p : /\ \A i, j \in signs(p) : i = j
                            /\ Until(p, {Equals})[1] # <<>>)
      pair(p) == LET c == Until(p, {Equals})
                 IN  <<c[1], IF c[2] = <<>> THEN <<>> ELSE Tail(c[2])>>
  IN  [i \in DOMAIN taken |-> pair(taken[i])]

-----------------------------------------------------------------------------
(* The text of a Uri is read back as the same Uri, unless an @ of the host *)
(* is taken for the end of an empty user's name; authority() is the part   *)
(* between the slashes; a host in brackets is a host without.              *)
UriRight(s) ==
  LET r == NewUri(s)
      u == r[1]
      again(v) == \/ NewUri(Str(v)) = <<v>>
                  \/ /\ v.username = <<>> /\ v.password = <<>>
                     /\ At2 \in {v.host[i] : i \in DOMAIN v.host}
  IN  r # <<>> =>
        /\ again(u)
        /\ again(SetPort(u, 80)) \/ ~u.hasAuthority
        /\ u.hasAuthority =>
             StartsWith(Str(u), u.scheme \o <<Colon, Slash, Slash>>
                                \o AuthorityText(u) \o u.path)
        /\ Until(Hostname(u), {Close})[2] = <<>> \/ ~Starts(u.host, Open)
        /\ \A i \in DOMAIN GetQueryParams(u) :
             LET p == GetQueryParams(u)[i]
             IN  /\ p[1] # <<>>
                 /\ \E j \in 0 .. Len(u.query) :
                      \/ StartsWith(Drop(u.query, j), p[1] \o <<Equals>> \o p[2])
                      \/ p[2] = <<>> /\ StartsWith(Drop(u.query, j), p[1])

=============================================================================
