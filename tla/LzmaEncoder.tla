---------------------------- MODULE LzmaEncoder -----------------------------
(* The encoder around the parser (LzmaEnc.c) and the LZMA2 stream made with  *)
(* it (Lzma2Enc.c): blocks that reset the dictionary, cut into chunks, each  *)
(* packed or, where packing does not pay, copied.  A decoder reads along.    *)
EXTENDS LzHash, FiniteSets

-----------------------------------------------------------------------------
(* How the LZMA encoder cuts its input into literals and matches             *)
(* (LzmaEnc.c): GetOptimum, a dynamic program over prices whose table stays  *)
(* from one call to the next and doubles as the plan the encoder then        *)
(* follows, and GetOptimumFast, which looks one position ahead.  The prices  *)
(* are abstract: a price is some number for what it depends on.              *)

MarkLit == -1
kInfinityPrice == 10000

kLiteralNextStates == <<0, 0, 0, 0, 1, 2, 3, 4, 5, 6, 4, 5>>
LitNext(s) == kLiteralNextStates[s + 1]
kState_LitAfterMatch == 4
kState_LitAfterRep == 5
kState_MatchAfterLit == 7
kState_RepAfterLit == 8
MatchNext(s) == IF s < 7 THEN 7 ELSE 10
RepNext(s) == IF s < 7 THEN 8 ELSE 11
ShortRepNext(s) == IF s < 7 THEN 9 ELSE 11
(* The distances after a repeated one (dist < 4) or a new one.               *)
Front(reps, dist) ==
  CASE dist = 0 -> reps
    [] dist = 1 -> <<reps[2], reps[1], reps[3], reps[4]>>
    [] dist = 2 -> <<reps[3], reps[1], reps[2], reps[4]>>
    [] dist = 3 -> <<reps[4], reps[1], reps[2], reps[3]>>
    [] OTHER -> <<dist - 3, reps[1], reps[2], reps[3]>>

(* Prices.  e.seed stands for what the probabilities have become.            *)
Fee(e, kind, bit, a, b) ==
  1 + ((e.seed * (kind * 61 + bit * 29 + a * 7 + b * 3 + 5)) % 17)
MatchBit(e, bit, s, q) == Fee(e, 1, bit, s, q % 2)
RepBit(e, bit, s) == Fee(e, 2, bit, s, 0)
RepG0(e, bit, s) == Fee(e, 3, bit, s, 0)
RepG1(e, bit, s) == Fee(e, 4, bit, s, 0)
RepG2(e, bit, s) == Fee(e, 5, bit, s, 0)
LongBit(e, bit, s, q) == Fee(e, 6, bit, s, q % 2)
Src(e, q) == e.data[q + 1]
LitContext(e, q) == 2 * (q % 2) + (IF q = 0 THEN 0 ELSE Src(e, q - 1))
LitPrice(e, q, s, r) ==
  IF s < 7 THEN Fee(e, 7, Src(e, q), LitContext(e, q), 0)
  ELSE Fee(e, 8, Src(e, q), LitContext(e, q), Src(e, q - r))
LenPrice(e, rep, q, len) == Fee(e, 9, rep, len, q % 2)
DistPrice(e, len, dist) == Fee(e, 10, 0, Lower(len - 2, 3), dist)
ShortRepPrice(e, s, q) == RepG0(e, 0, s) + LongBit(e, 0, s, q)
PureRepPrice(e, i, s, q) ==
  CASE i = 0 -> RepG0(e, 0, s) + LongBit(e, 1, s, q)
    [] i = 1 -> RepG0(e, 1, s) + RepG1(e, 0, s)
    [] OTHER -> RepG0(e, 1, s) + RepG1(e, 1, s) + RepG2(e, i - 2, s)
Rep0Price(e, s, q) ==
  MatchBit(e, 1, s, q) + RepBit(e, 1, s) + RepG0(e, 0, s) + LongBit(e, 1, s, q)

(* The finder, as far as it is used here: the nearest match of every length, *)
(* or only the longest, or none, with distances counted from 0.              *)
NearestOf(e, q, len) ==
  {d \in 1 .. Lower(q, e.dict) : IsMatch(e.data, q + 1, len, d)}
Nearest(e, q, len) ==
  CHOOSE d \in NearestOf(e, q, len) : \A d2 \in NearestOf(e, q, len) : d <= d2
FinderPairs(e, q) ==
  LET lens == {n \in 2 .. Lower(e.fast, Len(e.data) - q) : NearestOf(e, q, n) # {}}
      all == [n \in lens |-> Nearest(e, q, n)]
      kept == {n \in lens : n + 1 \notin lens \/ (e.finder = "full" /\ all[n + 1] # all[n])}
  IN  IF e.finder = "none" THEN << >>
      ELSE [i \in 1 .. Cardinality(kept) |->
             LET n == CHOOSE n \in kept : Cardinality({k \in kept : k <= n}) = i
             IN  <<n, all[n] - 1>>]
LastOf(pairs) == pairs[Len(pairs)]

(* How far the bytes at q, from the from-th on, repeat those r before.       *)
Equals(e, q, r) == Src(e, q) = Src(e, q - r)
RunTo(e, q, r, from, limit) ==
  CHOOSE n \in from .. limit :
    /\ \A i \in from .. n - 1 : Equals(e, q + i, r)
    /\ n = limit \/ ~Equals(e, q + n, r)
TwoEqual(e, q, r) == Equals(e, q, r) /\ Equals(e, q + 1, r)
RepLen(e, q, r, limit) == IF TwoEqual(e, q, r) THEN RunTo(e, q, r, 2, limit) ELSE 0

(* ReadMatchDistances, and MOVE_POS.  A match as long as the finder looks    *)
(* is extended.                                                              *)
ReadMatchDistances(e) ==
  LET q == e.pos + e.ahead
      pairs == FinderPairs(e, q)
      avail == Len(e.data) - q
      main == IF pairs = << >> THEN 0
              ELSE IF LastOf(pairs)[1] # e.fast THEN LastOf(pairs)[1]
              ELSE RunTo(e, q, LastOf(pairs)[2] + 1, e.fast, Lower(avail, e.lenMax))
  IN  [e EXCEPT !.ahead = @ + 1, !.avail = avail, !.matches = pairs, !.main = main]
MovePosBy(e, n) == [e EXCEPT !.ahead = @ + n]
Chosen(e, back, len) == [e EXCEPT !.back = back, !.len = len]

(* The table of prices.  An offer takes a cell if it is cheaper than what    *)
(* the cell holds; of equal ones the first.                                  *)
Offer(at, price, len, dist, extra) ==
  [at |-> at, price |-> price, len |-> len, dist |-> dist, extra |-> extra]
Accept(opt, offers) ==
  [k \in DOMAIN opt |->
    LET for == {i \in DOMAIN offers : offers[i].at = k /\ offers[i].price < opt[k].price}
        best == offers[CHOOSE i \in for : \A j \in for :
                  \/ offers[i].price < offers[j].price
                  \/ offers[i].price = offers[j].price /\ i <= j]
    IN  IF for = {} THEN opt[k]
        ELSE [opt[k] EXCEPT !.price = best.price, !.len = best.len,
                            !.dist = best.dist, !.extra = best.extra]]
MaxOf(a, b) == IF a < b THEN b ELSE a
RECURSIVE LastOffer(_, _)
LastOffer(last, offers) ==
  IF offers = << >> THEN last ELSE LastOffer(MaxOf(last, Head(offers).at), Tail(offers))

(* A match of len bytes at q, then a literal, then the same distance again:  *)
(* the length of the last two, 0 if they do not fit.                         *)
Again(e, q, r, len, full) ==
  LET limit == Lower(len + 1 + e.fast, full)
  IN  IF len + 3 <= limit /\ TwoEqual(e, q + len + 1, r)
      THEN RunTo(e, q, r, len + 3, limit) - len ELSE 0
AgainOffers(e, cur, q, r, len, full, s, after, price, dist) ==
  LET n == Again(e, q, r, len, full)
      total == price + MatchBit(e, 0, s, q + len) + LitPrice(e, q + len, s, r)
               + Rep0Price(e, after, q + len + 1) + LenPrice(e, 1, q + len + 1, n - 1)
  IN  IF n = 0 THEN << >> ELSE << Offer(cur + len + n, total, n - 1, dist, len + 1) >>

RepOffers(e, cur, q, s, i, len, price) ==
  [n \in 1 .. MaxOf(len - 1, 0) |->
    Offer(cur + n + 1, price + PureRepPrice(e, i, s, q) + LenPrice(e, 1, q, n + 1),
          n + 1, i, 0)]
(* The pair that serves length len: the first that is long enough.           *)
PairFor(pairs, len) ==
  CHOOSE i \in DOMAIN pairs : pairs[i][1] >= len /\ \A j \in 1 .. i - 1 : pairs[j][1] < len
MatchOffer(e, cur, q, pairs, len, price) ==
  LET dist == pairs[PairFor(pairs, len)][2]
  IN  Offer(cur + len, price + LenPrice(e, 0, q, len) + DistPrice(e, len, dist),
            len, dist + 4, 0)

(* GetOptimum, the first position: what it decides at once, or the table's   *)
(* first cells.                                                              *)
RepLens(e) == [i \in 1 .. 4 |-> RepLen(e, e.pos, e.reps[i], Lower(e.avail, e.lenMax))]
LongestRep(lens) ==
  CHOOSE i \in 1 .. 4 :
    /\ \A j \in 1 .. 4 : lens[j] <= lens[i]
    /\ \A j \in 1 .. i - 1 : lens[j] < lens[i]
FirstCells(e, lens) ==
  LET q == e.pos
      match == MatchBit(e, 1, e.state, q)
      rep == match + RepBit(e, 1, e.state)
      short == rep + ShortRepPrice(e, e.state, q)
      lit == MatchBit(e, 0, e.state, q) + LitPrice(e, q, e.state, e.reps[1])
      isShort == Equals(e, q, e.reps[1]) /\ lens[1] = 0 /\ short < lit
      start == MaxOf(lens[1] + 1, 2)
      RepsAt(i) == RepOffers(e, 0, q, e.state, i - 1, lens[i], rep)
      matches == [n \in 1 .. MaxOf(e.main + 1 - start, 0) |->
        MatchOffer(e, 0, q, e.matches, start + n - 1, match + RepBit(e, 0, e.state))]
  IN  Accept([e.opt EXCEPT
        ![0].state = e.state, ![0].reps = e.reps,
        ![1].price = IF isShort THEN short ELSE lit, ![1].len = 1, ![1].extra = 0,
        ![1].dist = IF isShort THEN 0 ELSE MarkLit],
        RepsAt(1) \o RepsAt(2) \o RepsAt(3) \o RepsAt(4) \o matches)

(* How the encoder stands at cell cur: its state and distances.              *)
Arrived(opt, cur) ==
  LET cell == opt[cur]
      from == opt[cur - cell.len - cell.extra]
      state == CASE cell.len = 1 /\ cell.dist = 0 -> ShortRepNext(from.state)
                 [] cell.len = 1 -> LitNext(from.state)
                 [] cell.extra = 1 /\ cell.dist >= 4 -> kState_MatchAfterLit
                 [] cell.extra >= 1 -> kState_RepAfterLit
                 [] cell.dist < 4 -> RepNext(from.state)
                 [] OTHER -> MatchNext(from.state)
  IN  [opt EXCEPT ![cur].state = state,
                  ![cur].reps = IF cell.len = 1 THEN from.reps ELSE Front(from.reps, cell.dist)]

(* One position of the dynamic program.                                      *)
ShortCell(e, opt, cur, q) ==
  LET cell == opt[cur]
      next == opt[cur + 1]
      rep == cell.price + MatchBit(e, 1, cell.state, q) + RepBit(e, 1, cell.state)
  IN  IF cell.state < 7 /\ Equals(e, q, cell.reps[1]) /\ rep < next.price
         /\ (next.len < 2 \/ next.dist # 0)
      THEN << Offer(cur + 1, rep + ShortRepPrice(e, cell.state, q), 1, 0, 0) >> ELSE << >>
LitRep0(e, cur, q, cell, litPrice, full) ==
  LET r == cell.reps[1]
      n == RunTo(e, q, r, 3, Lower(e.fast + 1, full))
      after == LitNext(cell.state)
  IN  IF full > 2 /\ ~Equals(e, q, r) /\ TwoEqual(e, q + 1, r)
      THEN << Offer(cur + n,
                    litPrice + Rep0Price(e, after, q + 1) + LenPrice(e, 1, q + 1, n - 1),
                    n - 1, 0, 1) >>
      ELSE << >>
RepsFrom(e, cur, q, cell, i, full) ==
  LET len == RepLen(e, q, cell.reps[i], Lower(full, e.fast))
      base == cell.price + MatchBit(e, 1, cell.state, q) + RepBit(e, 1, cell.state)
      price == base + PureRepPrice(e, i - 1, cell.state, q) + LenPrice(e, 1, q, len)
  IN  IF len = 0 THEN << >>
      ELSE RepOffers(e, cur, q, cell.state, i - 1, len, base)
           \o AgainOffers(e, cur, q, cell.reps[i], len, full, RepNext(cell.state),
                          kState_LitAfterRep, price, i - 1)
Shortened(pairs, len) ==
  LET i == PairFor(pairs, len) IN Append(SubSeq(pairs, 1, i - 1), <<len, pairs[i][2]>>)
RECURSIVE MatchesFrom(_, _, _, _, _, _, _, _)
MatchesFrom(e, cur, q, cell, pairs, len, newLen, full) ==
  LET i == PairFor(pairs, len)
      base == cell.price + MatchBit(e, 1, cell.state, q) + RepBit(e, 0, cell.state)
      offer == MatchOffer(e, cur, q, pairs, len, base)
      again == IF len # pairs[i][1] THEN << >>
               ELSE AgainOffers(e, cur, q, pairs[i][2] + 1, len, full, MatchNext(cell.state),
                                kState_LitAfterMatch, offer.price, pairs[i][2] + 4)
  IN  IF len > newLen THEN << >>
      ELSE <<offer>> \o again \o MatchesFrom(e, cur, q, cell, pairs, len + 1, newLen, full)

Relax(o, cur) ==
  LET e == o.e
      q == e.pos + cur
      opt == Arrived(o.opt, cur)
      cell == opt[cur]
      next == opt[cur + 1]
      litBase == cell.price + MatchBit(e, 0, cell.state, q)
      noLit == \/ next.price < kInfinityPrice /\ Equals(e, q, cell.reps[1])
               \/ litBase > next.price
      litPrice == litBase + LitPrice(e, q, cell.state, cell.reps[1])
      isLit == ~noLit /\ litPrice < next.price
      opt2 == IF isLit THEN Accept(opt, << Offer(cur + 1, litPrice, 1, MarkLit, 0) >>) ELSE opt
      opt3 == Accept(opt2, ShortCell(e, opt2, cur, q))
      full == Lower(e.avail, e.numOpts - 1 - cur)
      newLen == Lower(e.main, Lower(full, e.fast))
      start == MaxOf(RepLen(e, q, cell.reps[1], Lower(full, e.fast)) + 1, 2)
      pairs == IF e.main > newLen THEN Shortened(e.matches, newLen) ELSE e.matches
      Reps(i) == RepsFrom(e, cur, q, cell, i, full)
      offers == (IF noLit \/ isLit THEN << >> ELSE LitRep0(e, cur, q, cell, litPrice, full))
                \o Reps(1) \o Reps(2) \o Reps(3) \o Reps(4)
                \o MatchesFrom(e, cur, q, cell, pairs, start, newLen, full)
  IN  IF full < 2 THEN [o EXCEPT !.opt = opt3]
      ELSE [o EXCEPT !.opt = Accept(opt3, offers), !.last = LastOffer(@, offers)]

(* Backward: from cell cur back to the start, the steps are written over the *)
(* table's cells from wr down; the first of them is returned.                *)
RECURSIVE Backward(_, _, _)
Backward(opt, cur, wr) ==
  LET cell == opt[cur]
      left == cur - cell.len - cell.extra
      opt2 == CASE cell.extra = 0 -> opt
                [] cell.extra = 1 -> [opt EXCEPT
                     ![wr - 1].len = cell.len, ![wr - 1].dist = cell.dist]
                [] OTHER -> [opt EXCEPT
                     ![wr - 1].len = cell.len, ![wr - 1].dist = 0,
                     ![wr - 2].len = 1, ![wr - 2].dist = MarkLit]
      wr2 == wr - Lower(cell.extra, 2)
      dist == IF cell.extra = 1 THEN MarkLit ELSE cell.dist
      len == CASE cell.extra = 0 -> cell.len [] cell.extra = 1 -> 1 [] OTHER -> cell.extra - 1
  IN  IF left = 0 THEN [opt |-> opt2, back |-> dist, len |-> len, optCur |-> wr2]
      ELSE Backward([opt2 EXCEPT ![wr2 - 1].len = len, ![wr2 - 1].dist = dist], left, wr2 - 1)

Forgotten(opt, last, cur) ==
  [k \in DOMAIN opt |->
     IF k \in 1 .. last THEN [opt[k] EXCEPT !.price = kInfinityPrice] ELSE opt[k]]
Planned(o, cur) ==
  LET plan == Backward(Forgotten(o.opt, o.last, cur), cur, cur + 1)
  IN  [Chosen(o.e, plan.back, plan.len) EXCEPT
        !.opt = plan.opt, !.optCur = plan.optCur, !.optEnd = cur + 1,
        !.owed = o.opt[cur].price]
(* At the end of the table: the cheapest cell, the last of equal ones.       *)
Cheapest(o, cur) ==
  CHOOSE b \in cur .. o.last : \A j \in cur .. o.last :
    o.opt[b].price < o.opt[j].price \/ (o.opt[b].price = o.opt[j].price /\ j <= b)

RECURSIVE Parse(_, _)
Parse(o, cur) ==
  LET read == [o EXCEPT !.e = ReadMatchDistances(@)]
      best == Cheapest(o, cur)
      On(next) == Parse(next, cur + 1)
      Decide(r) == IF r.e.main >= r.e.fast THEN Planned(r, cur) ELSE Let(Relax(r, cur), On)
  IN  IF cur = o.last THEN Planned(o, cur)
      ELSE IF cur >= o.e.numOpts - o.e.spare
      THEN Planned([o EXCEPT !.e = MovePosBy(@, best - cur)], best)
      ELSE Let(read, Decide)

GetOptimumFrom(e) ==
  LET lens == RepLens(e)
      rep == LongestRep(lens)
      last == MaxOf(lens[rep], e.main)
      same == Equals(e, e.pos, e.reps[1])
      opt == FirstCells(e, lens)
      Go(o) == Parse(o, 1)
  IN  IF e.avail < 2 THEN Chosen(e, MarkLit, 1)
      ELSE IF lens[rep] >= e.fast THEN Chosen(MovePosBy(e, lens[rep] - 1), rep - 1, lens[rep])
      ELSE IF e.main >= e.fast
      THEN Chosen(MovePosBy(e, e.main - 1), LastOf(e.matches)[2] + 4, e.main)
      ELSE IF last < 2 /\ ~same THEN Chosen(e, MarkLit, 1)
      ELSE IF last < 2 THEN Chosen([e EXCEPT !.opt = opt], opt[1].dist, 1)
      ELSE Let([e |-> e, opt |-> opt, last |-> last], Go)
GetOptimum(e) ==
  LET fresh == [e EXCEPT !.optCur = 0, !.optEnd = 0]
  IN  Let(IF e.ahead = 0 THEN ReadMatchDistances(fresh) ELSE fresh, GetOptimumFrom)

(* GetOptimumFast: the longest of the repeats and the new match, unless the  *)
(* next position has something better.  (Bounds on distances are scaled.)    *)
ChangePair(e, smallDist, bigDist) == bigDist \div e.ratio > smallDist
RECURSIVE Preferred(_, _, _)
Preferred(e, len, n) ==
  LET less == e.matches[n - 1]
  IN  IF n > 1 /\ len = less[1] + 1 /\ ChangePair(e, less[2], e.matches[n][2])
      THEN Preferred(e, len - 1, n - 1) ELSE <<len, e.matches[n][2]>>
BetterNext(e, len, dist) ==
  LET new == LastOf(e.matches)[2]
  IN  e.main >= 2 /\
      \/ e.main >= len /\ new < dist
      \/ e.main = len + 1 /\ ~ChangePair(e, dist, new)
      \/ e.main > len + 1
      \/ e.main + 1 >= len /\ len >= 3 /\ ChangePair(e, new, dist)
(* The next position repeats a distance for nearly as long.                  *)
RepNextLong(e, q, len) ==
  \E i \in 1 .. 4 :
    TwoEqual(e, q, e.reps[i]) /\ \A n \in 2 .. len - 2 : Equals(e, q + n, e.reps[i])

FastFrom(e) ==
  LET lens == RepLens(e)
      long == {i \in 1 .. 4 : lens[i] >= e.fast}
      firstLong == CHOOSE i \in long : \A j \in long : i <= j
      rep == LongestRep(lens)
      pair == Preferred(e, e.main, Len(e.matches))
      main == IF e.main < 2 THEN e.main
              ELSE IF pair[1] = 2 /\ pair[2] >= e.near THEN 1 ELSE pair[1]
      dist == IF e.main < 2 THEN 0 ELSE pair[2]
      repWins == lens[rep] >= 2 /\
        \/ lens[rep] + 1 >= main
        \/ lens[rep] + 2 >= main /\ dist >= e.far
        \/ lens[rep] + 3 >= main /\ dist >= 2 * e.far
      Ahead(next) ==
        IF BetterNext(next, main, dist) \/ RepNextLong(next, e.pos + 1, main)
        THEN Chosen(next, MarkLit, 1)
        ELSE Chosen(MovePosBy(next, main - 2), dist + 4, main)
  IN  IF e.avail < 2 THEN Chosen(e, MarkLit, 1)
      ELSE IF long # {}
      THEN Chosen(MovePosBy(e, lens[firstLong] - 1), firstLong - 1, lens[firstLong])
      ELSE IF e.main >= e.fast
      THEN Chosen(MovePosBy(e, e.main - 1), LastOf(e.matches)[2] + 4, e.main)
      ELSE IF repWins THEN Chosen(MovePosBy(e, lens[rep] - 1), rep - 1, lens[rep])
      ELSE IF main < 2 \/ e.avail <= 2 THEN Chosen(e, MarkLit, 1)
      ELSE Let(ReadMatchDistances(e), Ahead)
GetOptimumFast(e) ==
  Let(IF e.ahead = 0 THEN ReadMatchDistances(e) ELSE e, FastFrom)
-----------------------------------------------------------------------------
(* The encoder, the stream and the decoder.                                  *)

CONSTANTS
  EncoderInputs,  \* the inputs: sequences over {0, 1}
  EncoderSetups   \* the settings: fields as in CLzmaEnc (kind is "lzma" or
                  \* "lzma2"), the limits of the LZMA2 stream (unpackMax,
                  \* copyMax, blockSize) and where the input fails

VARIABLES
  plain,   \* the input
  enc,     \* CLzmaEnc
  stage,   \* CLzma2EncInt, what is going on, and the result
  decoded, \* what the decoder makes of the output so far
  trial    \* the same with the chunk that is being packed

encoderVars == <<plain, enc, stage, decoded, trial>>

(* The decoder: LZMA symbols in their contexts, and the control bytes.       *)
DecoderStart ==
  [out |-> 0, base |-> 0, state |-> 0, reps |-> <<1, 1, 1, 1>>, level |-> 3, ok |-> TRUE,
   ended |-> FALSE]
DecNext(d, sym) ==
  CASE sym.kind = "lit" ->
         IF d.state < 4 THEN 0 ELSE IF d.state < 10 THEN d.state - 3 ELSE d.state - 6
    [] sym.kind = "match" -> IF d.state < 7 THEN 7 ELSE 10
    [] sym.kind = "rep" /\ sym.len = 1 -> IF d.state < 7 THEN 9 ELSE 11
    [] OTHER -> IF d.state < 7 THEN 8 ELSE 11
DecReps(d, sym) ==
  CASE sym.kind = "lit" -> d.reps
    [] sym.kind = "match" -> <<sym.arg + 1, d.reps[1], d.reps[2], d.reps[3]>>
    [] OTHER -> [i \in 1 .. 4 |-> IF i = 1 THEN d.reps[sym.arg + 1]
                                  ELSE IF i <= sym.arg + 1 THEN d.reps[i - 1] ELSE d.reps[i]]
(* The contexts the decoder decodes a symbol in: its state, the position and *)
(* for a literal the byte before and, behind a match, the byte matched.      *)
PrevByte(d) == IF d.out = d.base THEN 0 ELSE plain[d.out]
DecContext(d, sym) ==
  <<d.state, (d.out - d.base) % 2>> \o
  (IF sym.kind # "lit" THEN << >>
   ELSE IF d.state < 7 THEN <<PrevByte(d)>> ELSE <<PrevByte(d), plain[d.out + 1 - d.reps[1]]>>)
DecOutput(d, sym) ==
  IF sym.kind = "lit" THEN sym.arg = plain[d.out + 1]
  ELSE LET r == DecReps(d, sym)[1]
       IN  r <= d.out - d.base /\ IsMatch(plain, d.out + 1, sym.len, r)
Decoded(d, sym) ==
  [d EXCEPT !.ok = @ /\ sym.context = DecContext(d, sym) /\ DecOutput(d, sym),
            !.out = @ + sym.len, !.state = DecNext(d, sym), !.reps = DecReps(d, sym)]
DecControl(d, mode) ==
  [d EXCEPT !.ok = @ /\ mode >= d.level, !.level = 0,
            !.base = IF mode = 3 THEN d.out ELSE @,
            !.state = IF mode > 0 THEN 0 ELSE @,
            !.reps = IF mode > 0 THEN <<1, 1, 1, 1>> ELSE @]
DecCopy(d, reset, size) ==
  [d EXCEPT !.ok = @ /\ (reset \/ d.level < 3), !.level = IF reset THEN 2 ELSE @,
            !.base = IF reset THEN d.out ELSE @, !.out = @ + size]

(* LzmaEnc_Init, AllocAndInit.                                               *)
EmptyTable(e) ==
  [k \in 0 .. e.numOpts - 1 |->
    [price |-> kInfinityPrice, len |-> 0, dist |-> 0, extra |-> 0, state |-> 0,
     reps |-> <<1, 1, 1, 1>>]]
EncInit(e) ==
  [e EXCEPT !.state = 0, !.reps = <<1, 1, 1, 1>>, !.optCur = 0, !.optEnd = 0, !.ahead = 0,
            !.opt = EmptyTable(e)]
Prepared(s, data) ==
  s @@ [data |-> data, pos |-> 0, ahead |-> 0, state |-> 0, reps |-> <<1, 1, 1, 1>>,
        opt |-> EmptyTable(s), optCur |-> 0, optEnd |-> 0, matches |-> << >>, main |-> 0,
        avail |-> 0, back |-> MarkLit, len |-> 0, owed |-> -1]
FinderAvail(e) == Len(e.data) - (e.pos + e.ahead)

(* The symbol for what was chosen.                                           *)
SymbolContext(e) ==
  <<e.state, e.pos % 2>> \o
  (IF e.back # MarkLit THEN << >>
   ELSE LET prev == IF e.pos = 0 THEN 0 ELSE Src(e, e.pos - 1)
        IN  IF e.state < 7 THEN <<prev>> ELSE <<prev, Src(e, e.pos - e.reps[1])>>)
Symbol(e) ==
  [kind |-> CASE e.back = MarkLit -> "lit" [] e.back \in 0 .. 3 -> "rep" [] OTHER -> "match",
   arg |-> CASE e.back = MarkLit -> Src(e, e.pos)
             [] e.back \in 0 .. 3 -> e.back [] OTHER -> e.back - 4,
   len |-> e.len, context |-> SymbolContext(e)]
(* What the symbol costs in the state the encoder has come to.               *)
SymbolPrice(e) ==
  LET s == e.state
      q == e.pos
  IN  CASE e.back = MarkLit -> MatchBit(e, 0, s, q) + LitPrice(e, q, s, e.reps[1])
        [] e.back = 0 /\ e.len = 1 ->
             MatchBit(e, 1, s, q) + RepBit(e, 1, s) + ShortRepPrice(e, s, q)
        [] e.back \in 0 .. 3 /\ ~(e.back = 0 /\ e.len = 1) ->
             MatchBit(e, 1, s, q) + RepBit(e, 1, s) + PureRepPrice(e, e.back, s, q)
             + LenPrice(e, 1, q, e.len)
        [] OTHER -> MatchBit(e, 1, s, q) + RepBit(e, 0, s) + LenPrice(e, 0, q, e.len)
                    + DistPrice(e, e.len, e.back - 4)
Emitted(e) ==
  [e EXCEPT
    !.state = CASE e.back = MarkLit -> LitNext(@)
                [] e.back \in 0 .. 3 /\ e.len # 1 -> RepNext(@)
                [] e.back \in 0 .. 3 /\ e.len = 1 -> ShortRepNext(@)
                [] OTHER -> MatchNext(@),
    !.reps = IF e.back = MarkLit THEN @ ELSE Front(@, e.back),
    !.pos = @ + e.len, !.ahead = @ - e.len,
    !.owed = IF @ = -1 THEN -1 ELSE @ - SymbolPrice(e),
    !.seed = IF e.ahead = e.len THEN ((@ * 3 + 1) % 17) + 1 ELSE @]

EncoderInit ==
  /\ plain \in EncoderInputs
  /\ \E s \in EncoderSetups : enc = Prepared(s, << >>)
  /\ stage = [pc |-> "block", start |-> 0, srcPos |-> 0, needState |-> TRUE, needProp |-> TRUE,
              saved |-> << >>, first |-> 0, res |-> "none"]
  /\ decoded = DecoderStart /\ trial = DecoderStart

InStream == IF enc.failAt < Len(plain) THEN SubSeq(plain, 1, enc.failAt) ELSE plain
LastBlock == Len(InStream) - stage.start < enc.blockSize

(* The next block: InitBlock, LzmaEnc_PrepareForLzma2.                       *)
EncBlock ==
  /\ stage.pc = "block"
  /\ enc' = [enc EXCEPT !.data =
               SubSeq(InStream, stage.start + 1,
                      Lower(stage.start + enc.blockSize, Len(InStream))),
               !.pos = 0, !.state = 0, !.reps = <<1, 1, 1, 1>>, !.optCur = 0, !.optEnd = 0,
               !.ahead = 0, !.opt = EmptyTable(enc)]
  /\ stage' = [stage EXCEPT !.pc = "chunk", !.srcPos = 0, !.needState = TRUE, !.needProp = TRUE]
  /\ UNCHANGED <<plain, decoded, trial>>

(* EncodeSubblock and LzmaEnc_CodeOneMemBlock up to the loop of CodeOneBlock.*)
ChunkMode ==
  IF stage.srcPos = 0 THEN 3
  ELSE IF stage.needState THEN IF stage.needProp THEN 2 ELSE 1 ELSE 0
FirstLiteral(e) == Chosen(ReadMatchDistances(e), MarkLit, 1)
EncChunk ==
  /\ stage.pc = "chunk"
  /\ LET e == IF enc.kind = "lzma2" /\ stage.needState THEN EncInit(enc) ELSE enc
         d == IF enc.kind = "lzma2" THEN DecControl(decoded, ChunkMode) ELSE trial
         first == FirstLiteral(e)
         starts == e.pos = 0 /\ FinderAvail(e) > 0
         ready == IF starts THEN [first EXCEPT !.ahead = @ - 1, !.pos = @ + 1] ELSE e
     IN  /\ enc' = ready
         /\ trial' = IF starts THEN Decoded(d, Symbol(first)) ELSE d
         /\ stage' = [stage EXCEPT !.saved = <<enc.state, enc.reps>>, !.first = enc.pos,
                        !.pc = IF FinderAvail(ready) > 0 THEN "code" ELSE "flush"]
  /\ UNCHANGED <<plain, decoded>>

(* One round of the loop: the next step of the plan, or a new decision.      *)
Decision(e) ==
  IF e.fastMode THEN GetOptimumFast(e)
  ELSE IF e.optEnd = e.optCur THEN GetOptimum(e)
  ELSE [Chosen(e, e.opt[e.optCur].dist, e.opt[e.optCur].len) EXCEPT !.optCur = @ + 1]
MustCut(e) == e.pos - stage.first + e.numOpts + e.reserve >= e.unpackMax
EncSymbol ==
  /\ stage.pc = "code"
  /\ \E chosen \in {Decision(enc)} : \E e \in {Emitted(chosen)} :
       LET over == e.optCur = e.optEnd
           fair == over => e.owed \in {-1, 0}
           d == Decoded(trial, Symbol(chosen))
           More(pc) == stage' = [stage EXCEPT !.pc = pc]
       IN  /\ enc' = IF over THEN [e EXCEPT !.owed = -1] ELSE e
           /\ trial' = [d EXCEPT !.ok = @ /\ fair]
           /\ IF e.ahead # 0 THEN More("code")
              ELSE IF FinderAvail(e) = 0 THEN More("flush")
              ELSE IF e.kind = "lzma2"
              THEN \/ More("flush")
                   \/ ~MustCut(e) /\ More("code")
              ELSE More(IF e.pos - stage.first >= e.unpackMax THEN "chunk" ELSE "code")
  /\ UNCHANGED <<plain, decoded>>

Unpacked == enc.pos - stage.first
Fail(res) == stage' = [stage EXCEPT !.pc = "done", !.res = res]

(* LZMA: the end of the stream.                                              *)
EncEnds ==
  /\ stage.pc = "flush" /\ enc.kind = "lzma"
  /\ Fail(IF Len(InStream) < Len(plain) THEN "read" ELSE "ok")
  /\ decoded' = [trial EXCEPT !.ended = TRUE] /\ UNCHANGED <<plain, enc, trial>>
(* LZMA2: a chunk that is worth packing, or one that is copied, in pieces.   *)
EncPacked ==
  /\ stage.pc = "flush" /\ enc.kind = "lzma2" /\ Unpacked > 2
  /\ decoded' = trial
  /\ stage' = [stage EXCEPT !.pc = "chunk", !.needState = FALSE, !.needProp = FALSE,
                            !.srcPos = @ + Unpacked]
  /\ UNCHANGED <<plain, enc, trial>>
(* A slip: the encoder goes on from where the packed chunk had led it.       *)
NotRestored(e, saved) == e
RestoreState(e, saved) == [e EXCEPT !.state = saved[1], !.reps = saved[2]]
RECURSIVE Copied(_, _, _)
Copied(d, srcPos, size) ==
  LET u == Lower(size, enc.copyMax)
  IN  IF size = 0 THEN d ELSE Copied(DecCopy(d, srcPos = 0, u), srcPos + u, size - u)
EncCopied ==
  /\ stage.pc = "flush" /\ enc.kind = "lzma2" /\ Unpacked > 0
  /\ decoded' = Copied(decoded, stage.srcPos, Unpacked)
  /\ enc' = RestoreState(enc, stage.saved)
  /\ stage' = [stage EXCEPT !.pc = "chunk", !.srcPos = @ + Unpacked]
  /\ UNCHANGED <<plain, trial>>
(* The input failed, which is seen when a chunk is flushed.                  *)
EncReadFails ==
  /\ stage.pc = "flush" /\ enc.kind = "lzma2" /\ Len(InStream) < Len(plain)
  /\ Fail("read") /\ UNCHANGED <<plain, enc, decoded, trial>>
(* The output fails: seen at the end (LZMA), or at a chunk or the end mark.  *)
EncWriteFails ==
  /\ stage.pc = "flush"
  /\ IF enc.kind = "lzma" THEN Len(InStream) = Len(plain) ELSE Unpacked > 0 \/ LastBlock
  /\ Fail("write") /\ UNCHANGED <<plain, enc, decoded, trial>>
(* A chunk of no bytes ends the block.                                       *)
EncBlockEnds ==
  /\ stage.pc = "flush" /\ enc.kind = "lzma2" /\ Unpacked = 0
  /\ Len(InStream) = Len(plain) \/ ~LastBlock
  /\ IF stage.srcPos # Len(enc.data) THEN Fail("fail") /\ UNCHANGED decoded
     ELSE IF LastBlock THEN Fail("ok") /\ decoded' = [decoded EXCEPT !.ended = TRUE]
     ELSE /\ stage' = [stage EXCEPT !.pc = "block", !.start = @ + stage.srcPos]
          /\ UNCHANGED decoded
  /\ UNCHANGED <<plain, enc, trial>>

EncoderNext ==
  \/ EncBlock \/ EncChunk \/ EncSymbol \/ EncEnds \/ EncPacked \/ EncCopied
  \/ EncReadFails \/ EncWriteFails \/ EncBlockEnds
EncoderSpec == EncoderInit /\ [][EncoderNext]_encoderVars

(* What the encoder writes is what a decoder reads: every symbol is coded in *)
(* the contexts the decoder will use and stands for bytes of the input; the  *)
(* encoder and the decoder agree on the state whenever the next chunk relies *)
(* on it; a plan costs what it was chosen for; a chunk fits its size field.  *)
EncodedRight ==
  /\ trial.ok /\ decoded.ok
  /\ (stage.pc \in {"code", "flush"} =>
        /\ trial.out = stage.start + enc.pos
        /\ trial.state = enc.state /\ trial.reps = enc.reps)
  /\ (stage.pc = "flush" => enc.ahead = 0 /\ enc.optCur = enc.optEnd)
  /\ (enc.kind = "lzma2" => Unpacked <= enc.unpackMax)
  /\ (stage.pc = "chunk" /\ enc.kind = "lzma2" =>
        /\ decoded.out = stage.start + enc.pos
        /\ stage.needState \/ (decoded.state = enc.state /\ decoded.reps = enc.reps))
  /\ stage.res # "fail"
  /\ (stage.res = "ok" => decoded.ended /\ decoded.out = Len(plain))
=============================================================================
