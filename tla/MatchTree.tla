----------------------------- MODULE MatchTree -----------------------------
(* What flows through the multi-threaded match finder (LzFindMt.c and        *)
(* LzFindOpt.c): the hash thread turns bytes into distances to the last      *)
(* place with the same hash, the BT thread turns blocks of these into the    *)
(* pairs its tree gives, and the encoder's thread mixes in the pairs of its  *)
(* own small tables.  Each counts positions for itself, with its own wrap.   *)
(* How the threads wait for one another is module MatchFinderMt; here they   *)
(* take turns, and the window is the file.                                   *)
EXTENDS LzHash

CONSTANTS
  TreeSetups,  \* settings: bytes, history, matchMax, cut as in the finder,
               \* and heads in a hash block, cells in a BT block, bytes read ahead
  LzWidth      \* the encoder's positions are numbers below LzWidth (2^32)

VARIABLES
  text,  \* the input
  heads,  \* the hash thread: position, table and the block it gave
  tree,   \* the BT thread: position, tree and the block it fills
  lz      \* the encoder's side: position, tables, block, last pairs

treeVars == <<text, heads, tree, lz>>

Gap(setup) == setup.history + 1   \* cyclicBufferSize
TreeInit ==
  /\ text \in FinderFiles
  /\ \E s \in TreeSetups :
       /\ heads = [pos |-> 1, done |-> 0, deltas |-> << >>, hv |-> [h \in 0 .. 3 |-> 0]]
       /\ tree = s @@ [pos |-> 1, cyc |-> 1, done |-> 0, avail |-> 0, deltas |-> << >>,
                       son |-> [i \in 0 .. 2 * Gap(s) - 1 |-> Junk],
                       block |-> << >>, sum |-> 0, processed |-> 0, filling |-> FALSE,
                       failed |-> FALSE]
  /\ lz = [pos |-> 1, done |-> 0, block |-> << >>, avail |-> 0, ended |-> FALSE,
           h2 |-> [h \in 0 .. 1 |-> 0], h3 |-> [h \in 0 .. 3 |-> 0],
           asked |-> FALSE, pairs |-> << >>]

(* The record the hash functions of MatchFinder look at.                     *)
Place(done, zip) == [window |-> text, buffer |-> done + 1, bytes |-> tree.bytes, zip |-> zip]

(* Hash thread: one block (GetHeads).  More bytes are there than the heads   *)
(* of a block and a longest match need, or all that the file has.            *)
RECURSIVE Heads(_, _, _, _)
Heads(h, pos, hv, num) ==
  IF num = 0 THEN [h EXCEPT !.pos = pos, !.hv = hv]
  ELSE LET v == HashAll(Place(h.done, FALSE))
       IN  Heads([h EXCEPT !.deltas = Append(@, pos - hv[v]), !.done = @ + 1],
                 pos + 1, [hv EXCEPT ![v] = pos], num - 1)
Known(h) == Lower(Len(text) - h.done, tree.matchMax + tree.heads + tree.ahead)
HeadsNormal(h, num) ==
  LET sub == h.pos - tree.history - 1
  IN  IF h.pos <= Width - 1 - num THEN h
      ELSE [h EXCEPT !.pos = @ - sub, !.hv = Reduced(sub, @)]
HashBlock(h) ==
  LET num == Lower(Known(h) - tree.bytes + 1, tree.heads)
      normal == HeadsNormal([h EXCEPT !.deltas = << >>], num)
  IN  IF Known(h) < tree.bytes THEN [h EXCEPT !.deltas = << >>, !.done = @ + Known(h)]
      ELSE Let(normal, LAMBDA g : Heads(g, g.pos, g.hv, num))

(* GetMatchesSpecN_2.  t stands at a position, w walks down its tree.        *)
Reaches(t) == Lower(Gap(t), t.pos)   \* cbs
Char(t, i) == text[t.done + 1 + i]
RECURSIVE Equal(_, _, _, _)
Equal(t, d, i, limit) ==
  IF i < limit /\ Char(t, i - d) = Char(t, i) THEN Equal(t, d, i + 1, limit) ELSE i
Pair(t, d) == 2 * (t.cyc - d + (IF t.cyc < d THEN Reaches(t) ELSE 0))
RECURSIVE Descend(_, _)
Descend(t, w) ==
  LET pair == Pair(t, w.d)
      len == Equal(t, w.d, Lower(w.len0, w.len1), w.limit)
      match == t.pos - w.d
      smaller == Char(t, len - w.d) < Char(t, len)
      below == w.son[IF smaller THEN pair + 1 ELSE pair]
      pairs == IF len > w.max THEN Append(w.pairs, <<len, w.d>>) ELSE w.pairs
      next == [w EXCEPT
        !.pairs = pairs, !.max = IF len > @ THEN len ELSE @, !.cut = @ - 1,
        !.son[IF smaller THEN w.p1 ELSE w.p0] = match, !.d = t.pos - below,
        !.p1 = IF smaller THEN pair + 1 ELSE @, !.len1 = IF smaller THEN len ELSE @,
        !.p0 = IF smaller THEN @ ELSE pair, !.len0 = IF smaller THEN @ ELSE len]
  IN  IF w.cut = 0 \/ w.d >= Reaches(t)
      THEN [w EXCEPT !.son[w.p0] = 0, !.son[w.p1] = 0]
      ELSE IF len = w.limit
      THEN [w EXCEPT !.son[w.p1] = w.son[pair], !.son[w.p0] = w.son[pair + 1],
                     !.pairs = pairs, !.whole = TRUE]
      ELSE IF below >= match THEN [w EXCEPT !.failed = TRUE]
      ELSE Descend(t, next)
Walk(t, d, limit) ==
  Descend(t, [d |-> d, limit |-> limit, son |-> t.son, cut |-> t.cut, max |-> t.bytes - 1,
              p0 |-> 2 * t.cyc + 1, p1 |-> 2 * t.cyc, len0 |-> 0, len1 |-> 0,
              pairs |-> << >>, whole |-> FALSE, failed |-> FALSE])
CellsOf(block) ==
  LET Sum[i \in 0 .. Len(block)] == IF i = 0 THEN 0 ELSE Sum[i - 1] + 1 + 2 * Len(block[i])
  IN  Sum[Len(block)]
Forward(t, pairs) ==
  [t EXCEPT !.block = Append(@, pairs), !.deltas = Tail(@), !.pos = @ + 1,
            !.cyc = @ + 1, !.done = @ + 1]
(* A position that goes on with the match of the one before takes over the   *)
(* sons of the place it matches (USE_LONG_MATCH_OPT).                        *)
RECURSIVE Batch(_, _, _, _)
Batch(t, limit, num, long) ==
  LET d == Head(t.deltas)
      w == Walk(t, d, limit)
      copied == [t EXCEPT !.son[2 * t.cyc] = t.son[Pair(t, d)],
                          !.son[2 * t.cyc + 1] = t.son[Pair(t, d) + 1]]
      more == t.block = << >> \/ 2 + CellsOf(t.block) < t.cells - 2 * t.matchMax
  IN  IF num = 0 \/ ~more THEN t
      ELSE IF long = d /\ Char(t, limit - 1 - d) = Char(t, limit - 1)
      THEN Let(Forward(copied, << <<limit, d>> >>),
               LAMBDA n : Batch(n, limit, num - 1, d))
      ELSE IF d = 0 \/ (t.pos < Gap(t) /\ d > t.pos) \/ (d < Reaches(t) /\ w.failed)
      THEN [t EXCEPT !.failed = TRUE]
      ELSE IF d >= Reaches(t)
      THEN Let(Forward([t EXCEPT !.son[2 * t.cyc] = 0, !.son[2 * t.cyc + 1] = 0], << >>),
               LAMBDA n : Batch(n, limit, num - 1, 0))
      ELSE Let(Forward([t EXCEPT !.son = w.son], w.pairs),
               LAMBDA n : Batch(n, limit, num - 1, IF w.whole THEN d ELSE 0))

(* BtGetMatches: fills a block.                                              *)
StartBlock ==
  /\ ~tree.filling /\ lz.block = << >> /\ ~lz.ended
  /\ tree' = [tree EXCEPT !.block = << >>, !.sum = tree.avail, !.processed = 0,
                          !.filling = TRUE]
  /\ UNCHANGED <<text, heads, lz>>
CanFill ==
  tree.filling /\ ~tree.failed /\ 2 + CellsOf(tree.block) < tree.cells - 2 * tree.matchMax
TakeHeads ==
  /\ CanFill /\ tree.deltas = << >>
  /\ \E h \in {HashBlock(heads)} :
       LET avail == Known(heads)
           zeros == [i \in 1 .. avail |-> << >>]
           end == avail < tree.bytes
       IN  /\ heads' = h
           /\ tree' = [tree EXCEPT
                !.deltas = h.deltas, !.sum = tree.processed + avail,
                !.avail = IF end THEN 0 ELSE avail,
                !.block = IF end THEN @ \o zeros ELSE @,
                !.filling = ~end]
           /\ lz' = IF end THEN [lz EXCEPT !.block = tree.block \o zeros,
                                           !.avail = tree.processed + avail,
                                           !.ended = tree.block \o zeros = << >>]
                    ELSE lz
  /\ UNCHANGED text
TreeNormal(t, num) ==
  LET sub == t.pos - Gap(t)
  IN  IF t.pos <= Width - 1 - num THEN t
      ELSE [t EXCEPT !.pos = @ - sub, !.son = Reduced(sub, @)]
FillBlock ==
  /\ CanFill /\ tree.deltas # << >>
  /\ LET limit == Lower(tree.matchMax, tree.avail)
         size == Lower(Len(tree.deltas), Lower(tree.avail - limit + 1, Gap(tree) - tree.cyc))
     IN  \E t \in {Batch(TreeNormal(tree, size), limit, size, 0)} :
           LET num == Len(tree.deltas) - Len(t.deltas)
           IN  tree' = [t EXCEPT !.processed = @ + num, !.avail = @ - num,
                                 !.cyc = IF @ = Gap(tree) THEN 0 ELSE @]
  /\ UNCHANGED <<text, heads, lz>>
(* The encoder's thread takes the block; its positions may wrap in it.       *)
Fetch ==
  /\ tree.filling /\ ~CanFill
  /\ LET sub == lz.pos - tree.history - 1
         next == [lz EXCEPT !.block = tree.block, !.avail = tree.sum]
     IN  lz' = IF lz.pos >= LzWidth - 1 - tree.cells
               THEN [next EXCEPT !.pos = @ - sub,
                                 !.h2 = Reduced(sub, @), !.h3 = Reduced(sub, @)]
               ELSE next
  /\ tree' = [tree EXCEPT !.filling = FALSE]
  /\ UNCHANGED <<text, heads>>

(* Encoder's thread.  mt_h2 and mt_h3 are the hashes of the finder.          *)
LzByte(i) == text[lz.done + 1 + i]
LzHash2 == Hash2(Place(lz.done, FALSE))
LzHash3 == Hash3(Place(lz.done, FALSE))
Old2 == lz.h2[LzHash2]
Old3 == lz.h3[LzHash3]
LzSame(match, i) == LzByte(i - (lz.pos - match)) = LzByte(i)
Candidate(match, min) == match >= min /\ LzSame(match, 0)
(* MixMatches2, 3 and 4: pairs nearer than the place min.                    *)
Mixed(min) ==
  LET len3 == IF tree.bytes = 5 /\ LzSame(Old3, 3) THEN 4 ELSE 3
      len2 == IF tree.bytes = 5 /\ LzSame(Old2, 3) THEN 4 ELSE 3
      has2 == Candidate(Old2, min)
  IN  IF tree.bytes = 3 THEN IF has2 THEN << <<2, lz.pos - Old2>> >> ELSE << >>
      ELSE IF has2 /\ LzSame(Old2, 2) THEN << <<len2, lz.pos - Old2>> >>
      ELSE (IF has2 THEN << <<2, lz.pos - Old2>> >> ELSE << >>)
           \o (IF Candidate(Old3, min) THEN << <<len3, lz.pos - Old3>> >> ELSE << >>)
Noted(z) ==
  [z EXCEPT !.h2 = [@ EXCEPT ![LzHash2] = z.pos],
            !.h3 = IF tree.bytes > 3 THEN [@ EXCEPT ![LzHash3] = z.pos] ELSE @]
LzMoved(z) == [z EXCEPT !.pos = @ + 1, !.done = @ + 1, !.avail = @ - 1, !.block = Tail(@)]
TreeGets ==
  /\ lz.block # << >> /\ lz.avail > 0
  /\ LET pairs == Head(lz.block)
         min == IF pairs # << >> THEN lz.pos - pairs[1][2] + 1
                ELSE IF lz.pos > tree.history THEN lz.pos - tree.history ELSE 1
         mixes == tree.bytes > 2 /\ (pairs # << >> \/ lz.avail - 1 >= 3)
     IN  lz' = LzMoved([(IF mixes THEN Noted(lz) ELSE lz) EXCEPT
                 !.asked = TRUE, !.pairs = (IF mixes THEN Mixed(min) ELSE << >>) \o pairs])
  /\ UNCHANGED <<text, heads, tree>>
SkipBytes == IF tree.bytes = 3 THEN 2 ELSE 3
TreeSkips ==
  /\ lz.block # << >> /\ lz.avail > 0
  /\ lz' = LzMoved([(IF tree.bytes > 2 /\ lz.avail >= SkipBytes THEN Noted(lz) ELSE lz) EXCEPT
                 !.asked = FALSE, !.pairs = << >>])
  /\ UNCHANGED <<text, heads, tree>>

TreeNext == StartBlock \/ TakeHeads \/ FillBlock \/ Fetch \/ TreeGets \/ TreeSkips

(* The data of three threads fit together: pairs are true and the longest    *)
(* is there, no walk meets a reference it must not meet, a block fits into   *)
(* its cells, and the bytes announced are there and end with the file.       *)
TreesExact ==
  LET left == Len(text) - lz.done
      max == Lower(tree.matchMax, left + 1)
  IN  /\ ~tree.failed
      /\ 2 + CellsOf(tree.block) <= tree.cells
      /\ Len(lz.block) <= lz.avail /\ lz.avail <= left
      /\ lz.ended => left = 0
      /\ PairsRight(text, lz.done, lz.pairs, max, tree.history)
      /\ lz.asked /\ tree.cut > tree.history /\ left + 1 >= tree.bytes =>
           Longest(text, lz.done, lz.pairs, tree.bytes, max, tree.history)
=============================================================================
