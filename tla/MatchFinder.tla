---------------------------- MODULE MatchFinder ----------------------------
(* The match finder of the encoder (LzFind.c).  A window slides over the     *)
(* file; for each position the finder gives earlier places with the same     *)
(* bytes, found through hash tables of two and three bytes and through a     *)
(* binary tree (bt) or a chain (hc) for each hash of all its bytes.          *)
(* Positions are 32-bit numbers that wrap: before they do, every reference   *)
(* is reduced.                                                               *)
EXTENDS LzHash

CONSTANTS
  MoveAlign,    \* kBlockMoveAlign
  Reserve,      \* bytes of the window behind those that must be kept
  FinderSetups  \* the settings (fields as in CMatchFinder), and of the stream:
                \* bytes it gives for a read, and the place where it fails

VARIABLES
  file,   \* the input
  mf,     \* the match finder: settings, window, positions and tables
  done,   \* bytes of the file the finder has passed
  found   \* whether the last call was GetMatches, and its <<length, distance>> pairs

finderVars == <<file, mf, done, found>>

Avail(m) == (m.streamPos - m.pos) % Width

(* Window.                                                                   *)
EmptyWindow(s) == [i \in 0 .. s.before + s.after + Reserve - 1 |-> Junk]
ReadOnce(m) ==
  LET dest == m.buffer + Avail(m)
      size == Lower(Lower(m.blockSize - dest, m.step), Len(file) - m.taken)
  IN  IF dest = m.blockSize THEN [m EXCEPT !.full = TRUE]
      ELSE IF m.taken >= m.failAt THEN [m EXCEPT !.error = TRUE]
      ELSE IF size = 0 THEN [m EXCEPT !.ended = TRUE]
      ELSE [m EXCEPT
             !.window = [i \in DOMAIN @ |->
               IF i \in dest .. dest + size - 1 THEN file[m.taken + 1 + i - dest] ELSE @[i]],
             !.taken = @ + size, !.streamPos = (@ + size) % Width]
RECURSIVE ReadLoop(_)
ReadLoop(m) ==
  IF m.ended \/ m.error \/ m.full \/ Avail(m) > m.after THEN m
  ELSE Let(ReadOnce(m), ReadLoop)
TakeDirect(m) ==
  LET size == Lower(Width - 1 - Avail(m), m.rem)
  IN  [m EXCEPT !.streamPos = (@ + size) % Width, !.rem = @ - size, !.ended = m.rem = size]
ReadBlock(m) ==
  IF m.ended \/ m.error THEN m
  ELSE IF m.direct THEN TakeDirect(m)
  ELSE Let(ReadOnce([m EXCEPT !.full = FALSE]), ReadLoop)
(* A slip: the bytes kept are counted from the wrong end of the window.      *)
NeedMoveLate(m) ==
  ~m.direct /\ ~m.ended /\ ~m.error /\ m.blockSize - m.buffer < m.after
NeedMove(m) ==
  ~m.direct /\ ~m.ended /\ ~m.error /\ m.blockSize - m.buffer <= m.after
MoveBlock(m) ==
  LET offset == m.buffer - m.before
      from == offset - (offset % MoveAlign)
      keep == (offset % MoveAlign) + m.before
  IN  [m EXCEPT !.buffer = keep,
        !.window = [i \in DOMAIN @ |-> IF i < keep + Avail(m) THEN @[i + from] ELSE @[i]]]

(* Limits: up to posLimit no position needs a check.                         *)
SetLimits(m) ==
  LET avail == Avail(m)
      toWrap == IF m.pos = 0 THEN Width - 1 ELSE Width - m.pos
      toCycle == m.history + 1 - m.cyc
      toRead == IF avail > m.after THEN avail - m.after
                ELSE IF avail >= m.matchMax THEN avail - m.matchMax + 1
                ELSE Lower(avail, 1)
  IN  [m EXCEPT
        !.lenLimit = IF avail <= m.after /\ avail < m.matchMax THEN avail ELSE m.matchMax,
        !.posLimit = (m.pos + Lower(Lower(toWrap, toCycle), toRead)) % Width]

Renumber(m) ==
  LET sub == (m.pos - m.history - 1) % Width
  IN  [m EXCEPT
        !.pos = (@ - sub) % Width, !.streamPos = (@ - sub) % Width,
        !.posLimit = (@ - sub) % Width,
        !.h2 = Reduced(sub, @), !.h3 = Reduced(sub, @),
        !.hv = Reduced(sub, @), !.son = Reduced(sub, @)]

CheckLimits(m) ==
  LET read == IF m.after # Avail(m) THEN m
              ELSE IF NeedMove(m) THEN ReadBlock(MoveBlock(m)) ELSE ReadBlock(m)
      normal == IF read.pos = 0 /\ Avail(read) >= m.bytes THEN Renumber(read) ELSE read
  IN  Let([normal EXCEPT !.cyc = IF @ = m.history + 1 THEN 0 ELSE @], SetLimits)
MovePos(m) ==
  LET next == [m EXCEPT !.cyc = @ + 1, !.buffer = @ + 1, !.pos = (@ + 1) % Width]
  IN  IF next.pos = m.posLimit THEN Let(next, CheckLimits) ELSE next

(* MatchFinder_Create, _Construct and _Init.                                 *)
KeepSizeBefore(s) == s.history + s.keepBefore + 1
KeepSizeAfter(s) ==
  IF s.matchMax + s.keepAfter < s.bytes THEN s.bytes ELSE s.matchMax + s.keepAfter
Created(s) ==
  LET kept == [before |-> KeepSizeBefore(s), after |-> KeepSizeAfter(s)]
  IN  s @@ kept @@
      [blockSize |-> kept.before + kept.after + Reserve,
       window |-> IF s.direct THEN [i \in 0 .. Len(file) - 1 |-> file[i + 1]]
                  ELSE EmptyWindow(kept),
       buffer |-> 0, pos |-> 1, streamPos |-> 1, posLimit |-> 0, lenLimit |-> 0,
       cyc |-> 1, ended |-> FALSE, error |-> FALSE, full |-> FALSE,
       rem |-> Len(file), taken |-> 0,
       h2 |-> [h \in 0 .. 1 |-> 0], h3 |-> [h \in 0 .. 3 |-> 0], hv |-> [h \in 0 .. 3 |-> 0],
       son |-> [i \in 0 .. (s.history + 1) * (IF s.bt THEN 2 ELSE 1) - 1 |-> Junk]]

FinderInit ==
  /\ file \in FinderFiles
  /\ \E s \in FinderSetups : mf = Let(Let(Created(s), ReadBlock), SetLimits)
  /\ done = 0 /\ found = [asked |-> FALSE, pairs |-> << >>]

Enter(m) ==
  [m EXCEPT !.h2 = IF HasHash2(m) THEN [@ EXCEPT ![Hash2(m)] = m.pos] ELSE @,
            !.h3 = IF HasHash3(m) THEN [@ EXCEPT ![Hash3(m)] = m.pos] ELSE @,
            !.hv = [@ EXCEPT ![HashAll(m)] = m.pos]]

Same(m, d, i) == At(m, i - d) = At(m, i)
(* The first place from i on, before the limit, where the bytes differ.      *)
RECURSIVE Extend(_, _, _)
Extend(m, d, i) ==
  IF i < m.lenLimit /\ Same(m, d, i) THEN Extend(m, d, i + 1) ELSE i
Delta(m, match) == IF match = Junk THEN 0 ELSE (m.pos - match) % Width
Cell(m, d) == m.cyc - d + (IF m.cyc < d THEN m.history + 1 ELSE 0)

(* Hc_GetMatchesSpec: down the chain.                                        *)
RECURSIVE ChainWalk(_, _, _, _, _)
ChainWalk(m, match, cut, max, out) ==
  LET d == Delta(m, match)
      len == Extend(m, d, 0)
      next == m.son[Cell(m, d)]
      longer == IF Same(m, d, max) /\ len > max THEN len ELSE max
      out2 == IF longer > max THEN Append(out, <<len, d>>) ELSE out
  IN  IF match = 0 \/ d >= m.history + 1 THEN out
      ELSE IF cut = 1 \/ longer = m.lenLimit THEN out2
      ELSE ChainWalk(m, next, cut - 1, longer, out2)
Chain(m, match, max) ==
  LET linked == [m EXCEPT !.son[m.cyc] = match]
  IN  [m |-> linked, out |-> ChainWalk(linked, match, m.cut, max, << >>)]

(* GetMatchesSpec1: down the tree.  The position becomes its root: p1 and p0 *)
(* are the cells where the next smaller and the next larger string go.       *)
InReach(m, match) == match > (IF m.pos < m.history + 1 THEN 0 ELSE m.pos - m.history - 1)
RECURSIVE TreeWalk(_, _, _)
TreeWalk(m, w, record) ==
  LET d == Delta(m, w.match)
      pair == 2 * Cell(m, d)
      len == Extend(m, d, Lower(w.len0, w.len1))
      out2 == IF record /\ len > w.max THEN Append(w.out, <<len, d>>) ELSE w.out
      whole == len = m.lenLimit
      smaller == At(m, len - d) < At(m, len)
      next == [w EXCEPT
        !.son[IF smaller THEN w.p1 ELSE w.p0] = w.match,
        !.match = w.son[IF smaller THEN pair + 1 ELSE pair],
        !.p1 = IF smaller THEN pair + 1 ELSE @, !.len1 = IF smaller THEN len ELSE @,
        !.p0 = IF smaller THEN @ ELSE pair, !.len0 = IF smaller THEN @ ELSE len,
        !.max = IF len > @ THEN len ELSE @, !.out = out2, !.cut = @ - 1]
  IN  IF w.cut = 0 \/ ~InReach(m, w.match)
      THEN [w EXCEPT !.son[w.p0] = 0, !.son[w.p1] = 0]
      ELSE IF whole
      THEN [w EXCEPT !.son[w.p1] = w.son[pair], !.son[w.p0] = w.son[pair + 1],
                     !.out = out2]
      ELSE TreeWalk(m, next, record)
Tree(m, match, max, record) ==
  LET walk == TreeWalk(m, [son |-> m.son, match |-> match, cut |-> m.cut,
                           p0 |-> 2 * m.cyc + 1, p1 |-> 2 * m.cyc,
                           len0 |-> 0, len1 |-> 0, max |-> max, out |-> << >>], record)
  IN  [m |-> [m EXCEPT !.son = walk.son], out |-> walk.out]

(* The pairs the small tables give, and the length they reach.  (Within      *)
(* these the length is a whole match only if Extend went to the limit.)      *)
Near(m, d) == d < Lower(m.history + 1, m.pos) /\ Same(m, d, 0)
Reach(m, d) ==
  IF m.bytes = 5 /\ ~Same(m, d, 3) THEN 3
  ELSE Extend(m, d, IF m.bytes = 3 THEN 2 ELSE m.bytes - 1)
ShortPairs(m) ==
  LET d2 == Delta(m, m.h2[Hash2(m)])
      d3 == Delta(m, m.h3[Hash3(m)])
      near2 == Near(m, d2)
      near3 == Near(m, d3)
  IN  IF ~HasHash2(m) THEN << >>
      ELSE IF m.bytes = 3 THEN IF near2 THEN << <<Reach(m, d2), d2>> >> ELSE << >>
      ELSE IF near2 /\ Same(m, d2, 2) THEN << <<Reach(m, d2), d2>> >>
      ELSE (IF near2 THEN << <<2, d2>> >> ELSE << >>)
           \o (IF near3 THEN << <<Reach(m, d3), d3>> >> ELSE << >>)
BaseLen(m) == IF m.zip THEN 2 ELSE m.bytes - 1
KnownLen(m, pairs) ==
  IF pairs # << >> /\ pairs[Len(pairs)][1] > BaseLen(m)
  THEN pairs[Len(pairs)][1] ELSE BaseLen(m)

(* GetMatches and Skip of each kind.                                         *)
GetMatches(m) ==
  LET match == m.hv[HashAll(m)]
      short == ShortPairs(m)
      max == KnownLen(m, short)
      m2 == Enter(m)
      long == IF m.bt THEN Tree(m2, match, max, max < m.lenLimit)
              ELSE IF max < m.lenLimit THEN Chain(m2, match, max)
              ELSE [m |-> [m2 EXCEPT !.son[m.cyc] = match], out |-> << >>]
  IN  IF m.lenLimit < m.bytes THEN [m |-> MovePos(m), out |-> << >>]
      ELSE [m |-> MovePos(long.m), out |-> short \o long.out]
SkipOne(m) ==
  LET match == m.hv[HashAll(m)]
      m2 == Enter(m)
  IN  IF m.lenLimit < m.bytes THEN MovePos(m)
      ELSE IF m.bt THEN MovePos(Tree(m2, match, 0, FALSE).m)
      ELSE MovePos([m2 EXCEPT !.son[m.cyc] = match])

FinderGets ==
  /\ Avail(mf) > 0
  /\ LET got == GetMatches(mf) IN mf' = got.m /\ found' = [asked |-> TRUE, pairs |-> got.out]
  /\ done' = done + 1 /\ UNCHANGED file
(* Skip of several positions is Skip of one, repeated.                       *)
FinderSkips ==
  /\ Avail(mf) > 0
  /\ mf' = SkipOne(mf) /\ found' = [asked |-> FALSE, pairs |-> << >>]
  /\ done' = done + 1 /\ UNCHANGED file
FinderNext == FinderGets \/ FinderSkips

(* The window holds the file around the position, and no more is promised    *)
(* than was read; the end comes only at the end of what the stream gives.    *)
WindowRight ==
  /\ \A i \in 1 .. Lower(done, mf.before - 1) : At(mf, -i) = file[done + 1 - i]
  /\ \A i \in 0 .. Avail(mf) - 1 : At(mf, i) = file[done + 1 + i]
  /\ Avail(mf) < mf.after => mf.ended \/ mf.error
  /\ mf.ended => done + Avail(mf) = Len(file)
(* A tree that is searched to its end finds the longest match.               *)
Given == IF mf.error THEN mf.taken ELSE Len(file)
LongestFound ==
  found.asked /\ mf.bt /\ mf.cut > mf.history /\ Given - done + 1 >= mf.bytes =>
    Longest(file, done, found.pairs, mf.bytes, Lower(mf.matchMax, Given - done + 1), mf.history)

(* Whatever the stream's reads, the wrapping of positions and the moves of   *)
(* the window: what the finder tells the encoder is true of the file, and    *)
(* no match is lost that it should know.                                     *)
MatchesExact ==
  /\ WindowRight
  /\ PairsRight(file, done, found.pairs, Lower(mf.matchMax, Given - done + 1), mf.history)
  /\ LongestFound
=============================================================================
