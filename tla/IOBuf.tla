------------------------------- MODULE IOBuf -------------------------------
(***************************************************************************)
(* fast::IOBuf (inc/fast_iobuf.h, inc/fast_iobuf_inl.h,                    *)
(* src-common/fast_iobuf.cc): buffers of references to shared, reference   *)
(* counted blocks, against the byte sequences they stand for.  Two buffers *)
(* and the block chain of one thread; references merge, views switch       *)
(* between two inline references and a ring, blocks are filled through the *)
(* thread's chain or through an output stream.                             *)
(***************************************************************************)
EXTENDS Naturals, Sequences, SequencesExt, FiniteSets

CONSTANTS
  BlockCap,       \* bytes of a block
  InitialCap,     \* INITIAL_CAP, a power of 2
  MaxTlsBlocks,   \* MAX_BLOCKS_PER_THREAD
  MaxBytes,       \* bound: bytes ever written
  MaxIoOps        \* bound: operations on the buffers

ASSUME IOBufAssumption ==
  /\ BlockCap \in Nat \ {0} /\ InitialCap \in Nat /\ InitialCap >= 4
  /\ MaxTlsBlocks \in Nat /\ MaxBytes \in Nat /\ MaxIoOps \in Nat

VARIABLES
  io,             \* [buf |-> the two IOBufs, blk |-> the live blocks, tls |-> the chain]
  want,           \* the bytes each buffer should hold
  written,        \* bytes written so far: each byte is its own number
  ioOps,          \* operations done so far
  halted          \* why the behaviour ended: "null", acquire_tls_block() followed a null
                  \* pointer; "chain", a block is in the thread's chain twice; "input" and
                  \* "output", a LOG(FATAL) of the stream's BackUp()

ioVars == <<io, want, written, ioOps, halted>>

Bufs == {"a", "b"}
Other(x) == CHOOSE y \in Bufs : y # x

EmptyBuf == [big |-> FALSE, refs |-> <<>>, arr |-> <<>>, start |-> 0, nref |-> 0, cap |-> 0,
             nbytes |-> 0]
NoRef == [off |-> 0, len |-> 0, blk |-> 0]

IOBufInit ==
  /\ io = [buf |-> [x \in Bufs |-> EmptyBuf], blk |-> <<>>, tls |-> <<>>]
  /\ want = [x \in Bufs |-> <<>>] /\ written = 0 /\ ioOps = 0 /\ halted = "no"

---------------------------------------------------------------------------
(* References of a buffer, counted from 0.                                 *)

RefNum(b) == IF b.big THEN b.nref ELSE Len(b.refs)
RefAt(b, i) == IF b.big THEN b.arr[(b.start + i) % b.cap] ELSE b.refs[i + 1]
SumLen(refs) == FoldLeft(LAMBDA n, r : n + r.len, 0, refs)
Length(b) == IF b.big THEN b.nbytes ELSE SumLen(b.refs)
BackRef(b) == RefAt(b, RefNum(b) - 1)
WithRef(b, i, r) ==
  IF b.big THEN [b EXCEPT !.arr[(b.start + i) % b.cap] = r,
                          !.nbytes = (@ + r.len) - RefAt(b, i).len]
           ELSE [b EXCEPT !.refs[i + 1] = r]

\* Blocks: a live block has its count, the bytes written so far and its owner.
NewBlock(s) == CHOOSE k \in 1..(Cardinality(DOMAIN s.blk) + 1) :
                 k \notin DOMAIN s.blk /\ \A j \in 1..k - 1 : j \in DOMAIN s.blk
WithBlock(s, k, data, cap) ==
  [s EXCEPT !.blk = [j \in DOMAIN @ \cup {k} |->
     IF j = k THEN [n |-> 1, data |-> data, cap |-> cap] ELSE @[j]]]
BlockFull(s, k) == Len(s.blk[k].data) >= s.blk[k].cap
LeftSpace(s, k) == s.blk[k].cap - Len(s.blk[k].data)
IncRef(s, k) == [s EXCEPT !.blk[k].n = @ + 1]
DecRef(s, k) ==
  IF s.blk[k].n > 1 THEN [s EXCEPT !.blk[k].n = @ - 1]
  ELSE [s EXCEPT !.blk = [j \in DOMAIN @ \ {k} |-> @[j]]]

RECURSIVE DecRefs(_, _)
DecRefs(s, ks) == IF ks = <<>> THEN s ELSE DecRefs(DecRef(s, Head(ks)), Tail(ks))
BlocksOf(b) == [i \in 1..RefNum(b) |-> RefAt(b, i - 1).blk]

---------------------------------------------------------------------------
(* _push_back_ref() and _move_back_ref() on either view.                   *)

\* Mutant: a reference merges with any last reference to its block.
MergesMutant(b, r) == RefNum(b) > 0 /\ BackRef(b).blk = r.blk
Merges(b, r) ==
  RefNum(b) > 0 /\ BackRef(b).blk = r.blk /\ BackRef(b).off + BackRef(b).len = r.off

Grown(b, r) ==
  LET cap == IF b.nref = b.cap THEN 2 * b.cap ELSE b.cap
      keep == b.nref # b.cap
  IN [b EXCEPT !.cap = cap, !.nref = @ + 1, !.nbytes = @ + r.len,
               !.start = IF keep THEN @ ELSE 0,
               !.arr = IF keep THEN [@ EXCEPT ![(b.start + b.nref) % b.cap] = r]
                       ELSE [i \in 0..cap - 1 |-> IF i < b.nref THEN RefAt(b, i)
                                                  ELSE IF i = b.nref THEN r ELSE NoRef]]
ToBigView(b, r) ==
  LET three == Append(b.refs, r) IN
  [big |-> TRUE, refs |-> <<>>, start |-> 0, nref |-> 3, cap |-> InitialCap,
   nbytes |-> SumLen(three),
   arr |-> [i \in 0..InitialCap - 1 |-> IF i < 3 THEN three[i + 1] ELSE NoRef]]

\* Mutant: a reference moved into the last one keeps its count.
MergedAwayMutant(s, k, move) == s
MergedAway(s, k, move) == IF move THEN DecRef(s, k) ELSE s

PushRef(s, x, r, move) ==
  LET b == s.buf[x] IN
  IF Merges(b, r)
    THEN LET s1 == [s EXCEPT !.buf[x] =
                      WithRef(b, RefNum(b) - 1, [BackRef(b) EXCEPT !.len = @ + r.len])]
         IN MergedAway(s1, r.blk, move)
    ELSE LET s1 == [s EXCEPT !.buf[x] =
                      IF b.big THEN Grown(b, r)
                      ELSE IF Len(b.refs) < 2 THEN [b EXCEPT !.refs = Append(@, r)]
                      ELSE ToBigView(b, r)]
         IN IF move THEN s1 ELSE IncRef(s1, r.blk)

\* _pop_or_moveout_front_ref() and _pop_back_ref(): a ring of two falls back.
Small(refs) == [EmptyBuf EXCEPT !.refs = refs]
PopFrontRef(s, x, moveout) ==
  LET b == s.buf[x]
      s1 == IF moveout THEN s ELSE DecRef(s, RefAt(b, 0).blk)
  IN [s1 EXCEPT !.buf[x] =
        IF ~b.big THEN Small(Tail(b.refs))
        ELSE IF b.nref > 3
          THEN [b EXCEPT !.nref = @ - 1, !.nbytes = @ - RefAt(b, 0).len,
                         !.start = (@ + 1) % b.cap, !.arr[b.start] = NoRef]
        ELSE Small(<<RefAt(b, 1), RefAt(b, 2)>>)]
PopBackRef(s, x) ==
  LET b == s.buf[x]
      s1 == DecRef(s, BackRef(b).blk)
  IN [s1 EXCEPT !.buf[x] =
        IF ~b.big THEN Small(Front(b.refs))
        ELSE IF b.nref > 3
          THEN [b EXCEPT !.nref = @ - 1, !.nbytes = @ - BackRef(b).len,
                         !.arr[((b.start + b.nref) - 1) % b.cap] = NoRef]
        ELSE Small(<<RefAt(b, 0), RefAt(b, 1)>>)]

Clear(s, x) == [DecRefs(s, BlocksOf(s.buf[x])) EXCEPT !.buf[x] = EmptyBuf]

---------------------------------------------------------------------------
(* Taking bytes off a buffer.                                              *)

Skipped(r, n) == [r EXCEPT !.off = @ + n, !.len = @ - n]

RECURSIVE PopFrontN(_, _, _)
PopFrontN(s, x, n) ==
  LET r == RefAt(s.buf[x], 0) IN
  IF n = 0 THEN s
  ELSE IF r.len > n THEN [s EXCEPT !.buf[x] = WithRef(@, 0, Skipped(r, n))]
  ELSE PopFrontN(PopFrontRef(s, x, FALSE), x, n - r.len)
PopFront(s, x, n) == IF n >= Length(s.buf[x]) THEN Clear(s, x) ELSE PopFrontN(s, x, n)

RECURSIVE PopBackN(_, _, _)
PopBackN(s, x, n) ==
  LET b == s.buf[x]  r == BackRef(b) IN
  IF n = 0 THEN s
  ELSE IF r.len > n
    THEN [s EXCEPT !.buf[x] = WithRef(b, RefNum(b) - 1, [r EXCEPT !.len = @ - n])]
  ELSE PopBackN(PopBackRef(s, x), x, n - r.len)
PopBack(s, x, n) == IF n >= Length(s.buf[x]) THEN Clear(s, x) ELSE PopBackN(s, x, n)

\* cutn(IOBuf*, n): whole references move, the last one is shared.
RECURSIVE CutN(_, _, _, _)
CutN(s, x, y, n) ==
  LET r == RefAt(s.buf[x], 0) IN
  IF n = 0 THEN s
  ELSE IF r.len <= n
    THEN CutN(PopFrontRef(PushRef(s, y, r, TRUE), x, TRUE), x, y, n - r.len)
  ELSE LET s1 == PushRef(s, y, [r EXCEPT !.len = n], FALSE)
       IN [s1 EXCEPT !.buf[x] = WithRef(@, 0, Skipped(r, n))]

---------------------------------------------------------------------------
(* Filling blocks.                                                         *)

\* share_tls_block(): the first block of the chain with room, or a new one.
RECURSIVE ShareTls(_)
ShareTls(s) ==
  IF s.tls = <<>> THEN [WithBlock(s, NewBlock(s), <<>>, BlockCap) EXCEPT !.tls = <<NewBlock(s)>>]
  ELSE IF BlockFull(s, Head(s.tls)) THEN ShareTls([DecRef(s, Head(s.tls)) EXCEPT !.tls = Tail(@)])
  ELSE s

\* append(data, count) and push_back().
RECURSIVE AppendBytes(_, _, _)
AppendBytes(s, x, bytes) ==
  IF bytes = <<>> THEN s
  ELSE LET s1 == ShareTls(s)
           k == Head(s1.tls)
           nc == IF Len(bytes) < LeftSpace(s1, k) THEN Len(bytes) ELSE LeftSpace(s1, k)
           s2 == PushRef(s1, x, [off |-> Len(s1.blk[k].data), len |-> nc, blk |-> k], FALSE)
       IN AppendBytes([s2 EXCEPT !.blk[k].data = @ \o SubSeq(bytes, 1, nc)], x,
                      SubSeq(bytes, nc + 1, Len(bytes)))

\* resize(n, c): the end is popped, or copies of c, here 0, are appended.
Resize(s, x, n) ==
  LET len == Length(s.buf[x]) IN
  IF n < len THEN PopBack(s, x, len - n) ELSE AppendBytes(s, x, [i \in 1..n - len |-> 0])

\* append(const IOBuf&) and, when this buffer is not empty, append(Movable).
RECURSIVE AppendRefs(_, _, _, _, _)
AppendRefs(s, x, other, i, move) ==
  IF i = RefNum(other) THEN s
  ELSE AppendRefs(PushRef(s, x, RefAt(other, i), move), x, other, i + 1, move)
AppendMove(s, x, y) ==
  LET b == s.buf[x]  other == s.buf[y] IN
  IF RefNum(b) = 0 THEN [s EXCEPT !.buf[x] = other, !.buf[y] = b]
  ELSE [AppendRefs(s, x, other, 0, TRUE) EXCEPT !.buf[y] = EmptyBuf]

\* The copy constructor, after what operator= released: the ring starts at 0.
CopyFrom(s, x, y) ==
  LET s1 == Clear(s, x)  b == s1.buf[y]
      copy == IF ~b.big THEN b
              ELSE [b EXCEPT !.start = 0,
                             !.arr = [i \in 0..b.cap - 1 |-> IF i < b.nref THEN RefAt(b, i) ELSE NoRef]]
  IN [s1 EXCEPT !.buf[x] = copy,
                !.blk = [k \in DOMAIN @ |->
                   [@[k] EXCEPT !.n = @ + Len(SelectSeq(BlocksOf(b), LAMBDA j : j = k))]]]

\* acquire_tls_block(): full blocks are dropped; the result is 0 where the code would
\* follow the null pointer after the last of them.
RECURSIVE AcquireTls(_)
AcquireTls(s) ==
  IF s.tls = <<>> THEN [s |-> s, k |-> 0]
  ELSE LET rest == [s EXCEPT !.tls = Tail(@)] IN
       IF BlockFull(s, Head(s.tls)) THEN AcquireTls(DecRef(rest, Head(s.tls)))
       ELSE [s |-> rest, k |-> Head(s.tls)]

TakesBlock(s, k) == ~BlockFull(s, k) /\ Len(s.tls) < MaxTlsBlocks
ReleaseTls(s, k) ==
  IF TakesBlock(s, k) THEN [s EXCEPT !.tls = <<k>> \o @] ELSE DecRef(s, k)

---------------------------------------------------------------------------
(* IOBufAsZeroCopyOutputStream.  With own, the stream makes its blocks     *)
(* itself; k is _cur_block, 0 for NULL.  A result names what ended it.     *)

StreamBlock(s, own) ==
  IF own \/ s.tls = <<>> THEN [s |-> WithBlock(s, NewBlock(s), <<>>, BlockCap), k |-> NewBlock(s)]
  ELSE AcquireTls(s)
ReleaseBlock(s, k, own) ==
  IF k = 0 THEN s ELSE IF own THEN DecRef(s, k) ELSE ReleaseTls(s, k)

Result(s, k, spare, why) == [s |-> s, k |-> k, spare |-> spare, why |-> why]

\* Next() until the bytes fit.  Each call hands out all that is left of a block; spare is
\* what the last one handed out too much, and holds no byte yet.
RECURSIVE NextUntil(_, _, _, _, _)
NextUntil(s, x, k, bytes, own) ==
  LET c == IF k = 0 \/ BlockFull(s, k) THEN StreamBlock(ReleaseBlock(s, k, own), own)
           ELSE [s |-> s, k |-> k]
      left == LeftSpace(c.s, c.k)
      room == [i \in 1..left |-> IF i <= Len(bytes) THEN bytes[i] ELSE 0]
      r == [off |-> Len(c.s.blk[c.k].data), len |-> left, blk |-> c.k]
      s1 == [PushRef(c.s, x, r, FALSE) EXCEPT !.blk[c.k].data = @ \o room]
  IN IF c.k = 0 THEN Result(s, 0, 0, "null")
     ELSE IF Len(bytes) <= left THEN Result(s1, c.k, left - Len(bytes), "no")
     ELSE NextUntil(s1, x, c.k, SubSeq(bytes, left + 1, Len(bytes)), own)

Shrunk(s, k, n) == [s EXCEPT !.blk[k].data = SubSeq(@, 1, Len(@) - n)]

\* BackUp(count): the end of the current block is given back; without one (an extended
\* BackUp), the block of the last reference is taken up again, unless other bytes follow
\* there.
RECURSIVE BackUp(_, _, _, _, _)
BackUp(s, x, k, count, own) ==
  LET b == s.buf[x]
      r == BackRef(b)
      atEnd == r.off + r.len = Len(s.blk[r.blk].data)
      cur == IF k = 0 THEN IncRef(s, r.blk) ELSE s
      part == [Shrunk(cur, r.blk, count) EXCEPT
                 !.buf[x] = WithRef(b, RefNum(b) - 1, [r EXCEPT !.len = @ - count])]
      whole == ReleaseBlock(PopBackRef(Shrunk(cur, r.blk, r.len), x), r.blk, own)
  IN CASE RefNum(b) = 0 -> Result(s, k, 0, "output")
       [] RefNum(b) > 0 /\ k # 0 /\ (r.blk # k \/ ~atEnd) -> Result(s, k, 0, "output")
       [] RefNum(b) > 0 /\ k = 0 /\ ~atEnd ->
            IF s.blk[r.blk].n = 1 THEN Result(s, 0, 0, "output")
            ELSE Result(PopBack(s, x, count), 0, 0, "no")
       [] OTHER ->
            IF r.len > count THEN IF own THEN Result(part, r.blk, 0, "no")
                                  ELSE Result(ReleaseTls(part, r.blk), 0, 0, "no")
            ELSE IF r.len = count THEN Result(whole, 0, 0, "no")
            ELSE BackUp(whole, x, 0, count - r.len, own)

\* A call on the stream c that had n bytes too many, unless an earlier one ended it.
BacksUp(c, x, n, own) == IF c.why # "no" \/ n = 0 THEN c ELSE BackUp(c.s, x, c.k, n, own)

---------------------------------------------------------------------------

Fresh(n) == [i \in 1..n |-> written + i]
Op(s, w) == io' = s /\ want' = w /\ UNCHANGED halted
Halts(why) == halted' = why /\ UNCHANGED <<io, want, written>>

Appends(x, n) ==
  /\ written + n <= MaxBytes /\ written' = written + n
  /\ Op(AppendBytes(io, x, Fresh(n)), [want EXCEPT ![x] = @ \o Fresh(n)])

\* append_user_data_with_meta(): a block of its own around the user's bytes.
AppendsUserData(x, n) ==
  LET k == NewBlock(io)
      s == WithBlock(io, k, Fresh(n), n)
  IN
  /\ written + n <= MaxBytes /\ written' = written + n
  /\ Op(PushRef(s, x, [off |-> 0, len |-> n, blk |-> k], TRUE), [want EXCEPT ![x] = @ \o Fresh(n)])

AppendsBuf(x) ==
  /\ Op(AppendRefs(io, x, io.buf[Other(x)], 0, FALSE), [want EXCEPT ![x] = @ \o want[Other(x)]])
  /\ UNCHANGED written
MovesBuf(x) ==
  /\ Op(AppendMove(io, x, Other(x)),
        [want EXCEPT ![x] = @ \o want[Other(x)], ![Other(x)] = <<>>])
  /\ UNCHANGED written
Assigns(x) ==
  /\ Op(CopyFrom(io, x, Other(x)), [want EXCEPT ![x] = want[Other(x)]])
  /\ UNCHANGED written

PopsFront(x, n) ==
  /\ Op(PopFront(io, x, n), [want EXCEPT ![x] = SubSeq(@, n + 1, Len(@))])
  /\ UNCHANGED written
PopsBack(x, n) ==
  /\ Op(PopBack(io, x, n), [want EXCEPT ![x] = SubSeq(@, 1, Len(@) - n)])
  /\ UNCHANGED written
ResizesBuf(x, n) ==
  LET new == IF n > Len(want[x]) THEN n - Len(want[x]) ELSE 0 IN
  /\ written + new <= MaxBytes /\ written' = written + new
  /\ Op(Resize(io, x, n), [want EXCEPT ![x] = SubSeq(@ \o [i \in 1..new |-> 0], 1, n)])
Cuts(x, n) ==
  /\ n <= Length(io.buf[x])
  /\ Op(CutN(io, x, Other(x), n),
        [want EXCEPT ![x] = SubSeq(@, n + 1, Len(@)),
                     ![Other(x)] = @ \o SubSeq(want[x], 1, n)])
  /\ UNCHANGED written

\* The stream's destructor.  A block that was released while in the chain makes it a cycle.
Closes(c, own, w, n) ==
  LET s == ReleaseBlock(c.s, c.k, own) IN
  IF c.why # "no" THEN Halts(c.why)
  ELSE IF ~IsInjective(s.tls) THEN Halts("chain")
  ELSE Op(s, w) /\ written' = written + n

\* A message of n bytes serialised through an output stream, which gives back what it did
\* not need and the last `back' bytes of the message.
Serialised(x, n, back, own) ==
  LET c == NextUntil(io, x, 0, Fresh(n), own) IN BacksUp(c, x, c.spare + back, own)
Streams(x, n, back, own) ==
  /\ written + n <= MaxBytes
  /\ Closes(Serialised(x, n, back, own), own, [want EXCEPT ![x] = @ \o Fresh(n - back)], n)

\* The same stream is written to again, ...
StreamsOn(x, n, own) ==
  LET c == Serialised(x, n, 0, own)
      d == NextUntil(c.s, x, c.k, <<written + n + 1>>, own)
  IN
  /\ written + n + 1 <= MaxBytes
  /\ Closes(IF c.why # "no" THEN c ELSE BacksUp(d, x, d.spare, own), own,
            [want EXCEPT ![x] = @ \o Fresh(n + 1)], n + 1)

\* ... or backed up again, by one byte, before or after another buffer used the chain.
StreamsBack(x, n, own) ==
  LET c == Serialised(x, n, 0, own) IN
  /\ written + n <= MaxBytes
  /\ Closes(BacksUp(c, x, 1, own), own, [want EXCEPT ![x] = @ \o Fresh(n - 1)], n)
StreamsBetween(x, n, own) ==
  LET c == Serialised(x, n, 0, own)
      mid == [c EXCEPT !.s = AppendBytes(@, Other(x), <<written + n + 1>>)]
  IN
  /\ written + n + 1 <= MaxBytes
  /\ Closes(IF c.why # "no" THEN c ELSE BacksUp(mid, x, 1, own), own,
            [want EXCEPT ![x] = @ \o Fresh(n - 1), ![Other(x)] = Append(@, written + n + 1)], n + 1)

\* BackUp(count) on an input stream after a Next(), which left _add_offset 0, of no more
\* than that call returned.  What it should refuse is what the condition of its
\* LOG_IF(FATAL) admits, and the other way round.
InputCheckFails(addOffset, r, count) == addOffset = 0 /\ r.len >= count
BacksUpInput(x, count) ==
  LET r == RefAt(io.buf[x], 0) IN
  /\ RefNum(io.buf[x]) > 0 /\ count <= r.len
  /\ InputCheckFails(0, r, count) /\ Halts("input")

\* clear_tls_block_chain() when the thread exits.
ClearsTls ==
  /\ io.tls # <<>>
  /\ Op([DecRefs(io, io.tls) EXCEPT !.tls = <<>>], want)
  /\ UNCHANGED written

\* Bytes enter by buffer a; b is fed from a, as frames are cut from a read buffer.
IOBufNext ==
  /\ halted = "no" /\ ioOps < MaxIoOps /\ ioOps' = ioOps + 1
  /\ \/ ClearsTls \/ AppendsBuf("b") \/ MovesBuf("a") \/ Assigns("b") \/ BacksUpInput("b", 1)
     \/ \E n \in {1, BlockCap + 1} :
          \/ Appends("a", n)
          \/ \E own \in BOOLEAN, back \in {0, n - 1} : Streams("a", n, back, own)
     \/ \E own \in BOOLEAN : \/ StreamsOn("a", BlockCap, own) \/ StreamsBack("a", BlockCap, own)
                             \/ StreamsBetween("a", BlockCap, own)
     \/ AppendsUserData("a", 1)
     \/ \E n \in 1..Len(want["a"]) : PopsFront("a", n) \/ Cuts("a", n)
     \/ \E n \in 1..Len(want["b"]) : PopsBack("b", n)
     \/ ResizesBuf("a", BlockCap)

IOBufSpec == IOBufInit /\ [][IOBufNext]_ioVars

---------------------------------------------------------------------------
(* Reading a buffer.                                                       *)

BytesOf(r) == SubSeq(io.blk[r.blk].data, r.off + 1, r.off + r.len)

\* copy_to(out, n, pos): skip references, then copy from each.
RECURSIVE CopyToFrom(_, _, _, _)
CopyToFrom(b, i, n, offset) ==
  IF i = RefNum(b) \/ n = 0 THEN <<>>
  ELSE LET r == RefAt(b, i) IN
       IF offset # 0 /\ offset >= r.len THEN CopyToFrom(b, i + 1, n, offset - r.len)
       ELSE LET nc == IF n < r.len - offset THEN n ELSE r.len - offset
            IN SubSeq(BytesOf(r), offset + 1, offset + nc) \o CopyToFrom(b, i + 1, n - nc, 0)

\* cutn(void*, n), which cutn(std::string*, n) calls: the bytes copied out, and the rest.
RECURSIVE CutOut(_, _, _)
CutOut(s, x, n) ==
  LET r == RefAt(s.buf[x], 0)
      rest == CutOut(PopFrontRef(s, x, FALSE), x, n - r.len)
  IN IF n = 0 THEN [out |-> <<>>, s |-> s]
     ELSE IF r.len <= n THEN [out |-> BytesOf(r) \o rest.out, s |-> rest.s]
     ELSE [out |-> SubSeq(BytesOf(r), 1, n),
           s |-> [s EXCEPT !.buf[x] = WithRef(@, 0, Skipped(r, n))]]

\* fetch1(), and cut1(), which also moves past the byte.
Fetch1(b) == BytesOf(RefAt(b, 0))[1]
Cut1(s, x) ==
  LET r == RefAt(s.buf[x], 0) IN
  [out |-> <<Fetch1(s.buf[x])>>,
   s |-> IF r.len > 1 THEN [s EXCEPT !.buf[x] = WithRef(@, 0, Skipped(r, 1))]
         ELSE PopFrontRef(s, x, FALSE)]

\* Skip(count) on an input stream, then Next() until the end.
RECURSIVE SkipThenRead(_, _, _)
SkipThenRead(b, i, count) ==
  IF i = RefNum(b) THEN <<>>
  ELSE LET r == RefAt(b, i) IN
       IF count >= r.len THEN SkipThenRead(b, i + 1, count - r.len)
       ELSE SubSeq(BytesOf(r), count + 1, r.len) \o SkipThenRead(b, i + 1, 0)

\* equals(): compare the common part of the two current references and move on.
RECURSIVE EqualsFrom(_, _, _, _, _, _)
EqualsFrom(b1, i, o1, b2, j, o2) ==
  LET r1 == RefAt(b1, i)  r2 == RefAt(b2, j)
      l1 == r1.len - o1   l2 == r2.len - o2
      n == IF l1 < l2 THEN l1 ELSE l2
  IN IF SubSeq(BytesOf(r1), o1 + 1, o1 + n) # SubSeq(BytesOf(r2), o2 + 1, o2 + n) THEN FALSE
     ELSE IF (n = l1 /\ i + 1 = RefNum(b1)) \/ (n = l2 /\ j + 1 = RefNum(b2)) THEN TRUE
     ELSE EqualsFrom(b1, IF n = l1 THEN i + 1 ELSE i, IF n = l1 THEN 0 ELSE o1 + n,
                     b2, IF n = l2 THEN j + 1 ELSE j, IF n = l2 THEN 0 ELSE o2 + n)
Equals(b1, b2) ==
  Length(b1) = Length(b2) /\ (Length(b1) = 0 \/ EqualsFrom(b1, 0, 0, b2, 0, 0))

---------------------------------------------------------------------------

IOBufTypeOK ==
  /\ DOMAIN io.buf = Bufs /\ written \in 0..MaxBytes
  /\ halted \in {"no", "null", "chain", "input", "output"}
  /\ ioOps \in 0..MaxIoOps

\* A reference stays within what its block holds.
Inside(r) == r.blk \in DOMAIN io.blk /\ r.off + r.len <= Len(io.blk[r.blk].data)

\* An IOBuf is the sequence of bytes put into it, whatever was shared, merged, cut or
\* converted between the views: length(), copy_to() at every position, an input stream
\* after every Skip(), equals() and what cutn() and cut1() copy out and leave behind agree
\* with that sequence (src/src-common/fast_iobuf.cc:97-686, 705-763, 1082-1088;
\* src/inc/fast_iobuf_inl.h:34-141).
BytesKept ==
  /\ \A x \in Bufs :
       LET b == io.buf[x]  n == Len(want[x]) IN
       /\ Length(b) = n /\ \A i \in 1..RefNum(b) : Inside(RefAt(b, i - 1))
       /\ \A pos \in 0..n : /\ CopyToFrom(b, 0, n, pos) = SubSeq(want[x], pos + 1, n)
                            /\ SkipThenRead(b, 0, pos) = SubSeq(want[x], pos + 1, n)
       /\ n > 0 => Cut1(io, x) = CutOut(io, x, 1)
  /\ \A n \in 1..Len(want["a"]) :
       LET cut == CutOut(io, "a", n) IN
       cut.out = SubSeq(want["a"], 1, n) /\ cut.s = PopFront(io, "a", n)
  /\ Equals(io.buf["a"], io.buf["b"]) <=> want["a"] = want["b"]

Uses(k) == Len(SelectSeq(io.tls \o BlocksOf(io.buf["a"]) \o BlocksOf(io.buf["b"]),
                         LAMBDA j : j = k))

\* A block lives exactly as long as something refers to it: its count is the number of
\* references to it and of its places in the thread's chain, so no reference outlives
\* its block and no block stays behind, after ordinary and extended BackUp() calls too.
\* In the chain a block is once, up to a second BackUp() in a row, which can release a
\* block that is there already and ends the behaviour (src/src-common/fast_iobuf.cc:490-686, 796-1079;
\* src/inc/fast_iobuf_inl.h:141-196).
BlocksCounted ==
  /\ \A k \in DOMAIN io.blk : io.blk[k].n = Uses(k) /\ Uses(k) > 0
  /\ \A x \in Bufs : ToSet(BlocksOf(io.buf[x])) \subseteq DOMAIN io.blk
  /\ ToSet(io.tls) \subseteq DOMAIN io.blk /\ IsInjective(io.tls)

\* Whatever was written through a stream, and wherever its blocks came from, the checks of
\* the output BackUp() hold: the last reference is the end of the current block, one taken
\* up again has not been written on, and the buffer is not empty before the count is given
\* back (src/src-common/fast_iobuf.cc:841-928).
OutputChecksHold == halted # "output"

\* "BackUp() is not after a Next()" (src/src-common/fast_iobuf.cc:732): that is what the
\* input stream's BackUp() aborts for, so it does not abort one that is after a Next() and
\* gives back no more than that returned.
BackUpAfterNext == halted # "input"
=============================================================================
