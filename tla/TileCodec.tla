----------------------------- MODULE TileCodec -----------------------------
(***************************************************************************)
(* The pure half of the display codec (display-codec): the tile grid, the  *)
(* selection of tiles by damage rectangles, the varint, the run-length     *)
(* coder and the containers a keyframe and a tile delta travel in, as the  *)
(* encoder writes them and the decoder reads them.                         *)
(*                                                                         *)
(* A stream of bytes is a sequence of cells: a number is one byte of a     *)
(* varint, a method or a header, and <<p>> the four bytes of the pixel p.  *)
(* The widths are constants, so that their limits can be met: a varint has *)
(* `Bits` bits to the byte and carries a word of `Word` bits (7 and 32 in  *)
(* the code), and one control describes at most MaxRun pixels (65536).     *)
(***************************************************************************)
EXTENDS Integers, Sequences, FiniteSets, SequencesExt

CONSTANTS
  Bits, Word,   \* of a varint's byte, and of the word it carries
  MaxRun,       \* MAX_RUN
  Colours,      \* what a pixel may hold: sets of lit bits, so that XOR is
                \* symmetric difference
  MaxSide,      \* bound on the frames whose grids are looked at
  Edges,        \* what a damage rectangle's numbers may be
  MaxTile,      \* bound on the pixels of a tile put through the coder
  Wide, High    \* the frame that is encoded and decoded, in tiles of two pixels

ASSUME CodecAssumption ==
  /\ Bits \in Nat \ {0} /\ Word \in Nat \ {0} /\ MaxRun \in Nat \ {0}
  /\ {} \in Colours

\* What a reader returns: what it read and how many cells it took, or neither.
Failed == [ok |-> FALSE, value |-> 0, taken |-> 0]
Read(value, taken) == [ok |-> TRUE, value |-> value, taken |-> taken]
\* Goes on with what was read, as `?` does.
AndThen(read, GoOn(_)) == IF read.ok THEN GoOn(read) ELSE Failed
XorPixel(p, q) == (p \ q) \cup (q \ p)
CeilDiv(a, b) == (a + b - 1) \div b
Least(a, b) == IF a < b THEN a ELSE b

-----------------------------------------------------------------------------
(* geometry.rs: the grid over a frame. *)

Geometry(w, h, t) ==
  [width |-> w, height |-> h, tile |-> t, columns |-> CeilDiv(w, t), rows |-> CeilDiv(h, t)]
TileCount(g) == g.columns * g.rows
TileIndices(g) == 0..(TileCount(g) - 1)

Rect(x, y, w, h) == [x |-> x, y |-> y, width |-> w, height |-> h]

\* Where a tile sits, clipped to the frame.
Tile(g, i) ==
  LET x == (i % g.columns) * g.tile
      y == (i \div g.columns) * g.tile
  IN  Rect(x, y, Least(g.tile, g.width - x), Least(g.tile, g.height - y))

\* The pixels of a rectangle, and of a frame.
Inside(r) == (r.x..(r.x + r.width - 1)) \X (r.y..(r.y + r.height - 1))
FramePixels(g) == Inside(Rect(0, 0, g.width, g.height))

-----------------------------------------------------------------------------
(* encoder.rs: select_tiles. *)

\* x.saturating_add(width) in a word of `Word` bits.
SaturatingAdd(a, b) == Least(a + b, 2^Word - 1)

\* Mutant: the last pixel of a rectangle is taken for the one after it.
SelectedPast(g, r) ==
  IF r.width = 0 \/ r.height = 0 \/ r.x >= g.width \/ r.y >= g.height THEN {}
  ELSE LET right == Least(SaturatingAdd(r.x, r.width), g.width - 1)
           bottom == Least(SaturatingAdd(r.y, r.height), g.height - 1)
       IN {(row * g.columns) + column : row \in (r.y \div g.tile)..(bottom \div g.tile),
                                      column \in (r.x \div g.tile)..(right \div g.tile)}

\* The tiles one rectangle of a hint reaches.
Selected(g, r) ==
  IF r.width = 0 \/ r.height = 0 \/ r.x >= g.width \/ r.y >= g.height THEN {}
  ELSE LET right == Least(SaturatingAdd(r.x, r.width), g.width) - 1
           bottom == Least(SaturatingAdd(r.y, r.height), g.height) - 1
       IN {(row * g.columns) + column : row \in (r.y \div g.tile)..(bottom \div g.tile),
                                      column \in (r.x \div g.tile)..(right \div g.tile)}

-----------------------------------------------------------------------------
(* varint.rs. *)

Radix == 2^Bits
\* How many bytes a word can take, and what the last of them may carry.
Bytes == CeilDiv(Word, Bits)
TopByte == 2^(Word - Bits * (Bytes - 1))

RECURSIVE VarintWrite(_)
VarintWrite(value) ==
  IF value >= Radix THEN <<(value % Radix) + Radix>> \o VarintWrite(value \div Radix)
  ELSE <<value>>

\* A last byte with bits a word cannot hold, or with another after it, is none.
EndsHere(bytes, n) ==
  /\ (\A i \in 1..(n - 1) : bytes[i] >= Radix) /\ bytes[n] < Radix
  /\ n = Bytes => bytes[n] < TopByte

VarintRead(bytes) ==
  LET ends == {n \in 1..Least(Len(bytes), Bytes) : EndsHere(bytes, n)}
      Digits(n) == Reverse(SubSeq(bytes, 1, n))
  IN  IF ends = {} THEN Failed
      ELSE LET n == CHOOSE e \in ends : TRUE
           IN  Read(FoldLeft(LAMBDA v, b : (v * Radix) + (b % Radix), 0, Digits(n)), n)

-----------------------------------------------------------------------------
(* zrle.rs. *)

\* How far the run of equal pixels at the head reaches.
RunAt(pixels) ==
  LET same == {n \in 1..Least(Len(pixels), MaxRun) : \A i \in 1..n : pixels[i] = pixels[1]}
  IN  CHOOSE n \in same : \A k \in same : k <= n

\* How far a literal reaches: to the next pixel that repeats.
LiteralAt(pixels) ==
  LET repeats == {i \in 1..(Len(pixels) - 1) : pixels[i] = pixels[i + 1]}
      before == IF repeats = {} THEN Len(pixels) ELSE (CHOOSE i \in repeats : \A j \in repeats : i <= j) - 1
  IN  Least(before, MaxRun)

Cells(pixels) == [i \in 1..Len(pixels) |-> <<pixels[i]>>]

RECURSIVE ZrleEncode(_)
ZrleEncode(pixels) ==
  IF pixels = <<>> THEN <<>>
  ELSE LET run == RunAt(pixels)
           literal == LiteralAt(pixels)
       IN IF run > 1
          THEN VarintWrite(2 * (run - 1) + 1) \o Cells(<<pixels[1]>>)
                 \o ZrleEncode(SubSeq(pixels, run + 1, Len(pixels)))
          ELSE VarintWrite((literal - 1) * 2) \o Cells(SubSeq(pixels, 1, literal))
                 \o ZrleEncode(SubSeq(pixels, literal + 1, Len(pixels)))

\* The first pixels of a stream: `want` of them.
RECURSIVE ZrleRuns(_, _)
ZrleRuns(bytes, want) ==
  IF want = 0 THEN Read(<<>>, 0)
  ELSE AndThen(VarintRead(bytes), LAMBDA head :
         LET count == (head.value \div 2) + 1
             repeat == head.value % 2 = 1
             taken == head.taken + (IF repeat THEN 1 ELSE count)
             run == [i \in 1..count |-> bytes[head.taken + (IF repeat THEN 1 ELSE i)][1]]
         IN IF count > MaxRun \/ count > want \/ taken > Len(bytes) THEN Failed
            ELSE AndThen(ZrleRuns(SubSeq(bytes, taken + 1, Len(bytes)), want - count),
                         LAMBDA rest : Read(run \o rest.value, taken + rest.taken)))

\* decode: bytes that remain once the tile is full are an error.
ZrleDecode(bytes, want) ==
  AndThen(ZrleRuns(bytes, want), LAMBDA runs : IF runs.taken = Len(bytes) THEN runs ELSE Failed)

-----------------------------------------------------------------------------
(* encoder.rs and decoder.rs: a tile, and the container of a frame. *)

\* A frame is a function on its pixels; gather and scatter take a tile's out of
\* it, row by row, and put them back.
Gather(frame, r) ==
  [i \in 1..(r.width * r.height) |->
     frame[<<r.x + ((i - 1) % r.width), r.y + ((i - 1) \div r.width)>>]]
Scatter(frame, r, tile) ==
  [p \in DOMAIN frame |->
     IF p \in Inside(r) THEN tile[((p[2] - r.y) * r.width) + (p[1] - r.x) + 1] ELSE frame[p]]

Xored(tile, previous) == [i \in 1..Len(tile) |-> XorPixel(tile[i], previous[i])]

\* write_tile takes the shortest of the methods; what is checked holds for any.
Raw == 0
Zrle == 1
XorZrle == 2
Methods(keyframe) == IF keyframe THEN {Raw, Zrle} ELSE {Raw, Zrle, XorZrle}

WriteTile(tile, previous, method) ==
  LET zrle == ZrleEncode(IF method = XorZrle THEN Xored(tile, previous) ELSE tile)
  IN  IF method = Raw THEN <<Raw>> \o Cells(tile)
      ELSE <<method>> \o VarintWrite(Len(zrle)) \o zrle

\* The tile at the head of `bytes`, XORed onto what the frame holds there.
ReadTile(bytes, held, keyframe) ==
  LET pixels == Len(held)
  IN  CASE bytes = <<>> -> Failed
        [] bytes # <<>> /\ Head(bytes) \notin Methods(keyframe) -> Failed
        [] bytes # <<>> /\ Head(bytes) = Raw ->
             IF Len(bytes) < 1 + pixels THEN Failed
             ELSE Read([i \in 1..pixels |-> bytes[1 + i][1]], 1 + pixels)
        [] OTHER ->
             AndThen(VarintRead(Tail(bytes)), LAMBDA head :
               LET start == 1 + head.taken
               IN IF start + head.value > Len(bytes) THEN Failed
                  ELSE AndThen(ZrleDecode(SubSeq(bytes, start + 1, start + head.value), pixels),
                         LAMBDA body :
                           Read(IF Head(bytes) = Zrle THEN body.value ELSE Xored(body.value, held),
                                start + head.value)))

\* The container's header names the grid, so that a frame of another geometry
\* is refused and not drawn.
Header(keyframe, g) == <<IF keyframe THEN 1 ELSE 0, g.columns, g.rows>>
HeaderIs(payload, keyframe, g) == SubSeq(payload, 1, 3) = Header(keyframe, g)

\* encode_keyframe: every tile in order.
EncodeKeyframe(g, frame, method) ==
  Header(TRUE, g)
    \o FlattenSeq([n \in 1..TileCount(g) |-> WriteTile(Gather(frame, Tile(g, n - 1)), <<>>, method)])

\* differs: whether a tile's pixels changed.
Differs(g, frame, reference, i) ==
  Gather(frame, Tile(g, i)) # Gather(reference, Tile(g, i))

\* encode_delta: the selected tiles that changed, in order, each with its index.
EncodeDelta(g, frame, reference, selected, method) ==
  LET written == {i \in selected : Differs(g, frame, reference, i)}
      One(i) == VarintWrite(i)
                  \o WriteTile(Gather(frame, Tile(g, i)), Gather(reference, Tile(g, i)), method)
  IN  Header(FALSE, g) \o FlattenSeq([n \in 1..Cardinality(written) |->
                                       One(SetToSortSeq(written, <)[n])])

\* apply_keyframe from tile `i`: the frame, or none for bytes that are too few
\* or too many.
RECURSIVE ApplyTiles(_, _, _, _)
ApplyTiles(g, frame, body, i) ==
  IF i = TileCount(g) THEN IF body = <<>> THEN Read(frame, 0) ELSE Failed
  ELSE LET r == Tile(g, i)
       IN AndThen(ReadTile(body, Gather(frame, r), TRUE), LAMBDA read :
            ApplyTiles(g, Scatter(frame, r, read.value),
                       SubSeq(body, read.taken + 1, Len(body)), i + 1))
ApplyKeyframe(g, frame, payload) ==
  IF HeaderIs(payload, TRUE, g) THEN ApplyTiles(g, frame, SubSeq(payload, 4, Len(payload)), 0)
  ELSE Failed

\* apply_delta: indices inside the grid that only increase.
RECURSIVE ApplyChanges(_, _, _, _)
ApplyChanges(g, frame, body, after) ==
  IF body = <<>> THEN Read(frame, 0)
  ELSE AndThen(VarintRead(body), LAMBDA index :
         LET r == Tile(g, index.value)
             rest == SubSeq(body, index.taken + 1, Len(body))
         IN IF index.value \notin TileIndices(g) \/ index.value <= after THEN Failed
            ELSE AndThen(ReadTile(rest, Gather(frame, r), FALSE), LAMBDA read :
                   ApplyChanges(g, Scatter(frame, r, read.value),
                                SubSeq(rest, read.taken + 1, Len(rest)), index.value)))
ApplyDelta(g, frame, payload) ==
  IF HeaderIs(payload, FALSE, g) THEN ApplyChanges(g, frame, SubSeq(payload, 4, Len(payload)), -1)
  ELSE Failed

-----------------------------------------------------------------------------
(* Properties. *)

Grids == {Geometry(w, h, t) : w \in 1..MaxSide, h \in 1..MaxSide, t \in {2, 3}}

\* The tiles of a grid cover the frame without overlapping, whatever is left of
\* its last column and row (Geometry::tile), and a damage rectangle selects
\* exactly the tiles that it shares a pixel with, stale, empty and overflowing
\* rectangles included (select_tiles): one tile fewer and a change is never
\* sent.
SelectionReaches ==
  \A g \in Grids :
    /\ \A p \in FramePixels(g) : \E i \in TileIndices(g) :
         \A j \in TileIndices(g) : p \in Inside(Tile(g, j)) <=> i = j
    /\ \A i \in TileIndices(g) : Inside(Tile(g, i)) \subseteq FramePixels(g)
    /\ \A x, y, w, h \in Edges :
         Selected(g, Rect(x, y, w, h))
           = {i \in TileIndices(g) : Inside(Tile(g, i)) \cap Inside(Rect(x, y, w, h)) # {}}

\* Every word is read back from the bytes it was written as, and no bytes at
\* all are read as a number that is not a word (varint::read's fifth byte).
VarintsAreWords ==
  /\ \A v \in 0..(2^Word - 1) :
       VarintRead(VarintWrite(v)) = Read(v, Len(VarintWrite(v)))
  /\ \A n \in 1..(Bytes + 1) : \A bytes \in [1..n -> 0..(2 * Radix - 1)] :
       LET read == VarintRead(bytes) IN
       read.ok => read.value < 2^Word /\ read.taken <= n

\* A tile of any pixels, in runs at and past the longest one, comes back from
\* its stream, and from no stream that is a cell short or long (zrle).
TilesComeBack ==
  \A n \in 0..MaxTile : \A pixels \in [1..n -> Colours] :
    LET stream == ZrleEncode(pixels) IN
    /\ ZrleDecode(stream, n) = Read(pixels, Len(stream))
    /\ stream # <<>> => ~ZrleDecode(SubSeq(stream, 1, Len(stream) - 1), n).ok
    /\ ~ZrleDecode(stream \o <<0>>, n).ok

\* A decoder that holds the encoder's reference holds the new reference after
\* a delta, whichever tiles were selected and whichever method each took, and
\* a keyframe gives it the frame whatever it held.  A frame of another grid is
\* refused.
FramesComeBack ==
  LET g == Geometry(Wide, High, 2)
      Frames == [FramePixels(g) -> Colours]
      Advanced(frame, reference, selected) ==
        [p \in FramePixels(g) |->
           IF \E i \in selected : p \in Inside(Tile(g, i)) THEN frame[p] ELSE reference[p]]
  IN  \A frame, reference \in Frames :
        /\ \A method \in Methods(TRUE) :
             ApplyKeyframe(g, reference, EncodeKeyframe(g, frame, method)) = Read(frame, 0)
        /\ \A selected \in SUBSET TileIndices(g), method \in Methods(FALSE) :
             ApplyDelta(g, reference, EncodeDelta(g, frame, reference, selected, method))
               = Read(Advanced(frame, reference, selected), 0)
        /\ ~ApplyKeyframe(Geometry(Wide + 2, High, 2), reference, EncodeKeyframe(g, frame, Raw)).ok
=============================================================================
