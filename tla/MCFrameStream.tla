--------------------------- MODULE MCFrameStream ---------------------------
(* FrameStream on two tiles, and TileCodec on small tiles and frames. *)
EXTENDS FrameStream, TileCodec

\* The codec a stream starts with is exact at every edge of its numbers: in the
\* tiles it selects, in its words, in its tiles and in its frames (encoder.rs,
\* varint.rs, zrle.rs, decoder.rs). FrameStream takes each of these for granted
\* in every step after Init.
CodecIsExact ==
  Init => SelectionReaches /\ VarintsAreWords /\ TilesComeBack /\ FramesComeBack
=============================================================================
