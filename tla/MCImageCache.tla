---------------------------- MODULE MCImageCache ----------------------------
(* ImageCache on small instances: downloaders and files are model values. *)
EXTENDS ImageCache

CONSTANTS ann, bob, f1, f2, f3

TwoDownloaders == {ann, bob}
SomeFiles == {f1, f2, f3}
=============================================================================
