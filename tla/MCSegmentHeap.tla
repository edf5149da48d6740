--------------------------- MODULE MCSegmentHeap ---------------------------
(* Bounds for TLC, in the configurations: two segments that touch, of four *)
(* smallest blocks each, and requests that fill them exactly, leave a      *)
(* remainder of 48 bytes, of less and of more, and one that is too large.  *)
EXTENDS SegmentHeap
=============================================================================
