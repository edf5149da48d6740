--------------------------- MODULE MCThreadCache ---------------------------
(* Bounds for TLC: strides that do not divide the run, runs that touch.    *)
EXTENDS ThreadCache

MCStrides == [c \in Class |-> IF c = 0 THEN 32 ELSE 48]
=============================================================================
