------------------------------ MODULE MCTiers ------------------------------
(* The two ends of the choice by size: the table of the small tier, with   *)
(* the values of the code, is built before the first call on the large     *)
(* tier.                                                                   *)
EXTENDS LargeAllocator, SizeClassTable, Sequences

MCSizes == <<8, 16, 24, 32, 48, 64, 80, 96, 112, 128, 160, 192, 224, 256, 320,
             384, 448, 512, 640, 768, 896, 1024, 1280, 1536, 1792, 2048, 2560, 3072, 3584, 4096>>
MCClassSizes == [i \in 0 .. (Len(MCSizes) - 1) |-> MCSizes[i + 1]]

MCInit == TableInit /\ Init

MCNext ==
    \/ TableNext /\ UNCHANGED vars
    \/ Built /\ Next /\ UNCHANGED tableVars

MCSpec ==
    /\ MCInit
    /\ [][MCNext]_<<tableVars, vars>>
    /\ WF_<<tableVars, vars>>(TableNext /\ UNCHANGED vars)
=============================================================================
