--------------------------- MODULE MCSlotGeneration ---------------------------
(* Windows around what the seed writes (13:00-15:00 and 20:00-23:00), with *)
(* ends that the interval hits or misses, an empty window, one that closes *)
(* before it opens, and one that closes at midnight.                       *)
EXTENDS SlotGeneration

W(h1, m1, h2, m2) == [start |-> <<h1, m1>>, end |-> <<h2, m2>>]

MCServiceWindows ==
    {W(13, 0, 15, 0), W(20, 0, 23, 0), W(12, 45, 14, 20), W(9, 0, 9, 0),
     W(22, 0, 1, 0), W(23, 30, 24, 0), W(13, 0, 13, 1)}

MCIntervals == {7, 15, 30, 45, 120}

ZeroInterval == {0}
===============================================================================
