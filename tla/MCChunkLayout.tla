--------------------------- MODULE MCChunkLayout ---------------------------
(* Bytes for integers.  Even, short-tailed and single-chunk uploads, some at
   the largest sum that fits, some beyond it and one over the body limit. *)
EXTENDS ChunkLayout
Shape(s, c) == [size |-> s, chunkSize |-> c]
MCRequests ==
  {Shape(1, 1), Shape(5, 2), Shape(6, 3), Shape(7, 3), Shape(7, 7), Shape(3, 7), Shape(9, 1),
   Shape(17, 5), Shape(112, 16), Shape(28, 100), Shape(29, 100), Shape(90, 31), Shape(1, 127),
   Shape(127, 16)}
MCIndexes == -1 .. 9
MCLengths == 0 .. 31
=============================================================================
