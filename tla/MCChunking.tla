---------------------------- MODULE MCChunking ----------------------------
(* Sizes and overlaps for the TLC runs of Chunking. *)
EXTENDS Chunking

\* No more overlap than half a window, like the defaults 1200 and 200; odd,
\* even, none and as much as possible.
ModerateSettings ==
  {[size |-> 4, overlap |-> 2], [size |-> 3, overlap |-> 1],
   [size |-> 4, overlap |-> 0], [size |-> 1, overlap |-> 0]}

\* The guard of chunk_text lets it pass all the same.
LargeOverlap == {[size |-> 4, overlap |-> 3]}
=============================================================================
