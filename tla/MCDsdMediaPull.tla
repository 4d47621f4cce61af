----------------------------- MODULE MCDsdMediaPull -----------------------------
(***************************************************************************)
(* DsdMediaPull with small DSF payloads of two channels and blocks of two  *)
(* bytes: one whose last blocks are half padding, one that is cut off in   *)
(* its third block group, and one that is shorter than its sample count.   *)
(***************************************************************************)
EXTENDS PlaybackInvariant

SmallPayloads ==
  {[size |-> 12, actual |-> 5, truncated |-> FALSE],
   [size |-> 11, actual |-> 5, truncated |-> TRUE],
   [size |-> 8,  actual |-> 6, truncated |-> FALSE]}

===============================================================================
