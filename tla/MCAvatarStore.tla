--------------------------- MODULE MCAvatarStore ----------------------------
(* AvatarStore with the code's two workers and two places for prepared      *)
(* images, and snapshots that name more faces than the limit, overlap, or   *)
(* name none.                                                               *)
EXTENDS AvatarStore

CONSTANTS a, b, c, d

MCSnapshots == {<<a, b, c, d>>, <<d, b>>, <<>>}
MCStoredCaches == {{}, {a, d}}

=============================================================================
