---------------------------- MODULE MCTileServer ----------------------------
(* Four packs and two request threads.  Paths and stems are ordered as     *)
(* names.                                                                  *)
EXTENDS TileServer, TLC

(* A world overview without a priority, a region, and two cuts of one      *)
(* deeper city, of one stem, in different directories.                     *)
MCFiles == {
  [path |-> 1, stem |-> 1, state |-> "good", priority |-> None, maxZoom |-> 6, size |-> None],
  [path |-> 2, stem |-> 2, state |-> "good", priority |-> 20, maxZoom |-> 13, size |-> 3],
  [path |-> 3, stem |-> 3, state |-> "good", priority |-> 20, maxZoom |-> 15, size |-> 2],
  [path |-> 4, stem |-> 3, state |-> "good", priority |-> 20, maxZoom |-> 15, size |-> 2]}

(* Everything is usable, or one of the cuts only.                          *)
MCDamages == {<<>>, 1 :> "oversized" @@ 2 :> "no archive" @@ 3 :> "unreadable"}

(* Ties within a rank, a pack alone in the first rank, both cuts with and  *)
(* without the overview, none.                                             *)
MCFits == {
  <<"contains", "contains", "contains", "none">>, <<"none", "contains", "covers", "none">>,
  <<"contains", "none", "contains", "contains">>, <<"none", "none", "covers", "contains">>,
  <<"none", "none", "none", "none">>}

Symmetry == Permutations(Threads)
=============================================================================
