------------------------------ MODULE MapPacks ------------------------------
(***************************************************************************)
(* Offline map packs as discovery finds them: which manifests on disk make *)
(* a pack, in which order packs are listed, and which of them a region of  *)
(* a given zoom can be cut from.  Pure operators; the tile server and the  *)
(* set-up of packs build on them.                                          *)
(*                                                                         *)
(* A manifest on disk is a record: its path (a number, in the order in     *)
(* which the directories are listed), the file's state, its stem, which    *)
(* two files in different directories may share, and the values of         *)
(* priority, max_zoom and size, which are None when they are missing or of *)
(* the wrong type.                                                         *)
(***************************************************************************)
EXTENDS Integers, Sequences, FiniteSets, SequencesExt

CONSTANT None

FileStates == {"good", "oversized", "unreadable", "no document", "no archive"}

OrElse(value, default) == IF value = None THEN default ELSE value

(* load_pack: anything OrcMaps itself would refuse is None.                *)
LoadPack(file) ==
  IF file.state # "good" THEN None
  ELSE [path |-> file.path, stem |-> file.stem, priority |-> OrElse(file.priority, 0),
        maxZoom |-> OrElse(file.maxZoom, 0), size |-> file.size]

(* The stable sort of discover_packs; the stem stands for the display name. *)
SameKey(p, q) == p.priority = q.priority /\ p.maxZoom = q.maxZoom /\ p.stem = q.stem
ListedBefore(p, q) ==
  \/ p.priority > q.priority
  \/ p.priority = q.priority /\ p.maxZoom > q.maxZoom
  \/ p.priority = q.priority /\ p.maxZoom = q.maxZoom /\ p.stem < q.stem
  \/ SameKey(p, q) /\ p.path < q.path

(* discover_packs: one bad manifest does not hide the others.              *)
Usable(files) == {LoadPack(f) : f \in files} \ {None}
Listings(packs) ==
  {s \in [1..Cardinality(packs) -> packs] :
     \A i, j \in 1..Cardinality(packs) : i < j => ListedBefore(s[i], s[j])}
DiscoverPacks(files) == CHOOSE s \in Listings(Usable(files)) : TRUE

(* source_packs_for: the packs deep enough, the smallest first, one of     *)
(* unknown size last.                                                      *)
CheaperSource(p, q) ==
  \/ p.size # None /\ (q.size = None \/ p.size < q.size)
  \/ p.size = q.size /\ p.stem < q.stem
  \/ p.size = q.size /\ p.stem = q.stem /\ ListedBefore(p, q)

SourcePacksFor(packs, zoom) ==
  SetToSortSeq({p \in ToSet(packs) : p.maxZoom >= zoom}, CheaperSource)

(* detect_capability and SetupCapability.can_build_locally: the tools, and *)
(* the deepest zoom a region can be cut at.                                *)
DeepestZoom(packs) ==
  LET zooms == {packs[i].maxZoom : i \in DOMAIN packs}
  IN  IF zooms = {} THEN 0 ELSE CHOOSE z \in zooms : \A y \in zooms : y <= z

DetectCapability(tools, packs) ==
  [packs |-> packs, build |-> tools = "all" /\ DeepestZoom(packs) > 0]
=============================================================================
