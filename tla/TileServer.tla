----------------------------- MODULE TileServer -----------------------------
(***************************************************************************)
(* The offline basemap: the map widget and its bridge to the web page on   *)
(* the GUI thread, the loopback tile server with its LRU cache, and the    *)
(* HTTP request threads that render tiles by running OrcMaps' tool.  The   *)
(* page is the Leaflet layer it shows.  One tile stands for the view;      *)
(* which packs contain it, overlap it and really hold data for it is       *)
(* chosen freely at the start.  A pack is identified by its path; saved    *)
(* choice and cache know only its stem.                                    *)
(***************************************************************************)
EXTENDS MapPacks

CONSTANTS
  Files,       \* the manifests of the packs on disk
  Damages,     \* how some of them may be unusable at a start
  Fits,        \* how the packs' bounds may lie to the tile
  Threads,     \* HTTP request threads
  Capacity,    \* TileCache capacity
  NoData,      \* the _NO_DATA cache entry
  NotFound, Failed, \* the answers 404 and 500
  MaxPending   \* bound: basemap changes before the page has loaded

ASSUME CapacityAssumption == Capacity \in Nat \ {0} /\ MaxPending \in Nat
ASSUME FilesAssumption ==
  /\ IsFiniteSet(Files)
  /\ Files \subseteq [path: Int, stem: Int, state: FileStates, priority: Int \cup {None},
                     maxZoom: Int \cup {None}, size: Int \cup {None}]
  /\ \A f, g \in Files : f.path = g.path => f = g
  /\ \A f \in Files : f.state = "good"
  /\ \A d \in Damages : \A p \in DOMAIN d : d[p] \in FileStates \ {"good"}

VARIABLES
  fit,      \* manifest bounds: does a pack contain the tile or only cover it
  data,     \* packs that cover the tile and really hold something there
  theme,    \* the saved map theme
  saved,    \* the saved basemap choice: a stem, or None for online
  installed,\* what discovery finds since the program started, in its order
  gui,      \* the GUI thread is idle, or between self.style and cache.clear
  served,   \* TileServer.packs, or <<>> when no server runs
  style,    \* TileServer.style
  cache,    \* TileCache._entries, oldest first: stem, style, value
  reqs,     \* the request threads
  ready,    \* MapBridge._ready
  pending,  \* MapBridge._pending_calls: the kinds of the buffered setBasemap
  layer,    \* what the page shows: "online" or "offline"
  shown,    \* the tile in the page's current layer
  orphaned  \* a server failed to start after the previous one was stopped

geo == <<fit, data, installed>>
server == <<served, style>>
page == <<ready, pending, layer, orphaned>>
vars == <<fit, data, theme, saved, installed, gui, served, style, cache, reqs,
          ready, pending, layer, shown, orphaned>>

Themes == {"dark", "light"}
PackSet == {f.path : f \in Files}
Paths(packs) == [i \in DOMAIN packs |-> packs[i].path]
Manifest(p) == CHOOSE f \in Files : f.path = p
StemOf(p) == Manifest(p).stem
Image == [pack: PackSet, style: Themes, tainted: BOOLEAN]
Idle == [at |-> "idle"]
Outcome == {NotFound, Failed}

ASSUME AnswersAssumption == \A a \in {None, NoData} \cup Outcome : a \notin Image

ContainsTile(p) == fit[p] = "contains"
CoversTile(p) == fit[p] \in {"contains", "covers"}

Init ==
  /\ fit \in Fits
  /\ data \in SUBSET {p \in PackSet : CoversTile(p)}
  /\ theme \in Themes /\ saved = None /\ installed = Paths(DiscoverPacks(Files)) /\ gui = "idle"
  /\ served = <<>> /\ style = "dark" /\ cache = <<>>
  /\ reqs = [t \in Threads |-> Idle]
  /\ ready = FALSE /\ pending = <<>> /\ layer = "online"
  /\ shown = None /\ orphaned = FALSE

(***************************************************************************)
(* Choosing a pack for a tile                                              *)
(***************************************************************************)
(* A Python list comprehension: the members of s that are in S, in order.  *)
Kept(s, S) ==
  LET kept[n \in 0..Len(s)] == IF n = 0 THEN <<>>
                               ELSE IF s[n] \in S THEN Append(kept[n - 1], s[n])
                               ELSE kept[n - 1]
  IN  kept[Len(s)]

(* Fault variant: packs are tried in the order they are served.            *)
PacksForUnranked(packs) == Kept(packs, {p \in PackSet : CoversTile(p)})

(* Packs that contain the tile first, then those that only overlap it.     *)
Containing == {p \in PackSet : ContainsTile(p)}
Overlapping == {p \in PackSet : CoversTile(p) /\ ~ContainsTile(p)}
PacksFor(packs) == Kept(packs, Containing) \o Kept(packs, Overlapping)

(***************************************************************************)
(* TileCache                                                               *)
(***************************************************************************)
Entries(p, s) == {e \in ToSet(cache) : e.stem = StemOf(p) /\ e.style = s}
Lookup(p, s) == Kept(cache, Entries(p, s))
Others(p, s) == Kept(cache, ToSet(cache) \ Entries(p, s))

(* get: a hit becomes the most recent entry.                               *)
Touched(p, s) == Others(p, s) \o Lookup(p, s)

Put(p, s, v) ==
  LET grown == Append(Others(p, s), [stem |-> StemOf(p), style |-> s, value |-> v])
      over == Len(grown) - Capacity
  IN  cache' = IF over > 0 THEN SubSeq(grown, over + 1, Len(grown)) ELSE grown

(***************************************************************************)
(* Request threads: do_GET and TileServer.render                           *)
(***************************************************************************)
(* An answer reaches the page if its layer is still the one displayed.     *)
Answer(t, what) ==
  /\ reqs' = [reqs EXCEPT ![t] = Idle]
  /\ shown' = IF reqs[t].current THEN what ELSE shown

(* The page requests the tile; without a candidate the answer is 404.      *)
Request(t) ==
  /\ layer = "offline" /\ served # <<>> /\ shown = None /\ reqs[t].at = "idle"
  /\ \A u \in Threads : reqs[u].at # "idle" => ~reqs[u].current
  /\ IF PacksFor(served) = <<>>
     THEN /\ shown' = NotFound /\ UNCHANGED reqs
     ELSE /\ reqs' = [reqs EXCEPT ![t] = [at |-> "lookup", left |-> PacksFor(served),
                                          current |-> TRUE]]
          /\ UNCHANGED shown
  /\ UNCHANGED <<geo, saved, theme, gui, server, cache, page>>

Candidate(t) == Head(reqs[t].left)
NextCandidate(t) ==
  reqs' = [reqs EXCEPT ![t] = [at |-> "lookup", left |-> Tail(reqs[t].left),
                               current |-> reqs[t].current]]

(* Compute the key from self.style and look it up.  When every candidate   *)
(* was skipped the loop ends and the request fails.                        *)
LookUp(t) ==
  /\ reqs[t].at = "lookup"
  /\ IF reqs[t].left = <<>>
     THEN Answer(t, Failed) /\ UNCHANGED cache
     ELSE LET p == Candidate(t)
              found == Lookup(p, style)
          IN  /\ cache' = Touched(p, style)
              /\ IF found = <<>>
                 THEN /\ reqs' = [reqs EXCEPT ![t] =
                            [at |-> "render", left |-> reqs[t].left, key |-> style,
                             changes |-> 0, current |-> reqs[t].current]]
                      /\ UNCHANGED shown
                 ELSE IF found[1].value = NoData
                 THEN NextCandidate(t) /\ UNCHANGED shown
                 ELSE Answer(t, found[1].value)
  /\ UNCHANGED <<geo, saved, theme, gui, server, page>>

(* Start the tool with self.style, read a second time.                     *)
Render(t) ==
  /\ reqs[t].at = "render"
  /\ reqs' = [reqs EXCEPT ![t] = [at |-> "put", left |-> @.left, key |-> @.key,
                                  changes |-> @.changes, rendered |-> style,
                                  current |-> @.current]]
  /\ UNCHANGED <<geo, saved, theme, gui, server, cache, page, shown>>

IsEmptyRender(t) == Candidate(t) \notin data

(* Fault variant: no candidate is treated as the last one.                 *)
NeverLast(t) == FALSE

IsLast(t) == Len(reqs[t].left) = 1

(* The tool is done: answer with the tile, or note that this pack has      *)
(* nothing here and go on; the last candidate is served even when empty.   *)
Store(t) ==
  /\ reqs[t].at = "put"
  /\ LET r == reqs[t]
         image == [pack |-> Candidate(t), style |-> r.rendered,
                   tainted |-> r.changes > 1]
     IN  IF IsLast(t) \/ ~IsEmptyRender(t)
         THEN Put(Candidate(t), r.key, image) /\ Answer(t, image)
         ELSE Put(Candidate(t), r.key, NoData) /\ NextCandidate(t) /\ UNCHANGED shown
  /\ UNCHANGED <<geo, saved, theme, gui, server, page>>

(* The tool fails or times out: the request fails, nothing is cached.      *)
RenderFailed(t) ==
  /\ reqs[t].at = "put"
  /\ Answer(t, Failed)
  /\ UNCHANGED <<geo, saved, theme, gui, server, cache, page>>

(***************************************************************************)
(* GUI thread: MapWidget and MapBridge                                     *)
(***************************************************************************)
Stale(r) == IF r.at = "idle" THEN r ELSE [r EXCEPT !.current = FALSE]

(* The page replaces its layer: nothing is shown in it yet.                *)
Display(kind) == layer' = kind /\ shown' = None

(* MapBridge._run: buffered until the page has reported itself ready.      *)
Run(kind) ==
  IF ready
  THEN Display(kind) /\ UNCHANGED pending
  ELSE pending' = Append(pending, kind) /\ UNCHANGED <<layer, shown>>

GuiMay == gui = "idle" /\ Len(pending) < MaxPending

(* Requests of a server that was stopped run on, with that server's cache. *)
Retire == reqs' = [t \in Threads |-> Idle]

(* The user picks the online tiles, or a chosen pack's server failed.      *)
ShowOnline ==
  /\ GuiMay
  /\ served' = <<>> /\ cache' = <<>> /\ orphaned' = FALSE /\ saved' = None
  /\ Retire /\ Run("online")
  /\ UNCHANGED <<geo, theme, gui, style, ready>>

(* show_offline_pack: the chosen pack is served first, then all others of  *)
(* another stem.                                                           *)
Serving(p, all) == <<p>> \o Kept(all, {q \in PackSet : StemOf(q) # StemOf(p)})

ShowOffline(p) ==
  /\ GuiMay /\ p \in ToSet(installed)
  /\ served' = Serving(p, installed)
  /\ style' = theme /\ cache' = <<>> /\ orphaned' = FALSE /\ saved' = StemOf(p)
  /\ Retire /\ Run("offline")
  /\ UNCHANGED <<geo, theme, gui, ready>>

(* The packs of a stem, in the order of packs.                             *)
OfStem(stem, packs) == Kept(packs, {p \in PackSet : StemOf(p) = stem})

Damaged(f, d) == IF f.path \in DOMAIN d THEN [f EXCEPT !.state = d[f.path]] ELSE f

(* What discovery may find at a start.                                     *)
AtStart == {Paths(DiscoverPacks({Damaged(f, d) : f \in Files})) : d \in Damages}

(* The program ends and starts again, with the packs that are installed    *)
(* by then: the first pack of the saved stem is served, and the choice     *)
(* forgotten when there is none.                                           *)
Restart ==
  /\ gui = "idle" /\ ready
  /\ installed' \in AtStart
  /\ IF OfStem(saved, installed') # <<>>
     THEN /\ served' = Serving(OfStem(saved, installed')[1], installed') /\ style' = theme
          /\ pending' = <<"offline">> /\ UNCHANGED saved
     ELSE /\ served' = <<>> /\ pending' = <<>> /\ saved' = None /\ UNCHANGED style
  /\ cache' = <<>> /\ ready' = FALSE /\ layer' = "online" /\ shown' = None
  /\ orphaned' = FALSE
  /\ Retire
  /\ UNCHANGED <<fit, data, theme, gui>>

(* The tools are gone at the start: online tiles, the choice is kept.      *)
RestartWithoutTools ==
  /\ gui = "idle" /\ ready
  /\ served' = <<>> /\ pending' = <<>> /\ cache' = <<>> /\ ready' = FALSE
  /\ layer' = "online" /\ shown' = None /\ orphaned' = FALSE
  /\ installed' = <<>>
  /\ Retire
  /\ UNCHANGED <<fit, data, theme, saved, gui, style>>

(* The new server cannot bind: the old one is already stopped, and nobody  *)
(* catches OSError, so the page keeps the layer of the stopped server.     *)
ServerStartFails ==
  /\ GuiMay
  /\ served' = <<>> /\ cache' = <<>>
  /\ orphaned' = (orphaned \/ layer = "offline" \/ pending # <<>>)
  /\ Retire
  /\ UNCHANGED <<geo, saved, theme, gui, style, ready, pending, layer, shown>>

(* The page's toggle: without a server the theme is only saved.            *)
ThemeChangedOnline ==
  /\ ready /\ gui = "idle" /\ served = <<>>
  /\ theme' \in Themes \ {theme}
  /\ UNCHANGED <<geo, saved, gui, server, cache, reqs, page, shown>>

(* set_style, first half: requests in flight see the new style at once.    *)
ThemeChanged ==
  /\ ready /\ gui = "idle" /\ served # <<>>
  /\ theme' \in Themes \ {theme}
  /\ style' = theme' /\ gui' = "clear"
  /\ reqs' = [t \in Threads |-> IF reqs[t].at \in {"render", "put"} /\ reqs[t].changes < 2
                                THEN [reqs[t] EXCEPT !.changes = @ + 1] ELSE reqs[t]]
  /\ UNCHANGED <<geo, saved, served, cache, page, shown>>

(* Fault variant: the cache is kept over a style change.                   *)
StyleKept ==
  /\ gui = "clear" /\ gui' = "idle"
  /\ reqs' = [t \in Threads |-> Stale(reqs[t])]
  /\ Run("offline")
  /\ UNCHANGED <<geo, saved, theme, server, cache, ready, orphaned>>

(* set_style, second half, and _push_offline_basemap with a new revision.  *)
StyleCleared ==
  /\ gui = "clear" /\ gui' = "idle"
  /\ cache' = <<>>
  /\ reqs' = [t \in Threads |-> Stale(reqs[t])]
  /\ Run("offline")
  /\ UNCHANGED <<geo, saved, theme, server, ready, orphaned>>

(* Fault variant: the buffer is flushed newest call first.                 *)
MapReadyReversed ==
  /\ ~ready /\ gui = "idle"
  /\ ready' = TRUE /\ pending' = <<>>
  /\ reqs' = [t \in Threads |-> Stale(reqs[t])]
  /\ shown' = None
  /\ layer' = IF served # <<>> THEN "offline"
              ELSE IF pending # <<>> THEN Head(pending) ELSE layer
  /\ UNCHANGED <<geo, saved, theme, gui, server, cache, orphaned>>

(* mapReady: flush the buffer in order, then push the basemap once more.   *)
MapReady ==
  /\ ~ready /\ gui = "idle"
  /\ ready' = TRUE /\ pending' = <<>>
  /\ reqs' = [t \in Threads |-> Stale(reqs[t])]
  /\ shown' = None
  /\ layer' = IF served # <<>> THEN "offline"
              ELSE IF pending # <<>> THEN Last(pending) ELSE layer
  /\ UNCHANGED <<geo, saved, theme, gui, server, cache, orphaned>>

(* The page asks for the tile again after a failure (the user pans back).  *)
Pan ==
  /\ shown \in Image \cup Outcome
  /\ shown' = None
  /\ UNCHANGED <<geo, saved, theme, gui, server, cache, reqs, page>>

Next ==
  \/ \E t \in Threads : Request(t) \/ LookUp(t) \/ Render(t) \/ Store(t) \/ RenderFailed(t)
  \/ \E p \in PackSet : ShowOffline(p)
  \/ ShowOnline \/ ServerStartFails \/ ThemeChangedOnline \/ ThemeChanged
  \/ StyleCleared \/ MapReady \/ Pan \/ Restart \/ RestartWithoutTools

Spec == Init /\ [][Next]_vars

(***************************************************************************)
(* Properties                                                              *)
(***************************************************************************)
(* The tile on the page is in the style of the saved theme, although the   *)
(* request threads read self.style twice while the GUI thread changes it.  *)
(* The one exception the code leaves: a render that two style changes      *)
(* overtook is cached under a key whose style it does not have.            *)
ShownIsTheme ==
  gui = "idle" /\ served # <<>> /\ shown \in Image /\ ~shown.tainted
    => shown.style = theme

(* Two packs of one stem, from different directories, cover the tile, and  *)
(* neither was chosen (of the chosen one's stem no other is served).  The  *)
(* cache then takes one for the other.                                     *)
Twins ==
  \E p, q \in ToSet(served) :
    p # q /\ StemOf(p) = StemOf(q) /\ CoversTile(p) /\ CoversTile(q)

(* A tile comes from the best pack: among those that contain it and then   *)
(* those that overlap it, the chosen pack before those of higher priority  *)
(* and then of deeper zoom, the first with data, or else the last of all;  *)
(* what earlier requests cached, evicted or skipped makes no difference.   *)
(* The exception are twins: what was cached for one is taken for the other. *)
Listed(p) == LoadPack(Manifest(p))
Rank(p) == IF ContainsTile(p) THEN 0 ELSE 1
Before(p, q) ==
  \/ Rank(p) < Rank(q)
  \/ /\ Rank(p) = Rank(q) /\ q # served[1]
     /\ p = served[1] \/ ListedBefore(Listed(p), Listed(q))
Able ==
  {q \in ToSet(installed) :
     CoversTile(q) /\ (q = served[1] \/ StemOf(q) # StemOf(served[1]))}
Best(p) ==
  /\ p \in Able
  /\ IF Able \cap data # {}
     THEN p \in data /\ \A q \in Able \cap data : p = q \/ Before(p, q)
     ELSE \A q \in Able : p = q \/ Before(q, p)
ShownIsBest == shown \in Image /\ served # <<>> /\ ~Twins => Best(shown.pack)

(* The page's layer has a running server behind it and the page shows what *)
(* the user chose, before or after it had loaded or in an earlier session; *)
(* the exception is a server that could not start after its predecessor    *)
(* was stopped.                                                            *)
PageIsServed ==
  /\ ready /\ ~orphaned => (layer = "offline" <=> served # <<>>)
  /\ served # <<>> => saved = StemOf(served[1])

(* A request runs out of candidates ("No pack rendered") only when two of  *)
(* them are twins: otherwise the last candidate is never cached as having  *)
(* no data, and is served even when it is empty.                           *)
LastIsServed ==
  \A t \in Threads : reqs[t].at = "lookup" /\ reqs[t].left = <<>> => Twins
=============================================================================
