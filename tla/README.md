# OrcMesh in TLA+

OrcMesh (`src/`, Python package `meshchat`) is a desktop application for one
Meshtastic radio: chat, a network monitor fed by every packet the radio
reports, a SQLite history, USB device controls and firmware tools, offline
maps and an optional SDR waterfall. This directory holds TLA+ models of its
services, controllers and stateful pages, the TLC runs that check them on small
instances, and TLAPS proofs of the results that matter most for every instance.
`PROJECT.json` lists components, runs, fault variants, the map from definitions
to source lines, findings, hazards and theorems.

## Inventory

Four kinds of threads meet in the program: the Qt GUI thread (all widgets, the
ingestor, the supervisor), the radio worker `QThread`, the radio library's
publishing thread (its callbacks run there, not on the worker), and background
threads of single services (database writer, firmware, OrcMaps builds, tile
requests, SDR readers, export). They communicate through queued slots and
signals, one bounded queue, and a few shared fields without a lock.

| Component | State | Operations | What is hard | Module |
|---|---|---|---|---|
| `services/monitor_store.py` | bounded queue, batch, open transaction, counters, WAL and main file | save/prune/vacuum/backup, batch flush with savepoints and retries, shutdown | a full queue, a failed COMMIT, time-outs, readers that pin the WAL, shutdown against a busy writer | `MonitorStore`, `WriteJournal` |
| `controllers/meshtastic_controller.py`, `services/connection_supervisor.py`, `ui/widgets/connection_bar.py` | connection state, interface object, retry sequence, shown state | scan, connect, disconnect, requests, callbacks, retries, close | callbacks of another thread inside blocking slots, stale events, soft reboots, retries racing recovery | `Connection` |
| Chat: send slots, text callback, `ui/chat_view.py`, `ui/widgets/channel_list.py`, message rows | conversations, bubbles, highlighted rows, queued sends and writes | send, receive, status, open a thread, history, restart | a status for a conversation that is not open, a link that drops before the send, a full writer queue, a sidebar rebuilt by a timer | `Chat` |
| `services/packet_ingestor.py` with `_write_node` | duplicate table, node snapshots, node rows | ingest, seed from NodeDB and from the store, upsert | TTL and size limits, restarts and crashes, a clock set back, a dropped write | `Ingestor` |
| `database/schema.py` | `user_version`, columns | migrations | an error or a crash between two statements | `Migrations` |
| Device page, `services/device_config.py`, `device_profile.py` | library copy, radio configuration, form, profile file | edit, save, reset, back up, restore | a failure between sections, secrets that are never shown, an edited copy that was not written | `Settings`, `Device` |
| `services/firmware.py`, `controllers/firmware_controller.py` | bundle, port, running tool, pending operations | discover, prepare, probe, back up, flash, console | port hand-over in both directions, radios swapped, ports that change in the bootloader, late results | `Firmware`, `Device` |
| `services/orcmaps.py`, `ui/map/` | packs, tile cache, style, server, page layer | discover, render, cache, change theme or basemap, restart | style changes during a render, empty packs, calls before `mapReady`, packs that are gone at the next start | `MapPacks`, `TileServer` |
| `controllers/orcmaps_controller.py`, `services/provisioning/`, `ui/setup/` | region queue, child process, wizard | first run, cut, verify, cancel, close | any report moves the queue, tools vanish, cancel before the process is known | `MapPacks`, `Provisioning` |
| `services/sdr_source.py`, `rtl_scan.py`, `iq_recorder.py`, spectrum and SIGINT pages | leases, workers, tool processes, recording | start, stop, scan, record, close | three users of one receiver, direct calls into a running worker, tools that die | `Receiver` |
| Monitor page | packet buffer, log, filter, pooled rows, selection | packet, node and position signals, refresh, filter, select, pause | rows reused under a selection, statistics computed in several places | `MonitorPage` |
| `analytics/` | - | hops, classification; rates, distances, airtime, occupancy | boundaries | the first two in `Ingestor` and `MonitorPage` |
| Nodes page, export, theme, painting, logging, start-up | - | - | - | not modelled |

The modules meet where the code does: `Chat`, `Ingestor` and `Device` each
include as much of the store, the link and the worker as they need (a bounded
queue, a link that is up or not, queued calls) and leave the rest to
`MonitorStore` and `Connection`; `TileServer` and `Provisioning` both extend
`MapPacks`, and `Device` extends `Settings` and `Firmware`. `MC*` modules only
give constants their values; `Receiver`, `Provisioning` and `Migrations` need
none and are checked directly.

## MonitorStore

State and actions follow `monitor_store.py`: `write_q` is the `queue.Queue`,
`batch`, `completed` and `attempt` are locals of the writer thread, `writer` is
its program counter (`loop`, then the four parts of `_flush`: rows, backups,
vacuums, prunes). One row write is one step, so requests, time-outs, readers
and the shutdown fall between any two. The database is `log`, the sequence of
committed states; `main` is the state a checkpoint has copied to the main file
and `reader` the one a SELECT pins, which is what decides the contents of a
backup made by copying the file. `requested`, `accepted`, `committed` and
`served` are history variables.

Abstractions: a row is an identity; which rows are old enough to prune is a
free choice among the tables pruning may touch; BEGIN does not fail, and
SQLite's automatic rollback in the middle of a batch is not modelled. All saves
come from the GUI thread, which also runs `shutdown()`, so no save happens
inside it; `backup()` callers may be on any thread.

`WriteJournal` is what a caller may rely on: a row is new, refused, pending,
durable or failed; pending rows become durable together at one instant or are
given up and counted, once. `ImplementsJournal` is the refinement.

* `store_rows`: three rows and a backup, queue and batches of two, one retry,
  no reader: exact counters, order, complete backups, drained shutdown,
  refinement. Two batches, a full queue, a partial last batch and a backup in
  any position all occur.
* `store_live`: rows, prune, vacuum and readers: `shutdown()` returns and
  accepted work is done (the exception stated in `ShutdownEnds` is a crashed
  writer and a full queue).

That retention deletes from the volume tables only is how `DeleteOld` is
written, as the SQL is, and no property.

Fairness: the writer thread and the thread inside `shutdown()` keep running;
callers, readers and time-outs owe nothing.

## Connection

`commands` and `signals` are Qt's two queues. A slot of the worker that blocks
(opening, scanning, closing) or that other threads can split (`opened` before
SYNCING, `announcing` in `enter_reconnecting`) is two or three steps. `link` is
the library's view of each interface object (external; modelled from the
comments of `_on_connection_lost` and `ARCHITECTURE.md`: a loss may be a soft
reboot that recovers on the same object). A callback is entered when
`_is_active_interface` holds, sets the state in a second step and emits in a
third, because the worker can run between these. The library may publish before
the connect slot has stored the object and set SYNCING (its constructor starts
the reader thread; only the test double waits), and `SetupFails` lets reading
the configuration raise; `missed` remembers both. On the GUI side, each signal
is handled whole; the bar's shown state decides which buttons work; `usb` is the
hand-over of the serial port to firmware tools (its details are in `Device`).

Abstractions: a request succeeds or reports an error; a connect that fails
validation reports an error and changes nothing; delays are arbitrary; a slot's
own emits are one step; after the window has closed, signals are dropped.

Assumed of the library: a constructor that raises has closed what it opened,
since the `except` branches (meshtastic_controller.py:622, 728, 734, 783) only
clear `_interface`.

* `connection_safety`: no leaked interface, retries justified, none pending over
  a standing connection; a lost radio can be connected to again unless the loss
  itself overtook the connect slot.
* `connection_retry`: a retry ends in a connection or the next retry, unless an
  event overtook the connect slot or the configuration could not be read. (The
  comment at connection_supervisor.py:24-26 knows no such exception; without it
  the property is violated.)

Both runs have events that overtake the slot and set-up that fails.

Bounds: two interface objects (the current one and one whose events are still
queued) are recycled when nothing refers to them; the user pauses while a
command is queued, the library while more than `MaxSignals` signals are; a slot
in progress still adds its own, and supervisor and timers are never held back.
`SYMMETRY` over interfaces is used for invariants only.

Fairness: event loops, running slots, callbacks and timers make progress, and
the library reports how a sync ended, which its 45 s time-out does. The user is
never obliged to act. The worker is one weakly fair process, because a slot that
is running is always able to end.

## Chat

`messages` is `_messages_by_key`, `bubbles` what is laid out, `sidebar` the two
lists with their highlighted rows, `current` the open conversation; `sends` and
`inbox` are the queues between window and worker, `writes` and `rows` the
store's. A message keeps its local id, packet id and status. A text is its
length and the white space around it, which is what `normalize_outgoing_text`
and the byte limit look at. `SidebarAgrees` speaks of the highlight, not of
which rebuilds may change the open conversation. `Thread` filters the messages
of a conversation; `read_messages` takes the latest rows by rank. `Restart` is
one action for a crash and for an orderly close, the latter being a restart with
no write queued.

Run `chat` (two messages, a connection, a restart, a writer queue of one,
history of one): the bubbles are the open thread with its latest statuses; rows
follow the view once the writer has caught up, unless the full queue refused a
write; the two lists never highlight a row each, and the highlighted one is
open unless the thread was opened from the nodes page; a message being sent
does not stay so. Fairness (for the last): the worker runs queued sends, the
window handles its signals.

## Ingestor

`ingest_raw` is split at its early returns: a known key, a dict that cannot be
normalised (its key is already recorded), a packet without a sender. `dedup` is
the ordered table with its time and size limits; a snapshot has a name,
counters, the time last heard and the observation (`last_*`); the queue holds
what `MonitorStore` would be given, dropped at its limit; `Upsert` is the SQL of
`_write_node`, which overwrites `node_id` also by NULL. A key is the sender, the
packet id and the channel; a packet without one is never a duplicate. Port
numbers arrive as names or numbers and are coerced;
`compute_hops_used` is an operator. `Crash` and `Start` lose the memory and
seed it from the rows; `Start(FALSE)` is `read_nodes` failing, which the code
answers with an empty list.

Run `ingest` (seven kinds of raw packets, a NodeDB of two, three events, two
starts, table limit of one, a queue of three, one step back of the wall clock):
packets count once per window; counters are what the rows held plus what was
heard; a row is one observation; what a row remembers never shrinks, except an
id, which a session that could not read the rows (`blind`) may overwrite.

## Migrations

`apply_schema` statement by statement, with an error or a crash between any two
and the next start. Python's sqlite3 opens a transaction for INSERT, UPDATE and
DELETE only, so a `with conn:` block around ALTER TABLE rolls nothing back. Run
`migrations` expects a violation and is the project's finding: the comments at
`database/schema.py:172` and `:290` promise that a failed migration leaves the
database as it was. (The migrations are idempotent, so a later start converges.)

## Settings, Firmware, Device

`Settings` has the field rules of `device_config.py` (write-only secrets,
enumerations newer than the library, blank texts) on one configuration section
and one channel; the copy is edited in place and then written. `Firmware` has
the choice of a release, the validation of an archive and its bundle, port
matching and the commands of each operation as pure operators. `Device` runs
both against the radio worker, the firmware thread, timers, radios that are
plugged, unplugged and exchanged at any moment, and the window's pending
operations. The dialogs between a request and its hand-over are steps of their
own (`win.dialog`), during which signals, a loss or a late bundle arrive; what
the code reads again afterwards is read again. A disconnect in the state
DISCONNECTED is dropped without a signal, which a Bluetooth scan can bring about
over an open interface (`hidden`). A full install erases settings and keys.

Abstractions: the state CONNECTED and the first snapshot of a connection are one
signal (the worker queues them together); the supervisor's `enter_reconnecting`,
which opens nothing, is left out; a bound radio is not unplugged under its open
interface without the loss being reported (`Loses` first).

Run `device` (two radios of one make, one without a USB serial number, both able
to use both ports) has three kinds of sessions, the members of `Scenarios`:
three moves and four firmware requests; three connects, disconnects or scans
beside three requests; two configuration calls, two connects and an enumeration
value the page knows or does not. Nothing is flashed to a radio other than the
confirmed one, nor built for another target or named by another dialog; a port
taken for an operation is always owed to something that will give it back; the
page shows what the radio holds unless a write failed; secrets change only on
purpose.

Three moves are an exchange on one port (unplug, plug) and one move more; four
requests let a second operation wait beside a flash. The exceptions of
`FlashIsRight` (a radio without a serial number, a bundle that arrives late, a
radio that takes the place of the checked one after the last look at its port)
and of `PortIsOwed` (`hidden`), and `drift`, are behaviours of the code, listed
below.

## MapPacks, TileServer, Provisioning

`MapPacks` is discovery: which manifests load, in which order packs are listed,
what a checkout is capable of, which pack a region may be cut from. A listing is
any sequence of the usable packs in the sort's order (`Listings`), and discovery
returns one of them, as Python's sort does.

`TileServer` has the map widget and bridge on the GUI thread, the server with
its LRU cache, and request threads whose steps are look-up (with the style read
for the key), render (with the style read again) and store. One tile stands for
the view; which packs contain it, overlap it or hold data for it is free. A pack
is its file; its stem is the name the cache, the saved choice and the list of
others go by, and two directories may hold one stem (`Twins`: both cover the
tile and neither is the chosen pack, of whose stem no other is served). The
model lets the user choose any pack; the program chooses the first of those whose
labels are equal too.

Run `tiles` (four packs, two of them of one stem, two threads, a cache of two,
packs that may be lost before a restart): shown tiles have the theme's style and
come from the best pack, and no request runs out of packs, except where twins are
served; the page's layer is served and is the user's choice. (With twins,
`render`'s docstring, that the first candidate with a non-empty tile wins, is
false.)

`Damages` and `Fits` list the ways packs are lost and lie to the tile: ties within
a rank, a pack alone in the first one, twins with and without another pack, none
at all.

`Provisioning` has the wizard, the region queue, cuts and verifications of the
user, the worker thread and its child process. Run `packs` (two regions, two
waiting operations): the queue is driven by reports that will come, unless a
region was refused because the tools had gone; closing ends although a build may
hang. Fairness: the worker, the window and a tool that was told to terminate,
and with it whatever it started that holds its output pipe; a build nobody
interrupts may hang for ever.

## Receiver

Three workers (spectrum capture, SIGINT capture, SIGINT scan), each blocked in
its start slot while it reads, and direct calls of the GUI thread that race
with it: `stop`, `stop_recording`, `arm_recording`. Run `receiver` (one dongle,
which is the contended case): a reader holds the lease; leases leak on two paths
only; a recording has a capture; a sidecar never promises more samples than the
file has; no page waits for a capture that is not there; stop ends the tool.
A worker that has given its lease back and waits for its tool to end (`reap`) is
not a reader in this sense.
Fairness: threads, queued signals, and a tool that was told to terminate.

## MonitorPage

Packets, node and position signals, the two-second refresh, filters, flips,
clicks and pauses, all on the GUI thread. Rows are pooled as in
`RankingsPanel.update_rows`. The statistics (breakdown, channels, hops, hop
percentages, roles, hardware, node cards, rankings) are operators over the
packets and nodes in scope: `Scope` is the set of positions in the buffer the
filter lets through, `Count` is a `Counter` over them, and `Sorted` chooses a
listing in which values never rise, so that the order of equal values, which in
the code is that of a dict, is left open. A node seeded from NodeDB or the store
is one not heard yet, whatever else is known of it. (`SortSeq` would not do:
with a strict comparison its definition has no result when two values are
equal.) Run `monitor` (two nodes, four kinds of packets, two of them taken, two
filters, two ranking panels): all of them are about the same packets and nodes,
and one node is selected everywhere or none is.

`CHECK_DEADLOCK FALSE` stands where the program may really stop: after closing,
or when a bound is used up and nothing is queued.

## Proofs

Each `*_proofs` module extends a component's module and proves its results for
every value of the constants that meets the named assumptions. Most properties
are not inductive; what follows names the invariant each one needed and what
that invariant adds. The invariants were checked with TLC before they were
proved.

`MonitorStore_proofs` (`KindsAssumption`: the kinds of requests are disjoint;
`BoundsAssumption`: finitely many requests, positive queue and batch):

* `TypeCorrect`: `Spec => []TypeOK`, with the bounds on queue, batch, position
  and attempts.
* `RowsInOrder`: `Spec => []CommitOrder`. The order of `committed` alone is not
  inductive: the invariant `Pipeline` adds that requests are accepted once and
  that committed rows, completed rows, the unwritten rest of the batch and the
  queue are consecutive stages, each before the next in `accepted`.
* `HealthIsExact`: `Spec => []Accounted`, from `Pipeline` and `Counts`: a row
  leaves the pipeline without being committed exactly when a counter moves, so
  the cardinality of the lost set is the counter.
* `ShutdownLosesNothing`: `Spec => []ShutdownDrains`. `Drained` adds that
  whatever is still queued once the writer has left its loop was accepted after
  the sentinel.
* `StoreImplementsJournal`: `Spec => ImplementsJournal`, the refinement, the
  fate of a row being a function of the pipeline (`Fates`). Every step of the
  store is a journal step or leaves all fates alone; a COMMIT is one step for
  all rows of its batch.
* `BackupsAreComplete`: `~Readers => (Spec => []BackupComplete)`. The hypothesis
  is the one under which TLC checks it; with a reader the property is false
  (known divergences). `Backed` adds what the database holds relative to
  `committed` and that each copy was taken after the rows before it.

`Connection_proofs` (all radios, interfaces and bounds):

* `RetriesWhatWorked`: `Spec => []RetryAfterSuccess`, inductive with the types
  of three booleans (`Supervised`); one case per handler, the other threads do
  not touch the supervisor.
* `NothingLeaks`: `Spec => []OneInterface`. Not inductive alone: `ConnectOpened`
  replaces the interface. `Held` adds that while a constructor runs the worker
  holds none, and that nothing is under construction otherwise.
* `StandingIsLeftAlone`: `Spec => []NoRetryWhileUp`. `Calming` says why the
  retry is called off: as long as a standing connection has a retry pending, its
  success is in the callback or in the queue, behind every loss.
* `LossesAreNoticed`: `Spec => []LossIsNoticed`. `Noticing` follows a loss
  through the event queue and the handler and adds that no event of that
  interface comes after it. Events may overtake the slot, as in every run; the
  exception is a loss that does (`missed`), stated in the property.

`Receiver_proofs` (any set of dongles, all bounds; `DevicesAssumption` and
`NoneAssumption`, no owner is not a worker's name):

* `ReadersHoldLeases`: `Spec => []LeaseCoversReading`, and `LeasesAreReturned`:
  `Spec => []LeaseIsUsed`, both from `LeaseInv`, which joins them to the types
  of the lease table and the workers' places. Each direction needs the other: a
  release must free only the releaser's dongle, and a claim must not find one
  that is in use.
* `SidecarsAreTrue`: `Spec => []SidecarIsTrue`, and `RecordingsEnd`:
  `Spec => []RecordingHasCapture`, from `RecordInv`: the file is ahead of the
  count only while the worker stands between the write and the count, only the
  SIGINT capture gets there, and a recorder that is open has no sidecar yet.
* `NoGhostsRemain`: `Spec => []NoGhostCapture`, from `GhostInv`: a page that
  offers Stop has a start queued, a worker that runs or is on its way into or
  out of the loop, or a signal under way that ends the claim.

`Ingestor_proofs` (any nodes, raw packets, NodeDB lists and limits;
`IngestorAssumption`, `InputAssumption`, `NoneAssumption`), from the types
`IngestType`:

* `MemoryGrows`: `Spec => RowsGrow`, an action property: names, times and
  counters of a row never shrink under the upsert. For the id, which the upsert
  overwrites, `Named` adds that memory and every queued write know what the row
  knows, unless the session is blind.
* `RowsAreObservations`: `Spec => []RowIsOneObservation`. `Observed` says the
  same of memory, rows and every queued write between them.
* `CountersAreExact`: `Spec => []ExactCounters`. `Counted` adds that a snapshot
  is its start-up value plus what was heard, and that the row or a write still
  queued covers it.
* `PacketsCountOnce`: `Spec => []CountedOnce`. `Deduplicated` relates the ordered
  table (`Table`) to the log of what was counted: the table holds the newest
  entries of the log, in order, and what it has lost has expired or was cut by
  the size limit.

`Device_proofs` (any radios and ports; `DeviceConstants`: known serial numbers
are distinct and a port has at most one radio; `NoneAssumption`):

* `DeviceIsTyped`: `Spec => []DeviceInv`, the types, `InSync` (the library's copy
  is what the radio holds unless a write failed) and `Running` (the radio last
  seen on the tool's port has the request's serial number, only a flash writes).
* `FlashesTheRightRadio`: `Spec => FlashIsRight`, and `SecretsAreKept`:
  `Spec => SecretsSurvive`, two action properties, both from `DeviceInv`.
* `PortComesBack`: `Spec => []PortIsOwed`; the property is inductive given the
  types, restated as `Owed` with one name per debtor, and the proof follows a
  debt from pending operation to timer, job, tool and report.
* `PageIsCurrent`: `Spec => []PageShowsRadio`. `Follows` adds the queue: the last
  snapshot signal, or the page when there is none, shows the copy.

`Chat_proofs` (any conversations, channel lists and limits; `ChatConstants`):
`ChatInv` joins `LinkType`, `ViewInv` (the bubbles are the open thread, or end
with it below a notice), `StoreInv` (a message that was not refused is in the
rows or its latest state is queued) and `SideInv`.

* `BubblesFollow`: `Spec => []BubblesAreThread`; `RowsCatchUp`:
  `Spec => []RowsFollowView`; `SidebarIsRight`: `Spec => []SidebarAgrees`;
  `ChatIsTyped`: `Spec => []ChatType`.

`MapPacks_proofs` extends the two components over map packs, `TileServer` and
`Provisioning` (whose specification is `SetupSpec` for that reason). The tile
server (any finite set of packs and threads, any data; `FilesAssumption`:
finitely many well-typed manifests, whose paths differ and whose stems may not,
`AnswersAssumption`: an image is not one of the answers without one,
`CapacityAssumption`). `TilesInv` is `PageInv` (what is served is the saved
choice before the others of the listing, and a page that is not ready will be
told the right layer), `RequestsInv` (a request's style differs from the current
one by as many changes as it has lived through, and the packs it has passed have
no data), `CacheInv` (an entry is true of its pack and, unless tainted, has the
style it is filed under) and `ShownInv`.

An entry of the cache is true of some pack of its stem, which is enough unless
twins are served; the two properties below that depend on it say so.

* `TilesHaveTheTheme`: `Spec => []ShownIsTheme`; `TilesComeFromTheBest`:
  `Spec => []ShownIsBest`; `LayerIsServed`: `Spec => []PageIsServed`;
  `SomePackAnswers`: `Spec => []LastIsServed`.
* They rest on lemmas about discovery and selection: the sort of the packs found
  has a result (`ListingExists`, `DiscoverySorts`), and the candidates of a tile
  are exactly the covering packs, better ones first (`PacksForIs`).
* Set-up, for all bounds: `SetupQueueIsDriven`,
  `SetupSpec => []QueueIsDriven`; `DrivenInv` adds only that the two queues
  are sequences.

`MonitorPage_proofs` (any finite set of nodes, any packets, filters, panels and
limits). Assumed: `PageAssumption` (limits are positive, None is no node, number
or string), `PacketsAssumption` and `FiltersAssumption` (packets and filters are
of their types, and the filter bar offers the rows of the breakdown panel),
`NoneAssumption`. Everything rests on `PageInvariant`,
`Spec => []PageInv`: the types, `Known` and `OneSelection`.

* `OneNodeIsSelected`: `Spec => []OneSelection`. Its last part is not inductive:
  `Select` moves the inspector only to a node the page knows. `Known` says why
  this is always so: the sender of a buffered packet is known, hence so is what a
  ranking lists, hence so is what a row, however old, shows when it is clicked.
* `StatisticsAgree`: `Spec => []PanelsAgree`, part by part: every packet in scope
  falls into one bar of the breakdown, the hop and the channel panels; a role or
  hardware panel that is not cut off shows every value there is; who was heard
  directly was heard at some time (`Known`).
* The lemmas are about the page's operators: a finite set has a sorted listing
  with every element once (`SortedExists`, `SortedIs`, `FirstIs`), and the counts
  of a function's values, summed over a finite set that holds them all, are the
  number of its arguments (`TotalIs`, `TotalIsAll`).

Induction over data. An induction theorem with an operator parameter cannot be
instantiated here, so where a lemma needs induction on a number or a length
(`KeptKeeps`, `ListingExists`, the lemmas about `Thread` and about the writes
that seeding from a NodeDB list queues, `SortedExists`, `TotalIs`) it is applied
to the set of numbers for which the statement holds: that set contains 0 and is
closed under successor, hence is `Nat`, which follows from the least element of
its complement. For the same reason filters and sorts in these modules are
recursive functions or a choice among the sorted listings.

Only model-checked:

* liveness (`ShutdownEnds` of both modules, `AcceptedIsHandled`, `RetryGoesOn`,
  `SendingEnds`, `StopTakesEffect`), out of the prover's reach;
* `Migrations`, whose property is violated.

## Known divergences

One is a finding with a run (`migrations`) in which a sentence of the repository
is violated. The others are behaviour the models contain and the properties
state as exceptions or leave out, because the code really has it:

* Store: with a reader in a SELECT the checkpoint of `_do_backup`
  (monitor_store.py:667) is partial, its result is ignored, and a backup that
  succeeds lacks rows (`store_rows` therefore has no reader). A vacuum queued
  after a prune runs before it (:645).
* Connection: set-up that fails (meshtastic_controller.py:456), or an event that
  overtakes the connect slot (:427, :619), during a reconnect silences the
  supervisor, which connection_supervisor.py:24-26 says retries indefinitely;
  Disconnect after a scan has hidden an open
  interface is ignored and retries go on (:805); a callback can report
  CONNECTED for an interface given up meanwhile (:433); RECONNECTING may
  overwrite a recovered connection (:1156); the profile is recorded before the
  worker decides whether it connects (connection_supervisor.py:73).
* Ingestor: a write of a blind session overwrites a stored `node_id` by NULL
  (monitor_store.py:754), the one column not kept by COALESCE; a blind start
  counts from zero and the rows keep the larger number, so packets of that
  session are lost to the counters; the rate card goes stale when traffic stops;
  the radio's last-heard time is ignored once a node has one.
* Device: a save that fails leaves the library's copy edited; the page then
  shows the copy, a profile backup saves it, and the next save sends it, secrets
  included. A bundle still being prepared when another radio's snapshot comes is
  taken for that radio, and the bootloader search matches any radio of the make
  when no serial number is known, although `README.md:105` and `ROADMAP.md:51`
  speak of target matching. The identity of the radio is looked at once and the
  port opened later, several times (firmware.py:462, :374, :471): a radio
  exchanged in between is written to (`README.md:114` only tells users not to
  unplug). A scan hides an open connection, and the disconnect that should give
  the port up is then dropped (meshtastic_controller.py:805): the operation
  waits, with the port, for the next loss or disconnect. Any `disconnected`
  signal starts a pending operation, and two pending operations can both start.
* Maps: the cache takes packs of one stem for one another (orcmaps.py:1032), so
  that a pack with data is skipped, against the docstring at :1022; a restart
  picks the first of the saved stem; a render overtaken by two style changes is
  cached under the wrong style; a server that cannot start leaves the page with
  a layer nobody serves; a cancel before the process is known is forgotten, and
  shutdown then waits for the whole build; the setup queue stalls when the tools
  vanish before a region is asked for; a region's zoom ceiling never reaches the
  request; the wizard's serial and BLE requests are connected to nothing.
* Receiver: the lease is given back before the tool has ended (sdr_source.py:410
  and the same in rtl_scan.py), so that another feature may open the dongle
  while the tool still holds it, which rtl_tools.py:393 rules out; a tool that
  cannot be started, and a recorder closed between the check and the write,
  leave the lease taken; a tool that ends by itself leaves `_running` set, so
  the next start is ignored until Stop; a failed write ends a recording without
  a sidecar; no page limits the size of a recording.
* Monitor page: Messages Sent counts a text flagged as encrypted by public key
  (monitor_page.py:386) while the breakdown files it under Encrypted, so
  `PanelsAgree` does not compare the two; `clear_map` keeps positions; the
  inspector keeps showing a node after the selection is cleared.

## Not modelled

Export (one thread that reads the store and writes a text file), the nodes
page's table and menus, signal processing, distances, airtime and size
estimates (floating-point arithmetic, out of TLC's reach), drawing, styling,
formatting, logging and process start-up.

## Plan

Every safety property of a passing run is a theorem. Left: sweep assembly of
`rtl_scan.py` and slot occupancy as operators against reference definitions; the
export thread.

## Running

    tlc -workers 2 -config MCMonitorStore_rows.cfg MCMonitorStore
    tlapm MonitorStore_proofs.tla

and likewise for the other configurations and `*_proofs` modules; the proofs
take a few minutes each on a small machine.

Definitions commented "Fault variant", or named after the definition that
follows them, are not part of the model: each one replaces that definition to
show that a property notices.
