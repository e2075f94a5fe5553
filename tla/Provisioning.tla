---------------------------- MODULE Provisioning ----------------------------
(***************************************************************************)
(* First-run setup and the building of offline map packs.  The wizard (a   *)
(* modal dialog) collects a radio and regions; the main window queues the  *)
(* regions and starts them one after the other, each when the previous one *)
(* has reported; the Maps tab of the device page starts cuts and           *)
(* verifications of its own.  One worker thread runs the operations by     *)
(* calling OrcMaps' tools; cancel() is a direct call from the GUI thread   *)
(* when the window closes.                                                 *)
(***************************************************************************)
EXTENDS MapPacks

CONSTANTS
  MaxRegions,   \* bound: regions chosen in the wizard
  MaxOps        \* bound: operations and reports queued when the user acts

ASSUME BoundsAssumption == MaxRegions \in Nat \ {0} /\ MaxOps \in Nat \ {0}

VARIABLES
  tools,      \* what find_tools finds at this moment
  sources,    \* max_zoom of the packs that discovery finds
  complete,   \* the setup-complete setting
  wizard,     \* the open wizard, or None
  queue,      \* MainWindow._setup_region_queue: is each name usable
  busy,       \* the Maps tab's buttons are disabled
  inbox,      \* operations queued on the worker thread
  at,         \* where the worker is
  op,         \* the operation it works on
  handle,     \* _OrcMapsWorker._process is not None
  cancelled,  \* _OrcMapsWorker._cancelled
  tool,       \* the external process
  reports,    \* completed signals queued on the GUI thread
  window,     \* "open", "closing" (waiting in shutdown) or "closed"
  stalled,    \* history: a setup region was refused without a report
  caught      \* history: cancel() found the tool it had to terminate

dialog == <<complete, wizard>>
process == <<handle, cancelled, tool>>
history == <<stalled, caught>>
\* The names of the specification say Setup: TileServer, the other component over
\* map packs, has its own.
setupVars == <<tools, sources, complete, wizard, queue, busy, inbox, at, op, handle,
               cancelled, tool, reports, window, stalled, caught>>

Zooms == {13, 15}                        \* TIER_MAX_ZOOM of region and local
Region == [zoom: Zooms, valid: BOOLEAN]  \* valid: a usable pack name
Operations == {"verify", "cut", "preview", "setup"}
Provisions == Operations \ {"verify"}

SetupInit ==
  /\ tools \in {"all", "no script", "none"} /\ sources \in SUBSET Zooms
  /\ complete = FALSE /\ wizard = None /\ queue = <<>> /\ busy = FALSE
  /\ inbox = <<>> /\ at = "idle" /\ op = None
  /\ handle = FALSE /\ cancelled = FALSE /\ tool = "none"
  /\ reports = <<>> /\ window = "open"
  /\ stalled = FALSE /\ caught = FALSE

(***************************************************************************)
(* Capability and the wizard                                               *)
(***************************************************************************)
(* _discover_map_packs: nothing without the tools, else a pack per source, *)
(* the deeper one larger.                                                  *)
Found ==
  IF tools = "none" THEN <<>>
  ELSE DiscoverPacks({[path |-> z, stem |-> z, state |-> "good", priority |-> None,
                       maxZoom |-> z, size |-> z] : z \in sources})

(* maybe_run_first_run: remembered before the answer, so asked only once.  *)
OpenWizard(force) ==
  /\ window = "open" /\ wizard = None
  /\ force \/ ~complete
  /\ Len(inbox) + Len(reports) < MaxOps
  /\ complete' = TRUE
  /\ wizard' = [step |-> 0, capability |-> DetectCapability(tools, Found), regions |-> <<>>]
  /\ UNCHANGED <<tools, sources, queue, busy, inbox, at, op, process, reports, window,
                 history>>

WizardStep ==
  /\ wizard # None
  /\ \/ /\ wizard.step < 2 /\ (wizard.step > 0 \/ wizard.capability.build)
        /\ wizard' = [wizard EXCEPT !.step = @ + 1]
     \/ /\ wizard.step > 0
        /\ wizard' = [wizard EXCEPT !.step = @ - 1]
  /\ UNCHANGED <<tools, sources, complete, queue, busy, inbox, at, op, process, reports,
                 window, history>>

(* A region needs a name and a centre; the name is not checked here.       *)
AddRegion(r) ==
  /\ wizard # None /\ wizard.step = 2 /\ Len(wizard.regions) + Len(queue) < MaxRegions
  /\ wizard' = [wizard EXCEPT !.regions = Append(@, r)]
  /\ UNCHANGED <<tools, sources, complete, queue, busy, inbox, at, op, process, reports,
                 window, history>>

CancelWizard ==
  /\ wizard # None /\ wizard' = None
  /\ UNCHANGED <<tools, sources, complete, queue, busy, inbox, at, op, process, reports,
                 window, history>>

(***************************************************************************)
(* Main window                                                             *)
(***************************************************************************)
(* _provision_map_pack of a setup region: without the tools only a message *)
(* is shown, and no report will follow.                                    *)
ProvisionMapPack(o) ==
  IF tools = "all"
  THEN inbox' = Append(inbox, o) /\ stalled' = FALSE
  ELSE stalled' = TRUE /\ UNCHANGED inbox

SetupOperation(valid) == [kind |-> "setup", valid |-> valid]

(* Fault variant: the next region waits for a click.                       *)
ProvisionNextNever(regions) == queue' = regions /\ UNCHANGED <<inbox, stalled>>

ProvisionNext(regions) ==
  IF regions = <<>>
  THEN queue' = <<>> /\ UNCHANGED <<inbox, stalled>>
  ELSE queue' = Tail(regions) /\ ProvisionMapPack(SetupOperation(Head(regions)))

(* _apply_setup_choice: regions no source is deep enough for are skipped;  *)
(* a zoom ceiling is not part of the request that is built.                *)
FinishWizard ==
  /\ wizard # None /\ wizard.step = 2
  /\ LET sourced(r) == SourcePacksFor(wizard.capability.packs, r.zoom) # <<>>
         deep == SelectSeq(wizard.regions, sourced)
         added == [i \in DOMAIN deep |-> deep[i].valid]
     IN  IF added = <<>>
         THEN UNCHANGED <<queue, inbox, busy, stalled>>
         ELSE /\ ProvisionNext(queue \o added)
              /\ busy' = (busy /\ tools = "all")
  /\ wizard' = None
  /\ UNCHANGED <<tools, sources, complete, at, op, process, reports, window, caught>>

UserMay == window = "open" /\ wizard = None /\ Len(inbox) + Len(reports) < MaxOps

(* set_map_packs and set_maps_busy: the buttons of the maps tab.           *)
CutEnabled == ~busy /\ sources # {}
SetMapsBusy(b) == busy' = b

(* Cut Pack Around a Point: the dialog checks the name and goes busy.      *)
CutPack(kind) ==
  /\ UserMay /\ CutEnabled
  /\ IF tools = "all"
     THEN inbox' = Append(inbox, [kind |-> kind, valid |-> TRUE]) /\ SetMapsBusy(TRUE)
     ELSE SetMapsBusy(FALSE) /\ UNCHANGED inbox
  /\ UNCHANGED <<tools, sources, dialog, queue, at, op, process, reports, window, history>>

VerifyDirectory ==
  /\ UserMay /\ ~busy
  /\ IF tools # "none"
     THEN inbox' = Append(inbox, [kind |-> "verify", valid |-> TRUE]) /\ SetMapsBusy(TRUE)
     ELSE SetMapsBusy(FALSE) /\ UNCHANGED inbox
  /\ UNCHANGED <<tools, sources, dialog, queue, at, op, process, reports, window, history>>

(* _on_orcmaps_completed: any provision's report, also that of a cut the   *)
(* user started, moves the setup queue on.                                 *)
HandleReport ==
  /\ window = "open" /\ reports # <<>>
  /\ reports' = Tail(reports)
  /\ LET kind == Head(reports)[1]
         success == Head(reports)[2]
     IN  IF kind \in Provisions
         THEN IF ~success /\ tools = "none"
              THEN queue' = <<>> /\ UNCHANGED <<inbox, stalled>>
              ELSE ProvisionNext(queue)
         ELSE UNCHANGED <<queue, inbox, stalled>>
  /\ SetMapsBusy(FALSE)
  /\ UNCHANGED <<tools, sources, dialog, at, op, process, window, caught>>

(***************************************************************************)
(* Worker thread                                                           *)
(***************************************************************************)
Report(success) ==
  /\ reports' = IF window = "open" THEN Append(reports, <<op.kind, success>>) ELSE <<>>
  /\ at' = "idle" /\ op' = None

(* A provision forgets an earlier cancel; a verification does not look.    *)
Begin ==
  /\ at = "idle" /\ inbox # <<>> /\ window # "closed"
  /\ op' = Head(inbox) /\ inbox' = Tail(inbox)
  /\ at' = IF op'.kind = "verify" THEN "verify" ELSE "prepare"
  /\ cancelled' = (cancelled /\ op'.kind = "verify")
  /\ UNCHANGED <<tools, sources, dialog, queue, busy, handle, tool, reports, window, history>>

(* A bad name, no readable commit or a Popen that raises: an error.        *)
CannotBuild ==
  /\ at = "prepare"
  /\ Report(FALSE) /\ handle' = FALSE
  /\ UNCHANGED <<tools, sources, dialog, queue, busy, inbox, cancelled, tool, window, history>>

(* Popen has returned; the handle is not stored yet.                       *)
Launch ==
  /\ at = "prepare" /\ op.valid
  /\ tool' = "up" /\ at' = "started"
  /\ UNCHANGED <<tools, sources, dialog, queue, busy, inbox, op, handle, cancelled, reports,
                 window, history>>

OnStart ==
  /\ at = "started"
  /\ handle' = TRUE /\ at' = "running"
  /\ UNCHANGED <<tools, sources, dialog, queue, busy, inbox, op, cancelled, tool, reports,
                 window, history>>

(* External: the build ends by itself, or because it was told to.          *)
ToolEnds ==
  /\ \/ tool = "up" /\ tool' \in {"ok", "failed"}
     \/ tool = "asked" /\ tool' = "failed"
  /\ UNCHANGED <<tools, sources, dialog, queue, busy, inbox, at, op, handle, cancelled,
                 reports, window, history>>

BuildDone ==
  /\ at = "running" /\ tool \in {"ok", "failed"}
  /\ handle' = FALSE /\ tool' = "none"
  /\ IF cancelled \/ tool = "failed" THEN Report(FALSE)
     ELSE IF op.kind = "preview" THEN Report(TRUE)
     ELSE at' = "verify" /\ UNCHANGED <<op, reports>>
  /\ UNCHANGED <<tools, sources, dialog, queue, busy, inbox, cancelled, window, history>>

(* verify_directory has a timeout; it passes, refuses or cannot run.       *)
VerifyDirectoryResults == {"passed", "refused", "error"}

Verified(kinds) ==
  /\ at = "verify" /\ op.kind \in kinds
  /\ \E result \in VerifyDirectoryResults : Report(result = "passed")
  /\ UNCHANGED <<tools, sources, dialog, queue, busy, inbox, process, window, history>>

VerifyDone == Verified({"verify"})

(* What a build has staged is verified before the build counts as one.     *)
StagedVerified == Verified(Provisions)

(***************************************************************************)
(* Closing                                                                 *)
(***************************************************************************)
(* Fault variant: the tool is left alone.                                  *)
TerminateNothing == UNCHANGED tool

Terminate == tool' = IF handle /\ tool = "up" THEN "asked" ELSE tool

(* shutdown(): cancel, quit, then wait without a limit; the GUI thread     *)
(* handles no more reports.                                                *)
Close ==
  /\ window = "open" /\ wizard = None
  /\ window' = "closing"
  /\ Terminate
  /\ handle' = FALSE /\ cancelled' = TRUE
  /\ caught' = (inbox = <<>> /\ (handle \/ at \in {"idle", "verify"}))
  /\ reports' = <<>>
  /\ UNCHANGED <<tools, sources, dialog, queue, busy, inbox, at, op, stalled>>

(* The event loop ends when no slot runs; queued ones may run before that. *)
ThreadEnds ==
  /\ window = "closing" /\ at = "idle"
  /\ window' = "closed"
  /\ UNCHANGED <<tools, sources, dialog, queue, busy, inbox, at, op, process, reports, history>>

(* The checkout is moved, a drive unmounted or mounted again.              *)
ToolsChange ==
  /\ window = "open" /\ Len(inbox) + Len(reports) < MaxOps
  /\ tools' \in {"all", "no script", "none"} \ {tools}
  /\ UNCHANGED <<sources, dialog, queue, busy, inbox, at, op, process, reports, window,
                 history>>

WorkerStep ==
  Begin \/ CannotBuild \/ Launch \/ OnStart \/ BuildDone \/ VerifyDone \/ StagedVerified

SetupNext ==
  \/ \E force \in BOOLEAN : OpenWizard(force)
  \/ \E r \in Region : AddRegion(r)
  \/ WizardStep \/ CancelWizard \/ FinishWizard
  \/ \E kind \in {"cut", "preview"} : CutPack(kind)
  \/ VerifyDirectory \/ HandleReport
  \/ WorkerStep \/ ToolEnds \/ Close \/ ThreadEnds \/ ToolsChange

(* The threads run and a tool that was told to terminate ends; a build     *)
(* nobody interrupts may hang for ever.                                    *)
Fairness ==
  /\ WF_setupVars(WorkerStep) /\ WF_setupVars(ThreadEnds) /\ WF_setupVars(HandleReport)
  /\ WF_setupVars(tool = "asked" /\ ToolEnds)

SetupSpec == SetupInit /\ [][SetupNext]_setupVars /\ Fairness

(***************************************************************************)
(* Properties                                                              *)
(***************************************************************************)
(* The setup queue is driven by reports only: while regions wait, some     *)
(* provision is queued, running or about to be reported, whatever the user *)
(* starts in between; the exception is a region that was refused without a *)
(* report because the tools had gone.                                      *)
QueueIsDriven ==
  queue # <<>> /\ window = "open" /\ ~stalled =>
    \/ at # "idle" /\ op.kind \in Provisions
    \/ \E i \in DOMAIN inbox : inbox[i].kind \in Provisions
    \/ \E i \in DOMAIN reports : reports[i][1] \in Provisions

(* Closing the window ends although a build may hang: cancel() terminates  *)
(* the tool.  It must have found the handle, with nothing queued behind.   *)
ShutdownEnds == (window = "closing" /\ caught) ~> (window = "closed")
=============================================================================
