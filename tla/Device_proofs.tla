---------------------------- MODULE Device_proofs ----------------------------
(***************************************************************************)
(* Proofs about the Device page, for any radios, ports, layouts, catalog   *)
(* and bounds.                                                             *)
(*                                                                         *)
(* One invariant, DeviceInv, carries the safety of firmware writes: types  *)
(* that bind every request to its radio's serial number and bundle, the    *)
(* library's copy in step with the radio (InSync), and an operation whose  *)
(* last check saw the radio it was asked for, apart from the connection    *)
(* (Running).  Owed and Follows extend it for the port and for what the    *)
(* page shows.                                                             *)
(***************************************************************************)
EXTENDS Device, SequenceTheorems, FiniteSetTheorems, TLAPS
-----------------------------------------------------------------------------
(* Types.  Two relations travel with them: whatever names a radio carries  *)
(* that radio's serial number, and whatever is to be flashed carries a     *)
(* bundle for its radio, or one known to have come late.                   *)

Serials == Nat \cup {None}
Configs == [plain: Nat, choice: Nat, secret: Nat, name: Nat, key: Nat]
Displays == [plain: Nat, choice: Nat, name: Nat]
Tags == {DiscoverRelease(Catalog, r, pre): r \in Radios, pre \in Prereleases}

Snapshots ==
    {s \in [kind: {"snapshot"}, radio: Radios, port: Ports, serial: Serials, shown: Displays,
            first: BOOLEAN]:
        s.serial = Serial[s.radio]}
Signals ==
    Snapshots \cup [kind: {"down", "scanning"}]
        \cup [kind: {"profile"}, op: {"backup", "restore"}, ok: BOOLEAN]

SectionSaves ==
    [kind: {"save"}, section: {"config"}, changes: [plain: Nat, choice: Nat, secret: Nat]]
ChannelSaves == [kind: {"save"}, section: {"channel"}, changes: [name: Nat, key: Nat]]
Calls ==
    [kind: {"disconnect", "scan", "refresh", "reset", "backup", "restore"}]
        \cup [kind: {"connect"}, port: Ports] \cup SectionSaves \cup ChannelSaves

Sound(o) ==
    /\ o.serial = Serial[o.radio]
    /\ o.bundle # None => o.bundle.late \/ (o.bundle.target = o.radio /\ o.named = o.radio)
Waiters == {o \in Waits: Sound(o)}
Consoles == [op: {"console"}, port: Ports]
Timers == Waiters \cup Consoles
OpJobs ==
    {o \in [op: Ops, full: BOOLEAN, radio: Radios, named: Radios, serial: Serials,
            bundle: Bundles \cup {None}, port: Ports \cup {None}]: Sound(o)}
Jobs ==
    OpJobs \cup [op: {"discover"}, radio: Radios, pre: Prereleases]
        \cup [op: {"prepare"}, radio: Radios, tag: Tags]
Tools == {t \in Runs: Sound(t)}

Results ==
    [kind: {"release"}, tag: Tags]
        \cup [kind: {"bundle"}, bundle: [release: Tags, target: Radios]]
        \cup [kind: {"completed"}, op: Ops \cup {"discover", "prepare"}, ok: BOOLEAN]

Buttons ==
    {"discover", "download", "probe", "backup", "flash", "console", "save profile",
     "load profile"}
Dialogs == [full: BOOLEAN, radio: Radios, last: BOOLEAN]
Windows ==
    [connected: BOOLEAN, snap: Snapshots \cup {None}, flashPort: Ports \cup {None},
     pending: [Ops \cup {"console"} -> Timers \cup {None}],
     release: Tags \cup {None}, bundle: Bundles \cup {None}, backedUp: BOOLEAN,
     dialog: Dialogs \cup {None}, on: SUBSET Buttons]

\* A pending operation is kept under its name, and the page's bundle is for
\* the radio it shows and the one a dialog names, or late.
WindowOk(w) ==
    /\ \A op \in Ops \cup {"console"}: w.pending[op] # None => w.pending[op].op = op
    /\ w.snap # None /\ w.bundle # None => w.bundle.target = w.snap.radio \/ w.bundle.late
    /\ w.dialog # None /\ w.bundle # None =>
         \/ w.bundle.late
         \/ w.bundle.target = w.dialog.radio /\ (w.snap # None => w.snap.radio = w.dialog.radio)

DeviceType ==
    /\ at \in [Radios -> Ports \cup {None}] /\ config \in [Radios -> Configs]
    /\ link \in Links \cup {None} /\ calls \in Seq(Calls) /\ slot \in Seq(Sections)
    /\ copy \in Configs /\ file \in Configs /\ drift \in BOOLEAN
    /\ idle \in BOOLEAN /\ hidden \in BOOLEAN
    /\ signals \in Seq(Signals) /\ results \in Seq(Results)
    /\ win \in Windows /\ WindowOk(win)
    /\ timers \in Seq(Timers) /\ dials \in SUBSET Ports
    /\ jobs \in Seq(Jobs) /\ tool \in Tools \cup {None} /\ console \in Ports \cup {None}

-----------------------------------------------------------------------------
(* Constructors                                                            *)

LEMMA ConstantFacts ==
    /\ None \notin Radios /\ None \notin Ports
    /\ Serial \in [Radios -> Serials]
    /\ \A r, q \in Radios: Serial[r] = Serial[q] /\ Serial[r] # None => r = q
BY DeviceConstants DEF Serials

LEMMA SignalConstructors ==
    /\ [kind |-> "down"] \in Signals /\ [kind |-> "scanning"] \in Signals
    /\ \A op \in {"backup", "restore"}: \A ok \in BOOLEAN: Profile(op, ok) \in Signals
    /\ \A l \in Links: \A c \in Configs: \A b \in BOOLEAN:
         Snapshot(l, c, b) \in Snapshots /\ Snapshot(l, c, b) \in Signals
<1>1. [kind |-> "down"] \in Signals /\ [kind |-> "scanning"] \in Signals
  BY DEF Signals
<1>2. ASSUME NEW op \in {"backup", "restore"}, NEW ok \in BOOLEAN PROVE Profile(op, ok) \in Signals
  BY DEF Signals, Profile
<1>3. ASSUME NEW l \in Links, NEW c \in Configs, NEW b \in BOOLEAN
      PROVE  Snapshot(l, c, b) \in Snapshots
  <2>1. Shown(c) \in Displays
    BY DEF Shown, Displays, Configs
  <2>2. l.radio \in Radios /\ l.port \in Ports /\ Serial[l.radio] \in Serials
    BY ConstantFacts DEF Links
  <2> QED BY <2>1, <2>2 DEF Snapshot, Snapshots
<1> QED BY <1>1, <1>2, <1>3 DEF Signals

LEMMA SignalShapes ==
    /\ \A s \in Signals: s.kind = "snapshot" => s \in Snapshots
    /\ \A s \in Snapshots: /\ s.radio \in Radios /\ s.port \in Ports /\ s.serial = Serial[s.radio]
                           /\ s.serial \in Serials /\ s.shown \in Displays /\ s.kind = "snapshot"
                           /\ s.first \in BOOLEAN
BY DEF Signals, Snapshots

LEMMA CallConstructors ==
    /\ \A k \in {"disconnect", "scan", "refresh", "reset", "backup", "restore"}: [kind |-> k] \in Calls
    /\ \A p \in Ports: [kind |-> "connect", port |-> p] \in Calls
    /\ \A sh \in Displays: \A s \in Sections: \A ch \in ChangesFor(sh, s):
         [kind |-> "save", section |-> s, changes |-> ch] \in Calls
<1>1. \A k \in {"disconnect", "scan", "refresh", "reset", "backup", "restore"}: [kind |-> k] \in Calls
  BY DEF Calls
<1>2. \A p \in Ports: [kind |-> "connect", port |-> p] \in Calls
  BY DEF Calls
<1>3. ASSUME NEW sh \in Displays, NEW s \in Sections, NEW ch \in ChangesFor(sh, s)
      PROVE  [kind |-> "save", section |-> s, changes |-> ch] \in Calls
  <2>0. sh.choice \in Nat
    BY DEF Displays
  <2>1. CASE s = "config"
    <3>1. ch \in [plain: Nat, choice: Nat, secret: Nat]
      BY <2>0, <2>1 DEF ChangesFor, SectionForm, ChoiceItems, Known, Blank
    <3> QED BY <2>1, <3>1 DEF Calls, SectionSaves
  <2>2. CASE s = "channel"
    <3>1. ch \in [name: Nat, key: Nat]
      BY <2>2 DEF ChangesFor, ChannelForm, Known, Blank, Bad
    <3> QED BY <2>2, <3>1 DEF Calls, ChannelSaves
  <2> QED BY <2>1, <2>2 DEF Sections
<1> QED BY <1>1, <1>2, <1>3

LEMMA CallShapes ==
    /\ \A c \in Calls: c.kind = "connect" => c.port \in Ports
    /\ \A c \in Calls: c.kind = "save" => c \in SectionSaves \cup ChannelSaves
BY DEF Calls, SectionSaves, ChannelSaves

LEMMA ResultConstructors ==
    /\ \A tag \in Tags: [kind |-> "release", tag |-> tag] \in Results
    /\ \A b \in [release: Tags, target: Radios]: [kind |-> "bundle", bundle |-> b] \in Results
    /\ \A op \in Ops \cup {"discover", "prepare"}: \A ok \in BOOLEAN: Completed(op, ok) \in Results
BY DEF Results, Completed

LEMMA ResultShapes ==
    \A r \in Results:
        /\ r.kind = "release" => r.tag \in Tags
        /\ r.kind = "bundle" => r.bundle.target \in Radios
        /\ r.kind = "completed" => r.op \in Ops \cup {"discover", "prepare"} /\ r.ok \in BOOLEAN
BY DEF Results

LEMMA JobShapes ==
    \A j \in Jobs:
        /\ j.op \in Ops => j \in OpJobs
        /\ j.op = "discover" => j.radio \in Radios /\ j.pre \in Prereleases
        /\ j.op = "prepare" => j.radio \in Radios /\ j.tag \in Tags
BY DEF Jobs, OpJobs, Ops

LEMMA TimerShapes ==
    \A t \in Timers:
        /\ t.op = "console" => t.port \in Ports
        /\ t.op # "console" => t \in Waiters
        /\ t.op \in Ops \cup {"console"}
BY DEF Timers, Waiters, Consoles, Waits, Ops

-----------------------------------------------------------------------------
(* The library's copy                                                      *)

Fields == {"plain", "choice", "secret", "name", "key"}

LEMMA ConfigFacts ==
    \A c \in Configs: DOMAIN c = Fields /\ \A f \in Fields: c[f] \in Nat
BY DEF Configs, Fields

LEMMA ConfigIs ==
    ASSUME NEW c, DOMAIN c = Fields, c = [f \in Fields |-> c[f]], \A f \in Fields: c[f] \in Nat
    PROVE  c \in Configs
BY DEF Configs, Fields

\* Writing one section keeps the other one, and a copy that differs from what
\* is stored in that section only becomes what is stored.
LEMMA WriteSectionFacts ==
    ASSUME NEW c \in Configs, NEW d \in Configs, NEW s \in Sections
    PROVE  /\ WriteSection(c, d, s) \in Configs
           /\ \A f \in Fields:
                WriteSection(c, d, s)[f] = IF f \in FieldsOf(s) THEN d[f] ELSE c[f]
           /\ WriteSection(c, WriteSection(c, d, s), s) = WriteSection(c, d, s)
           /\ (\A f \in Fields \ FieldsOf(s): c[f] = d[f]) => WriteSection(c, d, s) = d
<1> DEFINE w == WriteSection(c, d, s)
<1>1. DOMAIN c = Fields /\ DOMAIN d = Fields /\ \A f \in Fields: c[f] \in Nat /\ d[f] \in Nat
  BY ConfigFacts
<1>2. w = [f \in Fields |-> IF f \in FieldsOf(s) THEN d[f] ELSE c[f]]
  BY <1>1 DEF WriteSection
<1>3. w \in Configs
  BY <1>1, <1>2 DEF Configs, Fields
<1>4. \A f \in Fields: w[f] = IF f \in FieldsOf(s) THEN d[f] ELSE c[f]
  BY <1>2
<1>5. WriteSection(c, w, s) = [f \in Fields |-> IF f \in FieldsOf(s) THEN w[f] ELSE c[f]]
  BY <1>1 DEF WriteSection
<1>6. WriteSection(c, w, s) = w
  BY <1>2, <1>4, <1>5
<1>7. d = [f \in Fields |-> d[f]]
  BY DEF Configs, Fields
<1>8. (\A f \in Fields \ FieldsOf(s): c[f] = d[f]) => w = d
  BY <1>2, <1>7
<1> QED BY <1>3, <1>4, <1>6, <1>8

LEMMA EditedFacts ==
    ASSUME NEW c \in Configs, NEW s \in Sections, NEW ch,
           [kind |-> "save", section |-> s, changes |-> ch] \in SectionSaves \cup ChannelSaves
    PROVE  /\ Edited(c, s, ch) \in Configs
           /\ \A f \in Fields \ FieldsOf(s): Edited(c, s, ch)[f] = c[f]
           /\ s = "config" /\ ch.secret = Blank => Edited(c, s, ch).secret = c.secret
<1>1. CASE s = "config"
  <2>1. ch \in [plain: Nat, choice: Nat, secret: Nat]
    BY <1>1 DEF SectionSaves, ChannelSaves
  <2> QED BY <1>1, <2>1 DEF Edited, Configs, Fields, FieldsOf, KeepsSecret
<1>2. CASE s = "channel"
  <2>1. ch \in [name: Nat, key: Nat]
    BY <1>2 DEF SectionSaves, ChannelSaves
  <2> QED BY <1>2, <2>1 DEF Edited, Configs, Fields, FieldsOf
<1> QED BY <1>1, <1>2 DEF Sections

LEMMA SaveShapes ==
    \A c \in SectionSaves \cup ChannelSaves:
        /\ c.section \in Sections
        /\ [kind |-> "save", section |-> c.section, changes |-> c.changes]
             \in SectionSaves \cup ChannelSaves
BY DEF SectionSaves, ChannelSaves, Sections

LEMMA ErasedConfig == Erased \in Configs
BY DEF Erased, NoCopy, Configs

-----------------------------------------------------------------------------
(* The worker keeps the types, and its copy is what the radio holds.       *)

InSync == link # None /\ ~drift => copy = config[link.radio]

WorkerSame == UNCHANGED <<at, results, win, timers, dials, firmware, console>>

LEMMA WorkerTypes ==
    ASSUME DeviceType, WorkerSame,
           config' \in [Radios -> Configs], link' \in Links \cup {None}, calls' \in Seq(Calls),
           slot' \in Seq(Sections), copy' \in Configs, file' \in Configs, drift' \in BOOLEAN,
           idle' \in BOOLEAN, hidden' \in BOOLEAN, signals' \in Seq(Signals)
    PROVE  DeviceType'
BY DEF DeviceType, WorkerSame, firmware

LEMMA NoCopyIsConfig == NoCopy \in Configs
BY DEF NoCopy, Configs

LEMMA CallFacts ==
    ASSUME DeviceType, NEW kind, IsCall(kind)
    PROVE  /\ WorkerSame /\ slot = <<>> /\ Head(calls).kind = kind /\ Head(calls) \in Calls
           /\ calls' \in Seq(Calls) /\ UNCHANGED chip /\ calls # <<>> /\ calls' = Tail(calls)
<1>1. calls \in Seq(Calls) /\ calls # <<>>
  BY DEF DeviceType, IsCall
<1>2. Head(calls) \in Calls /\ Tail(calls) \in Seq(Calls)
  BY <1>1
<1> QED BY <1>1, <1>2 DEF IsCall, WorkerSame, firmware

LEMMA WorkerTyped ==
    ASSUME DeviceType, InSync, Worker
    PROVE  DeviceType' /\ InSync'
<1>0. /\ config \in [Radios -> Configs] /\ link \in Links \cup {None} /\ calls \in Seq(Calls)
      /\ slot \in Seq(Sections) /\ copy \in Configs /\ file \in Configs /\ drift \in BOOLEAN
      /\ idle \in BOOLEAN /\ hidden \in BOOLEAN /\ signals \in Seq(Signals)
  BY DEF DeviceType
<1>a. /\ \A l \in Links: l.radio \in Radios
      /\ \A s \in Signals: Append(signals, s) \in Seq(Signals)
  BY <1>0 DEF Links
<1>1. CASE CallDisconnect
  <2>1. IsCall("disconnect") /\ UNCHANGED <<config, slot, file>>
    BY <1>1 DEF CallDisconnect
  <2>2. CASE idle
    <3>1. UNCHANGED <<link, idle, copy, drift, hidden, signals>>
      BY <1>1, <2>2 DEF CallDisconnect
    <3>2. DeviceType'
      BY <1>0, <2>1, <3>1, CallFacts, WorkerTypes
    <3> QED BY <2>1, <3>1, <3>2 DEF InSync
  <2>3. CASE ~idle
    <3>1. /\ link' = None /\ idle' = TRUE /\ copy' = NoCopy /\ drift' = FALSE /\ hidden' = FALSE
          /\ signals' = Append(signals, [kind |-> "down"])
      BY <1>1, <2>3 DEF CallDisconnect
    <3>2. DeviceType'
      BY <1>0, <1>a, <2>1, <3>1, CallFacts, WorkerTypes, NoCopyIsConfig, SignalConstructors
    <3> QED BY <3>1, <3>2 DEF InSync
  <2> QED BY <2>2, <2>3
<1>2. CASE CallConnect
  <2> DEFINE p == Head(calls).port
             done(r) == /\ link' = [radio |-> r, port |-> p] /\ idle' = FALSE
                        /\ copy' = config[r] /\ drift' = FALSE
                        /\ signals' = Append(signals, Snapshot(link', copy', TRUE))
  <2>1. /\ IsCall("connect") /\ UNCHANGED <<config, slot, file, hidden>> /\ p \in Ports
    BY <1>2, CallFacts, CallShapes DEF CallConnect
  <2>2. CASE UNCHANGED <<link, idle, copy, drift, signals>>
    <3>1. DeviceType'
      BY <1>0, <2>1, <2>2, CallFacts, WorkerTypes
    <3> QED BY <2>1, <2>2, <3>1 DEF InSync
  <2>3. ASSUME NEW r \in On(at, p), done(r) PROVE DeviceType' /\ InSync'
    <3>2. r \in Radios /\ config[r] \in Configs
      BY <1>0 DEF On, DeviceType
    <3>3. link' \in Links /\ link'.radio = r
      BY <2>1, <2>3, <3>2 DEF Links
    <3>4. Snapshot(link', copy', TRUE) \in Signals
      BY <2>3, <3>2, <3>3, SignalConstructors
    <3>5. DeviceType'
      BY <1>0, <1>a, <2>1, <2>3, <3>2, <3>3, <3>4, CallFacts, WorkerTypes
    <3> QED BY <2>1, <2>3, <3>3, <3>5 DEF InSync
  <2>4. CASE link' = None /\ idle' = TRUE /\ copy' = NoCopy /\ drift' = FALSE /\ signals' = signals
    <3>1. DeviceType'
      BY <1>0, <2>1, <2>4, CallFacts, WorkerTypes, NoCopyIsConfig
    <3> QED BY <2>4, <3>1 DEF InSync
  <2> QED BY <1>2, <2>2, <2>3, <2>4 DEF CallConnect
<1>b. CASE CallScan
  <2>1. /\ IsCall("scan") /\ UNCHANGED <<config, link, slot, copy, file, drift>>
        /\ idle' = TRUE /\ hidden' = (hidden \/ link # None)
        /\ signals' = Append(signals, [kind |-> "scanning"])
    BY <1>b DEF CallScan
  <2>2. DeviceType'
    BY <1>0, <1>a, <2>1, CallFacts, WorkerTypes, SignalConstructors
  <2> QED BY <2>1, <2>2 DEF InSync
<1>3. CASE CallSave
  <2>1. /\ IsCall("save") /\ UNCHANGED <<link, idle, hidden, slot, file>>
        /\ Head(calls).section \in Sections
        /\ [kind |-> "save", section |-> Head(calls).section, changes |-> Head(calls).changes]
             \in SectionSaves \cup ChannelSaves
    BY <1>3, CallFacts, CallShapes, SaveShapes DEF CallSave
  <2>2. CASE ~Connected
    <3>1. UNCHANGED <<config, copy, drift, signals>>
      BY <1>3, <2>2 DEF CallSave
    <3>2. DeviceType'
      BY <1>0, <2>1, <3>1, CallFacts, WorkerTypes
    <3> QED BY <2>1, <3>1, <3>2 DEF InSync
  <2>3. CASE Connected
    <3>0. link # None
      BY <2>3 DEF Connected
    <3> DEFINE s == Head(calls).section
               e == Edited(copy, Head(calls).section, Head(calls).changes)
    <3>1. /\ copy' = e
          /\ \/ /\ config' = [config EXCEPT ![link.radio] = WriteSection(@, e, s)]
                /\ signals' = Append(signals, Snapshot(link, e, FALSE)) /\ UNCHANGED drift
             \/ drift' = TRUE /\ UNCHANGED <<config, signals>>
      BY <1>3, <2>3 DEF CallSave
    <3>2. e \in Configs /\ \A f \in Fields \ FieldsOf(s): e[f] = copy[f]
      BY <1>0, <2>1, EditedFacts
    <3>3. link \in Links /\ link.radio \in Radios /\ config[link.radio] \in Configs
      BY <1>0, <1>a, <3>0
    <3> HIDE DEF e, s
    <3>4. CASE drift' = TRUE /\ UNCHANGED <<config, signals>>
      <4>1. DeviceType'
        BY <1>0, <2>1, <3>1, <3>2, <3>4, CallFacts, WorkerTypes
      <4> QED BY <3>4, <4>1 DEF InSync
    <3>5. CASE /\ config' = [config EXCEPT ![link.radio] = WriteSection(@, e, s)]
               /\ signals' = Append(signals, Snapshot(link, e, FALSE)) /\ UNCHANGED drift
      <4>1. s \in Sections
        BY <2>1 DEF s
      <4>2. /\ WriteSection(config[link.radio], e, s) \in Configs
            /\ (\A f \in Fields \ FieldsOf(s): config[link.radio][f] = e[f])
                 => WriteSection(config[link.radio], e, s) = e
        BY <3>2, <3>3, <4>1, WriteSectionFacts
      <4>3. Snapshot(link, e, FALSE) \in Signals
        BY <3>2, <3>3, SignalConstructors
      <4>4. config' \in [Radios -> Configs]
            /\ config'[link.radio] = WriteSection(config[link.radio], e, s)
        BY <1>0, <3>3, <3>5, <4>2
      <4>5. DeviceType'
        BY <1>0, <1>a, <2>1, <3>1, <3>2, <3>5, <4>3, <4>4, CallFacts, WorkerTypes
      <4>6. ASSUME ~drift PROVE config'[link.radio] = e
        <5>1. copy = config[link.radio]
          BY <3>0, <4>6 DEF InSync
        <5> QED BY <3>2, <4>2, <4>4, <5>1
      <4> QED BY <2>1, <3>1, <3>5, <4>5, <4>6 DEF InSync
    <3> QED BY <3>1, <3>4, <3>5
  <2> QED BY <2>2, <2>3
<1>4. CASE CallRefresh
  <2>1. /\ IsCall("refresh") /\ UNCHANGED <<config, link, idle, hidden, slot, copy, file, drift>>
        /\ signals' = IF ~Connected THEN signals
                      ELSE Append(signals, Snapshot(link, copy, FALSE))
    BY <1>4 DEF CallRefresh
  <2>2. signals' \in Seq(Signals)
    <3>1. Connected => Snapshot(link, copy, FALSE) \in Signals
      BY <1>0, SignalConstructors DEF Connected
    <3> QED BY <1>0, <1>a, <2>1, <3>1
  <2>3. DeviceType'
    BY <1>0, <2>1, <2>2, CallFacts, WorkerTypes
  <2> QED BY <2>1, <2>3 DEF InSync
<1>5. CASE CallReset
  <2>1. IsCall("reset") /\ UNCHANGED <<link, idle, hidden, slot, copy, file, signals>>
    BY <1>5 DEF CallReset
  <2>2. CASE ~Connected
    <3>1. UNCHANGED <<config, drift>>
      BY <1>5, <2>2 DEF CallReset
    <3>2. DeviceType'
      BY <1>0, <2>1, <3>1, CallFacts, WorkerTypes
    <3> QED BY <2>1, <3>1, <3>2 DEF InSync
  <2>3. CASE Connected
    <3>1. /\ drift' = TRUE
          /\ \/ config' = [config EXCEPT ![link.radio] = Erased]
             \/ config' = config
      BY <1>5, <2>3 DEF CallReset
    <3>3. config' \in [Radios -> Configs]
      BY <1>0, <3>1, ErasedConfig
    <3>4. DeviceType'
      BY <1>0, <2>1, <3>1, <3>3, CallFacts, WorkerTypes
    <3> QED BY <3>1, <3>4 DEF InSync
  <2> QED BY <2>2, <2>3
<1>6. CASE CallBackup
  <2>1. /\ IsCall("backup") /\ UNCHANGED <<config, link, idle, hidden, slot, copy, drift>>
        /\ file' \in {copy, file}
        /\ \E ok \in BOOLEAN: signals' = Append(signals, Profile("backup", ok))
    BY <1>6 DEF CallBackup
  <2>2. signals' \in Seq(Signals) /\ file' \in Configs
    BY <1>0, <1>a, <2>1, SignalConstructors
  <2>3. DeviceType'
    BY <1>0, <2>1, <2>2, CallFacts, WorkerTypes
  <2> QED BY <2>1, <2>3 DEF InSync
<1>7. CASE CallRestore
  <2>1. /\ IsCall("restore") /\ UNCHANGED <<config, link, idle, hidden, copy, file, drift>>
        /\ slot' \in {RestorePlan, slot}
        /\ signals' \in {signals, Append(signals, Profile("restore", FALSE))}
    BY <1>7 DEF CallRestore
  <2>2. RestorePlan \in Seq(Sections)
    BY DEF RestorePlan, Sections
  <2>3. signals' \in Seq(Signals) /\ slot' \in Seq(Sections)
    BY <1>0, <1>a, <2>1, <2>2, SignalConstructors
  <2>4. DeviceType'
    BY <1>0, <2>1, <2>3, CallFacts, WorkerTypes
  <2> QED BY <2>1, <2>4 DEF InSync
<1>8. CASE RestoreStep
  <2>1. /\ slot # <<>> /\ WorkerSame /\ UNCHANGED <<link, idle, hidden, calls, file>>
    BY <1>8 DEF RestoreStep, WorkerSame, firmware
  <2>2. Head(slot) \in Sections /\ Tail(slot) \in Seq(Sections) /\ <<>> \in Seq(Sections)
    BY <1>0, <2>1
  <2>3. WriteSection(copy, file, Head(slot)) \in Configs
    BY <1>0, <2>2, WriteSectionFacts
  <2>4. CASE /\ link # None
             /\ copy' = WriteSection(copy, file, Head(slot))
             /\ config' = [config EXCEPT ![link.radio] = WriteSection(@, copy', Head(slot))]
             /\ slot' = Tail(slot)
             /\ signals' = IF slot' = <<>>
                           THEN signals \o <<Profile("restore", TRUE), Snapshot(link, copy', FALSE)>>
                           ELSE signals
             /\ drift' = drift
    <3>1. link \in Links /\ link.radio \in Radios /\ config[link.radio] \in Configs
      BY <1>0, <1>a, <2>4
    <3>a. copy' \in Configs
      BY <2>3, <2>4
    <3>b. WriteSection(copy, copy', Head(slot)) = copy'
      <4> DEFINE h == Head(slot)
      <4>1. WriteSection(copy, WriteSection(copy, file, h), h) = WriteSection(copy, file, h)
        <5> HIDE DEF h
        <5>1. h \in Sections
          BY <2>2 DEF h
        <5> QED BY <1>0, <5>1, WriteSectionFacts
      <4> QED BY <2>4, <4>1
    <3>2. WriteSection(config[link.radio], copy', Head(slot)) \in Configs
      BY <2>2, <3>a, <3>1, WriteSectionFacts
    <3>3. config' \in [Radios -> Configs]
          /\ config'[link.radio] = WriteSection(config[link.radio], copy', Head(slot))
      BY <1>0, <2>4, <3>1, <3>2
    <3>4. signals' \in Seq(Signals)
      <4> DEFINE a == Profile("restore", TRUE)
                 b == Snapshot(link, copy', FALSE)
      <4>1. a \in Signals /\ b \in Signals
        BY <3>a, <3>1, SignalConstructors
      <4>2. signals' = IF slot' = <<>> THEN signals \o <<a, b>> ELSE signals
        BY <2>4
      <4> HIDE DEF a, b
      <4>3. <<a, b>> \in Seq(Signals)
        BY <4>1
      <4>4. signals \o <<a, b>> \in Seq(Signals)
        BY <1>0, <4>3
      <4> QED BY <1>0, <4>2, <4>4
    <3>5. DeviceType'
      BY <1>0, <2>1, <2>2, <2>3, <2>4, <3>3, <3>4, WorkerTypes
    <3>6. ~drift => config'[link.radio] = copy'
      BY <2>4, <3>b, <3>3 DEF InSync
    <3> QED BY <2>1, <2>4, <3>5, <3>6 DEF InSync
  <2>5. CASE /\ copy' = (IF link = None THEN copy ELSE WriteSection(copy, file, Head(slot)))
             /\ slot' = <<>> /\ drift' = (link # None)
             /\ signals' = Append(signals, Profile("restore", FALSE))
             /\ config' = config
    <3>1. copy' \in Configs /\ drift' \in BOOLEAN /\ signals' \in Seq(Signals)
      BY <1>0, <1>a, <2>3, <2>5, SignalConstructors
    <3>2. DeviceType'
      BY <1>0, <2>1, <2>2, <2>5, <3>1, WorkerTypes
    <3> QED BY <2>1, <2>5, <3>2 DEF InSync
  <2> QED BY <1>8, <2>4, <2>5 DEF RestoreStep
<1> QED BY <1>1, <1>2, <1>b, <1>3, <1>4, <1>5, <1>6, <1>7, <1>8 DEF Worker

-----------------------------------------------------------------------------
(* The firmware thread: what runs was checked, and works on a port of its  *)
(* own.                                                                    *)

OnePerPort == \A r, q \in Radios: at[r] = at[q] /\ at[r] # None => r = q

\* The radio the last identity check saw has the serial number of the request,
\* only a flash writes, and it has a bundle.
Checked(t) ==
    /\ SerialMatches(Serial, t.checked, t.serial)
    /\ t.rest # <<>>
    /\ t.op = "flash" \/ \A i \in DOMAIN t.rest: t.rest[i] \notin Writes
    /\ t.op = "flash" => t.bundle # None

\* The connected radio stays on its port, where no bootloader is spoken to.
Apart ==
    link # None => /\ at[link.radio] = link.port
                   /\ tool # None /\ tool.loader => tool.port # link.port

Running == OnePerPort /\ (tool # None => Checked(tool)) /\ Apart

FirmwareSame ==
    /\ UNCHANGED <<link, idle, hidden, calls, slot, copy, file, drift, signals, win, timers, dials,
                   console>>
    /\ config' \in [Radios -> Configs]
    /\ link # None => config'[link.radio] = config[link.radio]

LEMMA FirmwareTypes ==
    ASSUME DeviceType, InSync, FirmwareSame,
           at' \in [Radios -> Ports \cup {None}], results' \in Seq(Results), jobs' \in Seq(Jobs),
           tool' \in Tools \cup {None}
    PROVE  DeviceType' /\ InSync'
BY DEF DeviceType, FirmwareSame, InSync

LEMMA SameConfig ==
    ASSUME DeviceType, UNCHANGED <<config, worker, signals, win, timers, dials, console>>
    PROVE  FirmwareSame
BY DEF DeviceType, FirmwareSame, worker

\* Apart, when no radio moved and the operation did not enter a bootloader.
LEMMA ApartKept ==
    ASSUME Running, UNCHANGED <<at, link>>,
           tool' # None => tool' = tool \/ ~tool'.loader
                             \/ (tool # None /\ tool.loader /\ tool'.port = tool.port)
    PROVE  OnePerPort' /\ Apart'
BY DEF Running, OnePerPort, Apart

LEMMA JobFacts ==
    ASSUME DeviceType, NEW ops, IsJob(ops)
    PROVE  /\ FirmwareSame /\ tool = None /\ UNCHANGED <<at, chip>> /\ jobs # <<>>
           /\ Head(jobs) \in Jobs /\ Head(jobs).op \in ops /\ jobs' = Tail(jobs)
           /\ jobs' \in Seq(Jobs) /\ at' \in [Radios -> Ports \cup {None}]
           /\ UNCHANGED link
<1>1. jobs \in Seq(Jobs) /\ jobs # <<>> /\ at \in [Radios -> Ports \cup {None}]
  BY DEF DeviceType, IsJob
<1>2. Head(jobs) \in Jobs /\ Tail(jobs) \in Seq(Jobs)
  BY <1>1
<1>3. FirmwareSame
  BY SameConfig DEF IsJob, radios
<1> QED BY <1>1, <1>2, <1>3 DEF IsJob, radios, worker

LEMMA ToolIsNotNone == \A t \in Tools: t # None
BY NoneAssumption DEF Tools

LEMMA PlanFacts ==
    ASSUME NEW op \in Ops, NEW full \in BOOLEAN
    PROVE  /\ Plan(op, full) \in Seq(Commands) /\ Plan(op, full) # <<>>
           /\ op = "flash" \/ \A i \in DOMAIN Plan(op, full): Plan(op, full)[i] \notin Writes
<1>1. CASE op = "probe"
  <2>1. Plan(op, full) = <<"read-mac", "flash-id", "get-security-info">>
    BY <1>1 DEF Plan
  <2> QED BY <2>1 DEF Commands, Writes
<1>2. CASE op = "backup"
  <2>1. Plan(op, full) = <<"read-flash">>
    BY <1>2 DEF Plan
  <2> QED BY <2>1 DEF Commands, Writes
<1>3. CASE op = "flash" /\ full
  <2>1. Plan(op, full) = <<"erase-flash", "write-factory", "write-ota", "write-fs">>
    BY <1>3 DEF Plan
  <2>2. <<"erase-flash", "write-factory", "write-ota", "write-fs">> \in Seq(Commands)
    BY DEF Commands, Writes
  <2>3. Plan(op, full) # <<>>
    BY <2>1
  <2>4. Plan(op, full) \in Seq(Commands)
    BY <2>1, <2>2, Zenon
  <2> QED BY <1>3, <2>3, <2>4, Zenon
<1>4. CASE op = "flash" /\ ~full
  <2>1. Plan(op, full) = <<"write-update">>
    BY <1>4 DEF Plan
  <2>2. <<"write-update">> \in Seq(Commands)
    BY DEF Commands, Writes
  <2>3. Plan(op, full) # <<>>
    BY <2>1
  <2>4. Plan(op, full) \in Seq(Commands)
    BY <2>1, <2>2, Zenon
  <2> QED BY <1>4, <2>3, <2>4, Zenon
<1> QED BY <1>1, <1>2, <1>3, <1>4 DEF Ops

LEMMA AppendCompleted ==
    ASSUME DeviceType, NEW op \in Ops \cup {"discover", "prepare"}, NEW ok \in BOOLEAN
    PROVE  Append(results, Completed(op, ok)) \in Seq(Results)
<1> DEFINE c == Completed(op, ok)
<1>1. c \in Results /\ results \in Seq(Results)
  BY ResultConstructors DEF DeviceType
<1> HIDE DEF c
<1>2. Append(results, c) \in Seq(Results)
  BY <1>1
<1> QED BY <1>2 DEF c

LEMMA Discovered ==
    ASSUME DeviceType, InSync, Running, Discover
    PROVE  DeviceType' /\ InSync' /\ Running'
<1> DEFINE j == Head(jobs)
           tag == DiscoverRelease(Catalog, j.radio, j.pre)
<1>1. /\ IsJob({"discover"}) /\ tool' = tool
      /\ \/ results' = Append(results, [kind |-> "release", tag |-> tag])
         \/ results' = Append(results, Completed("discover", FALSE))
  BY DEF Discover
<1>2. tag \in Tags
  BY <1>1, JobFacts, JobShapes DEF Tags
<1>3. [kind |-> "release", tag |-> tag] \in Results /\ Completed("discover", FALSE) \in Results
  BY <1>2, ResultConstructors
<1>4. results \in Seq(Results) /\ tool \in Tools \cup {None}
  BY DEF DeviceType
<1> HIDE DEF j, tag
<1>5. results' \in Seq(Results)
  <2> DEFINE c == Append(results, Completed("discover", FALSE))
  <2>1. c \in Seq(Results)
    BY AppendCompleted
  <2>2. results' = c \/ results' = Append(results, [kind |-> "release", tag |-> tag])
    BY <1>1 DEF tag
  <2> HIDE DEF c
  <2> QED BY <1>3, <1>4, <2>1, <2>2
<1>6. DeviceType' /\ InSync'
  BY <1>1, <1>4, <1>5, JobFacts, FirmwareTypes
<1> QED BY <1>1, <1>6, JobFacts, ApartKept DEF Running

LEMMA Prepared ==
    ASSUME DeviceType, InSync, Running, Prepare
    PROVE  DeviceType' /\ InSync' /\ Running'
<1> DEFINE j == Head(jobs)
<1>1. IsJob({"prepare"}) /\ tool' = tool
  BY DEF Prepare
<1>2. PICK cached \in Archives, fetched \in Archives, metadata \in Radios \cup {None}:
        LET b == PrepareBundle(j.tag, j.radio, Download(cached, fetched), metadata)
        IN  results' = IF b = None THEN Append(results, Completed("prepare", FALSE))
                       ELSE Append(results, [kind |-> "bundle", bundle |-> b])
  BY DEF Prepare
<1> DEFINE b == PrepareBundle(j.tag, j.radio, Download(cached, fetched), metadata)
<1>3. j.radio \in Radios /\ j.tag \in Tags
  BY <1>1, JobFacts, JobShapes
<1>4. b = None \/ b \in [release: Tags, target: Radios]
  BY <1>3 DEF PrepareBundle
<1>5. results \in Seq(Results) /\ tool \in Tools \cup {None}
  BY DEF DeviceType
<1>6. Completed("prepare", FALSE) \in Results
  BY ResultConstructors
<1>7. results' = IF b = None THEN Append(results, Completed("prepare", FALSE))
                 ELSE Append(results, [kind |-> "bundle", bundle |-> b])
  BY <1>2
<1> HIDE DEF j, b
<1>8. CASE b = None
  <2>1. results' \in Seq(Results)
    BY <1>7, <1>8, AppendCompleted
  <2>2. DeviceType' /\ InSync'
    BY <1>1, <1>5, <2>1, JobFacts, FirmwareTypes
  <2> QED BY <1>1, <2>2, JobFacts, ApartKept DEF Running
<1>9. CASE b # None
  <2>1. [kind |-> "bundle", bundle |-> b] \in Results
    BY <1>4, <1>9, ResultConstructors
  <2>2. results' \in Seq(Results)
    BY <1>5, <1>7, <1>9, <2>1
  <2>3. DeviceType' /\ InSync'
    BY <1>1, <1>5, <2>2, JobFacts, FirmwareTypes
  <2> QED BY <1>1, <2>3, JobFacts, ApartKept DEF Running
<1> QED BY <1>8, <1>9

\* On a port with the radio of the request there is no other one.
LEMMA ThatRadio ==
    ASSUME NEW a \in [Radios -> Ports \cup {None}],
           \A r, q \in Radios: a[r] = a[q] /\ a[r] # None => r = q,
           NEW p \in Ports, NEW serial, VerifyUsb(a, Serial, p, serial), NEW r \in On(a, p)
    PROVE  r \in Radios /\ SerialMatches(Serial, r, serial)
<1>1. PICK q \in On(a, p): SerialMatches(Serial, q, serial)
  BY DEF VerifyUsb
<1>2. r = q /\ r \in Radios
  BY ConstantFacts DEF On
<1> QED BY <1>1, <1>2

LEMMA Started ==
    ASSUME DeviceType, InSync, Running, StartOp
    PROVE  /\ DeviceType' /\ InSync' /\ Running'
           /\ tool' # None \/ results' = Append(results, Completed(Head(jobs).op, FALSE))
<1> DEFINE j == Head(jobs)
           t(r) == [op |-> j.op, port |-> j.port, radio |-> j.radio, named |-> j.named,
                    serial |-> j.serial, bundle |-> j.bundle, checked |-> r,
                    loader |-> FALSE, rest |-> Plan(j.op, j.full)]
<1>1. IsJob(Ops)
  BY DEF StartOp
<1>2. j \in OpJobs
  BY <1>1, JobFacts, JobShapes
<1>3. results \in Seq(Results) /\ at \in [Radios -> Ports \cup {None}]
  BY DEF DeviceType
<1>4. ASSUME NEW r \in On(at, j.port), j.port # None, VerifyUsb(at, Serial, j.port, j.serial),
             j.op = "flash" => j.bundle # None, tool' = t(r), results' = results
      PROVE  DeviceType' /\ InSync' /\ Running' /\ tool' # None
  <2>1. /\ j.op \in Ops /\ j.full \in BOOLEAN /\ j.port \in Ports /\ j.serial \in Serials
        /\ j.radio \in Radios /\ j.named \in Radios /\ j.bundle \in Bundles \cup {None}
        /\ Sound(j)
    BY <1>2, <1>4 DEF OpJobs
  <2>2. /\ Plan(j.op, j.full) \in Seq(Commands) /\ Plan(j.op, j.full) # <<>>
        /\ j.op = "flash" \/ \A i \in DOMAIN Plan(j.op, j.full): Plan(j.op, j.full)[i] \notin Writes
    BY <2>1, PlanFacts
  <2>a. r \in Radios /\ SerialMatches(Serial, r, j.serial)
    BY <1>3, <1>4, <2>1, ThatRadio DEF Running, OnePerPort
  <2> HIDE DEF j
  <2>3. t(r) \in Tools
    BY <2>1, <2>2, <2>a DEF Tools, Runs, Sound, Serials
  <2>4. Checked(tool)'
    BY <1>4, <2>2, <2>a DEF Checked, SerialMatches
  <2>5. DeviceType' /\ InSync'
    BY <1>1, <1>3, <1>4, <2>3, JobFacts, FirmwareTypes
  <2>6. OnePerPort' /\ Apart'
    BY <1>1, <1>4, JobFacts, ApartKept
  <2> QED BY <1>4, <2>3, <2>4, <2>5, <2>6, ToolIsNotNone DEF Running
<1>5. CASE results' = Append(results, Completed(j.op, FALSE)) /\ tool' = None
  <2>1. j.op \in Ops
    BY <1>2 DEF OpJobs
  <2> HIDE DEF j
  <2>2. results' \in Seq(Results)
    BY <1>5, <2>1, AppendCompleted
  <2>3. DeviceType' /\ InSync'
    BY <1>1, <1>5, <2>2, JobFacts, FirmwareTypes
  <2> QED BY <1>1, <1>5, <2>3, JobFacts, ApartKept DEF Running, j
<1> QED BY <1>4, <1>5 DEF StartOp

LEMMA EndsTypes ==
    ASSUME DeviceType, InSync, FirmwareSame, tool \in Tools, UNCHANGED jobs,
           at' \in [Radios -> Ports \cup {None}], NEW ok \in BOOLEAN, Ends(ok)
    PROVE  DeviceType' /\ InSync' /\ tool' = None
<1>1. tool' = None /\ results' = Append(results, Completed(tool.op, ok))
  BY DEF Ends
<1>2. tool.op \in Ops
  BY DEF Tools, Runs
<1>3. results' \in Seq(Results)
  BY <1>1, <1>2, AppendCompleted
<1>4. jobs' \in Seq(Jobs)
  BY DEF DeviceType
<1> QED BY <1>1, <1>3, <1>4, FirmwareTypes

\* _automatic_bootloader_port finds the radio of the request or nothing.
LEMMA BootloaderFacts ==
    ASSUME NEW a \in [Radios -> Ports \cup {None}], NEW serial, NEW port \in Ports,
           BootloaderPort(a, Serial, port, serial) # None
    PROVE  /\ BootloaderPort(a, Serial, port, serial) \in Ports
           /\ VerifyUsb(a, Serial, BootloaderPort(a, Serial, port, serial), serial)
<1> DEFINE matches == {r \in DOMAIN a: a[r] # None /\ SerialMatches(Serial, r, serial)}
           p == BootloaderPort(a, Serial, port, serial)
<1>1. p = IF \E r \in matches: a[r] = port THEN port
          ELSE IF Cardinality(matches) = 1 THEN a[CHOOSE r \in matches: TRUE]
          ELSE None
  BY DEF BootloaderPort
<1>2. CASE \E r \in matches: a[r] = port
  <2>1. p = port
    BY <1>1, <1>2
  <2> QED BY <1>2, <2>1 DEF VerifyUsb, On
<1>3. CASE ~\E r \in matches: a[r] = port
  <2>1. Cardinality(matches) = 1 /\ p = a[CHOOSE r \in matches: TRUE]
    BY <1>1, <1>3
  <2>2. matches # {}
    BY <2>1, FS_EmptySet
  <2>3. (CHOOSE r \in matches: TRUE) \in matches
    BY <2>2
  <2> QED BY <2>1, <2>3 DEF VerifyUsb, On
<1> QED BY <1>2, <1>3

LEMMA ReappearsFacts ==
    ASSUME DeviceType, OnePerPort, NEW r \in Radios, at' \in Reappears(r)
    PROVE  at' \in [Radios -> Ports \cup {None}] /\ OnePerPort'
<1>1. at \in [Radios -> Ports \cup {None}]
  BY DEF DeviceType
<1>2. PICK p \in {q \in Ports: On(at, q) \subseteq {r}} \cup {None}: at' = [at EXCEPT ![r] = p]
  BY DEF Reappears
<1>3. p \in Ports \cup {None} /\ \A q \in Radios: at[q] = p /\ p # None => q = r
  BY <1>1, <1>2 DEF On
<1>4. at' \in [Radios -> Ports \cup {None}]
      /\ \A q \in Radios: at'[q] = IF q = r THEN p ELSE at[q]
  BY <1>1, <1>2, <1>3
<1> QED BY <1>3, <1>4 DEF OnePerPort

\* The operation talks to a bootloader on another port than the connection's.
LEMMA Entered ==
    ASSUME DeviceType, InSync, Running, tool # None, FirmwareSame, UNCHANGED jobs,
           at' \in [Radios -> Ports \cup {None}], OnePerPort',
           link # None => at'[link.radio] = at[link.radio],
           NEW p \in Ports, ~Held(p), NEW q \in Radios, SerialMatches(Serial, q, tool.serial),
           tool' = [tool EXCEPT !.port = p, !.checked = q, !.loader = TRUE], results' = results
    PROVE  DeviceType' /\ InSync' /\ Running' /\ tool' # None
<1>1. tool \in Tools /\ results \in Seq(Results) /\ jobs \in Seq(Jobs) /\ Checked(tool)
  BY DEF DeviceType, Running
<1>2. /\ tool' \in Tools /\ tool'.port = p /\ tool'.checked = q /\ tool'.rest = tool.rest
      /\ tool'.op = tool.op /\ tool'.serial = tool.serial /\ tool'.bundle = tool.bundle
  BY <1>1 DEF Tools, Runs, Sound
<1>3. DeviceType' /\ InSync'
  BY <1>1, <1>2, FirmwareTypes
<1>4. Checked(tool)'
  BY <1>1, <1>2 DEF Checked, SerialMatches
<1>5. Apart'
  BY <1>2 DEF Running, Apart, FirmwareSame, Held
<1> QED BY <1>2, <1>3, <1>4, <1>5, ToolIsNotNone DEF Running

LEMMA TailIsLeft ==
    ASSUME NEW s \in Seq(Commands), s # <<>>, Len(s) # 1
    PROVE  Tail(s) \in Seq(Commands) /\ Tail(s) # <<>>
<1>1. Tail(s) \in Seq(Commands) /\ Len(Tail(s)) = Len(s) - 1
  OBVIOUS
<1>2. Len(s) \in Nat /\ Len(s) # 0
  OBVIOUS
<1> DEFINE t == Tail(s)
<1>3. t \in Seq(Commands) /\ Len(t) # 0
  BY <1>1, <1>2
<1> HIDE DEF t
<1>4. t # <<>>
  BY <1>3
<1> QED BY <1>3, <1>4 DEF t

LEMMA TailWrites ==
    ASSUME NEW s \in Seq(Commands), s # <<>>, \A i \in DOMAIN s: s[i] \notin Writes
    PROVE  \A i \in DOMAIN Tail(s): Tail(s)[i] \notin Writes
<1>1. /\ Tail(s) \in Seq(Commands) /\ Len(Tail(s)) = Len(s) - 1
      /\ \A i \in 1..Len(Tail(s)): Tail(s)[i] = s[i + 1]
  OBVIOUS
<1> QED BY <1>1

LEMMA Identified ==
    ASSUME DeviceType, InSync, Running, IdentifyChip
    PROVE  /\ DeviceType' /\ InSync' /\ Running'
           /\ tool' # None \/ Ends(FALSE)
<1>1. tool # None /\ ~tool.loader /\ FirmwareSame /\ UNCHANGED <<chip, jobs, link>>
  BY SameConfig DEF IdentifyChip, worker
<1>2. /\ at \in [Radios -> Ports \cup {None}] /\ tool \in Tools /\ results \in Seq(Results)
      /\ jobs' \in Seq(Jobs) /\ tool.port \in Ports /\ tool.checked \in Radios
      /\ link \in Links \cup {None}
  BY <1>1 DEF DeviceType, Tools, Runs
<1>3. OnePerPort /\ Checked(tool) /\ (link # None => at[link.radio] = link.port)
  BY <1>1 DEF Running, Apart
<1>4. CASE ~Held(tool.port) /\ UNCHANGED <<at, results>> /\ tool' = [tool EXCEPT !.loader = TRUE]
  <2>1. tool' = [tool EXCEPT !.port = tool.port, !.checked = tool.checked, !.loader = TRUE]
    BY <1>2, <1>4 DEF Tools, Runs
  <2>2. OnePerPort' /\ at' \in [Radios -> Ports \cup {None}]
    BY <1>2, <1>3, <1>4 DEF OnePerPort
  <2>3. SerialMatches(Serial, tool.checked, tool.serial)
    BY <1>3 DEF Checked
  <2> QED BY <1>1, <1>2, <1>4, <2>1, <2>2, <2>3, Entered
<1>5. ASSUME Ends(FALSE), at' \in [Radios -> Ports \cup {None}], OnePerPort',
             link # None => at'[link.radio] = at[link.radio]
      PROVE  DeviceType' /\ InSync' /\ Running'
  <2>1. DeviceType' /\ InSync' /\ tool' = None
    BY <1>1, <1>2, <1>5, EndsTypes
  <2> QED BY <1>1, <1>3, <1>5, <2>1 DEF Running, Apart
<1>6. ASSUME at' = at \/ \E r \in On(at, tool.port): ~Held(tool.port) /\ at' \in Reappears(r)
      PROVE  /\ at' \in [Radios -> Ports \cup {None}] /\ OnePerPort'
             /\ link # None => at'[link.radio] = at[link.radio]
  <2>1. CASE at' = at
    BY <1>2, <1>3, <2>1 DEF OnePerPort
  <2>2. ASSUME NEW r \in On(at, tool.port), ~Held(tool.port), at' \in Reappears(r)
        PROVE  /\ at' \in [Radios -> Ports \cup {None}] /\ OnePerPort'
               /\ link # None => at'[link.radio] = at[link.radio]
    <3>1. r \in Radios /\ at[r] = tool.port
      BY <1>2 DEF On
    <3>2. at' \in [Radios -> Ports \cup {None}] /\ OnePerPort'
      BY <1>3, <2>2, <3>1, ReappearsFacts
    <3>3. ASSUME link # None PROVE link.radio # r /\ link.radio \in Radios
      BY <1>2, <1>3, <2>2, <3>1, <3>3 DEF Held, Links
    <3>4. \A q \in Radios: q # r => at'[q] = at[q]
      BY <1>2, <2>2, <3>1 DEF Reappears
    <3> QED BY <3>2, <3>3, <3>4
  <2> QED BY <1>6, <2>1, <2>2
<1>7. ASSUME at' = at \/ \E r \in On(at, tool.port): ~Held(tool.port) /\ at' \in Reappears(r),
             LET p == BootloaderPort(at', Serial, tool.port, tool.serial)
             IN  IF p = None \/ Held(p) THEN Ends(FALSE)
                 ELSE /\ \E q \in On(at', p):
                           tool' = [tool EXCEPT !.port = p, !.checked = q, !.loader = TRUE]
                      /\ results' = results
      PROVE  /\ DeviceType' /\ InSync' /\ Running'
             /\ tool' # None \/ Ends(FALSE)
  <2>1. CASE Ends(FALSE)
    BY <1>5, <1>6, <1>7, <2>1
  <2>2. CASE ~Ends(FALSE)
    <3> DEFINE p == BootloaderPort(at', Serial, tool.port, tool.serial)
    <3>1. p # None /\ ~Held(p) /\ results' = results
      BY <1>7, <2>2
    <3>2. PICK q \in On(at', p): tool' = [tool EXCEPT !.port = p, !.checked = q, !.loader = TRUE]
      BY <1>7, <2>2
    <3>3. p \in Ports /\ VerifyUsb(at', Serial, p, tool.serial)
      BY <1>2, <1>6, <1>7, <3>1, BootloaderFacts
    <3> HIDE DEF p
    <3>4. q \in Radios /\ SerialMatches(Serial, q, tool.serial)
      BY <1>6, <1>7, <3>3, ThatRadio DEF OnePerPort
    <3> QED BY <1>1, <1>6, <1>7, <3>1, <3>2, <3>3, <3>4, Entered
  <2> QED BY <2>1, <2>2
<1>8. CASE Ends(FALSE) /\ at' = at
  BY <1>5, <1>6, <1>8
<1> QED BY <1>4, <1>7, <1>8 DEF IdentifyChip

\* A write changes the firmware, and an erase the configuration, of the radio
\* on the operation's port: another one than the connected radio.
LEMMA Written ==
    ASSUME DeviceType, Running, tool # None, tool.loader, NEW r \in On(at, tool.port),
           NEW command, NEW image, WritesTo(r, command, image)
    PROVE  /\ config' \in [Radios -> Configs]
           /\ link # None => config'[link.radio] = config[link.radio]
           /\ \A q \in Radios: config'[q] # config[q] => command = "erase-flash"
<1>1. /\ config \in [Radios -> Configs] /\ at \in [Radios -> Ports \cup {None}]
      /\ link \in Links \cup {None}
  BY DEF DeviceType
<1>2. r \in Radios /\ at[r] = tool.port
  BY <1>1 DEF On
<1>3. link # None => link.radio # r /\ link.radio \in Radios
  BY <1>1, <1>2 DEF Running, Apart, Links
<1> QED BY <1>1, <1>2, <1>3, ErasedConfig DEF WritesTo

LEMMA Ran ==
    ASSUME DeviceType, InSync, Running, RunTool
    PROVE  /\ DeviceType' /\ InSync' /\ Running'
           /\ tool' # None \/ Ends(TRUE) \/ Ends(FALSE)
<1> DEFINE command == Head(tool.rest)
<1>1. tool # None /\ tool.loader /\ UNCHANGED <<at, jobs, link>>
  BY DEF RunTool, worker
<1>2. /\ at' \in [Radios -> Ports \cup {None}] /\ tool \in Tools /\ results \in Seq(Results)
      /\ jobs' \in Seq(Jobs) /\ tool.rest \in Seq(Commands)
  BY <1>1 DEF DeviceType, Tools, Runs
<1>3. Checked(tool)
  BY <1>1 DEF Running
<1>a. FirmwareSame
  <2>1. UNCHANGED config \/ \E r \in On(at, tool.port): \E image: WritesTo(r, command, image)
    BY DEF RunTool
  <2> HIDE DEF command
  <2>2. /\ config' \in [Radios -> Configs]
        /\ link # None => config'[link.radio] = config[link.radio]
    <3>1. CASE UNCHANGED config
      BY <3>1 DEF DeviceType
    <3> QED BY <1>1, <2>1, <3>1, Written
  <2> QED BY <2>2 DEF RunTool, FirmwareSame, worker
<1>4. ASSUME NEW ok \in BOOLEAN, Ends(ok) PROVE DeviceType' /\ InSync' /\ Running'
  <2>1. DeviceType' /\ InSync' /\ tool' = None
    BY <1>1, <1>2, <1>a, <1>4, EndsTypes
  <2> QED BY <1>1, <2>1, ApartKept DEF Running
<1>5. CASE Len(tool.rest) # 1 /\ tool' = [tool EXCEPT !.rest = Tail(@)] /\ results' = results
  <2>1. tool.rest # <<>>
    BY <1>3 DEF Checked
  <2>2. Tail(tool.rest) \in Seq(Commands) /\ Tail(tool.rest) # <<>>
    BY <1>2, <1>5, <2>1, TailIsLeft
  <2>3. ASSUME \A i \in DOMAIN tool.rest: tool.rest[i] \notin Writes
        PROVE  \A i \in DOMAIN Tail(tool.rest): Tail(tool.rest)[i] \notin Writes
    BY <1>2, <2>1, <2>3, TailWrites
  <2>4. /\ tool' \in Tools /\ tool'.rest = Tail(tool.rest) /\ tool'.op = tool.op
        /\ tool'.checked = tool.checked /\ tool'.serial = tool.serial
        /\ tool'.bundle = tool.bundle /\ tool'.port = tool.port
    BY <1>2, <1>5, <2>2 DEF Tools, Runs, Sound
  <2>5. Checked(tool)'
    BY <1>3, <2>2, <2>3, <2>4 DEF Checked, SerialMatches
  <2>6. OnePerPort' /\ Apart'
    BY <1>1, <2>4, ApartKept
  <2>7. DeviceType' /\ InSync'
    BY <1>a, <1>2, <1>5, <2>4, FirmwareTypes
  <2> QED BY <2>4, <2>5, <2>6, <2>7, ToolIsNotNone DEF Running
<1>6. Ends(TRUE) \/ Ends(FALSE)
        \/ (Len(tool.rest) # 1 /\ tool' = [tool EXCEPT !.rest = Tail(@)] /\ results' = results)
  BY DEF RunTool
<1> QED BY <1>4, <1>5, <1>6

LEMMA FirmwareTyped ==
    ASSUME DeviceType, InSync, Running, FirmwareThread
    PROVE  DeviceType' /\ InSync' /\ Running'
BY Discovered, Prepared, Started, Identified, Ran DEF FirmwareThread

-----------------------------------------------------------------------------
(* The window                                                              *)

WindowSame == UNCHANGED <<at, config, link, idle, hidden, slot, copy, file, drift, tool>>

LEMMA WindowTypes ==
    ASSUME DeviceType, InSync, Running, WindowSame,
           calls' \in Seq(Calls), signals' \in Seq(Signals), results' \in Seq(Results),
           win' \in Windows, WindowOk(win'), timers' \in Seq(Timers), dials' \in SUBSET Ports,
           jobs' \in Seq(Jobs), console' \in Ports \cup {None}
    PROVE  DeviceType' /\ InSync' /\ Running'
<1>1. DeviceType'
  BY DEF DeviceType, WindowSame
<1>2. InSync'
  BY DEF InSync, WindowSame
<1>3. Running'
  BY DEF Running, OnePerPort, Checked, Apart, WindowSame
<1> QED BY <1>1, <1>2, <1>3

LEMMA Typed ==
    ASSUME DeviceType
    PROVE  /\ calls \in Seq(Calls) /\ signals \in Seq(Signals) /\ results \in Seq(Results)
           /\ win \in Windows /\ WindowOk(win) /\ timers \in Seq(Timers) /\ dials \in SUBSET Ports
           /\ jobs \in Seq(Jobs) /\ console \in Ports \cup {None}
BY DEF DeviceType

\* What a change of the page's buttons leaves alone.
LEMMA ButtonsOnly ==
    ASSUME NEW w \in Windows, WindowOk(w), NEW on \in SUBSET Buttons
    PROVE  [w EXCEPT !.on = on] \in Windows /\ WindowOk([w EXCEPT !.on = on])
BY DEF Windows, WindowOk

LEMMA ConnectedFacts ==
    ASSUME NEW w \in Windows, WindowOk(w)
    PROVE  /\ SetConnected(w, TRUE) \in Windows /\ SetConnected(w, FALSE) \in Windows
           /\ SetConnected(w, TRUE).pending = w.pending /\ SetConnected(w, FALSE).pending = w.pending
           /\ SetConnected(w, FALSE).snap = None
           /\ SetConnected(w, TRUE).flashPort = w.flashPort
           /\ SetConnected(w, FALSE).flashPort = w.flashPort
           /\ SetConnected(w, FALSE).dialog = w.dialog /\ SetConnected(w, FALSE).bundle = w.bundle
           /\ SetConnected(w, TRUE).connected = w.connected
<1> DEFINE switched == {"discover", "probe", "backup", "save profile", "load profile"}
           more == IF console = None THEN {"console"} ELSE {}
           on1 == w.on \cup switched \cup more
           on2 == w.on \ (switched \cup {"console", "flash"})
           v1 == SetConnected(w, TRUE)
           v2 == SetConnected(w, FALSE)
<1>1. v1 = [w EXCEPT !.on = on1]
  BY DEF SetConnected
<1>2. v2 = [w EXCEPT !.snap = None, !.on = on2]
  BY DEF SetConnected
<1>3. w.on \in SUBSET Buttons
  BY DEF Windows
<1>4. switched \subseteq Buttons /\ more \subseteq Buttons
  BY DEF Buttons
<1> HIDE DEF switched, more
<1>5. on1 \in SUBSET Buttons /\ on2 \in SUBSET Buttons
  BY <1>3, <1>4
<1> HIDE DEF on1, on2, v1, v2
<1>6. v1 \in Windows /\ v1.pending = w.pending /\ v1.flashPort = w.flashPort
      /\ v1.connected = w.connected
  BY <1>1, <1>5 DEF Windows
<1>7. v2 \in Windows /\ v2.pending = w.pending /\ v2.flashPort = w.flashPort /\ v2.snap = None
      /\ v2.dialog = w.dialog /\ v2.bundle = w.bundle
  BY <1>2, <1>5 DEF Windows
<1> QED BY <1>6, <1>7 DEF v1, v2

LEMMA SnapshotFacts ==
    ASSUME NEW w \in Windows, WindowOk(w), NEW s \in Snapshots
    PROVE  /\ SetSnapshot(w, s) \in Windows /\ WindowOk(SetSnapshot(w, s))
           /\ SetSnapshot(w, s).snap = s /\ SetSnapshot(w, s).pending = w.pending
           /\ SetSnapshot(w, s).flashPort = w.flashPort
<1> DEFINE v == SetConnected(w, TRUE)
           on == v.on \ {"download", "flash"}
           u == SetSnapshot(w, s)
           yes == v.connected \/ s.first
<1>1. v \in Windows /\ v.pending = w.pending /\ v.flashPort = w.flashPort
  BY ConnectedFacts
<1>2. u = [v EXCEPT !.connected = yes, !.snap = s, !.release = None, !.bundle = None,
                    !.backedUp = FALSE, !.on = on]
  BY DEF SetSnapshot
<1>a. yes \in BOOLEAN
  OBVIOUS
<1> HIDE DEF v, u, yes
<1>3. on \in SUBSET Buttons
  BY <1>1 DEF Windows
<1> HIDE DEF on
<1>4. u \in Windows /\ u.snap = s /\ u.pending = v.pending /\ u.flashPort = v.flashPort
      /\ u.bundle = None
  BY <1>1, <1>2, <1>3, <1>a DEF Windows
<1>5. WindowOk(u)
  BY <1>1, <1>4 DEF WindowOk
<1> QED BY <1>1, <1>4, <1>5 DEF u

LEMMA SignalFacts ==
    ASSUME DeviceType, NEW kind, IsSignal(kind)
    PROVE  /\ WindowSame /\ UNCHANGED <<calls, results, dials, jobs, console>>
           /\ signals # <<>> /\ Head(signals).kind = kind /\ Head(signals) \in Signals
           /\ signals' = Tail(signals) /\ signals' \in Seq(Signals)
<1>1. signals \in Seq(Signals) /\ signals # <<>>
  BY Typed DEF IsSignal
<1>2. Head(signals) \in Signals /\ Tail(signals) \in Seq(Signals)
  BY <1>1
<1> QED BY <1>1, <1>2 DEF IsSignal, WindowSame, radios, worker, firmware

LEMMA SnapshotTyped ==
    ASSUME DeviceType, InSync, Running, OnSnapshot
    PROVE  DeviceType' /\ InSync' /\ Running'
<1>1. IsSignal("snapshot") /\ win' = SetSnapshot(win, Head(signals)) /\ UNCHANGED timers
  BY DEF OnSnapshot
<1>2. Head(signals) \in Snapshots
  BY <1>1, SignalFacts, SignalShapes
<1>3. win' \in Windows /\ WindowOk(win')
  BY <1>1, <1>2, Typed, SnapshotFacts
<1> QED BY <1>1, <1>3, Typed, SignalFacts, WindowTypes

LEMMA ScanningTyped ==
    ASSUME DeviceType, InSync, Running, OnScanning
    PROVE  DeviceType' /\ InSync' /\ Running'
<1>1. IsSignal("scanning") /\ win' = [win EXCEPT !.connected = FALSE] /\ UNCHANGED timers
  BY DEF OnScanning
<1>2. win' \in Windows /\ WindowOk(win')
  BY <1>1, Typed DEF Windows, WindowOk
<1> QED BY <1>1, <1>2, Typed, SignalFacts, WindowTypes

LEMMA WaitingFacts ==
    \A w: \A op \in Waiting(w): op \in Ops \cup {"console"} /\ w.pending[op] # None
<1> SUFFICES ASSUME NEW w, NEW op \in Waiting(w)
             PROVE  op \in Ops \cup {"console"} /\ w.pending[op] # None
  OBVIOUS
<1>1. w.pending.flash = w.pending["flash"] /\ w.pending.probe = w.pending["probe"]
      /\ w.pending.backup = w.pending["backup"] /\ w.pending.console = w.pending["console"]
  OBVIOUS
<1> QED BY <1>1 DEF Waiting, Ops

\* The window with the connection down, before it starts what waits.
Down == [SetConnected(win, FALSE) EXCEPT !.connected = FALSE]

LEMMA DownFacts ==
    ASSUME DeviceType
    PROVE  /\ Down \in Windows /\ WindowOk(Down) /\ Down.snap = None
           /\ Down.pending = win.pending /\ Down.flashPort = win.flashPort
<1> DEFINE v == SetConnected(win, FALSE)
<1>1. v \in Windows /\ v.pending = win.pending /\ v.flashPort = win.flashPort /\ v.snap = None
      /\ v.dialog = win.dialog /\ v.bundle = win.bundle
  BY Typed, ConnectedFacts
<1>2. Down = [v EXCEPT !.connected = FALSE]
  BY DEF Down
<1> HIDE DEF v
<1>3. Down \in Windows /\ Down.pending = win.pending /\ Down.flashPort = win.flashPort
      /\ Down.snap = None /\ Down.dialog = win.dialog /\ Down.bundle = win.bundle
  BY <1>1, <1>2 DEF Windows
<1>4. WindowOk(Down)
  BY <1>3, Typed DEF WindowOk
<1> QED BY <1>3, <1>4

LEMMA DownSteps ==
    ASSUME DeviceType, OnDown
    PROVE  /\ IsSignal("down")
           /\ \/ Waiting(Down) = {} /\ win' = Down /\ timers' = timers
              \/ \E op \in Waiting(Down): /\ win' = [Down EXCEPT !.pending[op] = None]
                                          /\ timers' = Append(timers, Down.pending[op])
BY DEF OnDown, Down

LEMMA StartsWaiting ==
    ASSUME DeviceType, NEW op \in Waiting(Down), win' = [Down EXCEPT !.pending[op] = None]
    PROVE  /\ win' \in Windows /\ WindowOk(win') /\ win'.snap = None
           /\ win'.flashPort = win.flashPort
           /\ win.pending[op] \in Timers /\ win.pending[op].op = op
           /\ op \in Ops \cup {"console"}
           /\ Down.pending[op] = win.pending[op]
           /\ win'.pending = [win.pending EXCEPT ![op] = None]
<1> DEFINE d == Down
<1>1. /\ d \in Windows /\ WindowOk(d) /\ d.snap = None
      /\ d.pending = win.pending /\ d.flashPort = win.flashPort
  BY DownFacts
<1>2. op \in Ops \cup {"console"} /\ d.pending[op] # None
  BY WaitingFacts
<1>3. win' = [d EXCEPT !.pending = [d.pending EXCEPT ![op] = None]]
  OBVIOUS
<1> HIDE DEF d
<1>4. d.pending \in [Ops \cup {"console"} -> Timers \cup {None}]
  BY <1>1 DEF Windows
<1> DEFINE p == [d.pending EXCEPT ![op] = None]
<1>5. /\ p \in [Ops \cup {"console"} -> Timers \cup {None}]
      /\ \A o \in Ops \cup {"console"}: p[o] # None => p[o] = d.pending[o]
  BY <1>2, <1>4
<1> HIDE DEF p
<1>6. /\ win' \in Windows /\ win'.pending = p /\ win'.snap = None /\ win'.bundle = d.bundle /\ win'.dialog = d.dialog
      /\ win'.flashPort = win.flashPort
  BY <1>1, <1>3, <1>5 DEF Windows, p
<1>7. WindowOk(win')
  BY <1>1, <1>5, <1>6 DEF WindowOk
<1>8. d.pending[op] \in Timers /\ d.pending[op].op = op
  BY <1>1, <1>2, <1>4 DEF WindowOk
<1> QED BY <1>1, <1>2, <1>6, <1>7, <1>8 DEF d, p

LEMMA DownTyped ==
    ASSUME DeviceType, InSync, Running, OnDown
    PROVE  DeviceType' /\ InSync' /\ Running'
<1>1. CASE win' = Down /\ timers' = timers
  BY <1>1, Typed, DownSteps, DownFacts, SignalFacts, WindowTypes
<1>2. ASSUME NEW op \in Waiting(Down), win' = [Down EXCEPT !.pending[op] = None],
             timers' = Append(timers, Down.pending[op])
      PROVE  DeviceType' /\ InSync' /\ Running'
  <2>1. win' \in Windows /\ WindowOk(win') /\ Down.pending[op] \in Timers
    BY <1>2, StartsWaiting
  <2>2. timers' \in Seq(Timers)
    BY <1>2, <2>1, Typed
  <2> QED BY <2>1, <2>2, Typed, DownSteps, SignalFacts, WindowTypes
<1> QED BY <1>1, <1>2, DownSteps

LEMMA ProfileTyped ==
    ASSUME DeviceType, InSync, Running, OnProfile
    PROVE  DeviceType' /\ InSync' /\ Running'
<1> DEFINE s == Head(signals)
           backed == win.backedUp \/ (s.op = "backup" /\ s.ok)
           on == IF win.connected THEN win.on \cup {"save profile", "load profile"}
                 ELSE win.on \ {"save profile", "load profile"}
<1>1. IsSignal("profile") /\ UNCHANGED timers /\ win' = [win EXCEPT !.backedUp = backed, !.on = on]
  BY DEF OnProfile
<1>2. win \in Windows /\ WindowOk(win) /\ win.on \in SUBSET Buttons
  BY Typed DEF Windows
<1>3. on \in SUBSET Buttons
  <2>1. CASE win.connected
    BY <1>2, <2>1 DEF Buttons
  <2>2. CASE ~win.connected
    BY <1>2, <2>2
  <2> QED BY <2>1, <2>2
<1>4. backed \in BOOLEAN
  OBVIOUS
<1> HIDE DEF s, backed, on
<1>5. win' \in Windows /\ WindowOk(win')
  BY <1>1, <1>2, <1>3, <1>4 DEF Windows, WindowOk
<1> QED BY <1>1, <1>5, Typed, SignalFacts, WindowTypes

LEMMA ResultFacts ==
    ASSUME DeviceType, NEW kind, IsResult(kind)
    PROVE  /\ WindowSame /\ UNCHANGED <<calls, signals, timers, jobs, console>>
           /\ results # <<>> /\ Head(results).kind = kind /\ Head(results) \in Results
           /\ results' = Tail(results) /\ results' \in Seq(Results)
<1>1. results \in Seq(Results) /\ results # <<>>
  BY Typed DEF IsResult
<1>2. Head(results) \in Results /\ Tail(results) \in Seq(Results)
  BY <1>1
<1> QED BY <1>1, <1>2 DEF IsResult, WindowSame, radios, worker, firmware

LEMMA ReenabledFacts ==
    ASSUME NEW op \in Ops \cup {"discover", "prepare"}, NEW ok \in BOOLEAN
    PROVE  Reenabled(op, ok) \subseteq Buttons
<1>1. CASE op = "discover"
  BY <1>1 DEF Reenabled, Buttons
<1>2. CASE op = "prepare"
  BY <1>2 DEF Reenabled, Buttons
<1>3. CASE op = "flash"
  BY <1>3 DEF Reenabled, Buttons
<1>4. CASE op = "probe"
  BY <1>4 DEF Reenabled, Buttons
<1>5. CASE op = "backup"
  BY <1>5 DEF Reenabled, Buttons
<1> QED BY <1>1, <1>2, <1>3, <1>4, <1>5 DEF Ops

LEMMA ReleaseTyped ==
    ASSUME DeviceType, InSync, Running, OnRelease
    PROVE  DeviceType' /\ InSync' /\ Running'
<1> DEFINE more == {"download"} \cup Reenabled("discover", TRUE)
           tag == Head(results).tag
<1>1. /\ IsResult("release") /\ UNCHANGED dials
      /\ win' = [win EXCEPT !.release = tag, !.on = win.on \cup {"download"} \cup Reenabled("discover", TRUE)]
  BY DEF OnRelease
<1>2. win \in Windows /\ WindowOk(win) /\ win.on \in SUBSET Buttons
  BY Typed DEF Windows
<1>3. Reenabled("discover", TRUE) \subseteq Buttons /\ {"download"} \subseteq Buttons
  BY ReenabledFacts DEF Buttons
<1>4. tag \in Tags
  BY <1>1, ResultFacts, ResultShapes
<1> DEFINE on == win.on \cup {"download"} \cup Reenabled("discover", TRUE)
<1>5. on \in SUBSET Buttons
  BY <1>2, <1>3
<1>6. win' = [win EXCEPT !.release = tag, !.on = on]
  BY <1>1
<1> HIDE DEF on, tag
<1>7. win' \in Windows /\ WindowOk(win')
  BY <1>2, <1>4, <1>5, <1>6 DEF Windows, WindowOk
<1> QED BY <1>1, <1>7, Typed, ResultFacts, WindowTypes

LEMMA BundleTyped ==
    ASSUME DeviceType, InSync, Running, OnBundle
    PROVE  DeviceType' /\ InSync' /\ Running'
<1> DEFINE target == Head(results).bundle.target
           late == \/ win.snap = None \/ win.snap.radio # target
                   \/ win.dialog # None /\ win.dialog.radio # target
           b == [target |-> target, late |-> late]
           on == win.on \cup {"flash"}
<1>1. IsResult("bundle") /\ UNCHANGED dials /\ win' = [win EXCEPT !.bundle = b, !.on = on]
  BY DEF OnBundle
<1>2. win \in Windows /\ WindowOk(win) /\ win.on \in SUBSET Buttons
  BY Typed DEF Windows
<1>3. on \in SUBSET Buttons
  BY <1>2 DEF Buttons
<1>4. target \in Radios
  BY <1>1, ResultFacts, ResultShapes
<1>5. /\ late \in BOOLEAN /\ (win.snap # None => target = win.snap.radio \/ late)
      /\ win.dialog # None =>
           late \/ (target = win.dialog.radio /\ (win.snap # None => win.snap.radio = target))
  OBVIOUS
<1> HIDE DEF target, late, on
<1>6. b \in Bundles /\ b.target = target /\ b.late = late
  BY <1>4, <1>5 DEF Bundles
<1> HIDE DEF b
<1>7. win' \in Windows /\ win'.bundle = b /\ win'.snap = win.snap /\ win'.pending = win.pending
      /\ win'.dialog = win.dialog
  BY <1>1, <1>2, <1>3, <1>6 DEF Windows
<1>8. WindowOk(win')
  BY <1>2, <1>5, <1>6, <1>7 DEF WindowOk
<1> QED BY <1>1, <1>7, <1>8, Typed, ResultFacts, WindowTypes

LEMMA CompletedSteps ==
    ASSUME DeviceType, OnCompleted
    PROVE  /\ IsResult("completed")
           /\ Head(results).op \in Ops \cup {"discover", "prepare"}
           /\ win'.pending = win.pending /\ win'.snap = win.snap
           /\ win' \in Windows /\ WindowOk(win') /\ dials' \in SUBSET Ports
           /\ Head(results).op \in Ops => win'.flashPort = None
           /\ win'.flashPort # None => win'.flashPort = win.flashPort
<1> DEFINE r == Head(results)
           on == (win.on \ (Ops \cap {r.op})) \cup Reenabled(r.op, r.ok)
           w == [win EXCEPT !.on = on]
<1>1. /\ IsResult("completed")
      /\ IF HandsBack(r.op, r.ok)
         THEN win' = [w EXCEPT !.flashPort = None] /\ dials' = dials \cup {win.flashPort}
         ELSE win' = w /\ dials' = dials
  BY DEF OnCompleted
<1>2. /\ win \in Windows /\ WindowOk(win) /\ win.on \in SUBSET Buttons /\ dials \in SUBSET Ports
      /\ win.flashPort \in Ports \cup {None}
  BY Typed DEF Windows
<1>3. r.op \in Ops \cup {"discover", "prepare"} /\ r.ok \in BOOLEAN
  BY <1>1, ResultFacts, ResultShapes
<1>4. Reenabled(r.op, r.ok) \subseteq Buttons
  BY <1>3, ReenabledFacts
<1>5. on \in SUBSET Buttons
  BY <1>2, <1>4
<1> HIDE DEF on
<1>6. /\ w \in Windows /\ w.pending = win.pending /\ w.snap = win.snap /\ w.bundle = win.bundle
      /\ w.dialog = win.dialog /\ w.flashPort = win.flashPort
  BY <1>2, <1>5 DEF Windows
<1> HIDE DEF r, w
<1>7. CASE HandsBack(r.op, r.ok)
  <2>1. win' = [w EXCEPT !.flashPort = None] /\ dials' = dials \cup {win.flashPort}
        /\ win.flashPort \in Ports
    BY <1>1, <1>2, <1>7 DEF HandsBack
  <2>2. /\ win' \in Windows /\ win'.pending = w.pending /\ win'.snap = w.snap
        /\ win'.bundle = w.bundle /\ win'.dialog = w.dialog /\ win'.flashPort = None
    BY <1>6, <2>1 DEF Windows
  <2>3. WindowOk(win')
    BY <1>2, <1>6, <2>2 DEF WindowOk
  <2> QED BY <1>1, <1>2, <1>3, <1>6, <2>1, <2>2, <2>3 DEF r
<1>8. CASE ~HandsBack(r.op, r.ok)
  <2>1. win' = w /\ dials' = dials /\ (r.op \in Ops => win.flashPort = None)
    BY <1>1, <1>8 DEF HandsBack
  <2>2. WindowOk(win')
    BY <1>2, <1>6, <2>1 DEF WindowOk
  <2> QED BY <1>1, <1>2, <1>3, <1>6, <2>1, <2>2 DEF r
<1> QED BY <1>7, <1>8

LEMMA CompletedTyped ==
    ASSUME DeviceType, InSync, Running, OnCompleted
    PROVE  DeviceType' /\ InSync' /\ Running'
BY Typed, CompletedSteps, ResultFacts, WindowTypes

LEMMA DeliverTyped ==
    ASSUME DeviceType, InSync, Running, Deliver
    PROVE  DeviceType' /\ InSync' /\ Running'
BY SnapshotTyped, ScanningTyped, DownTyped, ProfileTyped, ReleaseTyped, BundleTyped, CompletedTyped DEF Deliver

-----------------------------------------------------------------------------
LEMMA TimerFacts ==
    ASSUME DeviceType, StartTimer
    PROVE  /\ WindowSame /\ UNCHANGED <<signals, results, win, dials>>
           /\ timers # <<>> /\ Head(timers) \in Timers /\ timers' = Tail(timers)
           /\ timers' \in Seq(Timers)
           /\ \/ /\ Head(timers).op = "console" /\ UNCHANGED jobs
                 /\ \/ console' = console
                       /\ calls' = Append(calls, [kind |-> "connect", port |-> Head(timers).port])
                    \/ console' = Head(timers).port /\ UNCHANGED calls
              \/ /\ Head(timers).op # "console" /\ UNCHANGED <<calls, console>>
                 /\ jobs' = Append(jobs, [op |-> Head(timers).op, full |-> Head(timers).full,
                                          radio |-> Head(timers).radio,
                                          named |-> Head(timers).named,
                                          serial |-> Head(timers).serial,
                                          bundle |-> Head(timers).bundle, port |-> win.flashPort])
<1>1. timers \in Seq(Timers) /\ timers # <<>>
  BY Typed DEF StartTimer
<1>2. Head(timers) \in Timers /\ Tail(timers) \in Seq(Timers)
  BY <1>1
<1> QED BY <1>1, <1>2 DEF StartTimer, WindowSame, radios, workerRest

LEMMA TimerTyped ==
    ASSUME DeviceType, InSync, Running, StartTimer
    PROVE  DeviceType' /\ InSync' /\ Running'
<1> DEFINE t == Head(timers)
<1>1. CASE t.op = "console"
  <2>1. t.port \in Ports
    BY <1>1, TimerFacts, TimerShapes
  <2>2. [kind |-> "connect", port |-> t.port] \in Calls
    BY <2>1, CallConstructors
  <2>a. /\ UNCHANGED jobs /\ console' \in {console, t.port}
        /\ calls' = calls \/ calls' = Append(calls, [kind |-> "connect", port |-> t.port])
    BY <1>1, TimerFacts
  <2> HIDE DEF t
  <2>b. calls \in Seq(Calls) /\ console \in Ports \cup {None}
    BY Typed
  <2>3. calls' \in Seq(Calls) /\ console' \in Ports \cup {None} /\ UNCHANGED jobs
    BY <2>1, <2>2, <2>a, <2>b
  <2> QED BY <2>3, Typed, TimerFacts, WindowTypes
<1>2. CASE t.op # "console"
  <2> DEFINE j == [op |-> t.op, full |-> t.full, radio |-> t.radio, named |-> t.named,
                   serial |-> t.serial, bundle |-> t.bundle, port |-> win.flashPort]
  <2>1. t \in Waiters /\ win.flashPort \in Ports \cup {None}
    BY <1>2, TimerFacts, TimerShapes, Typed DEF Windows
  <2>2. UNCHANGED <<calls, console>> /\ jobs' = Append(jobs, j)
    BY <1>2, TimerFacts
  <2> HIDE DEF t
  <2>3. j \in OpJobs
    BY <2>1 DEF Waiters, Waits, OpJobs, Sound, Serials
  <2> HIDE DEF j
  <2>4. jobs' \in Seq(Jobs)
    BY <2>2, <2>3, Typed DEF Jobs
  <2> QED BY <2>2, <2>4, Typed, TimerFacts, WindowTypes
<1> QED BY <1>1, <1>2

LEMMA DialTyped ==
    ASSUME DeviceType, InSync, Running, DialTimer
    PROVE  DeviceType' /\ InSync' /\ Running'
<1>1. PICK p \in dials: /\ dials' = dials \ {p}
                        /\ calls' = Append(calls, [kind |-> "connect", port |-> p])
  BY DEF DialTimer
<1>2. WindowSame /\ UNCHANGED <<signals, results, win, timers, jobs, console>>
  BY DEF DialTimer, WindowSame, radios, firmware, workerRest
<1>3. p \in Ports /\ dials' \in SUBSET Ports
  BY <1>1, Typed
<1>4. calls' \in Seq(Calls)
  BY <1>1, <1>3, Typed, CallConstructors
<1> QED BY <1>2, <1>3, <1>4, Typed, WindowTypes

-----------------------------------------------------------------------------
(* The user                                                                *)

\* A user action that queues one call for the worker, or one job for the
\* firmware thread.
LEMMA UserCallTypes ==
    ASSUME DeviceType, InSync, Running, NEW c \in Calls, UserCall(c), win' \in Windows, WindowOk(win')
    PROVE  DeviceType' /\ InSync' /\ Running'
<1>1. WindowSame /\ UNCHANGED <<signals, results, timers, dials, jobs, console>>
      /\ calls' = Append(calls, c)
  BY DEF UserCall, UserRest, WindowSame, radios, firmware, workerRest
<1>2. calls' \in Seq(Calls)
  BY <1>1, Typed
<1> QED BY <1>1, <1>2, Typed, WindowTypes

LEMMA UserRestTypes ==
    ASSUME DeviceType, InSync, Running, UserRest, calls' = calls, win' \in Windows, WindowOk(win')
    PROVE  DeviceType' /\ InSync' /\ Running'
<1>1. WindowSame /\ UNCHANGED <<signals, results, timers, dials, jobs, console>>
  BY DEF UserRest, WindowSame, radios, firmware, workerRest
<1> QED BY <1>1, Typed, WindowTypes

LEMMA UserJobTypes ==
    ASSUME DeviceType, InSync, Running, NEW j \in Jobs, UserJob(j), win' \in Windows, WindowOk(win')
    PROVE  DeviceType' /\ InSync' /\ Running'
<1>1. WindowSame /\ UNCHANGED <<calls, signals, results, timers, dials, console>>
      /\ jobs' = Append(jobs, j)
  BY DEF UserJob, WindowSame, radios, worker
<1>2. jobs' \in Seq(Jobs)
  BY <1>1, Typed
<1> QED BY <1>1, <1>2, Typed, WindowTypes

LEMMA FewerButtons ==
    ASSUME DeviceType, NEW gone, win' = [win EXCEPT !.on = @ \ gone]
    PROVE  win' \in Windows /\ WindowOk(win') /\ win'.pending = win.pending
           /\ win'.snap = win.snap /\ win'.flashPort = win.flashPort
           /\ win'.dialog = win.dialog
<1> DEFINE on == win.on \ gone
<1>1. win \in Windows /\ WindowOk(win) /\ win.on \in SUBSET Buttons
  BY Typed DEF Windows
<1>2. on \in SUBSET Buttons /\ win' = [win EXCEPT !.on = on]
  BY <1>1
<1> HIDE DEF on
<1>3. /\ win' \in Windows /\ win'.pending = win.pending /\ win'.snap = win.snap
      /\ win'.bundle = win.bundle /\ win'.flashPort = win.flashPort
      /\ win'.dialog = win.dialog
  BY <1>1, <1>2 DEF Windows
<1> QED BY <1>1, <1>3 DEF WindowOk

LEMMA SnapIs ==
    ASSUME DeviceType, win.snap # None
    PROVE  /\ win.snap \in Snapshots /\ win.snap.radio \in Radios /\ win.snap.port \in Ports
           /\ win.snap.serial = Serial[win.snap.radio] /\ win.snap.serial \in Serials
           /\ win.snap.shown \in Displays
<1>1. win.snap \in Snapshots
  BY Typed DEF Windows
<1> QED BY <1>1, SignalShapes

\* A window that remembers one more operation.
LEMMA PendingOk ==
    ASSUME NEW w \in Windows, WindowOk(w), NEW op \in Ops \cup {"console"}, NEW o \in Timers,
           o.op = op
    PROVE  /\ [w.pending EXCEPT ![op] = o] \in [Ops \cup {"console"} -> Timers \cup {None}]
           /\ [w.pending EXCEPT ![op] = o][op] = o
           /\ \A q \in Ops \cup {"console"}:
                q # op => [w.pending EXCEPT ![op] = o][q] = w.pending[q]
           /\ \A v \in Windows: v.snap = w.snap /\ v.bundle = w.bundle
                                  /\ v.dialog \in {w.dialog, None}
                                  /\ v.pending = [w.pending EXCEPT ![op] = o] => WindowOk(v)
<1> DEFINE p == [w.pending EXCEPT ![op] = o]
<1>1. w.pending \in [Ops \cup {"console"} -> Timers \cup {None}]
  BY DEF Windows
<1>2. p \in [Ops \cup {"console"} -> Timers \cup {None}] /\ p[op] = o
      /\ \A q \in Ops \cup {"console"}: q # op => p[q] = w.pending[q]
  BY <1>1
<1> HIDE DEF p
<1>3. \A v \in Windows: v.snap = w.snap /\ v.bundle = w.bundle /\ v.dialog \in {w.dialog, None}
                           /\ v.pending = p => WindowOk(v)
  BY <1>2 DEF WindowOk
<1> QED BY <1>2, <1>3 DEF p

\* A window without its dialog and with fewer buttons.
LEMMA DialogGone ==
    ASSUME DeviceType, NEW gone
    PROVE  LET w == [win EXCEPT !.on = @ \ gone, !.dialog = None]
           IN  /\ w \in Windows /\ WindowOk(w) /\ w.snap = win.snap /\ w.pending = win.pending
               /\ w.flashPort = win.flashPort /\ w.bundle = win.bundle /\ w.dialog = None
               /\ w.on \in SUBSET Buttons
<1> DEFINE on == win.on \ gone
           w == [win EXCEPT !.on = on, !.dialog = None]
<1>1. win \in Windows /\ WindowOk(win) /\ on \in SUBSET Buttons
  BY Typed DEF Windows
<1> HIDE DEF on
<1>2. /\ w \in Windows /\ w.snap = win.snap /\ w.pending = win.pending /\ w.dialog = None
      /\ w.flashPort = win.flashPort /\ w.bundle = win.bundle /\ w.on = on
  BY <1>1 DEF Windows
<1> HIDE DEF w
<1>3. WindowOk(w)
  BY <1>1, <1>2 DEF WindowOk
<1> QED BY <1>1, <1>2, <1>3 DEF w, on

LEMMA ReleasedFacts ==
    ASSUME DeviceType, NEW op \in Ops, NEW full \in BOOLEAN, NEW named \in Radios,
           NEW bundle \in Bundles \cup {None}, ReleaseForFirmware(op, full, bundle, named),
           win.snap # None /\ bundle # None =>
             bundle.late \/ (bundle.target = win.snap.radio /\ named = win.snap.radio)
    PROVE  /\ win' \in Windows /\ WindowOk(win') /\ win'.snap = win.snap
           /\ \/ /\ win.snap # None /\ win'.pending[op] # None
                 /\ UserCall([kind |-> "disconnect"])
              \/ /\ UserRest /\ calls' = calls
                 /\ win'.flashPort = win.flashPort /\ win'.pending = win.pending
<1> DEFINE w == [win EXCEPT !.on = @ \ {op}, !.dialog = None]
<1>1. /\ w \in Windows /\ WindowOk(w) /\ w.snap = win.snap /\ w.pending = win.pending
      /\ w.flashPort = win.flashPort /\ w.bundle = win.bundle /\ w.dialog = None
  BY DialogGone
<1>2. CASE win' = w /\ calls' = calls /\ UserRest
  BY <1>1, <1>2
<1>3. CASE win.connected /\ win.snap # None
  <2> DEFINE o == [op |-> op, full |-> full, radio |-> win.snap.radio, named |-> named,
                   serial |-> win.snap.serial, bundle |-> bundle]
             port == win.snap.port
  <2>1. /\ UserCall([kind |-> "disconnect"])
        /\ win' = [w EXCEPT !.flashPort = port, !.pending[op] = o]
    BY <1>3 DEF ReleaseForFirmware
  <2>2. win' = [w EXCEPT !.flashPort = port, !.pending = [w.pending EXCEPT ![op] = o]]
    BY <2>1
  <2>3. o \in Waiters
    <3> DEFINE r == win.snap.radio
               s == win.snap.serial
    <3>1. r \in Radios /\ s = Serial[r] /\ s \in Serials
      BY <1>3, SnapIs
    <3>2. o = [op |-> op, full |-> full, radio |-> r, named |-> named, serial |-> s,
               bundle |-> bundle]
          /\ (bundle # None => bundle.late \/ (bundle.target = r /\ named = r))
      BY <1>3
    <3> HIDE DEF r, s, o
    <3> QED BY <3>1, <3>2 DEF Waiters, Waits, Sound, Serials
  <2>4. o \in Timers /\ o # None
    BY <2>3, NoneAssumption DEF Timers, Waiters
  <2>5. port \in Ports
    BY <1>3, SnapIs
  <2>6. o.op = op
    OBVIOUS
  <2> HIDE DEF o, port, w
  <2> DEFINE p == [w.pending EXCEPT ![op] = o]
  <2>7. /\ p \in [Ops \cup {"console"} -> Timers \cup {None}] /\ p[op] = o
        /\ \A v \in Windows: v.snap = w.snap /\ v.bundle = w.bundle
                               /\ v.dialog \in {w.dialog, None} /\ v.pending = p => WindowOk(v)
    BY <1>1, <2>4, <2>6, PendingOk
  <2> HIDE DEF p
  <2>8. /\ win' \in Windows /\ win'.snap = w.snap /\ win'.bundle = w.bundle /\ win'.pending = p
        /\ win'.dialog = w.dialog
    BY <1>1, <2>2, <2>5, <2>7 DEF Windows, p
  <2>9. WindowOk(win')
    BY <2>7, <2>8
  <2>10. win'.pending[op] # None
    BY <2>4, <2>7, <2>8
  <2> QED BY <1>1, <1>3, <2>1, <2>8, <2>9, <2>10
<1> QED BY <1>2, <1>3 DEF ReleaseForFirmware

\* Only a firmware request takes the port, and only from a connection the
\* window knows of.
FirmwareRequest == AskProbe \/ AskRawBackup \/ ConfirmFlash

LEMMA RequestFacts ==
    ASSUME DeviceType, FirmwareRequest
    PROVE  /\ win' \in Windows /\ WindowOk(win') /\ win'.snap = win.snap
           /\ \/ /\ win.snap # None /\ \E op \in Ops: win'.pending[op] # None
                 /\ UserCall([kind |-> "disconnect"])
              \/ /\ UserRest /\ calls' = calls
                 /\ win'.flashPort = win.flashPort /\ win'.pending = win.pending
<1>1. CASE AskProbe
  <2>1. win.snap # None /\ ReleaseForFirmware("probe", FALSE, None, win.snap.radio)
    BY <1>1 DEF AskProbe, Asks
  <2>2. win.snap.radio \in Radios /\ "probe" \in Ops
    BY <2>1, SnapIs DEF Ops
  <2> QED BY <2>1, <2>2, ReleasedFacts
<1>2. CASE AskRawBackup
  <2>1. win.snap # None /\ ReleaseForFirmware("backup", FALSE, None, win.snap.radio)
    BY <1>2 DEF AskRawBackup, Asks
  <2>2. win.snap.radio \in Radios /\ "backup" \in Ops
    BY <2>1, SnapIs DEF Ops
  <2> QED BY <2>1, <2>2, ReleasedFacts
<1>3. CASE ConfirmFlash
  <2> DEFINE full == win.dialog.full
             named == win.dialog.radio
             bundle == win.bundle
  <2>1. win.dialog # None /\ ReleaseForFirmware("flash", full, bundle, named)
    BY <1>3 DEF ConfirmFlash
  <2>2. /\ bundle \in Bundles \cup {None} /\ full \in BOOLEAN /\ named \in Radios
        /\ "flash" \in Ops
    BY <2>1, Typed DEF Windows, Dialogs, Ops
  <2>3. win.snap # None /\ bundle # None =>
          bundle.late \/ (bundle.target = win.snap.radio /\ named = win.snap.radio)
    BY <2>1, Typed DEF WindowOk
  <2> HIDE DEF full, named, bundle
  <2> QED BY <2>1, <2>2, <2>3, ReleasedFacts
<1> QED BY <1>1, <1>2, <1>3 DEF FirmwareRequest

LEMMA ConsoleAsked ==
    ASSUME DeviceType, AskConsole
    PROVE  /\ win' \in Windows /\ WindowOk(win') /\ win'.snap = win.snap
           /\ win'.flashPort = win.flashPort
           /\ \A op \in Ops: win'.pending[op] = win.pending[op]
           /\ UserCall([kind |-> "disconnect"]) \/ (UserRest /\ calls' = calls)
<1> DEFINE w == [win EXCEPT !.on = @ \ {"console"}]
<1>1. win.snap # None
  BY DEF AskConsole, Asks
<1>a. /\ w \in Windows /\ WindowOk(w) /\ w.pending = win.pending
      /\ w.snap = win.snap /\ w.flashPort = win.flashPort /\ w.dialog = win.dialog
  <2> DEFINE on == win.on \ {"console"}
  <2>1. win \in Windows /\ WindowOk(win) /\ on \in SUBSET Buttons /\ w = [win EXCEPT !.on = on]
    BY Typed DEF Windows
  <2> HIDE DEF on
  <2>2. /\ w \in Windows /\ w.pending = win.pending
        /\ w.snap = win.snap /\ w.flashPort = win.flashPort /\ w.dialog = win.dialog
        /\ w.bundle = win.bundle
    BY <2>1 DEF Windows
  <2> HIDE DEF w
  <2> QED BY <2>1, <2>2 DEF WindowOk
<1>2. CASE win' = w /\ calls' = calls /\ UserRest
  BY <1>a, <1>2
<1>3. CASE win.connected
  <2> DEFINE o == [op |-> "console", port |-> win.snap.port]
  <2>1. win' = [w EXCEPT !.pending.console = o] /\ UserCall([kind |-> "disconnect"])
    BY <1>3 DEF AskConsole
  <2>2. o \in Timers /\ o.op = "console"
    BY <1>1, SnapIs DEF Timers, Consoles
  <2>3. win' = [w EXCEPT !.pending = [w.pending EXCEPT !["console"] = o]]
    BY <2>1
  <2> HIDE DEF o, w
  <2> DEFINE p == [w.pending EXCEPT !["console"] = o]
  <2>4. /\ p \in [Ops \cup {"console"} -> Timers \cup {None}]
        /\ \A q \in Ops \cup {"console"}: q # "console" => p[q] = w.pending[q]
        /\ \A v \in Windows: v.snap = w.snap /\ v.bundle = w.bundle
                               /\ v.dialog \in {w.dialog, None} /\ v.pending = p => WindowOk(v)
    BY <1>a, <2>2, PendingOk
  <2> HIDE DEF p
  <2>5. /\ win' \in Windows /\ win'.snap = w.snap /\ win'.bundle = w.bundle /\ win'.pending = p
        /\ win'.flashPort = w.flashPort /\ win'.dialog = w.dialog
    BY <1>a, <2>3, <2>4 DEF Windows, p
  <2>6. WindowOk(win')
    BY <2>4, <2>5
  <2>7. \A op \in Ops: win'.pending[op] = w.pending[op]
    BY <2>4, <2>5 DEF Ops
  <2> QED BY <1>a, <2>1, <2>5, <2>6, <2>7
<1> QED BY <1>2, <1>3 DEF AskConsole

\* The dialogs of a flash, but for the last answer: nothing but the window
\* changes, and of it the dialog.
DialogStep == (\E full \in BOOLEAN: AskFlash(full)) \/ AskAgain \/ CancelFlash

LEMMA DialogFacts ==
    ASSUME DeviceType, DialogStep
    PROVE  /\ win' \in Windows /\ WindowOk(win') /\ win'.snap = win.snap
           /\ win'.flashPort = win.flashPort /\ win'.pending = win.pending
           /\ UserRest /\ calls' = calls
<1>0. win \in Windows /\ WindowOk(win)
  BY Typed
<1>1. ASSUME NEW d \in Dialogs \cup {None}, win' = [win EXCEPT !.dialog = d],
             d # None => win.snap # None /\ d.radio = win.snap.radio
      PROVE  /\ win' \in Windows /\ WindowOk(win') /\ win'.snap = win.snap
             /\ win'.flashPort = win.flashPort /\ win'.pending = win.pending
  <2>1. /\ win' \in Windows /\ win'.snap = win.snap /\ win'.bundle = win.bundle
        /\ win'.dialog = d /\ win'.flashPort = win.flashPort /\ win'.pending = win.pending
    BY <1>0, <1>1 DEF Windows
  <2>2. WindowOk(win')
    BY <1>0, <1>1, <2>1 DEF WindowOk
  <2> QED BY <2>1, <2>2
<1>2. ASSUME NEW full \in BOOLEAN, AskFlash(full)
      PROVE  \E d \in Dialogs: /\ win' = [win EXCEPT !.dialog = d]
                               /\ win.snap # None /\ d.radio = win.snap.radio
  <2> DEFINE d == [full |-> full, radio |-> win.snap.radio, last |-> ~full \/ win.backedUp]
  <2>1. win.snap # None /\ win' = [win EXCEPT !.dialog = d]
    BY <1>2 DEF AskFlash, Asks
  <2>2. win.snap.radio \in Radios /\ win.backedUp \in BOOLEAN
    BY <1>0, <2>1, SnapIs DEF Windows
  <2>3. d \in Dialogs
    BY <2>2 DEF Dialogs
  <2> QED BY <2>1, <2>3
<1>3. CASE AskAgain
  <2>1. CASE win.snap = None
    BY <1>1, <1>3, <2>1 DEF AskAgain
  <2>2. CASE win.snap # None
    <3> DEFINE r == win.snap.radio
               d == [win.dialog EXCEPT !.last = TRUE, !.radio = r]
    <3>1. win.dialog \in Dialogs /\ r \in Radios
      BY <1>0, <1>3, <2>2, SnapIs DEF AskAgain, Windows
    <3>2. win' = [win EXCEPT !.dialog = d]
      BY <1>3, <2>2 DEF AskAgain
    <3> HIDE DEF r
    <3>3. d \in Dialogs /\ d.radio = r
      BY <3>1 DEF Dialogs
    <3> HIDE DEF d
    <3> QED BY <1>1, <1>3, <2>2, <3>2, <3>3 DEF r, AskAgain
  <2>3. win'.snap = win.snap /\ win' \in Windows /\ WindowOk(win')
        /\ win'.flashPort = win.flashPort /\ win'.pending = win.pending
    BY <2>1, <2>2
  <2> QED BY <1>3, <2>3 DEF AskAgain
<1>4. CASE CancelFlash
  <2>1. win' = [win EXCEPT !.dialog = None]
    BY <1>4 DEF CancelFlash
  <2> QED BY <1>1, <1>4, <2>1 DEF CancelFlash
<1>5. CASE \E full \in BOOLEAN: AskFlash(full)
  <2>1. UserRest /\ calls' = calls
    BY <1>5 DEF AskFlash
  <2>2. \A d \in Dialogs: d # None \/ d = None
    OBVIOUS
  <2> QED BY <1>1, <1>2, <1>5, <2>1
<1> QED BY <1>3, <1>4, <1>5 DEF DialogStep

LEMMA UserTyped ==
    ASSUME DeviceType, InSync, Running, User
    PROVE  DeviceType' /\ InSync' /\ Running'
<1>0. win \in Windows /\ WindowOk(win)
  BY Typed
<1>1. ASSUME NEW p \in Ports, AskConnect(p) PROVE DeviceType' /\ InSync' /\ Running'
  <2>1. UserCall([kind |-> "connect", port |-> p]) /\ win' = win
    BY <1>1 DEF AskConnect
  <2>2. [kind |-> "connect", port |-> p] \in Calls
    BY CallConstructors
  <2> QED BY <1>0, <2>1, <2>2, UserCallTypes
<1>a. CASE AskScan \/ AskDisconnect
  <2>1. win' = win /\ (UserCall([kind |-> "scan"]) \/ UserCall([kind |-> "disconnect"]))
    BY <1>a DEF AskScan, AskDisconnect
  <2>2. [kind |-> "scan"] \in Calls /\ [kind |-> "disconnect"] \in Calls
    BY CallConstructors
  <2> QED BY <1>0, <2>1, <2>2, UserCallTypes
<1>b. CASE DialogStep
  BY <1>b, DialogFacts, UserRestTypes
<1>2. ASSUME NEW s \in Sections, AskSave(s) PROVE DeviceType' /\ InSync' /\ Running'
  <2>1. win.snap # None /\ win' = win
    BY <1>2 DEF AskSave, Edits
  <2>2. PICK ch \in ChangesFor(win.snap.shown, s):
          UserCall([kind |-> "save", section |-> s, changes |-> ch])
    BY <1>2 DEF AskSave
  <2>3. [kind |-> "save", section |-> s, changes |-> ch] \in Calls
    BY <2>1, <2>2, SnapIs, CallConstructors
  <2> QED BY <1>0, <2>1, <2>2, <2>3, UserCallTypes
<1>3. ASSUME NEW k \in {"refresh", "reset"}, AskPlain(k) PROVE DeviceType' /\ InSync' /\ Running'
  <2>1. UserCall([kind |-> k]) /\ win' = win
    BY <1>3 DEF AskPlain
  <2>2. [kind |-> k] \in Calls
    BY CallConstructors
  <2> QED BY <1>0, <2>1, <2>2, UserCallTypes
<1>4. CASE AskBackupProfile
  <2>1. UserCall([kind |-> "backup"]) /\ win' = [win EXCEPT !.on = @ \ {"save profile"}]
    BY <1>4 DEF AskBackupProfile
  <2>2. [kind |-> "backup"] \in Calls
    BY CallConstructors
  <2>3. win' \in Windows /\ WindowOk(win')
    BY <2>1, FewerButtons
  <2> QED BY <2>1, <2>2, <2>3, UserCallTypes
<1>5. CASE AskRestoreProfile
  <2>1. UserCall([kind |-> "restore"]) /\ win' = [win EXCEPT !.on = @ \ {"load profile"}]
    BY <1>5 DEF AskRestoreProfile
  <2>2. [kind |-> "restore"] \in Calls
    BY CallConstructors
  <2>3. win' \in Windows /\ WindowOk(win')
    BY <2>1, FewerButtons
  <2> QED BY <2>1, <2>2, <2>3, UserCallTypes
<1>6. [kind |-> "disconnect"] \in Calls
  BY CallConstructors
<1>7. CASE FirmwareRequest
  BY <1>6, <1>7, RequestFacts, UserCallTypes, UserRestTypes
<1>8. CASE AskConsole
  BY <1>6, <1>8, ConsoleAsked, UserCallTypes, UserRestTypes
<1>9. CASE StopConsole
  <2>1. /\ console # None /\ console' = None /\ dials' = dials \cup {console}
        /\ WindowSame /\ UNCHANGED <<calls, signals, results, win, timers, jobs>>
    BY <1>9 DEF StopConsole, WindowSame, radios, worker, firmware
  <2>2. dials' \in SUBSET Ports
    BY <2>1, Typed
  <2> QED BY <2>1, <2>2, Typed, WindowTypes
<1>10. ASSUME NEW pre \in Prereleases, AskDiscover(pre) PROVE DeviceType' /\ InSync' /\ Running'
  <2> DEFINE j == [op |-> "discover", radio |-> win.snap.radio, pre |-> pre]
  <2>1. win.snap # None /\ UserJob(j) /\ win' = [win EXCEPT !.on = @ \ {"discover"}]
    BY <1>10 DEF AskDiscover, Asks
  <2>2. j \in Jobs
    BY <2>1, SnapIs DEF Jobs
  <2>3. win' \in Windows /\ WindowOk(win')
    BY <2>1, FewerButtons
  <2> QED BY <2>1, <2>2, <2>3, UserJobTypes
<1>11. CASE AskPrepare
  <2> DEFINE j == [op |-> "prepare", radio |-> win.snap.radio, tag |-> win.release]
  <2>1. /\ win.snap # None /\ UserJob(j) /\ win' = [win EXCEPT !.on = @ \ {"download"}]
        /\ win.release # None
    BY <1>11 DEF AskPrepare, Asks
  <2>2. win.release \in Tags
    BY <1>0, <2>1 DEF Windows
  <2>3. j \in Jobs
    BY <2>1, <2>2, SnapIs DEF Jobs
  <2>4. win' \in Windows /\ WindowOk(win')
    BY <2>1, FewerButtons
  <2> QED BY <2>1, <2>3, <2>4, UserJobTypes
<1> QED BY <1>1, <1>a, <1>b, <1>2, <1>3, <1>4, <1>5, <1>7, <1>8, <1>9, <1>10, <1>11
        DEF User, FirmwareRequest, DialogStep

-----------------------------------------------------------------------------
(* The invariant                                                           *)

DeviceInv == DeviceType /\ InSync /\ Running

LEMMA DeviceInit == Init => DeviceInv
<1> SUFFICES ASSUME Init PROVE DeviceInv
  OBVIOUS
<1>1. at \in [Radios -> Ports \cup {None}] /\ OnePerPort
  BY DeviceConstants DEF Init, OnePerPort
<1>2. config \in [Radios -> Configs]
  BY DeviceConstants DEF Init, Configs
<1>3. copy \in Configs /\ file \in Configs
  BY DEF Init, NoCopy, Configs
<1>4. NoPending \in [Ops \cup {"console"} -> Timers \cup {None}]
      /\ \A op \in Ops \cup {"console"}: NoPending[op] = None
  BY DEF NoPending
<1>5. win \in Windows /\ WindowOk(win)
  <2>1. win = [connected |-> FALSE, snap |-> None, flashPort |-> None, pending |-> NoPending,
               release |-> None, bundle |-> None, backedUp |-> FALSE, dialog |-> None,
               on |-> {}]
    BY DEF Init
  <2> QED BY <1>4, <2>1 DEF Windows, WindowOk
<1>6. DeviceType
  <2>1. /\ link = None /\ calls = <<>> /\ slot = <<>> /\ drift = FALSE /\ signals = <<>>
        /\ idle = TRUE /\ hidden = FALSE
        /\ results = <<>> /\ timers = <<>> /\ dials = {} /\ jobs = <<>> /\ tool = None
        /\ console = None
    BY DEF Init
  <2>2. \A S: <<>> \in Seq(S)
    OBVIOUS
  <2>3. /\ calls \in Seq(Calls) /\ slot \in Seq(Sections) /\ signals \in Seq(Signals)
        /\ results \in Seq(Results) /\ timers \in Seq(Timers) /\ jobs \in Seq(Jobs)
    BY <2>1, <2>2, Zenon
  <2> QED BY <1>1, <1>2, <1>3, <1>5, <2>1, <2>3 DEF DeviceType
<1> QED BY <1>1, <1>6 DEF Init, DeviceInv, InSync, Running, Apart

LEMMA Moved ==
    ASSUME DeviceInv, NEW r \in Radios, NEW p \in Ports, Plug(r, p) \/ Unplug(r)
    PROVE  DeviceInv'
<1>1. /\ DeviceType /\ InSync /\ Running /\ OnePerPort /\ tool' = tool
      /\ at \in [Radios -> Ports \cup {None}] /\ link \in Links \cup {None}
  BY DEF DeviceInv, Running, DeviceType, Plug, Unplug, firmware
<1>2. /\ UNCHANGED <<config, link, idle, hidden, calls, slot, copy, file, drift, signals, results,
                     win, timers, dials, jobs, console>>
  BY DEF Plug, Unplug, worker, firmware
<1>3. PICK q \in Ports \cup {None}:
        /\ at' = [at EXCEPT ![r] = q]
        /\ q # None => On(at, q) = {}
  BY DEF Plug, Unplug
<1>4. at' \in [Radios -> Ports \cup {None}] /\ \A o \in Radios: at'[o] = IF o = r THEN q ELSE at[o]
  BY <1>1, <1>3
<1>5. \A o \in Radios: q # None => at[o] # q
  BY <1>1, <1>3 DEF On
<1>6. OnePerPort'
  BY <1>1, <1>4, <1>5 DEF OnePerPort
<1>7. DeviceType'
  BY <1>1, <1>2, <1>4 DEF DeviceType
<1>8. InSync'
  BY <1>1, <1>2 DEF InSync
<1>9. Apart'
  <2>1. ASSUME link # None PROVE link.radio # r /\ link.radio \in Radios /\ link.port \in Ports
    <3>1. link.radio \in Radios /\ link.port \in Ports /\ at[link.radio] = link.port
      BY <1>1, <2>1 DEF Running, Apart, Links
    <3> QED BY <2>1, <3>1, ConstantFacts DEF Plug, Unplug
  <2> QED BY <1>1, <1>2, <1>4, <2>1 DEF Running, Apart
<1> QED BY <1>1, <1>6, <1>7, <1>8, <1>9 DEF DeviceInv, Running, Checked

LEMMA LosesTyped ==
    ASSUME DeviceInv, Loses
    PROVE  DeviceInv'
<1>1. /\ link' = None /\ copy' = NoCopy /\ drift' = FALSE /\ WorkerSame
      /\ UNCHANGED <<config, calls, slot, file>>
      /\ idle' = FALSE /\ hidden' = FALSE
      /\ signals' = Append(signals, [kind |-> "down"])
  BY DEF Loses, WorkerSame, radios
<1>2. /\ config \in [Radios -> Configs] /\ calls \in Seq(Calls) /\ slot \in Seq(Sections)
      /\ file \in Configs /\ signals \in Seq(Signals)
  BY DEF DeviceInv, DeviceType
<1>3. signals' \in Seq(Signals)
  BY <1>1, <1>2, SignalConstructors
<1>4. DeviceType'
  BY <1>1, <1>2, <1>3, NoCopyIsConfig, WorkerTypes DEF DeviceInv
<1>5. InSync'
  BY <1>1 DEF InSync
<1>6. Running'
  BY <1>1 DEF DeviceInv, Running, OnePerPort, Checked, Apart, WorkerSame, firmware
<1> QED BY <1>4, <1>5, <1>6 DEF DeviceInv

LEMMA WorkerKeepsRest ==
    ASSUME DeviceType, Worker
    PROVE  WorkerSame
<1>1. ASSUME NEW kind, IsCall(kind) PROVE WorkerSame
  BY <1>1, CallFacts
<1>2. CASE RestoreStep
  BY <1>2 DEF RestoreStep, WorkerSame, firmware
<1> QED BY <1>1, <1>2 DEF Worker, CallDisconnect, CallConnect, CallScan, CallSave, CallRefresh,
                          CallReset, CallBackup, CallRestore

\* A connection is made only to a radio on a port that is not the operation's.
LEMMA WorkerRuns ==
    ASSUME DeviceType, Running, Worker
    PROVE  Running'
<1>1. WorkerSame
  BY WorkerKeepsRest
<1>2. CASE link' \in {link, None}
  BY <1>1, <1>2 DEF Running, OnePerPort, Checked, Apart, WorkerSame, firmware
<1>3. CASE link' \notin {link, None}
  <2>1. CallConnect
    BY <1>3 DEF Worker, CallDisconnect, CallScan, CallSave, CallRefresh, CallReset, CallBackup,
                CallRestore, RestoreStep
  <2> DEFINE p == Head(calls).port
  <2>2. PICK r \in On(at, p): link' = [radio |-> r, port |-> p] /\ ~(tool # None /\ tool.port = p)
    BY <1>3, <2>1 DEF CallConnect
  <2>3. at[r] = p
    BY <2>2 DEF On
  <2> QED BY <1>1, <2>2, <2>3 DEF Running, OnePerPort, Checked, Apart, WorkerSame, firmware
<1> QED BY <1>2, <1>3

LEMMA DeviceNext == DeviceInv /\ [Next]_vars => DeviceInv'
<1> SUFFICES ASSUME DeviceInv, [Next]_vars PROVE DeviceInv'
  OBVIOUS
<1>0. DeviceType /\ InSync /\ Running
  BY DEF DeviceInv
<1>1. CASE UNCHANGED vars
  <2>1. WindowSame /\ UNCHANGED <<calls, signals, results, win, timers, dials, jobs, console>>
    BY <1>1 DEF vars, WindowSame, radios, worker, firmware
  <2> QED BY <1>0, <2>1, Typed, WindowTypes DEF DeviceInv
<1>2. ASSUME NEW r \in Radios, NEW p \in Ports, Plug(r, p) PROVE DeviceInv'
  BY <1>2, Moved
<1>3. ASSUME NEW r \in Radios, Unplug(r) PROVE DeviceInv'
  <2>1. at[r] \in Ports
    BY <1>0, <1>3 DEF DeviceType, Unplug
  <2> QED BY <1>3, <2>1, Moved
<1>4. CASE Loses
  BY <1>4, LosesTyped
<1>5. CASE Worker
  <2>1. DeviceType' /\ InSync'
    BY <1>0, <1>5, WorkerTyped
  <2>2. Running'
    BY <1>0, <1>5, WorkerRuns
  <2> QED BY <2>1, <2>2 DEF DeviceInv
<1>6. CASE FirmwareThread
  BY <1>0, <1>6, FirmwareTyped DEF DeviceInv
<1>7. CASE Deliver
  BY <1>0, <1>7, DeliverTyped DEF DeviceInv
<1>8. CASE StartTimer \/ DialTimer
  BY <1>0, <1>8, TimerTyped, DialTyped DEF DeviceInv
<1>9. CASE User
  BY <1>0, <1>9, UserTyped DEF DeviceInv
<1> QED BY <1>1, <1>2, <1>3, <1>4, <1>5, <1>6, <1>7, <1>8, <1>9 DEF Next

\* In every reachable state of the page, the worker and the firmware thread,
\* each request carries the serial number of the radio it was made for and a
\* bundle prepared for it or known as late, the library's copy is what the
\* radio stores (unless a write failed), the radio that _verify_usb or the
\* bootloader's port check last saw has that serial number, and esptool talks
\* to another port than the connection does.
THEOREM DeviceIsTyped == Spec => []DeviceInv
BY DeviceInit, DeviceNext, PTL DEF Spec

LEMMA WriteStep ==
    ASSUME DeviceInv, Next, NEW r \in Radios, chip'[r] # chip[r]
    PROVE  /\ tool.serial = None \/ r = tool.radio \/ r # tool.checked
           /\ \/ tool.bundle.target = tool.radio /\ tool.named = tool.radio
              \/ tool.bundle.late
<1>1. RunTool
  BY DEF Next, Plug, Unplug, Loses, Worker, CallDisconnect, CallConnect, CallScan, CallSave,
         CallRefresh, CallReset, CallBackup, CallRestore, IsCall, RestoreStep,
         FirmwareThread, Discover, Prepare, StartOp, IsJob, IdentifyChip,
         Deliver, OnSnapshot, OnScanning, OnDown, OnProfile, IsSignal, OnRelease,
         OnBundle, OnCompleted, IsResult, StartTimer, DialTimer, User, AskConnect, AskScan,
         AskDisconnect, AskSave, AskPlain, AskBackupProfile, AskRestoreProfile, AskFlash,
         AskAgain, ConfirmFlash, CancelFlash, AskProbe, AskRawBackup, ReleaseForFirmware,
         AskConsole, UserCall, UserRest, StopConsole, UserJob, AskDiscover, AskPrepare, radios
<1>2. Head(tool.rest) \in Writes /\ tool # None
  BY <1>1 DEF RunTool
<1>3. tool \in Tools /\ Checked(tool)
  BY <1>2 DEF DeviceInv, DeviceType, Running
<1>4. /\ tool.rest \in Seq(Commands) /\ tool.rest # <<>> /\ tool.checked \in Radios
      /\ tool.radio \in Radios /\ Sound(tool)
  BY <1>3 DEF Tools, Runs, Checked
<1>5. 1 \in DOMAIN tool.rest /\ Head(tool.rest) = tool.rest[1]
  BY <1>4
<1>6. tool.op = "flash" /\ tool.bundle # None
  BY <1>2, <1>3, <1>5 DEF Checked
<1>7. ASSUME tool.serial # None PROVE tool.checked = tool.radio
  <2>1. Serial[tool.checked] = tool.serial
    BY <1>3, <1>7 DEF Checked, SerialMatches
  <2>2. tool.serial = Serial[tool.radio]
    BY <1>4 DEF Sound
  <2> QED BY <1>4, <1>7, <2>1, <2>2, ConstantFacts
<1> QED BY <1>4, <1>6, <1>7 DEF Sound

\* Whatever is plugged, exchanged or asked for at any moment, flash_bundle has
\* esptool write only to the radio the user confirmed (if it has a USB serial
\* number), unless another one took its place on the port after _verify_usb or
\* the bootloader's port check saw it; and it writes only a bundle prepared for
\* the radio the dialog named, or one that came late.
THEOREM FlashesTheRightRadio == Spec => FlashIsRight
<1>1. DeviceInv /\ [Next]_vars =>
        [\A r \in Radios: chip'[r] # chip[r] =>
          /\ tool.serial = None \/ r = tool.radio \/ r # tool.checked
          /\ \/ tool.bundle.target = tool.radio /\ tool.named = tool.radio
             \/ tool.bundle.late]_chip
  BY WriteStep DEF vars, radios
<1> QED BY <1>1, DeviceIsTyped, PTL DEF Spec, FlashIsRight

-----------------------------------------------------------------------------
LEMMA SecretStep ==
    ASSUME DeviceInv, Next, NEW r \in Radios, config'[r].secret # config[r].secret
    PROVE  \/ slot # <<>> \/ drift
           \/ calls' # calls /\ Head(calls).kind = "reset"
           \/ calls' # calls /\ Head(calls).kind = "save" /\ Head(calls).changes.secret # Blank
           \/ tool # None /\ tool.op = "flash" /\ Head(tool.rest) = "erase-flash"
<1>0. /\ DeviceType /\ InSync /\ config \in [Radios -> Configs] /\ copy \in Configs
      /\ link \in Links \cup {None} /\ calls \in Seq(Calls)
  BY DEF DeviceInv, DeviceType
<1>1. config' # config
  OBVIOUS
<1>a. CASE RunTool
  <2>1. tool # None /\ tool.loader /\ tool \in Tools /\ Checked(tool)
    BY <1>a DEF RunTool, DeviceInv, DeviceType, Running
  <2>2. Head(tool.rest) = "erase-flash"
    BY <1>1, <1>a DEF RunTool, WritesTo
  <2>3. tool.rest \in Seq(Commands) /\ tool.rest # <<>>
    BY <2>1 DEF Tools, Runs, Checked
  <2>4. 1 \in DOMAIN tool.rest /\ Head(tool.rest) = tool.rest[1]
    BY <2>3
  <2>5. tool.op = "flash"
    BY <2>1, <2>2, <2>4 DEF Checked, Writes
  <2> QED BY <2>1, <2>2, <2>5
<1>b. ASSUME NEW kind, IsCall(kind) PROVE calls' # calls
  <2>1. calls # <<>> /\ calls' = Tail(calls)
    BY <1>0, <1>b, CallFacts
  <2> DEFINE q == Tail(calls)
  <2>2. Len(q) = Len(calls) - 1 /\ Len(calls) \in Nat
    BY <1>0, <2>1
  <2>3. calls' = q
    BY <2>1
  <2> HIDE DEF q
  <2>4. q # calls
    BY <2>2
  <2> QED BY <2>3, <2>4
<1> SUFFICES ASSUME slot = <<>>, ~drift, ~CallReset, ~RunTool
             PROVE  /\ calls' # calls /\ Head(calls).kind = "save"
                    /\ Head(calls).changes.secret # Blank
  BY <1>a, <1>b DEF CallReset, IsCall
<1>2. CallSave
  <2>1. ~Worker => config' = config
    BY DEF Next, Plug, Unplug, Loses, FirmwareThread, Discover, Prepare, StartOp, IsJob,
           IdentifyChip, Deliver, OnSnapshot, OnScanning, OnDown, OnProfile, IsSignal,
           OnRelease, OnBundle, OnCompleted, IsResult, StartTimer, DialTimer, User, AskConnect,
           AskScan, AskDisconnect, AskSave, AskPlain, AskBackupProfile, AskRestoreProfile,
           AskFlash, AskAgain, ConfirmFlash, CancelFlash, AskProbe, AskRawBackup,
           ReleaseForFirmware, AskConsole, UserCall, UserRest, StopConsole, UserJob,
           AskDiscover, AskPrepare, radios
  <2> QED BY <1>1, <2>1 DEF Worker, CallDisconnect, CallConnect, CallScan, CallRefresh,
                           CallBackup, CallRestore, RestoreStep
<1> DEFINE c == Head(calls)
           s == Head(calls).section
           e == Edited(copy, Head(calls).section, Head(calls).changes)
<1>3. /\ IsCall("save") /\ link # None /\ calls' # calls
      /\ config' = [config EXCEPT ![link.radio] = WriteSection(@, e, s)]
  BY <1>1, <1>2, <1>b DEF CallSave, Connected
<1>4. /\ c.kind = "save" /\ c \in SectionSaves \cup ChannelSaves /\ s \in Sections
      /\ [kind |-> "save", section |-> s, changes |-> c.changes] \in SectionSaves \cup ChannelSaves
  BY <1>0, <1>3, CallFacts, CallShapes, SaveShapes
<1>5. /\ e \in Configs
      /\ \A f \in Fields \ FieldsOf(s): e[f] = copy[f]
      /\ s = "config" /\ c.changes.secret = Blank => e.secret = copy.secret
  BY <1>0, <1>4, EditedFacts
<1>6. link.radio \in Radios /\ copy = config[link.radio]
  BY <1>0, <1>3 DEF Links, InSync
<1> HIDE DEF e, s, c
<1>7. \A f \in Fields: WriteSection(copy, e, s)[f] = IF f \in FieldsOf(s) THEN e[f] ELSE copy[f]
  BY <1>0, <1>4, <1>5, WriteSectionFacts
<1>8. r = link.radio /\ config'[r] = WriteSection(copy, e, s) /\ config[r] = copy
  BY <1>0, <1>3, <1>6
<1>9. WriteSection(copy, e, s)["secret"] # copy["secret"]
  BY <1>8
<1>10. s = "config" /\ e["secret"] # copy["secret"]
  BY <1>4, <1>7, <1>9, <1>5 DEF Fields, FieldsOf, Sections
<1> QED BY <1>3, <1>4, <1>5, <1>10 DEF c

\* apply_section never erases a stored secret because its control was left
\* empty: the copy it edits and writes back is the radio's own configuration.
\* Of the firmware operations only flash_bundle's full install, which erases
\* the flash, takes a secret away.
THEOREM SecretsAreKept == Spec => SecretsSurvive
<1>1. DeviceInv /\ [Next]_vars =>
        [\A r \in Radios: config'[r].secret # config[r].secret =>
          \/ slot # <<>> \/ drift
          \/ calls' # calls /\ Head(calls).kind = "reset"
          \/ calls' # calls /\ Head(calls).kind = "save" /\ Head(calls).changes.secret # Blank
          \/ tool # None /\ tool.op = "flash" /\ Head(tool.rest) = "erase-flash"]_config
  BY SecretStep DEF vars, radios
<1> QED BY <1>1, DeviceIsTyped, PTL DEF Spec, SecretsSurvive

-----------------------------------------------------------------------------
(* Steps of the window, and what the other ones leave alone                *)

LEMMA DeliverShape ==
    ASSUME DeviceType, Deliver
    PROVE  /\ UNCHANGED <<link, idle, hidden, drift, slot, copy, calls>>
           /\ \/ signals' = signals /\ win'.snap = win.snap
              \/ /\ signals # <<>> /\ signals' = Tail(signals)
                 /\ win'.snap = IF Head(signals).kind = "snapshot" THEN Head(signals)
                                ELSE IF Head(signals).kind = "down" THEN None ELSE win.snap
<1>0. signals \in Seq(Signals) /\ win \in Windows /\ WindowOk(win)
  BY DEF DeviceType
<1>1. ASSUME NEW kind, IsSignal(kind),
             win'.snap = IF kind = "snapshot" THEN Head(signals)
                         ELSE IF kind = "down" THEN None ELSE win.snap
      PROVE  /\ UNCHANGED <<link, idle, hidden, drift, slot, copy, calls>>
             /\ signals # <<>> /\ signals' = Tail(signals)
             /\ win'.snap = IF Head(signals).kind = "snapshot" THEN Head(signals)
                            ELSE IF Head(signals).kind = "down" THEN None ELSE win.snap
  BY <1>1, SignalFacts DEF WindowSame
<1>2. ASSUME NEW kind, IsResult(kind), win'.snap = win.snap
      PROVE  /\ UNCHANGED <<link, idle, hidden, drift, slot, copy, calls>>
             /\ signals' = signals /\ win'.snap = win.snap
  BY <1>2, ResultFacts DEF WindowSame
<1>3. CASE OnSnapshot
  <2>1. /\ IsSignal("snapshot") /\ Head(signals) \in Snapshots
        /\ win' = SetSnapshot(win, Head(signals))
    BY <1>3, SignalFacts, SignalShapes DEF OnSnapshot
  <2>2. win'.snap = Head(signals)
    BY <1>0, <2>1, SnapshotFacts
  <2> QED BY <1>1, <2>1, <2>2
<1>4. CASE OnDown
  <2>1. IsSignal("down")
    BY <1>4, DownSteps
  <2>2. win'.snap = None
    BY <1>4, DownSteps, DownFacts, StartsWaiting
  <2> QED BY <1>1, <2>1, <2>2
<1>5. CASE OnProfile \/ OnScanning
  <2>1. (IsSignal("profile") \/ IsSignal("scanning")) /\ win'.snap = win.snap
    BY <1>0, <1>5 DEF OnProfile, OnScanning, Windows
  <2> QED BY <1>1, <2>1
<1>6. CASE OnRelease \/ OnBundle
  <2>1. (\E k: IsResult(k)) /\ win'.snap = win.snap
    BY <1>0, <1>6 DEF OnRelease, OnBundle, Windows
  <2> QED BY <1>2, <2>1
<1>7. CASE OnCompleted
  BY <1>2, <1>7, CompletedSteps
<1> QED BY <1>3, <1>4, <1>5, <1>6, <1>7 DEF Deliver

LEMMA OthersKeep ==
    ASSUME DeviceType, ~Worker, ~Deliver, ~Loses, [Next]_vars
    PROVE  UNCHANGED <<link, idle, hidden, drift, slot, copy, signals>> /\ win'.snap = win.snap
<1>0. win \in Windows
  BY DEF DeviceType
<1>1. CASE UNCHANGED vars \/ \E r \in Radios: (\E p \in Ports: Plug(r, p)) \/ Unplug(r)
  BY <1>1 DEF vars, Plug, Unplug, worker
<1>2. CASE FirmwareThread
  BY <1>2 DEF FirmwareThread, Discover, Prepare, StartOp, IsJob, IdentifyChip, RunTool, worker
<1>3. CASE StartTimer \/ DialTimer
  BY <1>3 DEF StartTimer, DialTimer, workerRest
<1>4. CASE User
  <2>1. CASE FirmwareRequest
    <3>1. UserRest /\ win'.snap = win.snap
      BY <2>1, RequestFacts DEF UserCall
    <3> QED BY <3>1 DEF UserRest, workerRest
  <2>2. CASE AskConsole
    <3>1. UserRest /\ win'.snap = win.snap
      BY <2>2, ConsoleAsked DEF UserCall
    <3> QED BY <3>1 DEF UserRest, workerRest
  <2>3. CASE AskBackupProfile \/ AskRestoreProfile
    BY <1>0, <2>3 DEF AskBackupProfile, AskRestoreProfile, UserCall, UserRest, workerRest, Windows
  <2>4. CASE \/ \E p \in Ports: AskConnect(p)
             \/ AskScan \/ AskDisconnect
             \/ \E s \in Sections: AskSave(s)
             \/ \E k \in {"refresh", "reset"}: AskPlain(k)
    BY <2>4 DEF AskConnect, AskScan, AskDisconnect, AskSave, AskPlain, UserCall, UserRest, workerRest
  <2>5. CASE AskPrepare \/ \E pre \in Prereleases: AskDiscover(pre)
    BY <1>0, <2>5 DEF AskPrepare, AskDiscover, UserJob, worker, Windows
  <2>6. CASE StopConsole
    BY <2>6 DEF StopConsole, worker
  <2>7. CASE DialogStep
    <3>1. UserRest /\ win'.snap = win.snap
      BY <2>7, DialogFacts
    <3> QED BY <3>1 DEF UserRest, workerRest
  <2> QED BY <1>4, <2>1, <2>2, <2>3, <2>4, <2>5, <2>6, <2>7
          DEF User, FirmwareRequest, DialogStep
<1> QED BY <1>1, <1>2, <1>3, <1>4 DEF Next

-----------------------------------------------------------------------------
(* The port                                                                *)

\* What a queue holds.
In(s) == {s[i]: i \in DOMAIN s}

LEMMA InAppend ==
    ASSUME NEW S, NEW s \in Seq(S), NEW e
    PROVE  In(Append(s, e)) = In(s) \cup {e}
<1>1. /\ DOMAIN Append(s, e) = 1..Len(s) + 1 /\ DOMAIN s = 1..Len(s) /\ Len(s) \in Nat
      /\ \A i \in 1..Len(s): Append(s, e)[i] = s[i]
      /\ Append(s, e)[Len(s) + 1] = e
  OBVIOUS
<1> QED BY <1>1 DEF In

LEMMA InTail ==
    ASSUME NEW S, NEW s \in Seq(S), s # <<>>
    PROVE  In(s) = {Head(s)} \cup In(Tail(s))
<1>1. /\ DOMAIN Tail(s) = 1..Len(s) - 1 /\ DOMAIN s = 1..Len(s) /\ Len(s) \in Nat /\ Len(s) >= 1
      /\ \A i \in 1..Len(s) - 1: Tail(s)[i] = s[i + 1]
      /\ Head(s) = s[1]
  OBVIOUS
<1>2. ASSUME NEW i \in 1..Len(s) PROVE s[i] = Head(s) \/ \E j \in 1..Len(s) - 1: s[i] = Tail(s)[j]
  <2>1. CASE i = 1
    BY <1>1, <2>1
  <2>2. CASE i # 1
    <3>1. i - 1 \in 1..Len(s) - 1 /\ Tail(s)[i - 1] = s[(i - 1) + 1] /\ (i - 1) + 1 = i
      BY <1>1, <2>2
    <3> QED BY <3>1
  <2> QED BY <2>1, <2>2
<1>3. ASSUME NEW j \in 1..Len(s) - 1 PROVE \E i \in 1..Len(s): Tail(s)[j] = s[i]
  <2>1. j + 1 \in 1..Len(s)
    BY <1>1
  <2> QED BY <1>1, <2>1
<1>4. \E i \in 1..Len(s): Head(s) = s[i]
  BY <1>1
<1>5. ASSUME NEW x \in In(s) PROVE x = Head(s) \/ x \in In(Tail(s))
  <2>1. PICK i \in 1..Len(s): x = s[i]
    BY <1>1 DEF In
  <2>2. x = Head(s) \/ \E j \in 1..Len(s) - 1: x = Tail(s)[j]
    BY <1>2, <2>1
  <2> QED BY <1>1, <2>2 DEF In
<1>6. {Head(s)} \cup In(Tail(s)) \subseteq In(s)
  BY <1>1, <1>3, <1>4 DEF In
<1> QED BY <1>5, <1>6

LEMMA InConcat ==
    ASSUME NEW S, NEW s \in Seq(S), NEW t \in Seq(S)
    PROVE  In(s) \subseteq In(s \o t)
<1>1. /\ DOMAIN s = 1..Len(s) /\ Len(s) \in Nat /\ Len(t) \in Nat
      /\ DOMAIN (s \o t) = 1..Len(s) + Len(t)
      /\ \A i \in 1..Len(s): (s \o t)[i] = s[i]
  OBVIOUS
<1> QED BY <1>1 DEF In

\* Signals that end without a snapshot after the last "down", to a window that
\* has a snapshot only while a "down" is on its way.
Forgets(q, w) ==
    /\ \A i \in 1..Len(q): q[i].kind = "snapshot" => \E j \in i + 1..Len(q): q[j].kind = "down"
    /\ w.snap # None => \E j \in 1..Len(q): q[j].kind = "down"

\* Only a scan leaves an interface open behind the state DISCONNECTED, and the
\* window hears of every other end of a connection.
Told ==
    /\ idle /\ ~hidden => link = None
    /\ link = None /\ ~hidden => Forgets(signals, win)

LEMMA ForgetsMore ==
    ASSUME NEW q \in Seq(Signals), NEW s \in Signals, s.kind # "snapshot", NEW w, Forgets(q, w)
    PROVE  Forgets(Append(q, s), w)
<1> DEFINE n == Len(q)
           a == Append(q, s)
<1>1. n \in Nat /\ Len(a) = n + 1 /\ a[n + 1] = s /\ \A i \in 1..n: a[i] = q[i]
  OBVIOUS
<1> HIDE DEF a
<1>2. ASSUME NEW i \in 1..Len(a), a[i].kind = "snapshot"
      PROVE  \E j \in i + 1..Len(a): a[j].kind = "down"
  <2>1. i \in 1..n /\ q[i].kind = "snapshot"
    BY <1>1, <1>2
  <2>2. PICK j \in i + 1..n: q[j].kind = "down"
    BY <2>1 DEF Forgets
  <2> QED BY <1>1, <2>1, <2>2
<1>3. ASSUME w.snap # None PROVE \E j \in 1..Len(a): a[j].kind = "down"
  <2>1. PICK j \in 1..n: q[j].kind = "down"
    BY <1>3 DEF Forgets
  <2> QED BY <1>1, <2>1
<1>4. Forgets(a, w)
  BY <1>2, <1>3 DEF Forgets
<1> QED BY <1>4 DEF a

LEMMA ForgetsDown ==
    ASSUME NEW q \in Seq(Signals), NEW w
    PROVE  Forgets(Append(q, [kind |-> "down"]), w)
<1> DEFINE n == Len(q)
           s == [kind |-> "down"]
           a == Append(q, s)
<1>1. s.kind = "down" /\ s.kind # "snapshot"
  OBVIOUS
<1> HIDE DEF s
<1>2. n \in Nat /\ Len(a) = n + 1 /\ a[n + 1] = s /\ \A i \in 1..n: a[i] = q[i]
  OBVIOUS
<1> HIDE DEF a
<1>3. ASSUME NEW i \in 1..Len(a), a[i].kind = "snapshot"
      PROVE  \E j \in i + 1..Len(a): a[j].kind = "down"
  <2>1. n + 1 \in i + 1..Len(a)
    BY <1>1, <1>2, <1>3
  <2> QED BY <1>1, <1>2, <2>1
<1>4. \E j \in 1..Len(a): a[j].kind = "down"
  <2>1. n + 1 \in 1..Len(a)
    BY <1>2
  <2> QED BY <1>1, <1>2, <2>1
<1>5. Forgets(a, w)
  BY <1>3, <1>4 DEF Forgets
<1> QED BY <1>5 DEF a, s

LEMMA ForgetsLess ==
    ASSUME NEW q \in Seq(Signals), q # <<>>, NEW w, NEW v, Forgets(q, w),
           v.snap = IF Head(q).kind = "snapshot" THEN Head(q)
                    ELSE IF Head(q).kind = "down" THEN None ELSE w.snap
    PROVE  Forgets(Tail(q), v)
<1> DEFINE t == Tail(q)
           n == Len(q)
<1>1. n \in Nat /\ n >= 1 /\ Len(t) = n - 1 /\ Head(q) = q[1] /\ \A i \in 1..n - 1: t[i] = q[i + 1]
  OBVIOUS
<1> HIDE DEF t
<1>2. ASSUME NEW i \in 1..n, NEW j \in i + 1..n, q[j].kind = "down"
      PROVE  \E k \in i..Len(t): t[k].kind = "down"
  <2>1. j - 1 \in i..Len(t) /\ t[j - 1] = q[(j - 1) + 1] /\ (j - 1) + 1 = j
    BY <1>1
  <2> QED BY <1>2, <2>1
<1>3. ASSUME NEW i \in 1..Len(t), t[i].kind = "snapshot"
      PROVE  \E j \in i + 1..Len(t): t[j].kind = "down"
  <2>1. i + 1 \in 1..n /\ q[i + 1].kind = "snapshot"
    BY <1>1, <1>3
  <2>2. PICK j \in (i + 1) + 1..n: q[j].kind = "down"
    BY <2>1 DEF Forgets
  <2> QED BY <1>2, <2>1, <2>2
<1>4. ASSUME v.snap # None PROVE \E j \in 1..Len(t): t[j].kind = "down"
  <2>0. 1 \in 1..n
    BY <1>1
  <2>1. CASE Head(q).kind = "snapshot"
    <3>1. PICK j \in 1 + 1..n: q[j].kind = "down"
      BY <1>1, <2>0, <2>1 DEF Forgets
    <3> QED BY <1>2, <2>0, <3>1
  <2>2. CASE Head(q).kind # "snapshot"
    <3>1. v.snap = w.snap /\ Head(q).kind # "down"
      BY <1>4, <2>2
    <3>2. PICK j \in 1..n: q[j].kind = "down"
      BY <1>4, <3>1 DEF Forgets
    <3>3. j \in 1 + 1..n
      BY <1>1, <3>1, <3>2
    <3> QED BY <1>2, <2>0, <3>2, <3>3
  <2> QED BY <2>1, <2>2
<1>5. Forgets(t, v)
  BY <1>3, <1>4 DEF Forgets
<1> QED BY <1>5 DEF t

LEMMA WorkerTells ==
    ASSUME DeviceType, Told, Worker
    PROVE  Told'
<1>0. signals \in Seq(Signals) /\ win' = win
  BY WorkerKeepsRest DEF DeviceType, WorkerSame
<1>1. ASSUME UNCHANGED <<link, idle, hidden, signals>> PROVE Told'
  BY <1>0, <1>1 DEF Told, Forgets
<1>2. ASSUME UNCHANGED <<link, idle, hidden>>, link # None PROVE Told'
  BY <1>2 DEF Told
<1>3. ASSUME UNCHANGED <<link, idle, hidden>>, NEW op \in {"backup", "restore"}, NEW ok \in BOOLEAN,
             signals' = Append(signals, Profile(op, ok))
      PROVE  Told'
  <2> DEFINE s == Profile(op, ok)
  <2>1. s \in Signals /\ s.kind # "snapshot"
    BY SignalConstructors DEF Profile
  <2>2. signals' = Append(signals, s)
    BY <1>3
  <2> HIDE DEF s
  <2>3. Forgets(signals, win) => Forgets(signals', win)
    BY <1>0, <2>1, <2>2, ForgetsMore
  <2> QED BY <1>0, <1>3, <2>3 DEF Told
<1>4. CASE CallDisconnect
  <2>1. CASE idle
    BY <1>1, <1>4, <2>1 DEF CallDisconnect
  <2>2. CASE ~idle
    <3>1. link' = None /\ signals' = Append(signals, [kind |-> "down"])
      BY <1>4, <2>2 DEF CallDisconnect
    <3>2. Forgets(signals', win)
      BY <1>0, <3>1, ForgetsDown
    <3> QED BY <1>0, <3>1, <3>2 DEF Told
  <2> QED BY <2>1, <2>2
<1>5. CASE CallConnect
  <2>1. hidden' = hidden
    BY <1>5 DEF CallConnect
  <2>2. CASE UNCHANGED <<link, idle, signals>>
    BY <1>1, <2>1, <2>2
  <2>3. CASE link' # None /\ idle' = FALSE
    BY <2>3 DEF Told
  <2>4. CASE link' = None /\ signals' = signals /\ (link = None \/ idle)
    BY <1>0, <2>1, <2>4 DEF Told, Forgets
  <2>5. ASSUME NEW r \in On(at, Head(calls).port),
               link' = [radio |-> r, port |-> Head(calls).port], idle' = FALSE
        PROVE  Told'
    <3>1. Head(calls).port \in Ports /\ r \in Radios
      BY <1>5, CallFacts, CallShapes DEF CallConnect, On, DeviceType
    <3>2. link' \in Links
      BY <2>5, <3>1 DEF Links
    <3> QED BY <2>3, <2>5, <3>2, NoneAssumption
  <2> QED BY <1>5, <2>2, <2>4, <2>5 DEF CallConnect
<1>6. CASE CallScan
  <2>1. link' = link /\ hidden' = (hidden \/ link # None)
        /\ signals' = Append(signals, [kind |-> "scanning"])
    BY <1>6 DEF CallScan
  <2> DEFINE s == [kind |-> "scanning"]
  <2>2. s \in Signals /\ s.kind # "snapshot"
    BY SignalConstructors
  <2>3. signals' = Append(signals, s)
    BY <2>1
  <2> HIDE DEF s
  <2>4. Forgets(signals, win) => Forgets(signals', win)
    BY <1>0, <2>2, <2>3, ForgetsMore
  <2> QED BY <1>0, <2>1, <2>4 DEF Told
<1>7. CASE CallSave \/ CallRefresh \/ CallReset
  <2>1. UNCHANGED <<link, idle, hidden>> /\ (~Connected => signals' = signals)
    BY <1>7 DEF CallSave, CallRefresh, CallReset
  <2> QED BY <1>1, <1>2, <2>1 DEF Connected, Told
<1>8. CASE CallBackup
  <2>1. UNCHANGED <<link, idle, hidden>>
        /\ \E ok \in BOOLEAN: signals' = Append(signals, Profile("backup", ok))
    BY <1>8 DEF CallBackup
  <2> QED BY <1>3, <2>1
<1>9. CASE CallRestore
  <2>1. UNCHANGED <<link, idle, hidden>>
        /\ (signals' = signals \/ signals' = Append(signals, Profile("restore", FALSE)))
    BY <1>9 DEF CallRestore
  <2> QED BY <1>1, <1>3, <2>1
<1>10. CASE RestoreStep
  <2>1. /\ UNCHANGED <<link, idle, hidden>>
        /\ link = None => signals' = Append(signals, Profile("restore", FALSE))
    BY <1>10 DEF RestoreStep
  <2> QED BY <1>2, <1>3, <2>1
<1> QED BY <1>4, <1>5, <1>6, <1>7, <1>8, <1>9, <1>10 DEF Worker

LEMMA ToldNext ==
    ASSUME DeviceInv, Told, [Next]_vars
    PROVE  Told'
<1>0. DeviceType /\ signals \in Seq(Signals)
  BY DEF DeviceInv, DeviceType
<1>1. CASE Worker
  BY <1>0, <1>1, WorkerTells
<1>2. CASE Loses
  <2>1. /\ link' = None /\ idle' = FALSE /\ UNCHANGED win
        /\ signals' = Append(signals, [kind |-> "down"])
    BY <1>2 DEF Loses
  <2>2. Forgets(signals', win)
    BY <1>0, <2>1, ForgetsDown
  <2>3. Forgets(signals', win')
    BY <2>1, <2>2
  <2> QED BY <2>1, <2>3 DEF Told
<1>3. CASE Deliver
  <2>1. UNCHANGED <<link, idle, hidden>>
    BY <1>0, <1>3, DeliverShape
  <2>2. CASE signals' = signals /\ win'.snap = win.snap
    BY <2>1, <2>2 DEF Told, Forgets
  <2>3. CASE /\ signals # <<>> /\ signals' = Tail(signals)
             /\ win'.snap = IF Head(signals).kind = "snapshot" THEN Head(signals)
                            ELSE IF Head(signals).kind = "down" THEN None ELSE win.snap
    <3>1. Forgets(signals, win) => Forgets(signals', win')
      BY <1>0, <2>3, ForgetsLess
    <3> QED BY <2>1, <3>1 DEF Told
  <2> QED BY <1>0, <1>3, <2>2, <2>3, DeliverShape
<1>4. CASE ~Worker /\ ~Deliver /\ ~Loses
  BY <1>0, <1>4, OthersKeep DEF Told, Forgets
<1> QED BY <1>1, <1>2, <1>3, <1>4

Pending == \E op \in Ops: win.pending[op] # None
Asked == \E c \in In(calls): c.kind = "disconnect"
Downs == \E s \in In(signals): s.kind = "down"
Releasing == (link # None /\ Asked) \/ Downs \/ hidden
Scheduled == \E t \in In(timers): t.op \in Ops
Queued == \E j \in In(jobs): j.op \in Ops
Reported == \E r \in In(results): r.kind = "completed" /\ r.op \in Ops
Owed ==
    win.flashPort # None =>
        (Pending /\ Releasing) \/ Scheduled \/ Queued \/ tool # None \/ Reported

LEMMA OwedIs == Owed => PortIsOwed
BY DEF Owed, PortIsOwed, Pending, Releasing, Asked, Downs, Scheduled, Queued, Reported, In

\* A release stays under way while the connection does and no signal is lost.
LEMMA ReleasingKept ==
    ASSUME UNCHANGED <<link, hidden>>, Asked => Asked', Downs => Downs', Releasing
    PROVE  Releasing'
BY DEF Releasing

LEMMA OwedKept ==
    ASSUME Owed, win'.flashPort # None => win'.flashPort = win.flashPort,
           Pending /\ Releasing => Pending' /\ Releasing',
           Scheduled => Scheduled', Queued => Queued' \/ tool' # None \/ Reported',
           tool # None => tool' # None \/ Reported', Reported => Reported'
    PROVE  Owed'
BY DEF Owed

\* The worker: a disconnect done is a signal on its way, unless a scan hid the
\* connection.
LEMMA WorkerOwed ==
    ASSUME DeviceInv, Told, Owed, Worker
    PROVE  Owed'
<1>0. DeviceType /\ calls \in Seq(Calls) /\ signals \in Seq(Signals)
  BY DEF DeviceInv, DeviceType
<1>1. WorkerSame
  BY <1>0, WorkerKeepsRest
<1>2. \A e: In(Append(signals, e)) = In(signals) \cup {e}
  BY <1>0, InAppend
<1>3. In(signals) \subseteq In(signals')
  <2>1. CASE RestoreStep
    <3>1. signals' = signals \/ (\E e: signals' = Append(signals, e))
          \/ (\E a, b \in Signals: signals' = signals \o <<a, b>>)
      <4> DEFINE a == Profile("restore", TRUE)
                 b == Snapshot(link, copy', FALSE)
                 c == Profile("restore", FALSE)
      <4>1. \/ link # None /\ copy' = WriteSection(copy, file, Head(slot))
               /\ signals' = IF slot' = <<>> THEN signals \o <<a, b>> ELSE signals
            \/ signals' = Append(signals, c)
        BY <2>1 DEF RestoreStep
      <4>2. CASE signals' = Append(signals, c)
        BY <4>2
      <4>3. CASE link # None /\ signals' = IF slot' = <<>> THEN signals \o <<a, b>> ELSE signals
        <5>1. DeviceType'
          BY DeviceNext, <2>1 DEF DeviceInv, Next, Worker
        <5>2. copy' \in Configs /\ link \in Links
          BY <1>0, <4>3, <5>1 DEF DeviceType
        <5>3. a \in Signals /\ b \in Signals
          BY <5>2, SignalConstructors
        <5> HIDE DEF a, b
        <5> QED BY <4>3, <5>3
      <4> QED BY <4>1, <4>2, <4>3
    <3>2. ASSUME NEW a \in Signals, NEW b \in Signals
          PROVE  In(signals) \subseteq In(signals \o <<a, b>>)
      <4>1. <<a, b>> \in Seq(Signals)
        OBVIOUS
      <4> QED BY <1>0, <4>1, InConcat
    <3> QED BY <1>2, <3>1, <3>2
  <2>2. CASE ~RestoreStep
    <3>1. signals' = signals \/ \E e: signals' = Append(signals, e)
      BY <2>2 DEF Worker, CallDisconnect, CallConnect, CallScan, CallSave, CallRefresh, CallReset,
                  CallBackup, CallRestore
    <3> QED BY <1>2, <3>1
  <2> QED BY <2>1, <2>2
<1>a. Downs => Downs'
  BY <1>3 DEF Downs
<1>4. ASSUME NEW kind, IsCall(kind), kind # "disconnect" PROVE Asked => Asked'
  BY <1>0, <1>4, CallFacts, InTail DEF Asked
<1>5. Releasing => Releasing'
  <2> SUFFICES ASSUME Releasing PROVE Releasing'
    OBVIOUS
  <2>1. CASE RestoreStep
    <3>1. UNCHANGED <<link, hidden, calls>>
      BY <2>1 DEF RestoreStep
    <3> QED BY <1>a, <3>1, ReleasingKept DEF Asked
  <2>2. CASE CallSave \/ CallRefresh \/ CallReset \/ CallBackup \/ CallRestore
    <3>1. UNCHANGED <<link, hidden>> /\ \E k: k # "disconnect" /\ IsCall(k)
      BY <2>2 DEF CallSave, CallRefresh, CallReset, CallBackup, CallRestore
    <3> QED BY <1>a, <1>4, <3>1, ReleasingKept
  <2>3. CASE CallScan
    <3>1. link' = link /\ hidden' = (hidden \/ link # None)
      BY <2>3 DEF CallScan
    <3> QED BY <1>a, <3>1 DEF Releasing
  <2>4. CASE CallConnect
    <3>1. IsCall("connect") /\ hidden' = hidden /\ (link' = link \/ link = None \/ idle)
      BY <2>4 DEF CallConnect
    <3>2. Asked => Asked'
      BY <1>4, <3>1
    <3> QED BY <1>a, <3>1, <3>2 DEF Releasing, Told
  <2>5. CASE CallDisconnect
    <3>1. CASE idle
      <4>1. UNCHANGED <<link, hidden>>
        BY <2>5, <3>1 DEF CallDisconnect
      <4> QED BY <1>a, <3>1, <4>1 DEF Releasing, Told
    <3>2. CASE ~idle
      <4>1. [kind |-> "down"] \in In(signals')
        BY <1>2, <2>5, <3>2 DEF CallDisconnect
      <4> QED BY <4>1 DEF Releasing, Downs
    <3> QED BY <3>1, <3>2
  <2> QED BY <2>1, <2>2, <2>3, <2>4, <2>5 DEF Worker
<1> QED BY <1>1, <1>5, OwedKept DEF WorkerSame, firmware, Pending, Scheduled, Queued, Reported

\* The firmware thread: a job becomes an operation or a result, an operation
\* goes on or becomes a result.
LEMMA FirmwareOwed ==
    ASSUME DeviceInv, Owed, FirmwareThread
    PROVE  Owed'
<1>0. DeviceType /\ results \in Seq(Results) /\ jobs \in Seq(Jobs) /\ tool \in Tools \cup {None}
  BY DEF DeviceInv, DeviceType
<1>1. \A e: In(Append(results, e)) = In(results) \cup {e}
  BY <1>0, InAppend
<1>2. ASSUME NEW op \in Ops, NEW ok \in BOOLEAN, results' = Append(results, Completed(op, ok))
      PROVE  Reported'
  <2> DEFINE e == Completed(op, ok)
  <2>1. e.kind = "completed" /\ e.op = op
    BY DEF Completed
  <2>2. results' = Append(results, e)
    BY <1>2
  <2> HIDE DEF e
  <2>3. e \in In(results')
    BY <1>1, <2>2
  <2> QED BY <2>1, <2>3 DEF Reported
<1>3. ASSUME NEW ops, IsJob(ops)
      PROVE  /\ In(jobs) = {Head(jobs)} \cup In(jobs') /\ Head(jobs).op \in ops /\ tool = None
             /\ UNCHANGED <<link, hidden, calls, signals, win, timers>>
  BY <1>0, <1>3, JobFacts, InTail DEF FirmwareSame
<1>4. CASE Discover \/ Prepare
  <2>1. \E ops: IsJob(ops) /\ ops \cap Ops = {}
    <3>1. \A o \in {"discover", "prepare"}: {o} \cap Ops = {}
      BY DEF Ops
    <3> QED BY <1>4, <3>1 DEF Discover, Prepare
  <2>2. Queued => Queued'
    BY <1>3, <2>1 DEF Queued
  <2>3. \E e: results' = Append(results, e)
    BY <1>4 DEF Discover, Prepare
  <2>4. Reported => Reported'
    BY <1>1, <2>3 DEF Reported
  <2>5. UNCHANGED <<tool, link, hidden, calls, signals, win, timers>>
    BY <1>3, <1>4, <2>1 DEF Discover, Prepare
  <2> QED BY <2>2, <2>4, <2>5, ReleasingKept, OwedKept DEF Pending, Asked, Downs, Scheduled
<1>5. CASE StartOp
  <2>1. IsJob(Ops) /\ Head(jobs).op \in Ops
    BY <1>3, <1>5 DEF StartOp
  <2>2. tool' # None \/ Reported'
    <3>1. CASE results' = Append(results, Completed(Head(jobs).op, FALSE))
      BY <1>2, <2>1, <3>1
    <3> QED BY <1>5, <3>1, Started DEF DeviceInv
  <2> QED BY <1>3, <2>1, <2>2 DEF Owed
<1>6. CASE IdentifyChip \/ RunTool
  <2>1. tool \in Tools /\ tool.op \in Ops /\ tool # None
    BY <1>0, <1>6 DEF IdentifyChip, RunTool, Tools, Runs
  <2>3. ASSUME NEW ok \in BOOLEAN, Ends(ok) PROVE Reported'
    BY <1>2, <2>1, <2>3 DEF Ends
  <2>4. Ends(TRUE) \/ Ends(FALSE) \/ tool' # None
    BY <1>6, Identified, Ran DEF DeviceInv
  <2> QED BY <2>3, <2>4 DEF Owed
<1> QED BY <1>4, <1>5, <1>6 DEF FirmwareThread

\* The window: it starts what waits when the port is free, and gives the port
\* back with the result.
LEMMA DeliverOwed ==
    ASSUME DeviceInv, Owed, Deliver
    PROVE  Owed'
<1>0. /\ DeviceType /\ signals \in Seq(Signals) /\ results \in Seq(Results)
      /\ timers \in Seq(Timers) /\ win \in Windows /\ WindowOk(win)
  BY DEF DeviceInv, DeviceType
<1>1. ASSUME NEW kind, IsSignal(kind)
      PROVE  /\ In(signals) = {Head(signals)} \cup In(signals') /\ Head(signals).kind = kind
             /\ UNCHANGED <<link, hidden, calls, results, jobs, tool>>
  BY <1>0, <1>1, SignalFacts, InTail DEF WindowSame
<1>2. ASSUME NEW kind, IsResult(kind)
      PROVE  /\ In(results) = {Head(results)} \cup In(results') /\ Head(results).kind = kind
             /\ UNCHANGED <<link, hidden, calls, signals, timers, jobs, tool>>
  BY <1>0, <1>2, ResultFacts, InTail DEF WindowSame
<1>3. CASE OnSnapshot \/ OnScanning \/ OnProfile
  <2>1. (\E k: k # "down" /\ IsSignal(k)) /\ UNCHANGED timers
    BY <1>3 DEF OnSnapshot, OnScanning, OnProfile
  <2>2. Releasing => Releasing'
    BY <1>1, <2>1, ReleasingKept DEF Asked, Downs
  <2>3. win'.pending = win.pending /\ win'.flashPort = win.flashPort
    <3>1. CASE OnSnapshot
      <4>1. Head(signals) \in Snapshots /\ win' = SetSnapshot(win, Head(signals))
        BY <1>0, <3>1, SignalFacts, SignalShapes DEF OnSnapshot
      <4> QED BY <1>0, <4>1, SnapshotFacts
    <3>2. CASE OnScanning \/ OnProfile
      BY <1>0, <3>2 DEF OnScanning, OnProfile, Windows
    <3> QED BY <1>3, <3>1, <3>2
  <2> QED BY <1>1, <2>1, <2>2, <2>3, OwedKept DEF Pending, Scheduled, Queued, Reported
<1>4. CASE OnDown
  <2>1. UNCHANGED <<jobs, tool, results>>
    BY <1>0, <1>1, <1>4, DownSteps
  <2>2. Down.pending = win.pending
    BY <1>0, DownFacts
  <2>3. Pending => \A op \in Waiting(Down): op \in Ops
    BY <2>2 DEF Pending, Waiting, Ops
  <2>4. Pending => Waiting(Down) # {}
    BY <2>2 DEF Pending, Waiting, Ops
  <2>5. CASE Waiting(Down) = {} /\ win' = Down /\ timers' = timers
    <3>1. ~Pending /\ win'.flashPort = win.flashPort
      BY <1>0, <2>4, <2>5, DownFacts
    <3> QED BY <2>1, <2>5, <3>1 DEF Owed, Scheduled, Queued, Reported
  <2>6. ASSUME NEW op \in Waiting(Down), win' = [Down EXCEPT !.pending[op] = None],
               timers' = Append(timers, Down.pending[op])
        PROVE  Owed'
    <3>1. /\ win'.flashPort = win.flashPort /\ win.pending[op].op = op
          /\ Down.pending[op] = win.pending[op]
      BY <1>0, <2>6, StartsWaiting
    <3>2. In(timers') = In(timers) \cup {win.pending[op]}
      BY <1>0, <2>6, <3>1, InAppend
    <3>3. Scheduled => Scheduled'
      BY <3>2 DEF Scheduled
    <3>4. Pending => Scheduled'
      BY <2>3, <3>1, <3>2 DEF Scheduled
    <3> QED BY <2>1, <3>1, <3>3, <3>4 DEF Owed, Queued, Reported
  <2> QED BY <1>0, <1>4, <2>5, <2>6, DownSteps
<1>5. CASE OnRelease \/ OnBundle
  <2>1. \E k: k # "completed" /\ IsResult(k)
    BY <1>5 DEF OnRelease, OnBundle
  <2>2. Reported => Reported'
    BY <1>2, <2>1 DEF Reported
  <2>3. win'.pending = win.pending /\ win'.flashPort = win.flashPort
    BY <1>0, <1>5 DEF OnRelease, OnBundle, Windows
  <2> QED BY <1>2, <2>1, <2>2, <2>3, ReleasingKept, OwedKept
          DEF Pending, Asked, Downs, Scheduled, Queued
<1>6. CASE OnCompleted
  <2>1. /\ IsResult("completed") /\ win'.pending = win.pending
        /\ Head(results).op \in Ops => win'.flashPort = None
        /\ win'.flashPort # None => win'.flashPort = win.flashPort
    BY <1>0, <1>6, CompletedSteps
  <2>2. CASE Head(results).op \in Ops
    BY <2>1, <2>2 DEF Owed
  <2>3. CASE Head(results).op \notin Ops
    <3>1. Reported => Reported'
      BY <1>2, <2>1, <2>3 DEF Reported
    <3> QED BY <1>2, <2>1, <3>1, ReleasingKept, OwedKept
            DEF Pending, Asked, Downs, Scheduled, Queued
  <2> QED BY <2>2, <2>3
<1> QED BY <1>3, <1>4, <1>5, <1>6 DEF Deliver

LEMMA TimersOwed ==
    ASSUME DeviceInv, Owed, StartTimer \/ DialTimer
    PROVE  Owed'
<1>0. /\ DeviceType /\ calls \in Seq(Calls) /\ timers \in Seq(Timers) /\ jobs \in Seq(Jobs)
  BY DEF DeviceInv, DeviceType
<1>1. /\ \A e: In(Append(calls, e)) = In(calls) \cup {e}
      /\ \A e: In(Append(jobs, e)) = In(jobs) \cup {e}
  BY <1>0, InAppend
<1>2. CASE StartTimer
  <2>1. In(timers) = {Head(timers)} \cup In(timers') /\ UNCHANGED <<link, hidden, win, signals, results, tool>>
    BY <1>0, <1>2, TimerFacts, InTail DEF WindowSame
  <2>2. CASE Head(timers).op = "console"
    <3>1. UNCHANGED jobs /\ (calls' = calls \/ \E e: calls' = Append(calls, e))
      BY <1>0, <1>2, <2>2, TimerFacts
    <3>2. Releasing => Releasing'
      BY <1>1, <2>1, <3>1, ReleasingKept DEF Asked, Downs
    <3>3. Scheduled => Scheduled'
      BY <2>1, <2>2 DEF Scheduled, Ops
    <3> QED BY <2>1, <3>1, <3>2, <3>3, OwedKept DEF Pending, Queued, Reported
  <2>3. CASE Head(timers).op # "console"
    <3> DEFINE j == [op |-> Head(timers).op, full |-> Head(timers).full,
                     radio |-> Head(timers).radio, named |-> Head(timers).named,
                     serial |-> Head(timers).serial, bundle |-> Head(timers).bundle, port |-> win.flashPort]
    <3>1. jobs' = Append(jobs, j)
      BY <1>0, <1>2, <2>3, TimerFacts
    <3>2. j.op \in Ops
      BY <1>0, <1>2, <2>3, TimerFacts, TimerShapes
    <3> HIDE DEF j
    <3>3. Queued'
      BY <1>1, <3>1, <3>2 DEF Queued
    <3> QED BY <3>3 DEF Owed
  <2> QED BY <2>2, <2>3
<1>3. CASE DialTimer
  <2>1. /\ UNCHANGED <<link, hidden, win, signals, results, tool, timers, jobs>>
        /\ \E e: calls' = Append(calls, e)
    BY <1>3 DEF DialTimer, firmware, workerRest
  <2>2. Releasing => Releasing'
    BY <1>1, <2>1, ReleasingKept DEF Asked, Downs
  <2> QED BY <2>1, <2>2, OwedKept DEF Pending, Scheduled, Queued, Reported
<1> QED BY <1>2, <1>3

LEMMA UserOwed ==
    ASSUME DeviceInv, Told, Owed, User
    PROVE  Owed'
<1>0. /\ DeviceType /\ calls \in Seq(Calls) /\ jobs \in Seq(Jobs) /\ win \in Windows
  BY DEF DeviceInv, DeviceType
<1>1. /\ \A e: In(Append(calls, e)) = In(calls) \cup {e}
      /\ \A e: In(Append(jobs, e)) = In(jobs) \cup {e}
  BY <1>0, InAppend
<1>2. ASSUME NEW c, UserCall(c)
      PROVE  /\ UNCHANGED <<link, hidden, signals, results, tool, timers, jobs>>
             /\ In(calls') = In(calls) \cup {c}
  BY <1>1, <1>2 DEF UserCall, UserRest, workerRest, firmware
<1>3. ASSUME NEW c, UserCall(c), win'.flashPort = win.flashPort,
             \A op \in Ops: win'.pending[op] = win.pending[op]
      PROVE  Owed'
  <2>1. Releasing => Releasing'
    BY <1>2, <1>3, ReleasingKept DEF Asked, Downs
  <2>2. Pending => Pending'
    BY <1>3 DEF Pending
  <2> QED BY <1>2, <1>3, <2>1, <2>2, OwedKept DEF Scheduled, Queued, Reported
<1>a. ASSUME UserRest, calls' = calls, win'.flashPort = win.flashPort,
             \A op \in Ops: win'.pending[op] = win.pending[op]
      PROVE  Owed'
  <2>1. UNCHANGED <<link, hidden, calls, signals, results, tool, timers, jobs>>
    BY <1>a DEF UserRest, workerRest, firmware
  <2>2. Releasing => Releasing'
    BY <2>1, ReleasingKept DEF Asked, Downs
  <2> QED BY <1>a, <2>1, <2>2, OwedKept DEF Pending, Scheduled, Queued, Reported
<1>4. CASE FirmwareRequest
  <2>1. CASE win.snap # None /\ UserCall([kind |-> "disconnect"])
             /\ \E op \in Ops: win'.pending[op] # None
    <3>1. [kind |-> "disconnect"] \in In(calls') /\ UNCHANGED <<link, hidden, signals>>
      BY <1>2, <2>1
    <3>2. Asked' /\ Pending'
      BY <2>1, <3>1 DEF Asked, Pending
    <3>3. link = None /\ ~hidden => Downs
      BY <2>1 DEF Told, Forgets, Downs, In
    <3>4. Releasing'
      BY <3>1, <3>2, <3>3 DEF Releasing, Downs
    <3> QED BY <3>2, <3>4 DEF Owed
  <2>2. CASE UserRest /\ calls' = calls /\ win'.flashPort = win.flashPort
             /\ win'.pending = win.pending
    BY <1>a, <2>2
  <2> QED BY <1>0, <1>4, <2>1, <2>2, RequestFacts
<1>5. CASE AskConsole
  BY <1>0, <1>3, <1>a, <1>5, ConsoleAsked
<1>b. CASE DialogStep
  BY <1>0, <1>a, <1>b, DialogFacts
<1>6. CASE AskBackupProfile \/ AskRestoreProfile
  <2>1. (\E c: UserCall(c)) /\ (\E g: win' = [win EXCEPT !.on = @ \ g])
    BY <1>6 DEF AskBackupProfile, AskRestoreProfile
  <2>2. win'.flashPort = win.flashPort /\ win'.pending = win.pending
    BY <1>0, <2>1 DEF Windows
  <2> QED BY <1>3, <2>1, <2>2
<1>7. CASE \/ \E p \in Ports: AskConnect(p)
           \/ AskScan \/ AskDisconnect
           \/ \E s \in Sections: AskSave(s)
           \/ \E k \in {"refresh", "reset"}: AskPlain(k)
  <2>1. win' = win /\ \E c: UserCall(c)
    BY <1>7 DEF AskConnect, AskScan, AskDisconnect, AskSave, AskPlain
  <2> QED BY <1>3, <2>1
<1>8. CASE AskPrepare \/ \E pre \in Prereleases: AskDiscover(pre)
  <2>1. (\E j: UserJob(j)) /\ (\E g: win' = [win EXCEPT !.on = @ \ g])
    BY <1>8 DEF AskPrepare, AskDiscover
  <2>2. win'.flashPort = win.flashPort /\ win'.pending = win.pending
    BY <1>0, <2>1 DEF Windows
  <2>3. /\ UNCHANGED <<link, hidden, calls, signals, results, timers, tool>>
        /\ In(jobs) \subseteq In(jobs')
    BY <1>1, <2>1 DEF UserJob, worker
  <2>4. Queued => Queued'
    BY <2>3 DEF Queued
  <2> QED BY <2>2, <2>3, <2>4, ReleasingKept, OwedKept
          DEF Pending, Asked, Downs, Scheduled, Reported
<1>9. CASE StopConsole
  <2>1. UNCHANGED <<link, hidden, calls, signals, results, win, timers, jobs, tool>>
    BY <1>9 DEF StopConsole, worker, firmware
  <2> QED BY <2>1, ReleasingKept, OwedKept
          DEF Pending, Asked, Downs, Scheduled, Queued, Reported
<1> QED BY <1>4, <1>b, <1>5, <1>6, <1>7, <1>8, <1>9 DEF User, FirmwareRequest, DialogStep

\* The port _release_for_firmware took is always on its way back: whatever
\* holds it ends in the completed signal that _on_firmware_completed reads,
\* unless scan_ble hid the connection that was to give the port up.
THEOREM PortComesBack == Spec => []PortIsOwed
<1>1. Init => Owed /\ Told
  <2> SUFFICES ASSUME Init PROVE Owed /\ Told
    OBVIOUS
  <2>1. win.flashPort = None /\ win.snap = None /\ link = None /\ signals = <<>>
    BY DEF Init
  <2> QED BY <2>1 DEF Owed, Told, Forgets
<1>2. DeviceInv /\ Told /\ Owed /\ [Next]_vars => Told' /\ Owed'
  <2> SUFFICES ASSUME DeviceInv, Told, Owed, [Next]_vars PROVE Owed'
    BY ToldNext
  <2>1. CASE UNCHANGED vars \/ \E r \in Radios: (\E p \in Ports: Plug(r, p)) \/ Unplug(r)
    <3>1. UNCHANGED <<link, hidden, calls, signals, results, win, timers, jobs, tool>>
      BY <2>1 DEF vars, Plug, Unplug, worker, firmware
    <3> QED BY <3>1, ReleasingKept, OwedKept DEF Pending, Asked, Downs, Scheduled, Queued, Reported
  <2>2. CASE Loses
    <3>1. UNCHANGED <<results, win, timers, jobs, tool>>
          /\ signals' = Append(signals, [kind |-> "down"])
      BY <2>2 DEF Loses, firmware
    <3>2. signals \in Seq(Signals)
      BY DEF DeviceInv, DeviceType
    <3>3. [kind |-> "down"] \in In(signals')
      BY <3>1, <3>2, InAppend
    <3>4. Releasing'
      BY <3>3 DEF Releasing, Downs
    <3> QED BY <3>1, <3>4, OwedKept DEF Pending, Scheduled, Queued, Reported
  <2> QED BY <2>1, <2>2, WorkerOwed, FirmwareOwed, DeliverOwed, TimersOwed, UserOwed DEF Next
<1> QED BY <1>1, <1>2, DeviceIsTyped, OwedIs, PTL DEF Spec

-----------------------------------------------------------------------------
(* The page                                                                *)

\* The last snapshot on its way, or else the one the page has, shows c.
Shows(q, w, c) ==
    /\ \A i \in 1..Len(q):
         q[i].kind = "snapshot" /\ (\A j \in i + 1..Len(q): q[j].kind # "snapshot")
            => q[i].shown = Shown(c)
    /\ (\A i \in 1..Len(q): q[i].kind # "snapshot") /\ w.snap # None => w.snap.shown = Shown(c)

\* Except while a restore writes or after a write failed, the page follows
\* the library's copy.
Follows == link # None /\ ~drift /\ slot = <<>> => Shows(signals, win, copy)

LEMMA ShowsMore ==
    ASSUME NEW q \in Seq(Signals), NEW s \in Signals, s.kind # "snapshot", NEW w, NEW c,
           Shows(q, w, c)
    PROVE  Shows(Append(q, s), w, c)
<1> DEFINE n == Len(q)
           a == Append(q, s)
<1>1. n \in Nat /\ Len(a) = n + 1 /\ a[n + 1] = s /\ \A i \in 1..n: a[i] = q[i]
  OBVIOUS
<1> HIDE DEF a
<1>2. ASSUME NEW i \in 1..Len(a), a[i].kind = "snapshot",
             \A j \in i + 1..Len(a): a[j].kind # "snapshot"
      PROVE  a[i].shown = Shown(c)
  <2>1. i \in 1..n /\ a[i] = q[i]
    BY <1>1, <1>2
  <2>2. \A j \in i + 1..n: q[j].kind # "snapshot"
    BY <1>1, <1>2, <2>1
  <2> QED BY <1>2, <2>1, <2>2 DEF Shows
<1>3. ASSUME \A i \in 1..Len(a): a[i].kind # "snapshot", w.snap # None
      PROVE  w.snap.shown = Shown(c)
  <2>1. \A i \in 1..n: q[i].kind # "snapshot"
    BY <1>1, <1>3
  <2> QED BY <1>3, <2>1 DEF Shows
<1>4. Shows(a, w, c)
  BY <1>2, <1>3 DEF Shows
<1> QED BY <1>4 DEF a

LEMMA ShowsNew ==
    ASSUME NEW q \in Seq(Signals), NEW s \in Signals, s.kind = "snapshot", NEW w, NEW c,
           s.shown = Shown(c)
    PROVE  Shows(Append(q, s), w, c)
<1> DEFINE n == Len(q)
           a == Append(q, s)
<1>1. n \in Nat /\ Len(a) = n + 1 /\ a[n + 1] = s
  OBVIOUS
<1> HIDE DEF a
<1>2. ASSUME NEW i \in 1..Len(a), \A j \in i + 1..Len(a): a[j].kind # "snapshot"
      PROVE  a[i].shown = Shown(c)
  <2>1. i = n + 1
    BY <1>1, <1>2
  <2> QED BY <1>1, <2>1
<1>3. Shows(a, w, c)
  BY <1>1, <1>2 DEF Shows
<1> QED BY <1>3 DEF a

LEMMA ShowsTwo ==
    ASSUME NEW q \in Seq(Signals), NEW a \in Signals, NEW b \in Signals, b.kind = "snapshot",
           NEW w, NEW c, b.shown = Shown(c)
    PROVE  Shows(q \o <<a, b>>, w, c)
<1> DEFINE n == Len(q)
           x == q \o <<a, b>>
<1>1. n \in Nat /\ Len(x) = n + 2 /\ x[n + 2] = b
  OBVIOUS
<1> HIDE DEF x
<1>2. ASSUME NEW i \in 1..Len(x), \A j \in i + 1..Len(x): x[j].kind # "snapshot"
      PROVE  x[i].shown = Shown(c)
  <2>1. i = n + 2
    BY <1>1, <1>2
  <2> QED BY <1>1, <2>1
<1>3. Shows(x, w, c)
  BY <1>1, <1>2 DEF Shows
<1> QED BY <1>3 DEF x

\* A signal delivered: a snapshot becomes the page's, another one leaves the
\* page's snapshot alone or takes it away.
LEMMA ShowsLess ==
    ASSUME NEW q \in Seq(Signals), q # <<>>, NEW w, NEW v, NEW c, Shows(q, w, c),
           IF Head(q).kind = "snapshot" THEN v.snap = Head(q) ELSE v.snap = w.snap \/ v.snap = None
    PROVE  Shows(Tail(q), v, c)
<1> DEFINE t == Tail(q)
           n == Len(q)
<1>1. n \in Nat /\ n >= 1 /\ Len(t) = n - 1 /\ Head(q) = q[1] /\ \A i \in 1..n - 1: t[i] = q[i + 1]
  OBVIOUS
<1> HIDE DEF t
<1>2. ASSUME NEW i \in 1..Len(t), t[i].kind = "snapshot",
             \A j \in i + 1..Len(t): t[j].kind # "snapshot"
      PROVE  t[i].shown = Shown(c)
  <2>1. i + 1 \in 1..n /\ t[i] = q[i + 1]
    BY <1>1
  <2>2. ASSUME NEW j \in (i + 1) + 1..n PROVE q[j].kind # "snapshot"
    <3>1. j - 1 \in i + 1..Len(t) /\ t[j - 1] = q[(j - 1) + 1] /\ (j - 1) + 1 = j
      BY <1>1
    <3> QED BY <1>2, <3>1
  <2> QED BY <1>2, <2>1, <2>2 DEF Shows
<1>3. ASSUME \A i \in 1..Len(t): t[i].kind # "snapshot", v.snap # None
      PROVE  v.snap.shown = Shown(c)
  <2>1. ASSUME NEW j \in 2..n PROVE q[j].kind # "snapshot"
    <3>1. j - 1 \in 1..Len(t) /\ t[j - 1] = q[(j - 1) + 1] /\ (j - 1) + 1 = j
      BY <1>1
    <3> QED BY <1>3, <3>1
  <2>2. CASE Head(q).kind = "snapshot"
    <3>1. 1 \in 1..n /\ 1 + 1 = 2
      BY <1>1
    <3>2. q[1].shown = Shown(c)
      BY <1>1, <2>1, <2>2, <3>1 DEF Shows
    <3> QED BY <1>1, <2>2, <3>2
  <2>3. CASE Head(q).kind # "snapshot"
    <3>1. \A i \in 1..n: q[i].kind # "snapshot"
      BY <1>1, <2>1, <2>3
    <3>2. v.snap = w.snap
      BY <1>3, <2>3
    <3> QED BY <1>3, <3>1, <3>2 DEF Shows
  <2> QED BY <2>2, <2>3
<1>4. Shows(t, v, c)
  BY <1>2, <1>3 DEF Shows
<1> QED BY <1>4 DEF t

LEMMA SnapshotShows ==
    ASSUME NEW l \in Links, NEW c \in Configs, NEW first \in BOOLEAN
    PROVE  /\ Snapshot(l, c, first) \in Signals /\ Snapshot(l, c, first).kind = "snapshot"
           /\ Snapshot(l, c, first).shown = Shown(c)
<1>1. Snapshot(l, c, first) \in Signals
  BY SignalConstructors
<1> QED BY <1>1 DEF Snapshot

LEMMA WorkerFollows ==
    ASSUME DeviceInv, Follows, Worker
    PROVE  Follows'
<1> SUFFICES ASSUME link' # None, ~drift', slot' = <<>>
             PROVE  Shows(signals', win, copy')
  <2>1. win' = win
    BY WorkerKeepsRest DEF DeviceInv, WorkerSame
  <2> QED BY <2>1 DEF Follows
<1>0. /\ DeviceType /\ signals \in Seq(Signals) /\ copy \in Configs /\ link \in Links \cup {None}
      /\ link' \in Links /\ copy' \in Configs /\ slot \in Seq(Sections)
  <2>1. DeviceType' /\ DeviceType
    BY DeviceNext DEF DeviceInv, Next
  <2> QED BY <2>1 DEF DeviceType
<1>1. ASSUME UNCHANGED <<link, drift, copy>>, slot = <<>> PROVE Shows(signals, win, copy')
  BY <1>1 DEF Follows
<1>2. ASSUME NEW l \in Links, NEW c \in Configs, NEW first \in BOOLEAN, copy' = c,
             signals' = Append(signals, Snapshot(l, c, first))
      PROVE  Shows(signals', win, copy')
  <2> DEFINE s == Snapshot(l, c, first)
  <2>1. s \in Signals /\ s.kind = "snapshot" /\ s.shown = Shown(c)
    BY SnapshotShows
  <2>2. signals' = Append(signals, s)
    BY <1>2
  <2> HIDE DEF s
  <2> QED BY <1>0, <1>2, <2>1, <2>2, ShowsNew
<1>3. ASSUME NEW op \in {"backup", "restore"}, NEW ok \in BOOLEAN, Shows(signals, win, copy'),
             signals' = Append(signals, Profile(op, ok))
      PROVE  Shows(signals', win, copy')
  <2> DEFINE s == Profile(op, ok)
  <2>1. s \in Signals /\ s.kind = "profile"
    BY SignalConstructors DEF Profile
  <2>2. signals' = Append(signals, s)
    BY <1>3
  <2> HIDE DEF s
  <2> QED BY <1>0, <1>3, <2>1, <2>2, ShowsMore
<1>a. CASE CallScan
  <2> DEFINE s == [kind |-> "scanning"]
  <2>1. slot = <<>> /\ UNCHANGED <<link, drift, copy>> /\ signals' = Append(signals, s)
    BY <1>a DEF CallScan, IsCall
  <2>2. s \in Signals /\ s.kind # "snapshot"
    BY SignalConstructors
  <2>3. Shows(signals, win, copy')
    BY <1>1, <2>1 DEF Follows
  <2> HIDE DEF s
  <2> QED BY <1>0, <2>1, <2>2, <2>3, ShowsMore
<1>4. CASE CallConnect
  <2>1. slot = <<>>
    BY <1>4 DEF CallConnect, IsCall
  <2>2. CASE UNCHANGED <<link, copy, drift, signals>>
    BY <1>1, <2>1, <2>2
  <2>3. CASE ~UNCHANGED <<link, copy, drift, signals>>
    <3>1. signals' = Append(signals, Snapshot(link', copy', TRUE))
      BY <1>4, <2>3 DEF CallConnect
    <3> QED BY <1>0, <1>2, <3>1
  <2> QED BY <2>2, <2>3
<1>5. CASE CallSave
  <2> DEFINE e == Edited(copy, Head(calls).section, Head(calls).changes)
  <2>1. slot = <<>> /\ link' = link /\ link # None
    BY <1>5 DEF CallSave, IsCall
  <2>2. CASE ~Connected
    BY <1>1, <1>5, <2>1, <2>2 DEF CallSave
  <2>3. CASE Connected
    <3>1. copy' = e /\ signals' = Append(signals, Snapshot(link, e, FALSE))
      BY <1>5, <2>3 DEF CallSave
    <3>2. e \in Configs /\ link \in Links
      BY <1>0, <2>1, <3>1
    <3>3. slot = <<>> /\ copy' \in Configs /\ copy' = e
      BY <2>1, <3>1, <3>2
    <3> HIDE DEF e
    <3>4. Shows(signals', win, copy')
      BY <1>2, <3>1, <3>2, <3>3
    <3> QED BY <2>1, <3>3, <3>4
  <2> QED BY <2>2, <2>3
<1>6. CASE CallRefresh
  <2>1. slot = <<>> /\ UNCHANGED <<link, copy, drift>>
        /\ (signals' = signals \/ signals' = Append(signals, Snapshot(link, copy, FALSE)))
    BY <1>6 DEF CallRefresh, IsCall
  <2>2. link \in Links
    BY <1>0, <2>1
  <2>5. copy \in Configs
    BY <1>0
  <2>3. CASE signals' = signals
    BY <1>1, <2>1, <2>3
  <2>4. CASE signals' = Append(signals, Snapshot(link, copy, FALSE))
    <3>1. copy' = copy /\ FALSE \in BOOLEAN
      BY <2>1
    <3>2. Shows(signals', win, copy')
      BY <1>2, <2>2, <2>4, <2>5, <3>1
    <3> QED BY <2>1, <3>2
  <2> QED BY <2>1, <2>3, <2>4
<1>7. CASE CallReset
  <2>1. slot = <<>> /\ UNCHANGED <<link, copy, signals>> /\ ~Connected /\ drift' = drift
    BY <1>7 DEF CallReset, IsCall
  <2> QED BY <1>1, <2>1
<1>8. CASE CallBackup
  <2>1. slot = <<>> /\ UNCHANGED <<link, drift, copy>>
        /\ \E ok \in BOOLEAN: signals' = Append(signals, Profile("backup", ok))
    BY <1>8 DEF CallBackup, IsCall
  <2> QED BY <1>1, <1>3, <2>1
<1>9. CASE CallRestore
  <2>1. slot = <<>> /\ UNCHANGED <<link, drift, copy>>
        /\ (slot' = RestorePlan \/ signals' = Append(signals, Profile("restore", FALSE)))
    BY <1>9 DEF CallRestore, IsCall
  <2>2. RestorePlan # <<>>
    BY DEF RestorePlan
  <2>3. signals' = Append(signals, Profile("restore", FALSE))
    BY <2>1, <2>2
  <2> QED BY <1>1, <1>3, <2>1, <2>3
<1>10. CASE RestoreStep
  <2> DEFINE a == Profile("restore", TRUE)
             b == Snapshot(link, copy', FALSE)
  <2>1. link' = link /\ link \in Links
    BY <1>0, <1>10 DEF RestoreStep
  <2>2. signals' = signals \o <<a, b>>
    BY <1>10, <2>1 DEF RestoreStep
  <2>3. a \in Signals /\ b \in Signals /\ b.kind = "snapshot" /\ b.shown = Shown(copy')
    BY <1>0, <2>1, SignalConstructors, SnapshotShows
  <2> HIDE DEF a, b
  <2> QED BY <1>0, <2>2, <2>3, ShowsTwo
<1>11. CASE CallDisconnect
  <2>1. slot = <<>> /\ UNCHANGED <<link, drift, copy, signals>>
    BY <1>11 DEF CallDisconnect, IsCall
  <2> QED BY <1>1, <2>1
<1> QED BY <1>a, <1>4, <1>5, <1>6, <1>7, <1>8, <1>9, <1>10, <1>11 DEF Worker

LEMMA DeliverFollows ==
    ASSUME DeviceInv, Follows, Deliver
    PROVE  Follows'
<1>0. DeviceType /\ signals \in Seq(Signals)
  BY DEF DeviceInv, DeviceType
<1>1. UNCHANGED <<link, drift, slot, copy>>
  BY <1>0, DeliverShape
<1>2. CASE signals' = signals /\ win'.snap = win.snap
  BY <1>1, <1>2 DEF Follows, Shows
<1>3. CASE /\ signals # <<>> /\ signals' = Tail(signals)
           /\ win'.snap = IF Head(signals).kind = "snapshot" THEN Head(signals)
                          ELSE IF Head(signals).kind = "down" THEN None ELSE win.snap
  <2>1. Shows(signals, win, copy) => Shows(Tail(signals), win', copy)
    BY <1>0, <1>3, ShowsLess
  <2> QED BY <1>1, <1>3, <2>1 DEF Follows
<1> QED BY <1>0, <1>2, <1>3, DeliverShape

LEMMA OthersFollow ==
    ASSUME DeviceInv, Follows, ~Worker, ~Deliver, ~Loses, [Next]_vars
    PROVE  Follows'
BY OthersKeep DEF DeviceInv, Follows, Shows

\* What set_snapshot last gave the page is what the radio holds, once every
\* signal is delivered: each edit of the copy is followed by a snapshot of it.
THEOREM PageIsCurrent == Spec => []PageShowsRadio
<1>1. Init => Follows
  BY DEF Init, Follows
<1>2. DeviceInv /\ Follows /\ [Next]_vars => Follows'
  <2> SUFFICES ASSUME DeviceInv, Follows, [Next]_vars PROVE Follows'
    OBVIOUS
  <2>1. CASE Loses
    BY <2>1 DEF Loses, Follows
  <2> QED BY <2>1, WorkerFollows, DeliverFollows, OthersFollow
<1>3. DeviceInv /\ Follows => PageShowsRadio
  <2> SUFFICES ASSUME DeviceInv, Follows, win.snap # None, link # None, ~drift, signals = <<>>,
                      slot = <<>>
               PROVE  win.snap.shown = Shown(config[link.radio])
    BY DEF PageShowsRadio
  <2>1. copy = config[link.radio] /\ Shows(signals, win, copy)
    BY DEF DeviceInv, InSync, Follows
  <2>2. win.snap.shown = Shown(copy)
    BY <2>1 DEF Shows
  <2> QED BY <2>1, <2>2
<1> QED BY <1>1, <1>2, <1>3, DeviceIsTyped, PTL DEF Spec
=============================================================================
