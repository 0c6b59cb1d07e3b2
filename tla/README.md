# thermalwriter in TLA+

thermalwriter is a daemon that renders layouts, streams and sensor readings to
the LCD panels of CPU coolers over USB, with a GUI, a tray and a command line
around it. This directory holds TLA+ models of the parts whose correctness
depends on the order in which things happen or on arithmetic at a boundary, the
TLC configurations that check them on small instances, and TLAPS proofs of the
properties that matter most for every instance. A file without a directory is in
the daemon's sources; `PROJECT.json` has the full paths.

- [The system](#the-system): components, state, interaction, what is hard
- [Modules](#modules): what models what, and what each model leaves out
- [Runs](#runs): what is checked, with which bounds
- [Fairness](#fairness)
- [Proofs](#proofs)
- [Where code and documentation disagree](#where-code-and-documentation-disagree)
- [What is not modelled](#what-is-not-modelled)
- [Plan](#plan)

## The system

| component | state it keeps | operations | talks to |
| --- | --- | --- | --- |
| Tick loop (`service/tick.rs`) | generation and source revision counters, pending and active connection, frame sources, cached background, fingerprints, retry time | drain revisions, build results, template, backgrounds; time a pending connection out; discover; poll sensors; render and send | mode listener (channels), transports, sensor hub |
| Mode listener (`main.rs`) | active mode, layout and variables, stream command, current canvas and background, Xvfb handle, its own revision counter | build sources for a connection; layout, stream and background changes | tick loop, D-Bus service, Xvfb manager |
| D-Bus service (`service/dbus.rs`) | mirror of the status and the configuration, saved tick rate, three locks | set layout, mode, background, variables, default, tick rate; reload; status and lists | mode listener, configuration file |
| Configuration (`config.rs`) | `config.toml` | validate, read-edit-write | D-Bus service, GUI |
| Discovery (`transport/discovery.rs`, `policy.rs`) | none | scan, select, open a display or a group of displays | transports |
| Transports (`transport/*_lcd.rs`, `bulk_usb.rs`, `null.rs`, `encode.rs`, `profile.rs`) | device handle, negotiated profile | handshake, adapt, rotate, encode and send a frame, close | tick loop, kernel |
| Device validation (`transport/validate_device`, `validation_report.rs`, `hid_report.rs`), service guard (`service/guard.rs`) | phases of a run, its report, whether the daemon ran | stop the daemon, negotiate, show cards, stream, reconnect, restart it, report | systemd, transports, the operator |
| Xvfb manager (`service/xvfb.rs`) | process handles, X display numbers | start a shell command or an argv, end both processes | mode listener |
| Preview frames (`service/frame_dump.rs`) | `last.jpg` | write after a frame of a stream, remove | tick loop, GUI |
| Renderers (`render`, `layout_engine`) | template or document, variables, background, history, media cache | place modules, resolve media, render, fingerprint | frame sources of the tick loop, GUI previews |
| Layout store (`layout_engine/persistence.rs`) | layout files | load, save with a fingerprint | GUI, daemon |
| Sensors (`sensor`) | providers with their back-off and counters, catalogue, history rings | poll, narrow the needed keys | tick loop, mode listener, renderers |
| GUI (`gui/src-tauri`, `gui/src`) | draft, fingerprint, revisions and flags of the composer; the stream tab | sequences of D-Bus calls and file edits | D-Bus service, layout store |
| Tray (`tray`) and command line | what the menu shows | the same calls | D-Bus service |

The heart is the pair of the first two rows. The tick loop is a thread that
owns the displays and the sources it renders from; the mode listener is a task
that builds sources, because building may start processes and read files. They
share nothing and talk through bounded channels, watches and one-shot
acknowledgements. A reconnect is a *generation*: the tick loop opens the
displays, asks the listener for sources of their canvases and commits the
connection when the matching result arrives, while D-Bus mode changes, each
with its own source *revision*, are under way.

What is hard:

- a result arrives for a connection that is gone, or after a later change; the
  listener reads the generation and the canvas, then awaits, then acts; the old
  stream process is killed by the listener while the tick loop renders from it;
- one of several displays, sources or backgrounds fails after others succeeded,
  and what succeeded must be undone;
- bounded channels and acknowledgements could make each side wait for the other;
- the tick loop skips frames it believes to be on the display;
- a display is known by its bus address, which is looked up again at every open,
  while displays come, go and share identities;
- three locks, one per purpose, order the calls of the service only in part, and
  nothing orders two processes on `config.toml` or a layout file;
- answers of GUI commands arrive after the draft they were asked for was left;
- an NVML call cannot be cancelled, and counters are read only while needed;
- framing, rotation and placement are computed in two places that must agree.

What makes the parts correct is stated by the properties in [Runs](#runs).
`PROJECT.json` lists the hazards at their lines, each with the property that
covers it or the reason why none does.

### How the models compose

`DeviceSessions` implements the abstract `DisplayGroup` (checked and proved):
there is no display, or a whole group with negotiated policies. That is what
`DisplayPipeline` takes a connection to be. `DisplayPipeline` in turn
implements the abstract `ModeControl` (checked and proved), which is all the
D-Bus calls rely on: one answer to each, accepted or refused, and the first
display agrees with it. `DisplayService` has the same promise as one `Listener`
step (`Install`, `Refuse`), and `StreamPreview` as its reconnect steps.
`FrameDelivery` is the `send` phase of the pipeline with the content of the
displays, `FrameWire` one `send` of it, byte for byte. `StreamPreview` extends
`XvfbLaunch`, `SensorHub` extends `NvidiaProvider`, `DeviceValidation` extends
`ValidationReport`, `FrameWire` extends `DeviceProfiles`: the second is a
component of its own, with operators or a launch that the first calls.

## Modules

| module | models | proofs |
| --- | --- | --- |
| `ModeControl`, `DisplayPipeline` | what a mode change promises its caller; tick loop and mode listener, with all their channels | `DisplayPipelineProofs` |
| `FrameDelivery` | dirty-frame skip and send loop | `FrameProofs` |
| `DeviceProfiles`, `FrameWire` | panel tables and wire angles; handshakes, and a frame from its canvas to the panel | `FrameProofs` |
| `DisplayGroup`, `DeviceSessions` | what discovery promises; scan, selection, opening, negotiating, writing, losing | `DeviceSessionsProofs` |
| `ValidationReport`, `DeviceValidation` | the report's checks and verdict; a validation run, its guard, the operator | `DeviceValidationProofs` |
| `DisplayService` | the D-Bus calls and their locks, `config.toml` with three writers | `DisplayServiceProofs` |
| `LayoutStudio` | the composer, its commands, saving and activating layouts | `GuiProofs` |
| `LayoutEngine` | validation and placement of typed documents, renderer and media cache | `LayoutEngineProofs` |
| `NvidiaProvider`, `SensorHub` | NVIDIA back-ends; the hub, the other providers, the needed keys | `SensorHubProofs` |
| `XvfbLaunch`, `StreamPreview` | launching a program; streams with the daemon, the stream tab and the tray | `GuiProofs` |

`MC*` modules give the constants their values and nothing else. Operators
marked "Faulty variant" are not part of a model: each changes one definition
the way a plausible slip would, and `PROJECT.json` ("mutants") names the
property that TLC then finds violated. Every property has one.

### DisplayPipeline

One iteration of `run_tick_loop` is a walk of `tpc` through its drains and
steps, in the order of the code: `revision`, `result`, `template`, `bgApply`,
`bgWatch`, `connect`, `send`. The listener and the D-Bus callers may act
between any two phases, and between any two messages of one drain. The listener
is in `select`, or somewhere between two awaits of a handler (`lpc`); `op` is
what that handler keeps on its stack across them: the change, the generation it
read, the source it built.

| code | model |
| --- | --- |
| `generation`, `source_revision`, `pending`, `active`, `frame_sources`, `cached_background` | `generation`, `tickRev`, `pending`, `active`, `sources`, `cachedBg` |
| `next_reconnect_at` | `retry`: `due` or still `waiting` |
| `generation_tx` | `published`, 0 while disconnected |
| `active_mode` with `active_layout` or the stream command | `lProg` |
| `active_xvfb_shell`, `active_xvfb_argv` | `lTracked`, `None` when neither is set |
| `current_display`, `current_background`, `xvfb_handle`, `source_revision` | `lDim`, `lBg`, `handle`, `lRev` |
| source channels, mode channel | `buildQ`, `resultQ`, `modeQ` |
| revision and background requests, which the listener awaits | its phases `revision` and `background`, answered in `ack` |
| `template_tx`, `background_tx` | `template`, `bgWatch`, `Seen` when read |
| `mode_change_lock`, `bg_change_lock` | `waiting`, one caller each |

A source is a record of what the properties tell apart: its program, template,
canvas, background and the number of its Xvfb process. Layouts differ by
renderer because only the SVG renderer takes a background and typed documents
ignore templates. Rasterising a background for a canvas may exceed the memory
budget: `Misfits` are the pairs that do.

The branch of the revision drain that refuses an older revision is not an
action: the listener is the only sender, and the theorem `RevisionsNeverDiverge`
says that the branch cannot be reached. Shell and argv streams have one action
each for take and commit, as the two handlers differ only in the command they
record. Generations saturate at 2^64 in the code and are unbounded here.
Templates are read from the file again by the listener; a file edited between
build and read is left out.

`ModeControl` sees of all this the listener's program and image, what the
caller under each lock waits for, and the program on the first display.
`Waiting` finds the calls in the channel or in `op`; `OnDisplay` is the program
of the first source while a connection is active. A new source is thus on the
display (`Present`) before its call is answered (`AcceptProgram`), which takes
place only while it is there, or while there is no display.

### FrameDelivery

One source (mirror and single mode) or one for each display, the fingerprint
recorded for each source and the content each display really shows. A pass of
the loop is one action chosen by its outcome: all displays served, rendering of
source `i` failed, or the send to display `k` timed out or was fatal; the
displays before `k` have their frames, the others do not. The iteration runs its
drains, polls the sensors if the poll is due, then sends. Only bulk displays
can time out and stay connected (`bulk_usb.rs`, `mark_disconnected_if_fatal`);
a HID display of type 2 is closed by any error. A display shows a frame exactly
when its send succeeded. Collisions of fingerprints are left out.

### DeviceProfiles and FrameWire

`DeviceProfiles` holds the tables of `profile.rs` over PM, SUB and FBL codes
(an FBL code outside the domain of `fbl_base` is one the program refuses) and
the wire angle of a panel and a rotation. `FrameWire` plugs in one device of a
family, runs its handshake with the retries of that family, and takes frames
from the canvas of the primary display over letterboxing, rotation and encoding
to the writes of the family: bulk chunks with their header and zero-length
packet, HID reports, SCSI blocks and LY records in bursts. A picture is where
its four corner pixels are, a payload is how long it is, a packet is how far it
has been written (`sent`); the panel is external and reads bytes by the framing
of its family (`panel`). Short and failing writes are the faults.

The daemon opens only square, pm58, pm128 and null displays for output. The
flows of the other families are those over injectable I/O which the repository
replays in its tests. Containment is computed exactly, where the code uses f64.

### DisplayGroup and DeviceSessions

`DisplayGroup` has two variables: the selection and the connected group. It is
replaced as a whole (`Connect`, `Disconnect`), and `Fits` says when a group
answers the selection: as listed, by identity, any one, or all in their order.

`DeviceSessions` walks through `connect_all` with one action per call into the
kernel: scan, open by address, correlate the hidraw node, claim, handshake,
read, authenticate, send in `Chunks`. The bus moves between any two of them:
displays are unplugged and plugged at other addresses, hidraw nodes appear
later and get the names of others. A display has an identity, a descriptor
shape (two of them exact) and a firmware, that is, the answer it will give;
displays may share the first two. `current` is the session being negotiated,
`opened` those that are, `claims` what the kernel has given to this process. A
failed step closes what was opened, in `Abandon`, and the tick loop tries
again.

### ValidationReport and DeviceValidation

`ValidationReport` are the operators on the report: twelve checks, evidence
read from the display, redaction, and `finalize_full_pass`. `DeviceValidation`
is the run of `validate-device`: inventory, selection, the passive checks, the
guard that stops the unit, negotiation, three cards with three questions each,
soak, replug, restore and report. `phase` is where it is; an error on its way
out is `failing`, so that every early return passes the destructor of the guard.
Around it are the bus, systemd (each call may fail), and the operator, who may
type ahead (`lines`) or close stdin.

### DisplayService

A client has one `call` in progress, which takes locks, copies, edits the file,
queues a mode change, waits for the answer and commits to the mirror, one
action per stretch between awaits. `disk` is `config.toml`, `edit` the
read-edit-rename in progress of each process: the daemon, the GUI's offline
fallback, and a text editor, which writes in one step. `shown` is what listener
and tick loop made of the requests. The daemon may be refused by the listener,
fail to write, stop or crash between any two steps, and boots from the file.

It starts as `main` builds it: `FirstShown` takes mode and layout of the first
display from the first `[[displays]]` entry (`Entries`; one that follows
`[display]` stands for none), `Booted` takes the reported mode from `[display]`
alone. The background is the configured one, or none if it did not decode or
its canvas refused it; both are only logged. Ghost variables say what the
guarantees exclude: `misnamed` (the two modes differ, until a program is
installed), `dropped` (the daemon started without the background the file
names, until one is installed), `outside` (another process wrote since the last
load), `untold` (the listener refused variables already stored, or was not
asked to show them because the daemon takes a layout for a stream), `adrift`
(something the locks do not order came between image and file), `chosen` (the
last rate chosen for layouts: by the file, a reload or `set_tick_rate`, and not
while a stream runs that keeps a rate to return to). Without any one of the
first two, TLC refutes the property in the first state.

### LayoutStudio

The front end's three revision counters are only compared for equality, so a
request in flight carries whether the counters it depends on have moved
(`current`). `draft`, `print`, `home`, `mark` are the composer's document,
fingerprint, saved name and save state; `load`, `save`, `renders` the requests
in flight; `file` and `temp` the layout directory. Saving is the backend's
sequence: compare fingerprints, write a temporary file, rename; then, when
applying, `set_layout` and `set_default_layout`. Others write the same files
(`Outside`) or have the daemon show something else (`OtherClient`: the Variables
and Stream tabs, the tray, any program on the bus); the GUI may die at any step,
the daemon restart. `touched` says whether any of them interfered since the
mark was set.

### LayoutEngine

Placement is in pixels, as in `solver.rs`: recipes, zones with their readable
areas and bridges, capacity, rounding of gaps, and spanning. `Preview` is the
GUI's command with the renderer it keeps, `Load` and `Tick` the daemon's. A call
compiles the scene, resolves its media one `Resolve` at a time with files edited
in between, and ends in `Rendered`. The media cache has its entries by content
and its sources by path; two contents may be alike only in their symmetry.
`files` and `held` say what each file holds and has held since the call began.

### NvidiaProvider and SensorHub

`NvidiaProvider` gives the provider's next state for what the driver and
`nvidia-smi` do during a poll: start of a worker, answers, a worker given up
on (`stuck`, `wedged`), fallback, back-off and re-probe. `SensorHub` polls the
providers in the order of their precedence for the keys that are `needed` and
missing, and has the channels on which the mode listener sends the keys of what
is shown (`mail`, `recipe`) and gets the catalogue. `meters` are the baselines
of energy and network counters; `energy` wraps at `Range`.

### XvfbLaunch and StreamPreview

`XvfbLaunch` tries candidate displays, starts Xvfb, waits for its screen file,
starts the program, waits out the grace period and maps the source; each step
may fail and says what it leaves (`servers`, `running`). A server whose report
on `-displayfd` cannot be read or is no number (`BindLost`) is among the
`orphans`: no handle was built for it, so it keeps its display even when the
daemon ends. `StreamPreview` has the listener work on a start or a rebuild with
such a launch, the handle it replaces, the tick loop's source and `last.jpg`;
the stream tab with its timer and late reads; the tray, which stops and starts
streams without the tab knowing; disconnects, and the end of the daemon and of
the GUI. A return to the layout may be refused, and the stream then goes on. A
call and its answer are one step at the caller.

## Runs

All runs are exhaustive over their instance. Bounds are named constants and
appear in guards only.

| run | instance | properties |
| --- | --- | --- |
| `pipeline` | 1 display, an SVG layout and a stream, 2 canvases, channels of 2, 2 changes, 2 faults | `SourcesServe`: frames go out only from sources built for the canvases of the connection (`DimensionCorrect`), and the process behind them is one the listener keeps alive (`LiveStream`). `AckedProgramShown`: between changes the displays show what was last acknowledged. `EveryCallAnswered`, `Reconnects` |
| `pipeline_independent` | 2 displays with a source each, started with layouts, two images of which one misfits a canvas, 2 changes, 1 fault, 3 connections | `BackgroundShown`: the acknowledged image is shown, on all or none. `OtherOutputsUntouched`: mode changes replace the first source only. `ImplementsControl`: the refinement of `ModeControl` |
| `frames` | 3 displays, independent with a bulk one or mirrored without, 2 changes, 2 faults | `Truthful`: a recorded fingerprint is what the display shows. `DisplaysCatchUp`: once changes and failures cease, every connected display shows its source |
| `wire` | every table entry and family, four canvases, JPEG lengths at the borders of records, packets, bursts and chunks, 2 faults | `FramesAccepted`: a frame has the length and size the panel wants. `Pictured`: it stands upright and whole. `Reassembled`: the panel puts together what was sent |
| `sessions` | 4 devices (two alike, one square, one stranger), 2 addresses, 2 hidraw nodes, 6 selections, 3 moves, 2 faults | `OutputAuthorized`: writing only after the exact answer on the exact route. `ClaimsHeld`: the kernel's claims are those of the sessions. `FramesWhole`: no frame follows a torn one. `Recovers`. `ImplementsGroup` |
| `validation` | 3 displays, two of one identity, every answer, 2 moves, 1 line ahead | `PassIsEarned`, `OutputAuthorized`, `DaemonAsFound`, `Ends` |
| `service` | a file that says layout or stream, with a background that may not be usable, or with a first `[[displays]]` entry of another mode; 2 clients, 3 calls, 1 outside edit, 1 stop, 3 of these in all | `ModeAgrees`: mirror and display run the same program at the rate of its mode, once one was installed. `SettingsAgree`: so do variables and images, but for what the ghosts name. `OthersEditsKept`: the daemon drops no foreign edit outside its own read-rename window. `EveryCallReturns` |
| `studio` | 2 names, 2 bodies, 2 profiles, 2 edits, 1 outside event, 2 previews at once | `SavedTruthful`: a draft marked saved is the document its fingerprint stands for. `PreviewFresh`: a preview that is shown is of the draft and profile as they are. `ActiveMeansShown`: a draft marked active is on the display and comes back after a restart, until others interfere. `EditsKept`: a save overwrites nothing newer than its fingerprint, but for its own window. `BusyEnds` |
| `layouts` | documents of up to 8 modules under all recipes and policies on all surfaces, 2 files, 3 contents, 2 edits, 3 calls | `PlacedApart`: modules are disjoint and inside the readable zones. `FrameFresh`: a frame shows the document and surface asked for, with media the file held during the call. `CacheBounded` |
| `sensors` | 3 machines (hybrid, without driver, hanging driver), 2 layouts and a stream, a wrap at 3 | `OneNvmlThread`, `RatesTruthful`: a rate is that of the time since the last poll. `NeededRead`: a needed key that can be read is read. `GpuReturns` |
| `streams` | 3 candidate displays of which one is taken, 3 calls, 1 disconnect or end | `ProcessesOwned`: each process belongs to the handle or the launch, but for servers whose report could not be read. `NoStaleFrame`: no frame of this daemon stays readable while connected displays show a layout. `EndNoticed`: the tab does not stay live on an ended stream |
| `pipeline_cleared` | the smallest instance of the finding | `ClearedBackgroundGone`, violated |

Why the bounds are enough. Two overlapping operations are what the code can get
wrong: a mode change and a reconnect, two changes under different locks, a
timeout and the late result of the build that timed out, a save and an edit, a
stop and the next start. Two requests and one or two faults allow every such
pair, and a second fault the failure of the recovery. Channels of the pipeline
hold four messages in the code; with two, a full channel is an ordinary case.
The generation bound 6 of `pipeline` is never reached, as faults and offline
changes use up fewer connections; `pipeline_independent` stops at two
reconnects and leaves daemons that start with a stream to `pipeline`. Two
canvases tell a stale build from a fitting one; three displays make one before
and one after the one that fails; two alike displays and a stranger are what a
scan can mistake. Three moves let a display leave, another take its address and
the first come back. Of `layouts`, eight readings are one more than the tallest
surface holds. In `wire` and `layouts` the tables are the code's own, so there
is nothing to scale. The unbounded claim of the safety properties is what the
proofs are for.

Deadlock is checked in `pipeline`, `pipeline_independent`, `frames`, `sensors`
and `streams`. In the others the calls, edits and moves are bounded by counters
that nothing resets, so their behaviours end; that calls return is a property
of its own there (`EveryCallReturns`, `BusyEnds`, `Ends`, `Recovers`). In
`wire` a session that was refused or broke has nothing left to do: `sessions`
replaces it.

## Fairness

- `DisplayPipeline`: weak fairness of the tick loop as a whole, of the listener
  as a whole, and of the retry delay. The loop sleeps at most 250 ms and goes on
  until shutdown; the listener is a spawned task woken by its channels; the
  delay is a clock. Weak fairness of the disjunction asks of neither to prefer
  one action: mode changes and build requests race in the listener's `select!`.
  `MaxFaults` reads "once failures cease". Shutdown has no fairness and the
  liveness properties allow for it.
- `FrameDelivery`: the loop and the poll interval. Lost connections need not
  come back.
- `DeviceSessions`: connecting, sending, and the kernel registering a hidraw
  node for a plugged display. Nothing is assumed of who plugs.
- `DeviceValidation`: the tool runs on, and an operator whose stdin is open
  answers a prompt.
- `DisplayService`: the listener serves its queue, and each client's call takes
  a step it can take for ever: tokio's mutexes are fair, and no lock is held
  over an await that is not answered.
- `LayoutStudio`: commands over the bridge return, promises are run. Rendering
  has no fairness, the user none.
- `SensorHub`: polls recur, and the minute of a back-off passes.
- `StreamPreview`: the tab's timer fires and its reads are answered.

## Proofs

TLAPS checks, for any values of the constants that meet the assumptions:

| theorem | module | statement |
| --- | --- | --- |
| `TypeCorrect` | `DisplayPipelineProofs` | `Spec => []TypeOK` |
| `SafetyInvariant` | | `Spec => []SafetyInv` |
| `ConnectionsCoherent` | | `Spec => []ConnectionCoherent`: never two connections, and the listener is told of exactly the active one |
| `FramesFitTheConnection` | | `Spec => []DimensionCorrect` |
| `OneSourcePerOutput` | | `Spec => []SourcePerOutput` |
| `RevisionsNeverDiverge` | | `Spec => []RevisionsAgree` |
| `StreamAlive` | | `Spec => []LiveStream` |
| `SourcesAlwaysServe` | | `Spec => []SourcesServe`, both of them |
| `AcknowledgedIsShown` | | `Spec => []AckedProgramShown` |
| `BackgroundIsShown` | | `Spec => []BackgroundShown` |
| `OthersAreUntouched` | | `Spec => OtherOutputsUntouched`, an action property |
| `PipelineImplementsControl` | | `Spec => ImplementsControl`, the refinement of `ModeControl` |
| `TypeCorrect` | `FrameProofs` | `Spec => []TypeOK` |
| `ChangesAreDrawn` | | no change of text or background leaves a fingerprint behind |
| `SkipIsSafe` | | `Spec => []Truthful`, if mirrored displays are not bulk |
| `WireTypeCorrect` | | `WireSpec => []WireTypeOK` |
| `WireInvariant` | | `WireSpec => []WireInv` |
| `EveryFrameIsAccepted` | | `WireSpec => []FramesAccepted`: no size, encoding or length check refuses a frame |
| `PictureIsKept` | | `WireSpec => []Pictured` |
| `FramesAreReassembled` | | `WireSpec => []Reassembled` |
| `OutputsAuthorized` | `DeviceSessionsProofs` | `Spec => []OutputAuthorized` |
| `InterfacesHeld` | | `Spec => []ClaimsHeld` |
| `NoTornFrame` | | `Spec => []FramesWhole` |
| `GroupWholeOrAbsent` | | `Spec => ImplementsGroup`, the refinement of `DisplayGroup` |
| `TypeCorrect` | `DeviceValidationProofs` | `Spec => []TypeOK` |
| `FramesAuthorized` | | `Spec => []OutputAuthorized` |
| `DaemonGivenBack` | | `Spec => []DaemonAsFound` |
| `PassEarned` | | `Spec => []PassIsEarned` |
| `TypeCorrect` | `DisplayServiceProofs` | `Spec => []TypeOK` |
| `ServiceInvariant` | | `Spec => []IInv` |
| `ModeIsReported` | | `Spec => []ModeAgrees` |
| `SettingsAlwaysAgree` | | `Spec => []SettingsAgree` |
| `OthersAreKept` | | `Spec => OthersEditsKept`, an action property |
| `ProviderSound` | `SensorHubProofs` | the NVIDIA provider's invariant |
| `NeverTwoNvmlThreads` | | `Spec => []OneNvmlThread` |
| `CountersSound` | | the relation of baselines, use and counters |
| `RatesAreTruthful` | | `Spec => []RatesTruthful` |
| `NeededIsRead` | | `Spec => NeededRead`, an action property |
| `CacheHoldsItsSources` | `LayoutEngineProofs` | `Spec => []CacheBounded` |
| `FramesAreFresh` | | `Spec => []FrameFresh` |
| `ModulesPlacedApart` | | `Spec => []PlacedApart` |
| `SavedIsTruthful` | `GuiProofs` | `Spec => []SavedTruthful` |
| `PreviewIsFresh` | | `Spec => []PreviewFresh` |
| `ActiveIsShown` | | `Spec => []ActiveMeansShown` |
| `NewerEditsKept` | | `Spec => EditsKept`, an action property |
| `NothingLeftBehind` | | `StreamSpec => []ProcessesOwned` |
| `FrameGoesWithStream` | | `StreamSpec => []NoStaleFrame` |

The only assumptions are those on the constants, named in the modules that
declare them. TLC evaluates them for every instance.

**DisplayPipeline.** None of its properties is inductive. That a build cannot
overwrite a newer connection depends on what is in the channels, so `SafetyInv`
says of every message what it is good for: none is newer than the last
connection and they stay in order (`Bounded`, `Ordered`); a request or a result
for the pending connection has its canvases, and the process and canvas the
listener still holds (`PendingServed`); once a connection is active nothing is
left that was built for it, so only a commit can change its sources
(`ActiveSettled`); a mode change in flight has the listener's canvas, its commit
carries its source, and the listener has built nothing for a later connection
(`ChangeCoherent`, `CommitCoherent`, `NothingNewBuilt`); the process of the
active stream is the listener's, or that of the change it is about to learn was
accepted (`StreamOwned`). `StreamAlive` needs all of them: the listener kills
the old process when a new source is *built*, and that is safe only because a
build is only asked for while nothing is active. There is a lemma per action
that disturbs the invariant, on lemmas about appending to and consuming from
channels; the other steps are `QuietStep`s, treated together.

What is acknowledged has two invariants more on top of `SafetyInv`. `ProgramInv`
follows the program the listener will have through requests, results and the
template channel: a template sent for an older program may still reach a newer
source, and does no harm only because a newer one is then on its way.
`BackgroundInv` does so for the image, of which there are three copies: in the
listener, on the watch and cached by the tick loop; the cache may lag, but not
behind a watch that was read.

The refinement needs `CallsInv` beside these: under each lock at most one
change is in the channel or in work, and there is one exactly while its caller
waits. With `ProgramInv` it gives the display at every step: the listener's
program, or that of the change whose acceptance the listener has still to hear
of (`Adopted`). Steps then fall into those that keep the calls (`CallsKeepers`)
and map to `Present` or to a stutter, the commit, which maps to `Present`,
taking a change, which nobody sees, asking, and the answers.

**FrameDelivery.** `SkipIsSafe` is inductive with the types. Its hypothesis is
needed, see the mirror branch below.

**FrameWire.** The theorems are for any PM, SUB and FBL a device may answer, any
two sizes of canvas and any length of payload; a null device has one of the
fixtures of `profile.rs`. The proof has four layers. *Profiles*: every entry of
the table is well formed, so whatever `resolve_profile` or an exact policy
selects is `Sound`: its sides are positive, its angles right angles, and what
turns the wire frame on its side agrees with `wire_dimensions`
(`ProfileSound`). *Pictures*: `rotate_pixels` computes an index into the rows of
the turned frame; `PixelMoved` and `RotatedIsTurned` say that it is a turn of
the picture, `TurnedBack` that turns add up, and `WireAngle` that the mounting
cancels. *Letterbox*: the scaled side is rounded to the nearest pixel and
clamped; `Scaled` and `Letterboxed` say that the picture still fits, is centred,
and is out of shape by less than a pixel. *Packets*: `WriteFits` says that no
write goes beyond the packet, `WholePayload` that the framing of each family
(header, padding, records, zero-length packet) gives back the payload's length.
`WireInv` ties them to the steps: what the handshake selected (`Selected`), what
the frame is made of at each stage (`Prepared`), how far the panel is with it
(`Carried`); the stage "rejected" is never reached. Both modules have their
proofs in `FrameProofs` and share no state: `Spec` and `WireSpec` are proved
about apart.

**DeviceSessions.** `IInv` follows the walk. `BusOK`: addresses and nodes are
injective, a node belongs to a plugged HID device. `ChosenOK`: what the scan
chose answers the selection at distinct addresses. `OpenedOK`: every opened
session is authorised and, while live, where it was opened. `Walking`: what each
step has learnt of its device. `ClaimsOK`: the claims are exactly those of the
sessions and of the step; a hidraw claim goes with an existing node, a libusb
claim with one that is gone. A device can be claimed twice only under one
address, and no two entries of a scan have the same: that is why a group never
holds a display twice. The refinement maps `outputs` to the opened sessions once
the phase is `up`, and to the empty group otherwise; every step is then
`Connect`, `Disconnect` or a stutter. `DescriptorAssumption` says that an exact
descriptor fixes the identity, which is how `policy.rs` defines exactness.

**DeviceValidation.** The verdict is taken from the report alone, when the
session is closed and the daemon is back. The invariant therefore ties every
check that counts to what happened when it was recorded (a card that passed was
on the one display the session was opened to, a soak that passed sent all its
frames, a second display that was confirmed was there) and says that later
phases undo none of it. The guard is followed separately: from `acquire` to
`restore` the unit is stopped, and every early return passes `restore`.

**DisplayService.** Each property relates two pieces of state that a call
changes in different steps, with other calls in between. `IInv` says, for every
step of every call, how far they may be apart: what is about to be committed
(`VarsStored`), asked for (`VarsShown`), put back (`BackgroundTracked`), or is
acknowledged and not yet recorded (`ModeTracked`). `LocksHeld` says that at most
one call is at such a step, `EditsTracked` that the daemon's edit belongs to the
holder of the write lock and is of the file as it is, unless it is marked, and
`QueueTracked` that what the listener installs is what its caller still waits
for. `RateTracked` could not be proved of an earlier model: a daemon that starts
in xvfb mode has kept no rate, so a `set_tick_rate` then sets the rate of the
layouts too (`dbus.rs:410` has nothing to restore). TLC needed one event more
than the bound of the run to see it; the run now starts in both modes.

**SensorHub.** `Sound`: a thread was left behind only if `wedged` is set, and
no worker is started while it is. The converse does not hold, which is why the
flag is kept. `Counted`: the energy counter is a meter's baseline and what was
used since, going round once at most, and a counter that is needed was asked at
every poll since its baseline. `NeededIsRead` needs no invariant but that of the
provider: walking the providers in order, each skip and the early end leave out
only readings that are not missing.

**LayoutEngine.** `Tight`: entries and sources of the cache determine each
other. `Kept`: the renderer is the one asked for, found again by its key.
`Progress`: whatever the call resolved, the file held since the call began.
`ModulesPlacedApart` is for documents of any length. The validation counts cards
by a division, the solver puts them down with rounded gaps and does not look
whether they fit: `Spaced` says that they do, for any origin, span, extent and
count that fits by multiplication, and `RowsFit` that the division is that
count. There is a lemma per solver; the panorama also needs that the rank of a
module in its zone follows the order of the document (`Rank`) and that the zones
are apart from the bridge. `SceneInv`: only what was accepted is solved.

**LayoutStudio.** `BumpDraft` makes every request in flight out of date, but a
save has no revision to compare: the file it wrote is marked saved whatever the
draft is by then. `Exclusive` says why that is right: while a load or a save is
in flight the controls are disabled, so it is the only one, and the document it
was started with and the fingerprint it expects are still the composer's.
`Underway` says what a save knows of the file and of the daemon at each of its
steps unless another program came in between, `Asked` that a preview that still
counts was asked for the draft and the profile as they are, and `Activated` what
a mark of "active" promises of the next start of the daemon, until somebody else
writes the file or calls the daemon. The types are part
of the invariant: a file is a whole document or none.

**StreamPreview.** `Owned`: servers are those of handle and launch, which never
name the same display, and orphans, which neither names. `Fed`: once up, a
source is the handle's; a rebuild is under way only while the connection is not
up, so that the old program may go before the new source is in place.
`Published`: a frame of this daemon is readable only while it is fed from a
program. The two tabs of the GUI share the module `GuiProofs` and no state:
`StreamSpec` and `Spec` are proved about apart.

Only model-checked: liveness (`DisplaysCatchUp`, `Recovers`, `Ends`,
`EveryCallReturns`, `BusyEnds`, `GpuReturns`, `EndNoticed` and the pipeline's),
because fairness and `ENABLED` are out of the prover's reach. Every invariant
and every action property that a run checks is also a theorem, `Truthful` under
the hypothesis named above.

## Where code and documentation disagree

One disagreement is a run; the others were met while translating, are plain in
the code, and are left as the code has them in the models.

Pipeline:

- **A cleared background comes back** (`pipeline_cleared`). Installing build
  results re-applies the cached background only if there is one
  (`tick.rs:691`). If it is cleared in the iteration after whose result drain
  the rebuild arrived, the next iteration installs the sources with the image
  they were built with (`main.rs:972-973` says "so reconnect rebuilds match").
- A stream started by a `[[displays]]` entry has no tracked command
  (`main.rs:705`), and every rebuild after a disconnect fails (`main.rs:772`);
  `README.md:354-356` says "the daemon then reconnects the displays still
  present". A configured image over the raster budget is ignored at startup
  (`main.rs:436`) and an error of every rebuild (`main.rs:793`).
- The mirror branch records the fingerprint even when the send loop stopped at
  an error (`tick.rs:552`), while a bulk timeout leaves the display connected
  (`bulk_usb.rs:296-303`): a static layout never reaches it. The independent
  branch does not (`:500`). The run `frames` leaves mirrored bulk displays out,
  and `SkipIsSafe` has the exception as its hypothesis.

Service:

- `ServiceState.mode` starts as `[display].mode` (`main.rs:617`), while the
  sources and the listener's mode come from the first `[[displays]]` entry
  (`main.rs:460-604`, `694-697`), although an entry is to override it
  (`config.rs:116`). A daemon that shows a layout may thus report a stream;
  `set_layout_vars` and `reload` then store variables and do not show them
  (`dbus.rs:917`), until the first change that is acknowledged. `ModeAgrees`
  excludes that time (`misnamed`).
- A configured background that is missing, does not decode or is over the
  raster budget is only logged (`main.rs:197-210`), or not even that
  (`main.rs:436`, `tick.rs:169`): the daemon starts without it, while mirror
  and file go on naming it. `SettingsAgree` excludes it (`dropped`).
- `reload` does not take `bg_change_lock`: with a `set_background` in progress
  mirror and file can differ, and it does not apply a changed image. Likewise
  `set_default_layout` against a reload. `set_layout_vars` for another layout
  shows that layout without making it the active one.
- Booting with `display.mode = "xvfb"` runs at `display.tick_rate`
  (`main.rs:327`); `main.rs:638` and `dbus.rs:557` say that the daemon always
  boots into a layout, `main.rs:345` does otherwise. A reload while streaming
  keeps the rate of before the stream as the one to restore.
- The GUI's offline write may still rename after the daemon has booted, though
  "the daemon remains the sole writer". `set_default_layout` can make a file
  with `[[displays]]` one that does not load.

Validation:

- A verdict stays empty when opening or generating a card fails, though
  `validation_report.rs:66` reads "empty when still in progress or passed". A
  declined prompt is recorded as a failure. A failed report does not show
  whether the daemon was restored. The evidence of a HID write is recorded
  before the write, and `record_hid_chunked_write_failure` is not called.
- `finalize_full_pass` wants Pass in all twelve checks, while a machine with one
  display has NotApplicable for `SecondDisplayUnchanged` (`active.rs:1039`): it
  can never pass (`docs/hardware-validation.md:268`). Nor can the square display
  (it is not on the passive allowlist) or a PM128 that first answered empty.
- Lines typed ahead answer later prompts. If the guard's acquisition fails after
  it stopped the daemon, or the tool is ended by Ctrl-C, the unit stays stopped;
  `DaemonAsFound` speaks of the time after the guard exists.

Studio:

- An edit between the fingerprint check and the rename is overwritten, though
  `persistence.rs:67-68` says that the check "prevents a stale authoring draft
  from silently replacing an external edit". `EditsKept` excludes that window
  (`raced`).
- Renaming a draft away and back drops its fingerprint, and saving conflicts
  until the document is opened again. A daemon that restarts between
  `set_layout` and `set_default_layout` shows its old default under "Active".
  Only the disabled controls prevent a saving flag that is never reset.
- `composerSaveState` stays "active" when the Variables tab
  (`App.svelte:565-602`), the Stream tab, the tray or another client has the
  daemon show something else, until the draft is edited or saved, though the
  badge says "Active". `ActiveMeansShown` excludes it (`touched`).

Sensors:

- At start the keys of all displays are needed (`main.rs:482-596`); a layout or
  stream change replaces them by those of the first display (`main.rs:948`,
  `main.rs:1058`), so another display's sensors go stale
  (`docs/configuration.md:165`: "Shared sensors/theme/background").
- With two GPUs the keys of one reading may come from both (`mod.rs:333`). Keys
  of a chip that appears late are polled only after the next layout change, and
  a chip in quarantine stays listed.

Streams:

- The tab may say "stream ended externally" (`StreamTab.svelte:199`) 333 ms
  after a start, when there is no frame yet, and stay live for ever on the
  `last.jpg` of a daemon that ended (`frame_dump.rs:68`).
- A missing Xvfb or an Xauthority that cannot be written leaves a directory and
  a pipe end behind (`xvfb.rs:196-197`, `310`, `459`). A report that cannot be
  read or is no number (`xvfb.rs:265-269`, `279-282`) leaves the Xvfb itself
  running, in a process group of its own: `?` drops a `Child`, which does not
  kill. `ProcessesOwned` excludes these servers (`orphans`). Reading the
  display number has no timeout. A program that ends after the grace period of
  150 ms is not noticed.
- A stream that is stopped while no display is connected leaves its `last.jpg`
  readable until one is (`main.rs:891-919`): the tick loop removes the file
  only when it installs a source. `NoStaleFrame` speaks of a connection that is
  up.

Displays and layouts:

- The RGB565 header of HID type 2 says 240x320 for every panel
  (`hid_lcd.rs:617`), though the table has others. FBL 224 turns the other way
  than its family. The descriptor of a pm58 display is not read again once its
  node is open.
- `can_span` (`solver.rs:80-85`) ignores the `span_bridge` of a media module,
  which `skills/designing-layouts/references/layout-toml.md:235` describes. The
  GUI previews a document on the curved surface with a recipe for `wide` that
  the daemon refuses there. An image the cache accepts up to its budget can be
  refused by the rasterizer, whose budget is the same but is spent twice.

## What is not modelled

- **Values of pixels**: drawing of text, metrics and graphs, JPEG and RGB565
  conversion, themes, templates and CSS, colours of backgrounds. They are pure
  functions of their inputs; the models have where a picture is, how long it is
  and what it was drawn from.
- **Parsing**: TOML, USB descriptors, SVG, documents. A model starts from the
  parsed value, and from an invalid one where the code handles it.
- **Readings**: what a sensor's number means, and the sample history and its
  query, which may omit the newest sample.
- **Status forwarders** (`main.rs:642`) and the read-only D-Bus calls: nothing
  depends on the agreement of what they copy.
- **Kills**: SIGKILL of the daemon while a stream runs, an Xvfb that dies at
  runtime, Ctrl-C in a validation. No code runs then.
- **Command line, packaging, release scripts**: one call each, or shell outside
  the program.
- **Presentation** in GUI and tray, launching of programs from the tray, and its
  Quit and Reload entries.
- Timeouts of single USB transfers are failures of the transfer; hash collisions
  do not occur; counters of 64 bits do not wrap.

`PROJECT.json` gives the status of every component.

## Plan

What is left:

1. That the requests and answers of `DisplayService` are steps of `ModeControl`
   too: its `Install` and `Refuse` stand for `AcceptProgram`, `AcceptImage` and
   `Refuse` by construction, not yet by a refinement.
