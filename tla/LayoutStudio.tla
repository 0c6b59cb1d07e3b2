---------------------------- MODULE LayoutStudio ----------------------------
(***************************************************************************)
(* The layout studio of the GUI: the composer of the front end             *)
(* (gui/src/App.svelte, lib/layout/LayoutComposer.svelte), the backend     *)
(* commands it invokes (gui/src-tauri/src/commands.rs) and the saving      *)
(* of layout documents (src/layout_engine/persistence.rs).                 *)
(*                                                                         *)
(* The front end never blocks: load, preview, save and apply are           *)
(* asynchronous commands, answered while the user goes on.  Answers that   *)
(* came too late are told apart by three revision counters that are only   *)
(* compared for equality, so a request in flight remembers here whether    *)
(* the counters it depends on have moved (current).                        *)
(*                                                                         *)
(* A save replaces a file only if the fingerprint the caller got with the  *)
(* document is still that of the file.  Editors outside the GUI write the  *)
(* same files.  Applying saves, asks the daemon to show the file, and to   *)
(* make it the default.  The daemon has other clients, which show other    *)
(* things whenever they like, and the composer is not told.  The GUI may   *)
(* be closed between any two steps.                                        *)
(***************************************************************************)
EXTENDS Naturals, FiniteSets

CONSTANTS
  Names,      \* normalized layout names, and the files <name>.layout.toml
  Bodies,     \* contents of documents apart from their name
  Profiles,   \* preview profiles
  Square,     \* the profile selected at first
  None,       \* no document, no fingerprint, no request
  Torn,       \* a file that was not written to its end
  MaxEdits,   \* bound: changes of the draft by the user
  MaxEvents,  \* bound: writes to the layout directory by other programs, calls
              \* of the daemon's other clients, its restarts, ends of the GUI
  MaxPreviews \* bound: previews being rendered at once

ASSUME SquareIsProfile == Square \in Profiles

ASSUME Bounds ==
  {MaxEdits, MaxEvents, MaxPreviews} \subseteq Nat

VARIABLES
  file,     \* the layout directory
  temp,     \* the temporary file of the save in progress
  daemon,   \* the document shown, and the default layout
  draft,    \* composerDraft
  print,    \* composerFingerprint
  home,     \* composerSavedName
  mark,     \* composerSaveState
  profile,  \* composerPreviewProfile
  preview,  \* composerPreview: the body and profile it was rendered from
  timer,    \* the debounce timer of the preview is running
  renders,  \* preview requests in flight
  load,     \* the load in flight
  save,     \* the save or apply in flight
  busy,     \* composerLoading, composerSaving, composerApplying
  used,     \* bounded events so far
  touched   \* history: since the draft was saved or applied, another program
            \* wrote its file or called the daemon; or that happened to the
            \* save itself (raced)

disk   == <<file, temp>>
editor == <<draft, print, home, mark>>
view   == <<profile, preview, timer, renders>>
vars   == <<file, temp, daemon, draft, print, home, mark, profile, preview,
            timer, renders, load, save, busy, used, touched>>

\* A document carries its own name; a copied file has another's.  The
\* fingerprint is a hash of the file's bytes: it is the document itself.
Doc(n, b) == [name |-> n, body |-> b]
Docs == [name: Names, body: Bodies]

Marks == {"unsaved", "saved", "active"}

\* Requests in flight: previews, loads, and saves with the step they are at.
Renders == [body: Bodies, profile: Profiles, current: BOOLEAN]
Loads == [what: {"preset", "reopen"}, name: Names, doc: Docs \union {None},
          at: {"asked", "answered"}, current: BOOLEAN]
Steps == {"check", "write", "sync", "rename", "activate", "default",
          "answered"}
Saves == [op: {"save", "apply"}, doc: Docs, expected: Docs \union {None},
          at: Steps, answer: {None, "error", "saved", "active"},
          current: BOOLEAN, raced: BOOLEAN]

ASSUME NoneApart ==
  /\ None \notin Names \union Docs \union Renders \union Loads \union Saves
  /\ Torn \notin Docs \union {None}

Init ==
  /\ file = [n \in Names |-> None]
  /\ temp = None
  /\ daemon = [shown |-> None, layout |-> None]
  /\ draft = None
  /\ print = None
  /\ home = None
  /\ mark = "unsaved"
  /\ profile = Square
  /\ preview = None
  /\ timer = FALSE
  /\ renders = {}
  /\ load = None
  /\ save = None
  /\ busy = {}
  /\ used = [edits |-> 0, events |-> 0]
  /\ touched = FALSE

Count(what, bound) ==
  /\ used[what] < bound
  /\ used' = [used EXCEPT ![what] = @ + 1]

Late(r) == IF r = None THEN None ELSE [r EXCEPT !.current = FALSE]

\* bumpRevision(composerPreviewRevision)
BumpPreview == renders' = {Late(r): r \in renders}

\* bumpRevision(composerDraftRevision): every answer on its way is late.
BumpDraft ==
  /\ BumpPreview
  /\ load' = Late(load)
  /\ save' = Late(save)

-----------------------------------------------------------------------------
(* The composer. *)

\* controlsDisabled of LayoutComposer.  While a save or apply is in flight
\* this is all that keeps the draft revision from moving.
\* Faulty variant: only loading disables the controls.
Enabled_WhileSaving == "loading" \notin busy

Enabled == busy = {}

\* Faulty variant: the edited draft keeps its state.
Commit_KeepsMark(doc) ==
  /\ draft' = doc
  /\ mark' = mark
  /\ print' = IF home = doc.name THEN print ELSE None
  /\ preview' = None
  /\ timer' = TRUE
  /\ BumpDraft

\* commitComposerDraft
Commit(doc) ==
  /\ draft' = doc
  /\ mark' = "unsaved"
  /\ print' = IF home = doc.name THEN print ELSE None
  /\ preview' = None
  /\ timer' = TRUE
  /\ BumpDraft

\* A module is added, removed, moved or changed, or the draft is renamed.
Edit ==
  /\ Enabled
  /\ draft # None
  /\ Count("edits", MaxEdits)
  /\ \E doc \in Docs:
       /\ doc # draft
       /\ doc.name = draft.name \/ doc.body = draft.body
       /\ Commit(doc)
  /\ UNCHANGED <<disk, daemon, home, profile, busy, touched>>

\* selectComposerProfile
\* Faulty variant: requests in flight are not invalidated.
SelectProfile_KeepsRequests ==
  /\ Enabled
  /\ \E p \in Profiles \ {profile}: profile' = p
  /\ Count("edits", MaxEdits)
  /\ preview' = None
  /\ timer' = (draft # None)
  /\ UNCHANGED <<disk, daemon, editor, renders, load, save, busy, touched>>

SelectProfile ==
  /\ Enabled
  /\ \E p \in Profiles \ {profile}: profile' = p
  /\ Count("edits", MaxEdits)
  /\ preview' = None
  /\ BumpPreview
  /\ timer' = (draft # None)
  /\ UNCHANGED <<disk, daemon, editor, load, save, busy, touched>>

\* The timer fires: preview_layout_document is invoked for the draft as it is.
Render ==
  /\ timer
  /\ timer' = FALSE
  /\ Cardinality(renders) < MaxPreviews
  /\ renders' = {Late(r): r \in renders}
       \union {[body |-> draft.body, profile |-> profile, current |-> TRUE]}
  /\ UNCHANGED <<disk, daemon, editor, profile, preview, load, save, busy,
                 used, touched>>

\* The answer; a late one is dropped, an error clears the preview.
Rendered(r) ==
  /\ renders' = renders \ {r}
  /\ \/ /\ r.current
        /\ preview' \in {None, [body |-> r.body, profile |-> r.profile]}
     \/ /\ ~r.current
        /\ UNCHANGED preview
  /\ UNCHANGED <<disk, daemon, editor, profile, timer, load, save, busy, used,
                 touched>>

-----------------------------------------------------------------------------
(* Loading: createFromPreset and reopenDocument. *)

StartLoad ==
  /\ Enabled
  /\ Count("edits", MaxEdits)
  /\ \E n \in Names, what \in {"preset", "reopen"}:
       load' = [what |-> what, name |-> n, doc |-> None, at |-> "asked",
                current |-> TRUE]
  /\ busy' = busy \union {"loading"}
  /\ UNCHANGED <<disk, daemon, editor, view, save, touched>>

\* load_layout_preset and load_layout_document; no document is an error.
LoadRuns ==
  /\ load # None
  /\ load.at = "asked"
  /\ \/ \E b \in Bodies:
          /\ load.what = "preset"
          /\ load' = [load EXCEPT !.at = "answered", !.doc = Doc(load.name, b)]
     \/ /\ load.what = "reopen"
        /\ load' = [load EXCEPT !.at = "answered",
                     !.doc = IF file[load.name] \in Docs THEN file[load.name]
                             ELSE None]
  /\ UNCHANGED <<disk, daemon, editor, view, save, busy, used, touched>>

\* A reopened document is saved under the name it carries, with the
\* fingerprint of the file it was read from.
Opened ==
  /\ draft' = load.doc
  /\ print' = IF load.what = "reopen" THEN load.doc ELSE None
  /\ home' = IF load.what = "reopen" THEN load.doc.name ELSE None
  /\ mark' = IF load.what = "reopen" THEN "saved" ELSE "unsaved"

LoadAnswered ==
  /\ load # None
  /\ load.at = "answered"
  /\ load' = None
  /\ busy' = busy \ {"loading"}
  /\ IF load.current /\ load.doc # None
     THEN /\ Opened
          /\ preview' = None
          /\ timer' = TRUE
          /\ BumpPreview
          /\ save' = Late(save)
     ELSE UNCHANGED <<editor, preview, timer, renders, save>>
  /\ UNCHANGED <<disk, daemon, profile, used, touched>>

-----------------------------------------------------------------------------
(* Saving and applying. *)

StartSave ==
  /\ Enabled
  /\ busy \intersect {"saving", "applying"} = {}
  /\ save = None
  /\ draft # None
  /\ \E op \in {"save", "apply"}:
       /\ save' = [op |-> op, doc |-> draft,
                   expected |-> IF home = draft.name THEN print ELSE None,
                   at |-> "check", answer |-> None, current |-> TRUE,
                   raced |-> FALSE]
       /\ busy' = busy \union {IF op = "save" THEN "saving" ELSE "applying"}
  /\ UNCHANGED <<disk, daemon, editor, view, load, used, touched>>

At(step) == save # None /\ save.at = step
Goto(step) == save' = [save EXCEPT !.at = step]
Answer(a) == save' = [save EXCEPT !.at = "answered", !.answer = a]

\* The fingerprint guard of save_layout_document.
\* Faulty variant: an existing file needs no fingerprint.
Replaceable_Unasked(n, expected) ==
  expected = None \/ file[n] = expected

Replaceable(n, expected) ==
  \/ file[n] = None /\ expected = None
  \/ file[n] # None /\ file[n] = expected

Check ==
  /\ At("check")
  /\ IF Replaceable(save.doc.name, save.expected)
     THEN save' = [save EXCEPT !.at = "write", !.raced = FALSE]
     ELSE Answer("error")
  /\ UNCHANGED <<disk, daemon, editor, view, load, busy, used, touched>>

\* atomic_replace: a sibling file is created, written to its end, synced,
\* and renamed over the target.
Create ==
  /\ At("write")
  /\ temp' = Torn
  /\ Goto("sync")
  /\ UNCHANGED <<file, daemon, editor, view, load, busy, used, touched>>

Sync ==
  /\ At("sync")
  /\ temp' = save.doc
  /\ Goto("rename")
  /\ UNCHANGED <<file, daemon, editor, view, load, busy, used, touched>>

Rename ==
  /\ At("rename")
  /\ file' = [file EXCEPT ![save.doc.name] = temp]
  /\ temp' = None
  /\ IF save.op = "save" THEN Answer("saved") ELSE Goto("activate")
  /\ UNCHANGED <<daemon, editor, view, load, busy, used, touched>>

\* An error before the rename: the temporary file is removed.
SaveFails ==
  /\ At("check") \/ At("write") \/ At("sync") \/ At("rename")
  /\ temp' = None
  /\ Answer("error")
  /\ UNCHANGED <<file, daemon, editor, view, load, busy, used, touched>>

\* activate_layout_document: set_layout makes the daemon read the file.
SetLayout ==
  /\ At("activate")
  /\ \/ /\ file[save.doc.name] \in Docs
        /\ daemon' = [daemon EXCEPT !.shown = file[save.doc.name]]
        /\ Goto("default")
     \/ /\ Answer("saved")
        /\ UNCHANGED daemon
  /\ UNCHANGED <<disk, editor, view, load, busy, used, touched>>

\* Then set_default_layout; if that fails the layout is live, but is reported
\* as saved only.
\* Faulty variant: live is enough.
SetDefault_Optional ==
  /\ At("default")
  /\ daemon' \in {daemon, [daemon EXCEPT !.layout = save.doc.name]}
  /\ Answer("active")
  /\ UNCHANGED <<disk, editor, view, load, busy, used, touched>>

SetDefault ==
  /\ At("default")
  /\ \/ /\ daemon' = [daemon EXCEPT !.layout = save.doc.name]
        /\ Answer("active")
     \/ /\ Answer("saved")
        /\ UNCHANGED daemon
  /\ UNCHANGED <<disk, editor, view, load, busy, used, touched>>

\* The end of saveDraft and applyDraft.  A late answer returns early, and
\* leaves composerSaving or composerApplying set.
SaveAnswered ==
  /\ At("answered")
  /\ save' = None
  /\ busy' = IF save.current THEN busy \ {"saving", "applying"} ELSE busy
  /\ IF save.current /\ save.answer # "error"
     THEN /\ draft' = save.doc
          /\ print' = save.doc
          /\ home' = save.doc.name
          /\ mark' = save.answer
          /\ touched' = save.raced
          /\ BumpPreview
          /\ timer' = TRUE
     ELSE UNCHANGED <<editor, touched, renders, timer>>
  /\ UNCHANGED <<disk, daemon, profile, preview, load, used>>

-----------------------------------------------------------------------------
(* The surroundings. *)

\* Another program writes, copies or removes a layout document.
Outside ==
  /\ Count("events", MaxEvents)
  /\ \E n \in Names, d \in Docs \union {None}:
       /\ d # file[n]
       /\ file' = [file EXCEPT ![n] = d]
       /\ touched' = (touched \/ n = home)
       /\ save' = IF save # None /\ save.doc.name = n
                  THEN [save EXCEPT !.raced = TRUE] ELSE save
  /\ UNCHANGED <<temp, daemon, editor, view, load, busy>>

\* The GUI is closed or dies and is started again; a temporary file left
\* behind is never read.
Quit ==
  /\ Count("events", MaxEvents)
  /\ draft' = None /\ print' = None /\ home' = None /\ mark' = "unsaved"
  /\ preview' = None /\ timer' = FALSE /\ renders' = {}
  /\ load' = None /\ save' = None /\ busy' = {}
  /\ temp' = None
  /\ UNCHANGED <<file, daemon, profile, touched>>

\* The daemon starts with its default layout.
Restart ==
  /\ Count("events", MaxEvents)
  /\ daemon' = [daemon EXCEPT !.shown =
       IF daemon.layout # None /\ file[daemon.layout] \in Docs
       THEN file[daemon.layout] ELSE None]
  /\ save' = IF At("default") THEN [save EXCEPT !.raced = TRUE] ELSE save
  /\ UNCHANGED <<disk, editor, view, load, busy, touched>>

\* Another client of the daemon shows the layout of a file, or a stream in its
\* place, or makes a layout the default: the Variables and Stream tabs of this
\* GUI, the tray, and programs on the session bus.  composerSaveState is none
\* of their business.
OtherClient ==
  /\ Count("events", MaxEvents)
  /\ \/ \E d \in {file[n]: n \in Names} \union {None}:
          daemon' = [daemon EXCEPT !.shown = d]
     \/ \E n \in Names: daemon' = [daemon EXCEPT !.layout = n]
  /\ touched' = TRUE
  /\ save' = IF At("default") \/ At("answered")
             THEN [save EXCEPT !.raced = TRUE] ELSE save
  /\ UNCHANGED <<disk, editor, view, load, busy>>

-----------------------------------------------------------------------------

Rendering == Render \/ \E r \in renders: Rendered(r)
Loading == LoadRuns \/ LoadAnswered
Saving ==
  \/ Check \/ Create \/ Sync \/ Rename \/ SaveFails
  \/ SetLayout \/ SetDefault \/ SaveAnswered

Next ==
  \/ Edit \/ SelectProfile \/ StartLoad \/ StartSave
  \/ Rendering \/ Loading \/ Saving
  \/ Outside \/ Quit \/ Restart \/ OtherClient

\* Commands invoked over the bridge return, and the front end's promises are
\* run.
Spec ==
  Init /\ [][Next]_vars /\ WF_vars(Loading) /\ WF_vars(Saving)

-----------------------------------------------------------------------------
(* Properties. *)

\* The variables have their types; a layout document on disk is whole, even if
\* the GUI dies in the middle of a save (atomic_replace).
TypeOK ==
  /\ file \in [Names -> Docs \union {None}]
  /\ temp \in Docs \union {None, Torn}
  /\ daemon \in [shown: Docs \union {None}, layout: Names \union {None}]
  /\ draft \in Docs \union {None} /\ print \in Docs \union {None}
  /\ home \in Names \union {None} /\ mark \in Marks /\ profile \in Profiles
  /\ preview \in {None} \union [body: Bodies, profile: Profiles]
  /\ renders \subseteq Renders
  /\ timer \in BOOLEAN /\ touched \in BOOLEAN
  /\ load \in Loads \union {None} /\ save \in Saves \union {None}
  /\ busy \subseteq {"loading", "saving", "applying"}

\* A draft shown as saved or active is the document its fingerprint stands
\* for: no answer that arrives late marks other content as saved.
SavedTruthful ==
  mark # "unsaved" => draft = print /\ home = draft.name

\* The preview is of the draft and of the profile that are selected, in
\* whatever order previews are answered (composerPreviewRevision).
PreviewFresh ==
  preview # None =>
    /\ draft # None
    /\ preview.body = draft.body
    /\ preview.profile = profile

\* A file is replaced whole or not at all, even if the GUI dies in the middle
\* of a save (atomic_replace).  A save replaces only what the composer last
\* read from or wrote to that file: an edit from outside is not lost, unless it
\* falls between the check of the fingerprint and the rename of the same save.
EditsKept ==
  [][\A n \in Names:
       file'[n] # file[n] =>
         /\ file'[n] # Torn
         /\ (At("rename") /\ save' # save /\ ~save.raced)
              => file[n] = None \/ (file[n] = print /\ home = n)]_vars

\* A draft reported active is the document on the display, and stays it when
\* the daemon restarts, until somebody else writes its file or tells the daemon
\* to show something else: nothing the composer does afterwards takes it off
\* the display, and half an activation is not reported as one
\* (activate_layout_document: set_layout, then set_default_layout).  The
\* composer goes on saying active when another tab, the tray or another program
\* has shown something else, and when that, or a restart, came between the two
\* calls (App.svelte:519, 565-602): touched names these cases.
ActiveMeansShown ==
  (mark = "active" /\ ~touched) => daemon.shown = draft

\* Loading, saving and applying end, and the controls come back: although a
\* save whose draft changed meanwhile would never reset its flag.
BusyEnds ==
  \A b \in {"loading", "saving", "applying"}: b \in busy ~> b \notin busy
=============================================================================
