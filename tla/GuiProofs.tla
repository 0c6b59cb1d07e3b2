------------------------------ MODULE GuiProofs ------------------------------
(***************************************************************************)
(* The two tabs of the GUI.                                                *)
(*                                                                         *)
(* The layout studio, for any names, contents and profiles, any number of  *)
(* edits, previews, other programs writing the same files or calling the   *)
(* daemon, ends of the GUI and restarts of the daemon: what is marked      *)
(* saved is so, what is marked active is until others interfere, the       *)
(* preview is of the draft, and a save replaces nothing newer than what    *)
(* the composer knows of the file.  Nothing but the disabled controls      *)
(* keeps the draft in place while a save is in flight; the invariant       *)
(* begins with them.                                                       *)
(*                                                                         *)
(* Streams, for any number of candidate displays, calls, disconnects and   *)
(* restarts: no X server is left behind but those whose report could not   *)
(* be read, and no frame of an ended stream stays readable while connected *)
(* displays show a layout.  Any other server belongs to the handle or to   *)
(* the launch in progress; the two never name the same display, and while  *)
(* the listener launches nothing else touches the handle.  Once the        *)
(* displays are fed from a program it is the handle's: this needs to know  *)
(* that a rebuild is under way only while the connection is not up, so     *)
(* that the old program may go before the new source is in place.          *)
(***************************************************************************)
EXTENDS LayoutStudio, StreamPreview, TLAPS

-----------------------------------------------------------------------------
(***************************************************************************)
(* The layout studio                                                       *)
(***************************************************************************)


\* While a load or a save is in flight the controls are disabled, so it is
\* the only one, and what a save was started with is still in the composer.
Exclusive ==
  /\ load # None => "loading" \in busy /\ save = None
  /\ save # None =>
       /\ busy # {}
       /\ save.current
       /\ save.doc = draft
       /\ save.expected = IF home = draft.name THEN print ELSE None

\* A preview that is still current was asked for the draft and profile as
\* they are.
Asked ==
  /\ timer => draft # None
  /\ \A r \in renders : r.current =>
       /\ draft # None
       /\ r.body = draft.body
       /\ r.profile = profile

\* What a save knows of the file and of the daemon at each of its steps,
\* unless another program came in between.
Underway ==
  save # None =>
    /\ save.at = "rename" => temp = save.doc
    /\ save.at = "answered" =>
         save.answer \in {"error", "saved", "active"}
    /\ ~save.raced =>
         /\ save.at \in {"write", "sync", "rename"} =>
              Replaceable(save.doc.name, save.expected)
         /\ save.at \in {"activate", "default"} =>
              file[save.doc.name] = save.doc
         /\ save.at = "default" => daemon.shown = save.doc
         /\ save.at = "answered" /\ save.answer = "active" =>
              /\ file[save.doc.name] = save.doc
              /\ daemon.shown = save.doc
              /\ daemon.layout = save.doc.name

\* An active draft is on the display, in its file and in the configuration.
Activated ==
  mark = "active" /\ ~touched =>
    /\ draft \in Docs
    /\ file[draft.name] = draft
    /\ daemon.shown = draft
    /\ daemon.layout = draft.name

Inv ==
  /\ TypeOK /\ Exclusive /\ Asked /\ Underway /\ Activated
  /\ SavedTruthful /\ PreviewFresh
-----------------------------------------------------------------------------
(* Requests in flight *)

\* With the controls enabled nothing is in flight but previews.
LEMMA EnabledIsIdle ==
    ASSUME Exclusive, Enabled
    PROVE  /\ load = None /\ save = None
           /\ Late(load) = None /\ Late(save) = None
  BY DEF Exclusive, Enabled, Late

LEMMA LateRequest ==
    ASSUME NEW r \in Renders
    PROVE  Late(r) \in Renders /\ ~Late(r).current
<1>1. r # None
  BY NoneApart
<1>2. Late(r) = [r EXCEPT !.current = FALSE]
  BY <1>1 DEF Late
<1> QED
  BY <1>2 DEF Renders

LEMMA BumpedRenders ==
    ASSUME renders \subseteq Renders, BumpPreview
    PROVE  renders' \subseteq Renders /\ \A r \in renders' : ~r.current
<1> SUFFICES ASSUME NEW q \in renders'
             PROVE  q \in Renders /\ ~q.current
  OBVIOUS
<1>1. PICK r \in renders : q = Late(r)
  BY DEF BumpPreview
<1> QED
  BY <1>1, LateRequest

\* A save that goes on to another step.
LEMMA SaveGoesOn ==
    ASSUME TypeOK, save # None, NEW at \in Steps, Goto(at)
    PROVE  /\ save' \in Saves /\ save' # None
           /\ save'.op = save.op /\ save'.doc = save.doc
           /\ save'.expected = save.expected /\ save'.at = at
           /\ save'.answer = save.answer /\ save'.current = save.current
           /\ save'.raced = save.raced
<1>1. save \in Saves
  BY DEF TypeOK
<1>2. save' = [save EXCEPT !.at = at]
  BY DEF Goto
<1> QED
  BY <1>1, <1>2, NoneApart DEF Saves

LEMMA SaveAnswers ==
    ASSUME TypeOK, save # None, NEW a \in {"error", "saved", "active"},
           Answer(a)
    PROVE  /\ save' \in Saves /\ save' # None
           /\ save'.op = save.op /\ save'.doc = save.doc
           /\ save'.expected = save.expected /\ save'.at = "answered"
           /\ save'.answer = a /\ save'.current = save.current
           /\ save'.raced = save.raced
<1>1. save \in Saves
  BY DEF TypeOK
<1>2. save' = [save EXCEPT !.at = "answered", !.answer = a]
  BY DEF Answer
<1> QED
  BY <1>1, <1>2, NoneApart DEF Saves, Steps

\* A save that another program came between.
LEMMA RacedSave ==
    ASSUME TypeOK, save # None, save' = [save EXCEPT !.raced = TRUE]
    PROVE  /\ save' \in Saves /\ save' # None /\ save'.raced
           /\ save'.doc = save.doc /\ save'.expected = save.expected
           /\ save'.at = save.at /\ save'.answer = save.answer
           /\ save'.current = save.current
<1>1. save \in Saves
  BY DEF TypeOK
<1>2. save' \in Saves
  BY <1>1 DEF Saves
<1>3. save'.raced = TRUE
  BY <1>1 DEF Saves
<1> QED
  BY <1>1, <1>2, <1>3, NoneApart DEF Saves

LEMMA SaveShape ==
    ASSUME TypeOK, save # None
    PROVE  /\ save \in Saves /\ save.doc \in Docs /\ save.doc.name \in Names
           /\ save.op \in {"save", "apply"} /\ save.at \in Steps
           /\ save.expected \in Docs \union {None}
           /\ save.answer \in {None, "error", "saved", "active"}
           /\ save.raced \in BOOLEAN /\ save.current \in BOOLEAN
  BY DEF TypeOK, Saves, Docs

-----------------------------------------------------------------------------
(* The composer *)

LEMMA InitInv == Init => Inv
<1> SUFFICES ASSUME Init
             PROVE  Inv
  OBVIOUS
<1>1. TypeOK
  BY SquareIsProfile DEF Init, TypeOK, Marks
<1>2. Exclusive /\ Asked /\ Underway /\ Activated
  BY DEF Init, Exclusive, Asked, Underway, Activated
<1>3. SavedTruthful /\ PreviewFresh
  BY DEF Init, SavedTruthful, PreviewFresh
<1> QED
  BY <1>1, <1>2, <1>3 DEF Inv

LEMMA EditInv ==
    ASSUME Inv, Edit
    PROVE  Inv'
<1>1. /\ TypeOK /\ Exclusive
      /\ Enabled
      /\ Count("edits", MaxEdits)
      /\ UNCHANGED <<file, temp, daemon, home, profile, busy, touched>>
  BY DEF Inv, Edit, disk
<1>2. PICK doc \in Docs : Commit(doc)
  BY DEF Edit
<1>3. /\ draft' = doc /\ doc \in Docs /\ doc # None /\ mark' = "unsaved"
      /\ print' \in Docs \union {None}
      /\ preview' = None /\ timer' = TRUE
      /\ load' = None /\ save' = None
      /\ BumpPreview
  BY <1>1, <1>2, EnabledIsIdle, NoneApart DEF Commit, BumpDraft, TypeOK
<1>4. renders' \subseteq Renders /\ \A r \in renders' : ~r.current
  BY <1>1, <1>3, BumpedRenders DEF TypeOK
<1>5. TypeOK'
  BY <1>1, <1>3, <1>4 DEF TypeOK, Marks
<1>6. Exclusive' /\ Asked' /\ Underway' /\ Activated'
  BY <1>3, <1>4 DEF Exclusive, Asked, Underway, Activated
<1>7. SavedTruthful' /\ PreviewFresh'
  BY <1>3 DEF SavedTruthful, PreviewFresh
<1> QED
  BY <1>5, <1>6, <1>7 DEF Inv

LEMMA SelectProfileInv ==
    ASSUME Inv, SelectProfile
    PROVE  Inv'
<1>1. /\ TypeOK /\ Exclusive /\ Activated /\ SavedTruthful
      /\ load = None /\ save = None
      /\ profile' \in Profiles /\ preview' = None
      /\ BumpPreview
      /\ timer' = (draft # None)
      /\ UNCHANGED <<file, temp, daemon, draft, print, home, mark, load, save,
                     busy, touched>>
  BY EnabledIsIdle DEF Inv, SelectProfile, disk, editor
<1>2. renders' \subseteq Renders /\ \A r \in renders' : ~r.current
  BY <1>1, BumpedRenders DEF TypeOK
<1>3. TypeOK'
  BY <1>1, <1>2 DEF TypeOK
<1>4. Exclusive' /\ Asked' /\ Underway' /\ Activated'
  BY <1>1, <1>2 DEF Exclusive, Asked, Underway, Activated
<1>5. SavedTruthful' /\ PreviewFresh'
  BY <1>1 DEF SavedTruthful, PreviewFresh
<1> QED
  BY <1>3, <1>4, <1>5 DEF Inv

\* The steps that leave file, daemon, composer and requests alone.
LEMMA ViewInv ==
    ASSUME Inv, TypeOK',
           UNCHANGED <<file, temp, daemon, draft, print, home, mark, profile,
                       load, save, busy, touched>>,
           Asked', PreviewFresh'
    PROVE  Inv'
<1>1. Exclusive' /\ Activated' /\ SavedTruthful'
  BY DEF Inv, Exclusive, Activated, SavedTruthful
<1>2. Underway'
  BY DEF Inv, Underway, Replaceable
<1> QED
  BY <1>1, <1>2 DEF Inv

LEMMA RenderInv ==
    ASSUME Inv, Render
    PROVE  Inv'
<1>1. /\ TypeOK /\ Asked /\ PreviewFresh
      /\ timer /\ timer' = FALSE
      /\ UNCHANGED <<file, temp, daemon, draft, print, home, mark, profile,
                     preview, load, save, busy, used, touched>>
  BY DEF Inv, Render, disk, editor
<1>2. draft \in Docs
  BY <1>1 DEF Asked, TypeOK
<1> DEFINE new == [body |-> draft.body, profile |-> profile, current |-> TRUE]
<1>3. renders' = {Late(r) : r \in renders} \union {new}
  BY DEF Render
<1>4. new \in Renders
  BY <1>1, <1>2 DEF Renders, TypeOK, Docs
<1>5. new.body = draft.body /\ new.profile = profile
  OBVIOUS
<1> HIDE DEF new
<1>6. ASSUME NEW q \in renders'
      PROVE  /\ q \in Renders
             /\ q.current => q.body = draft.body /\ q.profile = profile
  <2>1. CASE q = new
    BY <1>4, <1>5, <2>1
  <2>2. CASE q # new
    <3>1. PICK r \in renders : q = Late(r)
      BY <1>3, <2>2
    <3> QED
      BY <1>1, <3>1, LateRequest DEF TypeOK
  <2> QED
    BY <2>1, <2>2
<1>7. TypeOK'
  BY <1>1, <1>6 DEF TypeOK
<1>8. Asked'
  BY <1>1, <1>2, <1>6, NoneApart DEF Asked
<1>9. PreviewFresh'
  BY <1>1 DEF PreviewFresh
<1> QED
  BY <1>1, <1>7, <1>8, <1>9, ViewInv

LEMMA RenderedInv ==
    ASSUME Inv, NEW r \in renders, Rendered(r)
    PROVE  Inv'
<1>1. /\ TypeOK /\ Asked /\ PreviewFresh
      /\ renders' = renders \ {r}
      /\ UNCHANGED <<file, temp, daemon, draft, print, home, mark, profile,
                     timer, load, save, busy, used, touched>>
  BY DEF Inv, Rendered, disk, editor
<1>2. \/ UNCHANGED preview
      \/ preview' = None
      \/ /\ r.current
         /\ preview' = [body |-> r.body, profile |-> r.profile]
  BY DEF Rendered
<1>3. r \in Renders
  BY <1>1 DEF TypeOK
<1>4. TypeOK'
  BY <1>1, <1>2, <1>3 DEF TypeOK, Renders
<1>5. Asked'
  BY <1>1 DEF Asked
<1>6. PreviewFresh'
  BY <1>1, <1>2 DEF PreviewFresh, Asked
<1> QED
  BY <1>1, <1>4, <1>5, <1>6, ViewInv

-----------------------------------------------------------------------------
(* Loading *)

LEMMA StartLoadInv ==
    ASSUME Inv, StartLoad
    PROVE  Inv'
<1>1. /\ TypeOK /\ Exclusive
      /\ save = None
      /\ busy' = busy \union {"loading"}
      /\ UNCHANGED <<file, temp, daemon, draft, print, home, mark, profile,
                     preview, timer, renders, save, touched>>
  BY EnabledIsIdle DEF Inv, StartLoad, disk, editor, view
<1>2. PICK n \in Names, what \in {"preset", "reopen"} :
        load' = [what |-> what, name |-> n, doc |-> None, at |-> "asked",
                 current |-> TRUE]
  BY DEF StartLoad
<1>3. load' \in Loads
  BY <1>2 DEF Loads
<1>4. TypeOK'
  BY <1>1, <1>3 DEF TypeOK
<1>5. Exclusive'
  BY <1>1 DEF Exclusive
<1>6. Asked' /\ Activated' /\ SavedTruthful' /\ PreviewFresh'
  BY <1>1 DEF Inv, Asked, Activated, SavedTruthful, PreviewFresh
<1>7. Underway'
  BY <1>1 DEF Underway
<1> QED
  BY <1>4, <1>5, <1>6, <1>7 DEF Inv

LEMMA LoadRunsInv ==
    ASSUME Inv, LoadRuns
    PROVE  Inv'
<1>1. /\ TypeOK /\ Exclusive
      /\ load # None /\ load \in Loads
      /\ UNCHANGED <<file, temp, daemon, draft, print, home, mark, profile,
                     preview, timer, renders, save, busy, used, touched>>
  BY DEF Inv, LoadRuns, disk, editor, view, TypeOK
<1>2. PICK doc \in Docs \union {None} :
        load' = [load EXCEPT !.at = "answered", !.doc = doc]
  BY <1>1 DEF LoadRuns, Doc, Docs, Loads
<1>3. load' \in Loads
  BY <1>1, <1>2 DEF Loads
<1>4. TypeOK'
  BY <1>1, <1>3 DEF TypeOK
<1>5. Exclusive'
  BY <1>1 DEF Exclusive
<1>6. Asked' /\ Activated' /\ SavedTruthful' /\ PreviewFresh'
  BY <1>1 DEF Inv, Asked, Activated, SavedTruthful, PreviewFresh
<1>7. Underway'
  BY <1>1 DEF Inv, Underway, Replaceable
<1> QED
  BY <1>4, <1>5, <1>6, <1>7 DEF Inv

LEMMA LoadAnsweredInv ==
    ASSUME Inv, LoadAnswered
    PROVE  Inv'
<1>1. /\ TypeOK /\ Exclusive
      /\ load # None /\ load \in Loads /\ save = None
      /\ load' = None /\ busy' = busy \ {"loading"}
      /\ UNCHANGED <<file, temp, daemon, profile, used, touched>>
  BY DEF Inv, LoadAnswered, disk, TypeOK, Exclusive
<1>2. CASE load.current /\ load.doc # None
  <2>1. /\ Opened /\ preview' = None /\ timer' = TRUE
        /\ BumpPreview /\ save' = None
    BY <1>1, <1>2 DEF LoadAnswered, Late
  <2>2. /\ draft' \in Docs /\ draft' # None
        /\ print' \in Docs \union {None} /\ home' \in Names \union {None}
        /\ mark' \in {"saved", "unsaved"}
        /\ mark' = "saved" => draft' = print' /\ home' = draft'.name
    BY <1>1, <1>2, <2>1, NoneApart DEF Opened, Loads, Docs
  <2>3. renders' \subseteq Renders /\ \A r \in renders' : ~r.current
    BY <1>1, <2>1, BumpedRenders DEF TypeOK
  <2>4. TypeOK'
    BY <1>1, <2>1, <2>2, <2>3 DEF TypeOK, Marks
  <2>5. Exclusive' /\ Asked' /\ Underway' /\ Activated'
    BY <1>1, <2>1, <2>2, <2>3 DEF Exclusive, Asked, Underway, Activated
  <2>6. SavedTruthful' /\ PreviewFresh'
    BY <2>1, <2>2 DEF SavedTruthful, PreviewFresh
  <2> QED
    BY <2>4, <2>5, <2>6 DEF Inv
<1>3. CASE ~(load.current /\ load.doc # None)
  <2>1. UNCHANGED <<draft, print, home, mark, preview, timer, renders, save>>
    BY <1>3 DEF LoadAnswered, editor
  <2>2. TypeOK'
    BY <1>1, <2>1 DEF TypeOK
  <2>3. Exclusive' /\ Underway'
    BY <1>1, <2>1 DEF Exclusive, Underway
  <2>4. Asked' /\ Activated' /\ SavedTruthful' /\ PreviewFresh'
    BY <1>1, <2>1 DEF Inv, Asked, Activated, SavedTruthful, PreviewFresh
  <2> QED
    BY <2>2, <2>3, <2>4 DEF Inv
<1> QED
  BY <1>2, <1>3
-----------------------------------------------------------------------------
(* Saving *)

\* The steps of a save that leave the composer alone.
LEMMA SavingInv ==
    ASSUME Inv, TypeOK', save # None, save' # None,
           UNCHANGED <<draft, print, home, mark, profile, preview, timer,
                       renders, load, busy, touched>>,
           save'.current = save.current, save'.doc = save.doc,
           save'.expected = save.expected,
           Underway', Activated'
    PROVE  Inv'
<1>1. load = None
  BY DEF Inv, Exclusive
<1>2. Exclusive'
  BY <1>1 DEF Inv, Exclusive
<1>3. Asked' /\ SavedTruthful' /\ PreviewFresh'
  BY DEF Inv, Asked, SavedTruthful, PreviewFresh
<1> QED
  BY <1>2, <1>3 DEF Inv

LEMMA StartSaveInv ==
    ASSUME Inv, StartSave
    PROVE  Inv'
<1>1. /\ TypeOK /\ Exclusive
      /\ load = None /\ draft \in Docs
      /\ UNCHANGED <<file, temp, daemon, draft, print, home, mark, profile,
                     preview, timer, renders, load, used, touched>>
  BY EnabledIsIdle DEF Inv, StartSave, disk, editor, view, TypeOK
<1>2. PICK op \in {"save", "apply"} :
        /\ save' = [op |-> op, doc |-> draft,
                    expected |-> IF home = draft.name THEN print ELSE None,
                    at |-> "check", answer |-> None, current |-> TRUE,
                    raced |-> FALSE]
        /\ busy' = busy
             \union {IF op = "save" THEN "saving" ELSE "applying"}
  BY DEF StartSave
<1> DEFINE expected == IF home = draft.name THEN print ELSE None
<1>3. expected \in Docs \union {None}
  BY <1>1 DEF TypeOK
<1>4. /\ save' = [op |-> op, doc |-> draft, expected |-> expected,
                  at |-> "check", answer |-> None, current |-> TRUE,
                  raced |-> FALSE]
      /\ expected = IF home = draft.name THEN print ELSE None
  BY <1>2
<1> HIDE DEF expected
<1>5. save' \in Saves
  BY <1>1, <1>3, <1>4 DEF Saves, Steps
<1>6. /\ save'.doc = draft /\ save'.expected = expected
      /\ save'.at = "check" /\ save'.current
  BY <1>4
<1>7. busy' # {} /\ busy' \subseteq {"loading", "saving", "applying"}
  BY <1>1, <1>2 DEF TypeOK
<1>8. TypeOK'
  BY <1>1, <1>5, <1>7 DEF TypeOK
<1>9. Exclusive'
  BY <1>1, <1>4, <1>6, <1>7 DEF Exclusive
<1>10. Asked' /\ Activated' /\ SavedTruthful' /\ PreviewFresh'
  BY <1>1 DEF Inv, Asked, Activated, SavedTruthful, PreviewFresh
<1>11. Underway'
  BY <1>6 DEF Underway
<1> QED
  BY <1>8, <1>9, <1>10, <1>11 DEF Inv

LEMMA CheckInv ==
    ASSUME Inv, Check
    PROVE  Inv'
<1>1. /\ TypeOK /\ save # None /\ save \in Saves
      /\ UNCHANGED <<file, temp, daemon, draft, print, home, mark, profile,
                     preview, timer, renders, load, busy, used, touched>>
  BY DEF Inv, Check, At, disk, editor, view, TypeOK
<1>2. /\ save' \in Saves /\ save' # None
      /\ save'.current = save.current /\ save'.doc = save.doc
      /\ save'.expected = save.expected
      /\ \/ /\ save'.at = "write"
            /\ Replaceable(save.doc.name, save.expected)
         \/ save'.at = "answered" /\ save'.answer = "error"
  <2>1. CASE Replaceable(save.doc.name, save.expected)
    <3>1. save' = [save EXCEPT !.at = "write", !.raced = FALSE]
      BY <2>1 DEF Check
    <3> QED
      BY <1>1, <2>1, <3>1, NoneApart DEF Saves, Steps
  <2>2. CASE ~Replaceable(save.doc.name, save.expected)
    BY <1>1, <2>2, SaveAnswers DEF Check
  <2> QED
    BY <2>1, <2>2
<1>3. TypeOK'
  BY <1>1, <1>2 DEF TypeOK
<1>4. Underway'
  BY <1>1, <1>2 DEF Underway, Replaceable
<1>5. Activated'
  BY <1>1 DEF Inv, Activated
<1> QED
  BY <1>1, <1>2, <1>3, <1>4, <1>5, SavingInv

LEMMA CreateInv ==
    ASSUME Inv, Create
    PROVE  Inv'
<1>1. /\ TypeOK /\ save # None /\ save.at = "write"
      /\ temp' = Torn /\ Goto("sync")
      /\ UNCHANGED <<file, daemon, draft, print, home, mark, profile,
                     preview, timer, renders, load, busy, used, touched>>
  BY DEF Inv, Create, At, editor, view
<1>2. /\ save' \in Saves /\ save' # None /\ save'.doc = save.doc
      /\ save'.expected = save.expected /\ save'.at = "sync"
      /\ save'.current = save.current /\ save'.raced = save.raced
  BY <1>1, SaveGoesOn DEF Steps
<1>3. TypeOK'
  BY <1>1, <1>2 DEF TypeOK
<1>4. Underway'
  BY <1>1, <1>2 DEF Inv, Underway, Replaceable
<1>5. Activated'
  BY <1>1 DEF Inv, Activated
<1> QED
  BY <1>1, <1>2, <1>3, <1>4, <1>5, SavingInv

LEMMA SyncInv ==
    ASSUME Inv, Sync
    PROVE  Inv'
<1>1. /\ TypeOK /\ save # None /\ save.at = "sync"
      /\ temp' = save.doc /\ save.doc \in Docs /\ Goto("rename")
      /\ UNCHANGED <<file, daemon, draft, print, home, mark, profile,
                     preview, timer, renders, load, busy, used, touched>>
  BY SaveShape DEF Inv, Sync, At, editor, view
<1>2. /\ save' \in Saves /\ save' # None /\ save'.doc = save.doc
      /\ save'.expected = save.expected /\ save'.at = "rename"
      /\ save'.current = save.current /\ save'.raced = save.raced
  BY <1>1, SaveGoesOn DEF Steps
<1>3. TypeOK'
  BY <1>1, <1>2 DEF TypeOK
<1>4. Underway'
  BY <1>1, <1>2 DEF Inv, Underway, Replaceable
<1>5. Activated'
  BY <1>1 DEF Inv, Activated
<1> QED
  BY <1>1, <1>2, <1>3, <1>4, <1>5, SavingInv

LEMMA RenameInv ==
    ASSUME Inv, Rename
    PROVE  Inv'
<1>1. /\ TypeOK /\ save # None /\ save.at = "rename"
      /\ temp' = None
      /\ UNCHANGED <<daemon, draft, print, home, mark, profile, preview,
                     timer, renders, load, busy, used, touched>>
  BY DEF Inv, Rename, At, editor, view
<1>2. /\ temp = save.doc /\ save.doc \in Docs /\ save.doc.name \in Names
      /\ save.doc = draft
  BY <1>1, SaveShape DEF Inv, Underway, Exclusive
<1>3. file' \in [Names -> Docs \union {None}] /\ file'[draft.name] = draft
  BY <1>1, <1>2 DEF Rename, TypeOK
<1>4. /\ save' \in Saves /\ save' # None /\ save'.doc = save.doc
      /\ save'.expected = save.expected
      /\ save'.current = save.current /\ save'.raced = save.raced
      /\ \/ save'.at = "activate"
         \/ save'.at = "answered" /\ save'.answer = "saved"
  BY <1>1, SaveGoesOn, SaveAnswers DEF Rename, Steps
<1>5. TypeOK'
  BY <1>1, <1>3, <1>4 DEF TypeOK
<1>6. Underway'
  BY <1>2, <1>3, <1>4, NoneApart DEF Underway
<1>7. Activated'
  BY <1>1, <1>3 DEF Inv, Activated
<1> QED
  BY <1>1, <1>4, <1>5, <1>6, <1>7, SavingInv

LEMMA SaveFailsInv ==
    ASSUME Inv, SaveFails
    PROVE  Inv'
<1>1. /\ TypeOK /\ save # None
      /\ temp' = None /\ Answer("error")
      /\ UNCHANGED <<file, daemon, draft, print, home, mark, profile,
                     preview, timer, renders, load, busy, used, touched>>
  BY DEF Inv, SaveFails, At, editor, view
<1>2. /\ save' \in Saves /\ save' # None /\ save'.doc = save.doc
      /\ save'.expected = save.expected
      /\ save'.at = "answered" /\ save'.answer = "error"
      /\ save'.current = save.current
  BY <1>1, SaveAnswers
<1>3. TypeOK'
  BY <1>1, <1>2 DEF TypeOK
<1>4. Underway'
  BY <1>1, <1>2 DEF Underway
<1>5. Activated'
  BY <1>1 DEF Inv, Activated
<1> QED
  BY <1>1, <1>2, <1>3, <1>4, <1>5, SavingInv

LEMMA SetLayoutInv ==
    ASSUME Inv, SetLayout
    PROVE  Inv'
<1>1. /\ TypeOK /\ save # None /\ save.at = "activate"
      /\ UNCHANGED <<file, temp, draft, print, home, mark, profile, preview,
                     timer, renders, load, busy, used, touched>>
  BY DEF Inv, SetLayout, At, disk, editor, view
<1>2. save.doc \in Docs /\ save.doc.name \in Names /\ save.doc = draft
  BY <1>1, SaveShape DEF Inv, Exclusive
<1>3. CASE /\ file[save.doc.name] \in Docs
           /\ daemon' = [daemon EXCEPT !.shown = file[save.doc.name]]
           /\ Goto("default")
  <2>1. /\ save' \in Saves /\ save' # None /\ save'.doc = save.doc
        /\ save'.expected = save.expected /\ save'.at = "default"
        /\ save'.current = save.current /\ save'.raced = save.raced
    BY <1>1, <1>3, SaveGoesOn DEF Steps
  <2>2. /\ daemon' \in [shown: Docs \union {None}, layout: Names \union {None}]
        /\ daemon'.shown = file[draft.name]
        /\ daemon'.layout = daemon.layout
    BY <1>1, <1>2, <1>3 DEF TypeOK
  <2>3. TypeOK'
    BY <1>1, <2>1, <2>2 DEF TypeOK
  <2>4. Underway'
    BY <1>1, <1>2, <2>1, <2>2 DEF Inv, Underway
  <2>5. Activated'
    BY <1>1, <2>2 DEF Inv, Activated
  <2> QED
    BY <1>1, <2>1, <2>3, <2>4, <2>5, SavingInv
<1>4. CASE Answer("saved") /\ UNCHANGED daemon
  <2>1. /\ save' \in Saves /\ save' # None /\ save'.doc = save.doc
        /\ save'.expected = save.expected
        /\ save'.at = "answered" /\ save'.answer = "saved"
        /\ save'.current = save.current
    BY <1>1, <1>4, SaveAnswers
  <2>2. TypeOK'
    BY <1>1, <1>4, <2>1 DEF TypeOK
  <2>3. Underway'
    BY <1>1, <2>1, NoneApart DEF Underway
  <2>4. Activated'
    BY <1>1, <1>4 DEF Inv, Activated
  <2> QED
    BY <1>1, <2>1, <2>2, <2>3, <2>4, SavingInv
<1> QED
  BY <1>3, <1>4 DEF SetLayout

LEMMA SetDefaultInv ==
    ASSUME Inv, SetDefault
    PROVE  Inv'
<1>1. /\ TypeOK /\ save # None /\ save.at = "default"
      /\ UNCHANGED <<file, temp, draft, print, home, mark, profile, preview,
                     timer, renders, load, busy, used, touched>>
  BY DEF Inv, SetDefault, At, disk, editor, view
<1>2. save.doc \in Docs /\ save.doc.name \in Names /\ save.doc = draft
  BY <1>1, SaveShape DEF Inv, Exclusive
<1>3. PICK a \in {"active", "saved"} :
        /\ Answer(a)
        /\ daemon' = IF a = "active"
                     THEN [daemon EXCEPT !.layout = save.doc.name] ELSE daemon
  BY DEF SetDefault
<1>4. /\ save' \in Saves /\ save' # None /\ save'.doc = save.doc
      /\ save'.expected = save.expected
      /\ save'.at = "answered" /\ save'.answer = a
      /\ save'.current = save.current /\ save'.raced = save.raced
  BY <1>1, <1>3, SaveAnswers
<1>5. /\ daemon' \in [shown: Docs \union {None}, layout: Names \union {None}]
      /\ daemon'.shown = daemon.shown
      /\ daemon'.layout = IF a = "active" THEN draft.name ELSE daemon.layout
  BY <1>1, <1>2, <1>3 DEF TypeOK
<1>6. TypeOK'
  BY <1>1, <1>4, <1>5 DEF TypeOK
<1>7. Underway'
  BY <1>1, <1>2, <1>4, <1>5, NoneApart DEF Inv, Underway
<1>8. Activated'
  BY <1>1, <1>5 DEF Inv, Activated
<1> QED
  BY <1>1, <1>4, <1>6, <1>7, <1>8, SavingInv

LEMMA SaveAnsweredInv ==
    ASSUME Inv, SaveAnswered
    PROVE  Inv'
<1>1. /\ TypeOK /\ Exclusive /\ save # None /\ save.at = "answered"
      /\ save' = None
      /\ busy' \subseteq busy
      /\ UNCHANGED <<file, temp, daemon, profile, preview, load, used>>
  BY DEF Inv, SaveAnswered, At, disk
<1>2. /\ save.doc \in Docs /\ save.doc.name \in Names /\ save.doc = draft
      /\ save.current /\ load = None
      /\ save.answer \in {"error", "saved", "active"}
      /\ save.raced \in BOOLEAN
  BY <1>1, SaveShape DEF Inv, Exclusive, Underway
<1>3. Exclusive' /\ Underway'
  BY <1>1, <1>2 DEF Exclusive, Underway
<1>4. CASE save.answer # "error"
  <2>1. /\ draft' = save.doc /\ print' = save.doc /\ home' = save.doc.name
        /\ mark' = save.answer /\ touched' = save.raced
        /\ BumpPreview /\ timer' = TRUE
    BY <1>2, <1>4 DEF SaveAnswered
  <2>2. renders' \subseteq Renders /\ \A r \in renders' : ~r.current
    BY <1>1, <2>1, BumpedRenders DEF TypeOK
  <2>3. TypeOK'
    BY <1>1, <1>2, <1>4, <2>1, <2>2 DEF TypeOK, Marks
  <2>4. Asked'
    BY <1>2, <2>1, <2>2, NoneApart DEF Asked
  <2>5. Activated'
    BY <1>1, <1>2, <2>1 DEF Inv, Underway, Activated
  <2>6. SavedTruthful' /\ PreviewFresh'
    BY <1>1, <1>2, <2>1 DEF Inv, SavedTruthful, PreviewFresh
  <2> QED
    BY <1>3, <2>3, <2>4, <2>5, <2>6 DEF Inv
<1>5. CASE save.answer = "error"
  <2>1. UNCHANGED <<draft, print, home, mark, touched, renders, timer>>
    BY <1>5 DEF SaveAnswered, editor
  <2>2. TypeOK'
    BY <1>1, <2>1 DEF TypeOK
  <2>3. Asked' /\ Activated' /\ SavedTruthful' /\ PreviewFresh'
    BY <1>1, <2>1 DEF Inv, Asked, Activated, SavedTruthful, PreviewFresh
  <2> QED
    BY <1>3, <2>2, <2>3 DEF Inv
<1> QED
  BY <1>4, <1>5

-----------------------------------------------------------------------------
(* The surroundings *)

LEMMA OutsideInv ==
    ASSUME Inv, Outside
    PROVE  Inv'
<1>1. /\ TypeOK /\ Exclusive /\ Underway /\ Activated
      /\ Count("events", MaxEvents)
      /\ UNCHANGED <<temp, daemon, draft, print, home, mark, profile, preview,
                     timer, renders, load, busy>>
  BY DEF Inv, Outside, editor, view
<1>2. PICK n \in Names, d \in Docs \union {None} :
        /\ file' = [file EXCEPT ![n] = d]
        /\ touched' = (touched \/ n = home)
        /\ save' = IF save # None /\ save.doc.name = n
                   THEN [save EXCEPT !.raced = TRUE] ELSE save
  BY DEF Outside
<1>3. /\ file' \in [Names -> Docs \union {None}]
      /\ \A m \in Names \ {n} : file'[m] = file[m]
  BY <1>1, <1>2 DEF TypeOK
<1>4. /\ save' = None <=> save = None
      /\ save' \in Saves \union {None}
      /\ save # None =>
           /\ save'.current = save.current /\ save'.doc = save.doc
           /\ save'.expected = save.expected /\ save'.at = save.at
           /\ save'.answer = save.answer
           /\ ~save'.raced => ~save.raced /\ save.doc.name # n
  <2>1. CASE save # None /\ save.doc.name = n
    BY <1>1, <1>2, <2>1, RacedSave
  <2>2. CASE ~(save # None /\ save.doc.name = n)
    <3>1. save' = save
      BY <1>2, <2>2
    <3> QED
      BY <1>1, <2>2, <3>1 DEF TypeOK
  <2> QED
    BY <2>1, <2>2
<1>5. touched' \in BOOLEAN /\ (~touched' => ~touched /\ home # n)
  BY <1>1, <1>2 DEF TypeOK
<1>6. TypeOK'
  BY <1>1, <1>3, <1>4, <1>5 DEF TypeOK
<1>7. Exclusive'
  BY <1>1, <1>4 DEF Exclusive
<1>8. Underway'
  <2>1. save # None => save.doc.name \in Names
    BY <1>1, SaveShape
  <2> QED
    BY <1>1, <1>3, <1>4, <2>1 DEF Underway, Replaceable
<1>9. Activated'
  BY <1>1, <1>3, <1>5 DEF Inv, Activated, SavedTruthful, Docs
<1>10. Asked' /\ SavedTruthful' /\ PreviewFresh'
  BY <1>1 DEF Inv, Asked, SavedTruthful, PreviewFresh
<1> QED
  BY <1>6, <1>7, <1>8, <1>9, <1>10 DEF Inv

LEMMA QuitInv ==
    ASSUME Inv, Quit
    PROVE  Inv'
<1>1. /\ TypeOK
      /\ draft' = None /\ print' = None /\ home' = None /\ mark' = "unsaved"
      /\ preview' = None /\ timer' = FALSE /\ renders' = {}
      /\ load' = None /\ save' = None /\ busy' = {} /\ temp' = None
      /\ UNCHANGED <<file, daemon, profile, touched>>
  BY DEF Inv, Quit
<1>2. TypeOK'
  BY <1>1 DEF TypeOK, Marks
<1>3. Exclusive' /\ Asked' /\ Underway' /\ Activated'
  BY <1>1 DEF Exclusive, Asked, Underway, Activated
<1>4. SavedTruthful' /\ PreviewFresh'
  BY <1>1 DEF SavedTruthful, PreviewFresh
<1> QED
  BY <1>2, <1>3, <1>4 DEF Inv

LEMMA RestartInv ==
    ASSUME Inv, Restart
    PROVE  Inv'
<1>1. /\ TypeOK /\ Exclusive /\ Underway /\ Activated
      /\ UNCHANGED <<file, temp, draft, print, home, mark, profile, preview,
                     timer, renders, load, busy, touched>>
      /\ save' = IF At("default") THEN [save EXCEPT !.raced = TRUE] ELSE save
  BY DEF Inv, Restart, disk, editor, view
<1> DEFINE read == IF daemon.layout # None /\ file[daemon.layout] \in Docs
                   THEN file[daemon.layout] ELSE None
<1>2. daemon' = [daemon EXCEPT !.shown = read]
  BY DEF Restart
<1>3. read \in Docs \union {None}
  OBVIOUS
<1>4. \A doc \in Docs : daemon.layout = doc.name /\ file[doc.name] = doc
                          => read = doc
  BY NoneApart DEF Docs
<1> HIDE DEF read
<1>5. /\ daemon' \in [shown: Docs \union {None}, layout: Names \union {None}]
      /\ daemon'.shown = read /\ daemon'.layout = daemon.layout
  BY <1>1, <1>2, <1>3 DEF TypeOK
<1>6. /\ save' = None <=> save = None
      /\ save' \in Saves \union {None}
      /\ save # None =>
           /\ save'.current = save.current /\ save'.doc = save.doc
           /\ save'.expected = save.expected /\ save'.at = save.at
           /\ save'.answer = save.answer
           /\ ~save'.raced => ~save.raced /\ save.at # "default"
  <2>1. CASE At("default")
    BY <1>1, <2>1, RacedSave DEF At
  <2>2. CASE ~At("default")
    <3>1. save' = save
      BY <1>1, <2>2
    <3> QED
      BY <1>1, <2>2, <3>1 DEF TypeOK, At
  <2> QED
    BY <2>1, <2>2
<1>7. TypeOK'
  BY <1>1, <1>5, <1>6 DEF TypeOK
<1>8. Exclusive'
  BY <1>1, <1>6 DEF Exclusive
<1>9. Underway'
  <2>1. save # None => save.doc \in Docs
    BY <1>1, SaveShape
  <2> QED
    BY <1>1, <1>4, <1>5, <1>6, <2>1 DEF Underway, Replaceable
<1>10. Activated'
  BY <1>1, <1>4, <1>5 DEF Activated
<1>11. Asked' /\ SavedTruthful' /\ PreviewFresh'
  BY <1>1 DEF Inv, Asked, SavedTruthful, PreviewFresh
<1> QED
  BY <1>7, <1>8, <1>9, <1>10, <1>11 DEF Inv
LEMMA OtherClientInv ==
    ASSUME Inv, OtherClient
    PROVE  Inv'
<1>1. /\ TypeOK /\ Exclusive /\ Underway
      /\ touched' = TRUE
      /\ UNCHANGED <<file, temp, draft, print, home, mark, profile, preview,
                     timer, renders, load, busy>>
      /\ save' = IF At("default") \/ At("answered")
                 THEN [save EXCEPT !.raced = TRUE] ELSE save
  BY DEF Inv, OtherClient, disk, editor, view
<1>2. daemon' \in [shown: Docs \union {None}, layout: Names \union {None}]
  <2>1. \A n \in Names : file[n] \in Docs \union {None}
    BY <1>1 DEF TypeOK
  <2> QED
    BY <1>1, <2>1 DEF TypeOK, OtherClient
<1>3. /\ save' = None <=> save = None
      /\ save' \in Saves \union {None}
      /\ save # None =>
           /\ save'.current = save.current /\ save'.doc = save.doc
           /\ save'.expected = save.expected /\ save'.at = save.at
           /\ save'.answer = save.answer
           /\ ~save'.raced => /\ ~save.raced
                              /\ save.at # "default" /\ save.at # "answered"
  <2>1. CASE At("default") \/ At("answered")
    BY <1>1, <2>1, RacedSave DEF At
  <2>2. CASE ~(At("default") \/ At("answered"))
    <3>1. save' = save
      BY <1>1, <2>2
    <3> QED
      BY <1>1, <2>2, <3>1 DEF TypeOK, At
  <2> QED
    BY <2>1, <2>2
<1>4. TypeOK'
  BY <1>1, <1>2, <1>3 DEF TypeOK
<1>5. Exclusive'
  BY <1>1, <1>3 DEF Exclusive
<1>6. Underway'
  BY <1>1, <1>3 DEF Underway, Replaceable
<1>7. Activated'
  BY <1>1 DEF Activated
<1>8. Asked' /\ SavedTruthful' /\ PreviewFresh'
  BY <1>1 DEF Inv, Asked, SavedTruthful, PreviewFresh
<1> QED
  BY <1>4, <1>5, <1>6, <1>7, <1>8 DEF Inv
-----------------------------------------------------------------------------
(* Every step *)

LEMMA NextInv == Inv /\ [Next]_vars => Inv'
<1> SUFFICES ASSUME Inv, [Next]_vars
             PROVE  Inv'
  OBVIOUS
<1>1. CASE Edit \/ SelectProfile
  BY <1>1, EditInv, SelectProfileInv
<1>2. CASE Rendering
  BY <1>2, RenderInv, RenderedInv DEF Rendering
<1>3. CASE StartLoad \/ Loading
  BY <1>3, StartLoadInv, LoadRunsInv, LoadAnsweredInv DEF Loading
<1>4. CASE StartSave
  BY <1>4, StartSaveInv
<1>5. CASE Saving
  BY <1>5, CheckInv, CreateInv, SyncInv, RenameInv, SaveFailsInv, SetLayoutInv,
     SetDefaultInv, SaveAnsweredInv DEF Saving
<1>6. CASE Outside \/ Quit \/ Restart \/ OtherClient
  BY <1>6, OutsideInv, QuitInv, RestartInv, OtherClientInv
<1>7. CASE UNCHANGED vars
  <2>1. TypeOK'
    BY <1>7 DEF Inv, TypeOK, vars
  <2>2. Asked' /\ PreviewFresh'
    BY <1>7 DEF Inv, Asked, PreviewFresh, vars
  <2> QED
    BY <1>7, <2>1, <2>2, ViewInv DEF vars
<1> QED
  BY <1>1, <1>2, <1>3, <1>4, <1>5, <1>6, <1>7 DEF Next

LEMMA Invariance == Spec => []Inv
BY InitInv, NextInv, PTL DEF Spec

-----------------------------------------------------------------------------
(* What follows *)

\* Whatever is answered late, a draft shown as saved or active is the document
\* its fingerprint stands for, under the name it was saved as.  (saveDraft,
\* applyDraft, commitComposerDraft)
THEOREM SavedIsTruthful == Spec => []SavedTruthful
<1>1. Inv => SavedTruthful
  BY DEF Inv
<1> QED
  BY <1>1, Invariance, PTL

\* In whatever order previews are answered, and whatever is edited, loaded and
\* saved in the meantime, the preview shown is of the draft and of the profile
\* selected.  (composerPreviewRevision)
THEOREM PreviewIsFresh == Spec => []PreviewFresh
<1>1. Inv => PreviewFresh
  BY DEF Inv
<1> QED
  BY <1>1, Invariance, PTL

\* A draft shown as active is on the display and stays there through any number
\* of restarts of the daemon, until another program writes its file or another
\* client of the daemon shows or makes the default something else; after that,
\* or a restart between the two calls, the composer says active of what may not
\* be.  (activate_layout_document)
THEOREM ActiveIsShown == Spec => []ActiveMeansShown
<1>1. Inv => ActiveMeansShown
  BY DEF Inv, Activated, ActiveMeansShown
<1> QED
  BY <1>1, Invariance, PTL

\* Only a save and other programs change a layout file, and a save that no
\* other program came into replaces what the composer knows of it.
LEMMA ReplacesKnown ==
    ASSUME Inv, [Next]_vars, NEW n \in Names, file'[n] # file[n]
    PROVE  /\ file'[n] # Torn
           /\ (At("rename") /\ save' # save /\ ~save.raced)
                => file[n] = None \/ (file[n] = print /\ home = n)
<1>1. Rename \/ Outside
  BY DEF Next, Edit, SelectProfile, StartLoad, StartSave, Rendering, Render,
         Rendered, Loading, LoadRuns, LoadAnswered, Saving, Check, Create,
         Sync, SaveFails, SetLayout, SetDefault, SaveAnswered, Quit, Restart,
         OtherClient, disk, vars
<1>2. TypeOK /\ TypeOK'
  BY NextInv DEF Inv
<1>3. file'[n] # Torn
  BY <1>2, NoneApart DEF TypeOK
<1>4. ASSUME At("rename"), save' # save, ~save.raced
      PROVE  file[n] = None \/ (file[n] = print /\ home = n)
  <2>1. /\ save # None /\ save.at = "rename" /\ save.doc \in Docs
        /\ save.doc.name \in Names
    BY <1>2, <1>4, SaveShape DEF At
  <2>2. n = save.doc.name
    BY <1>1, <1>2, <1>4, <2>1 DEF Rename, Outside, TypeOK
  <2>3. Replaceable(save.doc.name, save.expected)
    BY <1>4, <2>1 DEF Inv, Underway
  <2>4. /\ save.doc = draft
        /\ save.expected = IF home = draft.name THEN print ELSE None
    BY <2>1 DEF Inv, Exclusive
  <2> QED
    BY <2>2, <2>3, <2>4 DEF Replaceable
<1> QED
  BY <1>3, <1>4

\* A layout file is whole at every moment, and a save replaces only what the
\* composer read from it or wrote to it: an edit from outside is lost only
\* between the check and the rename of the same save.  (atomic_replace,
\* save_layout_document)
THEOREM NewerEditsKept == Spec => EditsKept
<1> DEFINE A == \A n \in Names :
                  file'[n] # file[n] =>
                    /\ file'[n] # Torn
                    /\ (At("rename") /\ save' # save /\ ~save.raced)
                         => file[n] = None \/ (file[n] = print /\ home = n)
<1>1. Inv /\ [Next]_vars => [A]_vars
  BY ReplacesKnown
<1>2. Spec => [][A]_vars
  BY <1>1, Invariance, PTL DEF Spec
<1> QED
  BY <1>2 DEF EditsKept

-----------------------------------------------------------------------------
(***************************************************************************)
(* Streams                                                                 *)
(***************************************************************************)
\* The launch and the request have their shape.
Shaped ==
  /\ launch = [at |-> launch.at, n |-> launch.n]
  /\ launch.n \in Nat
  /\ request = [op |-> request.op, by |-> request.by, same |-> request.same]
  /\ request.op \in {"none", "start", "rebuild"}

\* The listener launches exactly while it works on a request, and the launch
\* has a display of its own until it failed.
Launches ==
  /\ launch.at = "none" <=> request.op = "none"
  /\ launch.at \in {"none", "failed"} => launch.n = 0
  /\ launch.at \notin {"none", "failed"} => launch.n # 0
  /\ launch.at \notin {"none", "failed", "bind"} => launch.n # handle

\* Whose the servers and programs are.
Owned ==
  /\ Held \cap orphans = {}
  /\ servers = Held \cup orphans
  /\ running \subseteq Held

\* What the displays are fed from.
Fed ==
  /\ link = "up" /\ source # 0 => source = handle
  /\ request.op = "rebuild" => link # "up"
  /\ ~up => source = 0 /\ request.op = "none"

\* There is no frame of this daemon without a stream.
Published == source = 0 => last # "this"

StreamInv == Shaped /\ Launches /\ Owned /\ Fed /\ Published

-----------------------------------------------------------------------------
LEMMA StreamInitInv == StreamInit => StreamInv
BY DEF StreamInit, LaunchInit, NoLaunch, NoRequest, StreamInv, Shaped,
       Launches, Owned, Held, Fed, Published

\* A step of the launch: one more candidate, one more step, or the end.
LEMMA LaunchStepInv == StreamInv /\ LaunchStep => StreamInv'
<1> SUFFICES ASSUME StreamInv, LaunchStep
             PROVE  StreamInv'
  OBVIOUS
<1> USE DEF StreamInv, Shaped, Launches, Owned, Held, Fed, Published
<1>1. /\ request.op # "none"
      /\ UNCHANGED <<up, link, request, handle, source, last>>
  BY DEF LaunchStep, daemonVars, Launching, BindTaken, BindFails, BindLost,
         Bind, ScreenReady, ScreenTimesOut, StartProgram, ProgramMissing,
         ProgramAlive, ProgramDied, SourceOpened, SourceRefused
<1>2. CASE BindTaken
  BY <1>1, <1>2 DEF BindTaken
<1>3. CASE BindFails \/ BindLost
  BY <1>1, <1>3 DEF BindFails, BindLost
<1>4. CASE Bind
  BY <1>1, <1>4 DEF Bind
<1>5. CASE /\ launch.at \in {"screen", "program", "grace", "source"}
           /\ Fail
  BY <1>1, <1>5 DEF Fail, Ended
<1>6. CASE /\ launch.at \in {"screen", "program", "grace", "source"}
           /\ \E at \in {"program", "grace", "source", "ready"} :
                launch' = [launch EXCEPT !.at = at]
           /\ UNCHANGED <<servers, orphans>>
           /\ running' \subseteq running \cup {launch.n}
  BY <1>1, <1>6
<1> QED
  BY <1>2, <1>3, <1>4, <1>5, <1>6
     DEF LaunchStep, Launching, ScreenReady, ScreenTimesOut, StartProgram,
         ProgramMissing, ProgramAlive, ProgramDied, SourceOpened, SourceRefused

\* The steps that touch nothing the invariant is about.
Elsewhere ==
  /\ running' \subseteq running
  /\ UNCHANGED <<launch, servers, orphans, up, link, request, handle, source,
                 last>>

LEMMA ElsewhereInv == StreamInv /\ Elsewhere => StreamInv'
BY DEF Elsewhere, StreamInv, Shaped, Launches, Owned, Held, Fed, Published

LEMMA UsersElsewhere ==
  ASSUME \/ Exit
         \/ \E a \in Actions : Click(a)
         \/ TrayOpens \/ TrayRefreshes \/ TrayCalls \/ TrayAsks \/ TrayReturns
         \/ TrayStatus
         \/ Open \/ Attach \/ Select \/ StartStream \/ StopStream \/ PollFrame
         \/ \E s \in Slots : ReadFrame(s) \/ FrameAnswered(s)
         \/ UNCHANGED streamVars
  PROVE  Elsewhere
BY DEF Exit, ProgramEnds, Click, TrayOpens, TrayRefreshes, TrayCalls, TrayAsks,
       TrayReturns, TrayStatus, Open, Attach, Select, StartStream, StopStream,
       PollFrame, ReadFrame, FrameAnswered, streamVars, launchVars, daemonVars,
       guiVars, Elsewhere

\* The daemon ends, and everything it had with it.
LEMMA EndInv == StreamInv /\ End => StreamInv'
BY DEF End, NoLaunch, NoRequest, StreamInv, Shaped, Launches, Owned, Held, Fed,
       Published

\* A listener that works on nothing has no launch, and what is held is the
\* handle's.
LEMMA Unoccupied ==
  ASSUME StreamInv, request.op = "none"
  PROVE  /\ launch.at = "none" /\ launch.n = 0
         /\ Held = {handle} \ {0}
BY DEF StreamInv, Shaped, Launches, Held

LEMMA DaemonInv ==
  ASSUME StreamInv,
         \/ TakeStart \/ TakeLayout \/ StartDone \/ StartFailed \/ Reconnect
         \/ Rebuild \/ RebuildDone \/ RebuildFailed
  PROVE  StreamInv'
<1> USE DEF StreamInv, Shaped, Launches, Owned, Held, Fed, Published
<1>1. CASE TakeStart
  <2>0. /\ request.op = "none"
        /\ UNCHANGED <<servers, orphans, running, up, link, handle, source,
                       last>>
        /\ \/ UNCHANGED <<request, launch>>
           \/ \E u : /\ up
                    /\ request' = [op |-> "start", by |-> u, same |-> TRUE]
                    /\ launch' = Begun
    BY <1>1 DEF TakeStart
  <2>1. CASE UNCHANGED <<request, launch>>
    BY <2>0, <2>1
  <2>2. ASSUME NEW u, up,
               request' = [op |-> "start", by |-> u, same |-> TRUE],
               launch' = Begun
        PROVE  StreamInv'
    BY <2>0, <2>2, Unoccupied DEF Begun
  <2> QED
    BY <2>0, <2>1, <2>2
<1>2. CASE TakeLayout
  <2>0. /\ request.op = "none"
        /\ launch.at = "none" /\ launch.n = 0
        /\ servers = ({handle} \ {0}) \cup orphans
        /\ running \subseteq {handle} \ {0}
        /\ {handle} \cap orphans \subseteq {0}
        /\ UNCHANGED <<launch, orphans, up, link, request>>
    BY <1>2, Unoccupied DEF TakeLayout
  <2>1. CASE DropHandle
    <3>1. \/ source' = 0 /\ last' # "this"
          \/ link # "up" /\ UNCHANGED <<source, last>>
          \/ UNCHANGED <<source, last, handle>>
      BY <1>2 DEF TakeLayout, Install
    <3>2. /\ handle' = 0
          /\ servers' = servers \ ({handle} \ {0})
          /\ running' = {}
      BY <2>0, <2>1 DEF DropHandle, Ended
    <3> QED
      BY <2>0, <3>1, <3>2
  <2>2. CASE UNCHANGED <<source, last, handle, servers, running>>
    BY <2>0, <2>2
  <2> QED
    BY <1>2, <2>1, <2>2 DEF TakeLayout
<1>3. CASE StartDone
  BY <1>3 DEF StartDone, Install, Replace, Ended, NoLaunch, NoRequest
<1>4. CASE StartFailed
  BY <1>4 DEF StartFailed, NoLaunch, NoRequest
<1>5. CASE Reconnect
  BY <1>5 DEF Reconnect, launchVars
<1>6. CASE Rebuild
  BY <1>6, Unoccupied DEF Rebuild, Begun, Install, DropHandle, Ended
<1>7. CASE RebuildDone
  BY <1>7 DEF RebuildDone, Install, Replace, Ended, NoLaunch, NoRequest
<1>8. CASE RebuildFailed
  BY <1>8 DEF RebuildFailed, NoLaunch, NoRequest
<1> QED
  BY <1>1, <1>2, <1>3, <1>4, <1>5, <1>6, <1>7, <1>8

LEMMA LinkInv ==
  ASSUME StreamInv, Disconnect \/ DumpFrame \/ Start \/ Close
  PROVE  StreamInv'
<1> USE DEF StreamInv, Shaped, Launches, Owned, Held, Fed, Published
<1>1. CASE Disconnect
  BY <1>1 DEF Disconnect, launchVars
<1>2. CASE DumpFrame
  BY <1>2 DEF DumpFrame, launchVars
<1>3. CASE Start
  BY <1>3 DEF Start, launchVars
<1>4. CASE Close
  BY <1>4 DEF Close, launchVars
<1> QED
  BY <1>1, <1>2, <1>3, <1>4

LEMMA StreamNextInv == StreamInv /\ [StreamNext]_streamVars => StreamInv'
<1> SUFFICES ASSUME StreamInv, [StreamNext]_streamVars
             PROVE  StreamInv'
  OBVIOUS
<1>1. CASE Stop
  BY <1>1, EndInv DEF Stop
<1>2. CASE TrayStops
  <2>1. End \/ Elsewhere
    BY <1>2 DEF TrayStops, Elsewhere, launchVars, daemonVars
  <2> QED
    BY <2>1, EndInv, ElsewhereInv
<1> QED
  BY <1>1, <1>2, LaunchStepInv, ElsewhereInv, UsersElsewhere, DaemonInv,
     LinkInv DEF StreamNext

LEMMA StreamInvariance == StreamSpec => []StreamInv
BY StreamInitInv, StreamNextInv, PTL DEF StreamSpec

-----------------------------------------------------------------------------
\* Every X server of the daemon is held by its handle or by the launch in
\* progress, but for those whose report could not be read, which have no
\* program and feed no display; and the program that feeds the displays is the
\* handle's.  (XvfbHandle::drop, start_argv, try_start_xvfb_on)
THEOREM NothingLeftBehind == StreamSpec => []ProcessesOwned
<1>1. StreamInv => ProcessesOwned
  BY DEF StreamInv, Shaped, Launches, Owned, Fed, ProcessesOwned, Held
<1> QED
  BY <1>1, StreamInvariance, PTL

\* While the displays are connected and show a layout there is no frame of a
\* stream to read.  (clear_frame_on_stream_exit)
THEOREM FrameGoesWithStream == StreamSpec => []NoStaleFrame
<1>1. StreamInv => NoStaleFrame
  BY DEF StreamInv, Published, NoStaleFrame
<1> QED
  BY <1>1, StreamInvariance, PTL
=============================================================================
