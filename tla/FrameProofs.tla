----------------------------- MODULE FrameProofs -----------------------------
(***************************************************************************)
(* Proofs about frames: how they are delivered (FrameDelivery), for any    *)
(* number of displays and any contents, and what is in them (FrameWire),   *)
(* for any devices, canvases and payload lengths.                          *)
(*                                                                         *)
(* Of delivery: a fingerprint never survives a change of text or           *)
(* background, and, when displays are independent or none of them can time *)
(* out and stay connected, a fingerprint is what the display shows.        *)
(* Mirrored bulk displays are excluded because there it is false: the      *)
(* mirror branch records the fingerprint of a frame that a display did not *)
(* take.                                                                   *)
(*                                                                         *)
(* Of one frame: every profile a handshake can select is sound, turning    *)
(* pictures by right angles adds up, and so no transport refuses a frame,  *)
(* the picture arrives upright and whole, and the panel reads back the     *)
(* bytes that were encoded.                                                *)
(***************************************************************************)
EXTENDS FrameDelivery, FrameWire, TLAPS

\* The content of a source is a content, and contents are not fingerprint-less.
LEMMA CurrentType ==
    ASSUME TypeOK, NEW i \in Sources
    PROVE  Current(i) \in Content
BY DEF TypeOK, Current, Content

\* Every display has a source.
LEMMA SourceOfType ==
    ASSUME NEW d \in Outputs
    PROVE  SourceOf(d) \in Sources
BY DEF SourceOf, Sources

\* A fingerprint is absent, or is the current content, or is the old one.
LEMMA FingerprintCases ==
    ASSUME TypeOK, NEW i \in Sources
    PROVE  /\ Fingerprint(i) \in Content \cup {None}
           /\ Fingerprint(i) # None =>
                Fingerprint(i) = Current(i) \/ Skipped(i)
BY CurrentType DEF TypeOK, Fingerprint, LooksAgain, Skipped

\* The two ways a pass records fingerprints keep the type.
LEMMA RecordedType ==
    ASSUME TypeOK
    PROVE  /\ RecordedAll \in [Sources -> Content \cup {None}]
           /\ \A k \in Outputs :
                RecordedBefore(k) \in [Sources -> Content \cup {None}]
BY FingerprintCases DEF TypeOK, RecordedAll, RecordedBefore

\* What a pass puts on the displays keeps the type.
LEMMA ShownType ==
    ASSUME TypeOK
    PROVE  /\ \A k \in Outputs :
                 ShownBefore(k) \in [Outputs -> Content \cup {Blank}]
           /\ [d \in Outputs |-> IF Skipped(SourceOf(d)) THEN shown[d]
                                 ELSE Current(SourceOf(d))]
                \in [Outputs -> Content \cup {Blank}]
BY CurrentType, SourceOfType DEF TypeOK, ShownBefore

\* The first display has a source of its own, and no source is without display.
LEMMA FirstSource == 1 \in Sources /\ Sources \subseteq Outputs
BY OutputAssumption DEF Sources, Outputs

\* Forgetting every fingerprint keeps the type.
LEMMA ForgottenType == NoFingerprints \in [Sources -> Content \cup {None}]
BY DEF NoFingerprints

------------------------------------------------------------------------------

\* A step keeps the configuration, and with it the sources.
LEMMA SetupKept ==
    [Next]_vars => UNCHANGED <<setup, Sources>> /\ \A d \in Outputs :
                      SourceOf(d)' = SourceOf(d)
<1> SUFFICES ASSUME [Next]_vars PROVE setup' = setup
  BY DEF Sources, SourceOf, Mirror
<1> QED
  BY DEF Next, Change, Iterate, ChangeMode, SetTemplate, SetBackground,
     Reconnect, Poll, KeepReadings, NothingToSend, SendAll, RenderFails,
     SendTimesOut, SendIsFatal, PollFallsDue, vars

\* Every step keeps the types.
LEMMA TypeStep == TypeOK /\ [Next]_vars => TypeOK'
<1> SUFFICES ASSUME TypeOK, [Next]_vars PROVE TypeOK'
  OBVIOUS
<1> USE FirstSource, ForgottenType, SetupKept DEF TypeOK
<1>1. ASSUME Change PROVE TypeOK'
  BY <1>1 DEF Change, Changes, ChangeMode, SetTemplate, SetBackground
<1>2. CASE Reconnect
  BY <1>2 DEF Reconnect
<1>3. ASSUME NEW values \in Readings, Poll(values) PROVE TypeOK'
  <2>1. /\ connected' \in BOOLEAN /\ refreshed' \in BOOLEAN
        /\ pollDue' \in BOOLEAN
    BY <1>3 DEF Poll
  <2> QED
    BY <1>3, <2>1 DEF Poll, Changes
<1>4. CASE KeepReadings
  BY <1>4 DEF KeepReadings
<1>5. CASE NothingToSend
  BY <1>5 DEF NothingToSend, EndPass
<1>6. CASE SendAll
  BY <1>6, RecordedType, ShownType DEF SendAll, EndPass
<1>7. ASSUME NEW i \in Sources, RenderFails(i) PROVE TypeOK'
  <2>1. i \in Outputs
    BY OutputAssumption DEF Sources, Outputs
  <2> QED
    BY <1>7, <2>1, RecordedType, ShownType DEF RenderFails, EndPass, Fault
<1>8. ASSUME NEW k \in Outputs, SendTimesOut(k) PROVE TypeOK'
  BY <1>8, RecordedType, ShownType DEF SendTimesOut, EndPass, Fault
<1>9. ASSUME NEW k \in Outputs, SendIsFatal(k) PROVE TypeOK'
  <2>1. /\ connected' \in BOOLEAN /\ refreshed' \in BOOLEAN
        /\ pollDue' \in BOOLEAN
    BY <1>9 DEF SendIsFatal
  <2> QED
    BY <1>9, <2>1, ShownType DEF SendIsFatal, EndPass, Fault
<1>10. CASE PollFallsDue
  BY <1>10 DEF PollFallsDue
<1>11. CASE UNCHANGED vars
  BY <1>11 DEF vars
<1> QED
  BY <1>1, <1>2, <1>3, <1>4, <1>5, <1>6, <1>7, <1>8, <1>9, <1>10, <1>11
     DEF Next, Iterate

\* The first iteration starts with well-typed state.
LEMMA TypeInit == Init => TypeOK
<1> SUFFICES ASSUME Init PROVE TypeOK
  OBVIOUS
<1>1. connected \in BOOLEAN /\ refreshed \in BOOLEAN /\ pollDue \in BOOLEAN
  BY DEF Init
<1>2. shown \in [Outputs -> Content \cup {Blank}]
  BY DEF Init
<1> QED
  BY <1>1, <1>2, ForgottenType DEF Init, TypeOK

\* Every variable has its type.
THEOREM TypeCorrect == Spec => []TypeOK
BY TypeInit, TypeStep, PTL DEF Spec

------------------------------------------------------------------------------

\* A pass records contents of the current text and background only.
LEMMA RecordedIsCurrent ==
    ASSUME TypeOK, ChangesForgetFingerprints, NEW i \in Sources,
           Fingerprint(i) # None
    PROVE  Fingerprint(i).text = text[i] /\ Fingerprint(i).bg = bg
<1>1. CASE Fingerprint(i) = Current(i)
  BY <1>1 DEF Current
<1>2. CASE Skipped(i)
  BY <1>2 DEF Skipped, ChangesForgetFingerprints
<1> QED
  BY <1>1, <1>2, FingerprintCases

\* No step leaves the fingerprint of an older text or background.
LEMMA ForgetStep ==
    TypeOK /\ ChangesForgetFingerprints /\ [Next]_vars
        => ChangesForgetFingerprints'
<1> SUFFICES ASSUME TypeOK, ChangesForgetFingerprints, [Next]_vars,
                    NEW i \in Sources, fp'[i] # None
             PROVE  fp'[i].text = text'[i] /\ fp'[i].bg = bg'
  BY SetupKept DEF ChangesForgetFingerprints
<1> DEFINE Goal == fp'[i].text = text'[i] /\ fp'[i].bg = bg'
<1> USE DEF ChangesForgetFingerprints
<1>1. ASSUME NEW t \in Texts, ChangeMode(t) PROVE Goal
  BY <1>1 DEF ChangeMode, NoFingerprints
<1>2. ASSUME NEW t \in Texts, SetTemplate(t) PROVE Goal
  BY <1>2 DEF SetTemplate, TypeOK
<1>3. ASSUME NEW image \in Images, SetBackground(image) PROVE Goal
  BY <1>3 DEF SetBackground, NoFingerprints
<1>4. CASE Reconnect
  BY <1>4 DEF Reconnect, NoFingerprints
<1>5. ASSUME NEW values \in Readings, Poll(values) PROVE Goal
  BY <1>5 DEF Poll
<1>6. CASE KeepReadings \/ NothingToSend \/ PollFallsDue \/ UNCHANGED vars
  BY <1>6 DEF KeepReadings, NothingToSend, PollFallsDue, vars
<1>7. CASE SendAll
  BY <1>7, RecordedIsCurrent DEF SendAll, RecordedAll
<1>8. ASSUME NEW k \in Sources, RenderFails(k) PROVE Goal
  BY <1>8, RecordedIsCurrent DEF RenderFails, RecordedBefore
<1>9. ASSUME NEW k \in Outputs, SendTimesOut(k) PROVE Goal
  BY <1>9, RecordedIsCurrent DEF SendTimesOut, RecordedAll, RecordedBefore
<1>10. ASSUME NEW k \in Outputs, SendIsFatal(k) PROVE Goal
  BY <1>10 DEF SendIsFatal, NoFingerprints
<1> QED
  BY <1>1, <1>2, <1>3, <1>4, <1>5, <1>6, <1>7, <1>8, <1>9, <1>10
     DEF Next, Change, Iterate

\* A change of text or background is drawn by the next pass.
THEOREM ChangesAreDrawn == Spec => []ChangesForgetFingerprints
<1>1. Init => ChangesForgetFingerprints
  BY DEF Init, ChangesForgetFingerprints, NoFingerprints
<1> QED
  BY <1>1, ForgetStep, TypeCorrect, PTL DEF Spec

------------------------------------------------------------------------------

\* After a pass that reached display d, what is recorded for it is on it.
LEMMA ReachedIsTruthful ==
    ASSUME TypeOK, Truthful, connected, NEW d \in Outputs,
           Fingerprint(SourceOf(d)) # None
    PROVE  Fingerprint(SourceOf(d)) =
              (IF Skipped(SourceOf(d)) THEN shown[d] ELSE Current(SourceOf(d)))
BY SourceOfType, FingerprintCases DEF Truthful, Skipped

\* Where a timeout cannot hit a mirrored display, no step records a fingerprint
\* that a display does not show.
LEMMA TruthStep ==
    ASSUME \A s \in Setups : s.mirror => s.bulk = {}
    PROVE  TypeOK /\ Truthful /\ [Next]_vars => Truthful'
<1> SUFFICES ASSUME TypeOK, Truthful, [Next]_vars, connected',
                    NEW d \in Outputs, fp'[SourceOf(d)] # None
             PROVE  shown'[d] = fp'[SourceOf(d)]
  BY SetupKept DEF Truthful
<1> DEFINE i == SourceOf(d)
<1>0. i \in Sources
  BY SourceOfType
<1> HIDE DEF i
<1> DEFINE Goal == shown'[d] = fp'[i]
<1> SUFFICES Goal
  BY DEF i
<1>t. connected /\ fp[i] # None => shown[d] = fp[i]
  BY DEF Truthful, i
<1>n. fp'[i] # None
  BY DEF i
<1>1. ASSUME NEW t \in Texts, ChangeMode(t) PROVE Goal
  BY <1>1, <1>0, <1>n DEF ChangeMode, NoFingerprints
<1>2. ASSUME NEW t \in Texts, SetTemplate(t) PROVE Goal
  BY <1>2, <1>0, <1>n, <1>t DEF SetTemplate, TypeOK
<1>3. ASSUME NEW image \in Images, SetBackground(image) PROVE Goal
  BY <1>3, <1>0, <1>n DEF SetBackground, NoFingerprints
<1>4. CASE Reconnect
  BY <1>4, <1>0, <1>n DEF Reconnect, NoFingerprints
<1>5. ASSUME NEW values \in Readings, Poll(values) PROVE Goal
  BY <1>5, <1>n, <1>t DEF Poll
<1>6. CASE KeepReadings \/ NothingToSend \/ PollFallsDue \/ UNCHANGED vars
  BY <1>6, <1>n, <1>t DEF KeepReadings, NothingToSend, PollFallsDue, vars
<1>7. CASE SendAll
  BY <1>7, <1>0, <1>n, ReachedIsTruthful DEF SendAll, RecordedAll, i
<1>8. ASSUME NEW k \in Sources, RenderFails(k) PROVE Goal
  <2>1. fp'[i] = IF i < k THEN Fingerprint(i) ELSE fp[i]
    BY <1>8, <1>0 DEF RenderFails, RecordedBefore
  <2>2. shown'[d] = IF d < k /\ ~Skipped(i) THEN Current(i) ELSE shown[d]
    BY <1>8 DEF RenderFails, ShownBefore, i
  <2>3. i < k <=> d < k
    BY OutputAssumption DEF i, SourceOf, Sources, Outputs
  <2> QED
    BY <1>8, <1>n, <1>t, <2>1, <2>2, <2>3, ReachedIsTruthful DEF RenderFails, i
<1>9. ASSUME NEW k \in Outputs, SendTimesOut(k) PROVE Goal
  <2>1. ~Mirror
    BY <1>9 DEF SendTimesOut, TypeOK, Mirror, BulkOutputs
  <2>2. i = d
    BY <2>1 DEF i, SourceOf
  <2>3. fp'[i] = IF d < k THEN Fingerprint(i) ELSE fp[i]
    BY <1>9, <1>0, <2>1, <2>2 DEF SendTimesOut, RecordedBefore
  <2>4. shown'[d] = IF d < k /\ ~Skipped(i) THEN Current(i) ELSE shown[d]
    BY <1>9 DEF SendTimesOut, ShownBefore, i
  <2> QED
    BY <1>9, <1>n, <1>t, <2>3, <2>4, ReachedIsTruthful DEF SendTimesOut, i
<1>10. ASSUME NEW k \in Outputs, SendIsFatal(k) PROVE Goal
  BY <1>10 DEF SendIsFatal
<1> QED
  BY <1>1, <1>2, <1>3, <1>4, <1>5, <1>6, <1>7, <1>8, <1>9, <1>10
     DEF Next, Change, Iterate

\* A frame is skipped only when the display already shows it.
THEOREM SkipIsSafe ==
    ASSUME \A s \in Setups : s.mirror => s.bulk = {}
    PROVE  Spec => []Truthful
<1>1. Init => Truthful
  BY SourceOfType DEF Init, Truthful, NoFingerprints
<1>2. TypeOK /\ Truthful /\ [Next]_vars => Truthful'
  BY TruthStep
<1> QED
  BY <1>1, <1>2, TypeCorrect, PTL DEF Spec


-----------------------------------------------------------------------------
(***************************************************************************)
(* The table of panels.                                                    *)
(***************************************************************************)

Angles(table) == \A x \in DOMAIN table : table[x] \in Rotations

\* What is true of every entry of the table.
Entry(base) ==
    /\ base.width \in Nat \ {0} /\ base.height \in Nat \ {0}
    /\ base.encoding \in Encodings
    /\ base.encode_base \in Rotations
    /\ Angles(base.encode_pm_bases) /\ Angles(base.encode_sub_bases)

\* A wide panel is one that is turned.
Switches(base) ==
    /\ base.rotate_panel \in BOOLEAN /\ base.widescreen \in BOOLEAN
    /\ base.encode_invert \in BOOLEAN
    /\ base.widescreen => base.rotate_panel

\* A panel without turned variants has a size, an encoding and angles.
LEMMA FixedEntry ==
    ASSUME NEW w \in Nat \ {0}, NEW h \in Nat \ {0}, NEW encoding \in Encodings
    PROVE  Entry(Fixed(w, h, encoding))
BY DEF Entry, Fixed, Angles, Rotations

\* ... and is not a wide one.
LEMMA FixedSwitches ==
    ASSUME NEW w, NEW h, NEW encoding
    PROVE  Switches(Fixed(w, h, encoding))
BY Zenon DEF Switches, Fixed

\* The entry of each code.
LEMMA TableRows ==
    /\ fbl_base[36] = Fixed(240, 240, "Rgb565Le")
    /\ fbl_base[37] = Fixed(240, 240, "Rgb565Le")
    /\ fbl_base[50] = Fixed(320, 240, "Rgb565Le")
    /\ fbl_base[51] = Fixed(320, 240, "Rgb565Le")
    /\ fbl_base[52] = Fixed(320, 240, "Rgb565Le")
    /\ fbl_base[53] = Fixed(320, 240, "Rgb565Le")
    /\ fbl_base[58] = Fixed(320, 240, "Rgb565Le")
    /\ fbl_base[54] = Fixed(360, 360, "Jpeg")
    /\ fbl_base[64] = Fixed(640, 480, "Rgb565Le")
    /\ fbl_base[100] = Fixed(320, 320, "Rgb565Be")
    /\ fbl_base[101] = Fixed(320, 320, "Rgb565Be")
    /\ fbl_base[102] = Fixed(320, 320, "Rgb565Be")
BY SMTT(60) DEF fbl_base, KNOWN_FBL_CODES

\* The two square panels that one PM mounts upside down.
LEMMA TurnedRows ==
    \A c \in {72, 129} :
        fbl_base[c] = [Fixed(480, 480, "Rgb565Le")
                           EXCEPT !.encode_pm_bases = [pm \in {6} |-> 180]]
<1>1. fbl_base[72] = [Fixed(480, 480, "Rgb565Le")
                           EXCEPT !.encode_pm_bases = [pm \in {6} |-> 180]]
  BY DEF fbl_base, KNOWN_FBL_CODES
<1>2. fbl_base[129] = [Fixed(480, 480, "Rgb565Le")
                           EXCEPT !.encode_pm_bases = [pm \in {6} |-> 180]]
  BY DEF fbl_base, KNOWN_FBL_CODES
<1> QED
  BY <1>1, <1>2

\* One turned variant leaves an entry well formed,
LEMMA TurnedEntry ==
    ASSUME NEW base,
           base = [Fixed(480, 480, "Rgb565Le")
                           EXCEPT !.encode_pm_bases = [pm \in {6} |-> 180]]
    PROVE  Entry(base)
BY DEF Entry, Fixed, Angles, Rotations, Encodings

\* and its switches as they were.
LEMMA TurnedSwitches ==
    ASSUME NEW base,
           base = [Fixed(480, 480, "Rgb565Le")
                           EXCEPT !.encode_pm_bases = [pm \in {6} |-> 180]]
    PROVE  Switches(base)
BY Zenon DEF Switches, Fixed

\* Every entry of fbl_base is well formed (the FBL match of
\* src/transport/profile.rs has a size, an encoding and angles in every arm).
LEMMA TableEntries ==
    ASSUME NEW c \in KNOWN_FBL_CODES
    PROVE  Entry(fbl_base[c]) /\ Switches(fbl_base[c])
<1>1. CASE c \in {36, 37, 50, 51, 52, 53, 54, 58, 64, 100, 101, 102}
  <2>1. PICK w \in Nat \ {0}, h \in Nat \ {0}, encoding \in Encodings :
             fbl_base[c] = Fixed(w, h, encoding)
    BY <1>1, TableRows DEF Encodings
  <2> QED
    BY <2>1, FixedEntry, FixedSwitches
<1>2. CASE c \in {114, 128, 192, 224}
  <2>1. CASE c = 114
    <3> DEFINE row == Wide(1600, 720, 180, TRUE, [sub \in {3} |-> 0])
    <3>1. fbl_base[c] = row
      BY <2>1 DEF fbl_base, KNOWN_FBL_CODES
    <3>2. Entry(row)
      BY DEF Entry, Wide, Angles, Rotations, Encodings
    <3>3. Switches(row)
      BY Zenon DEF Switches, Wide
    <3> HIDE DEF row
    <3> QED
      BY <3>1, <3>2, <3>3
  <2>2. CASE c = 128
    <3> DEFINE row == Wide(1280, 480, 0, TRUE, << >>)
    <3>1. fbl_base[c] = row
      BY <2>2 DEF fbl_base, KNOWN_FBL_CODES
    <3>2. Entry(row)
      BY DEF Entry, Wide, Angles, Rotations, Encodings
    <3>3. Switches(row)
      BY Zenon DEF Switches, Wide
    <3> HIDE DEF row
    <3> QED
      BY <3>1, <3>2, <3>3
  <2>3. CASE c = 192
    <3> DEFINE row == Wide(1920, 462, 180, TRUE, [sub \in {2, 3, 4} |-> 0])
    <3>1. fbl_base[c] = row
      BY <2>3 DEF fbl_base, KNOWN_FBL_CODES
    <3>2. Entry(row)
      BY DEF Entry, Wide, Angles, Rotations, Encodings
    <3>3. Switches(row)
      BY Zenon DEF Switches, Wide
    <3> HIDE DEF row
    <3> QED
      BY <3>1, <3>2, <3>3
  <2>4. CASE c = 224
    <3> DEFINE row == Wide(854, 480, 0, FALSE, [sub \in {2} |-> 180])
    <3>1. fbl_base[c] = row
      BY <2>4 DEF fbl_base, KNOWN_FBL_CODES
    <3>2. Entry(row)
      BY DEF Entry, Wide, Angles, Rotations, Encodings
    <3>3. Switches(row)
      BY Zenon DEF Switches, Wide
    <3> HIDE DEF row
    <3> QED
      BY <3>1, <3>2, <3>3
  <2> QED
    BY <1>2, <2>1, <2>2, <2>3, <2>4
<1>3. CASE c \in {72, 129}
  BY <1>3, TurnedRows, TurnedEntry, TurnedSwitches
<1> QED
  BY <1>1, <1>2, <1>3 DEF KNOWN_FBL_CODES

\* A code that PM and SUB give for a bulk device is in the table.
LEMMA BulkKnown ==
    ASSUME NEW pm \in Nat, NEW sub \in Nat
    PROVE  bulk_fbl(pm, sub) \in KNOWN_FBL_CODES
BY DEF bulk_fbl, BULK_KNOWN_PMS, pm_to_fbl, pm_to_fbl_override, KNOWN_FBL_CODES

\* A device that build_device_info does not refuse has a code of the table.
LEMMA CodeKnown ==
    ASSUME NEW protocol \in Protocols, NEW pm \in Nat, NEW sub \in Nat,
           NEW fbl \in Nat, Resolvable(protocol, pm, sub, fbl)
    PROVE  ResolvedFbl(protocol, pm, sub, fbl) \in KNOWN_FBL_CODES
<1> DEFINE mapped == pm_to_fbl(pm, sub)
           known(code) == IF code \in KNOWN_FBL_CODES THEN code ELSE 0
           code == ResolvedFbl(protocol, pm, sub, fbl)
<1>1. code # 0
  BY DEF Resolvable
<1>2. {100, 101} \subseteq KNOWN_FBL_CODES
  BY DEF KNOWN_FBL_CODES
<1>3. CASE protocol = "Bulk"
  <2>1. code = IF pm = 0 THEN 0 ELSE bulk_fbl(pm, sub)
    BY <1>3 DEF ResolvedFbl
  <2> QED
    BY <1>1, <2>1, BulkKnown
<1>4. CASE protocol = "Scsi"
  <2>1. code = known(fbl)
    BY <1>4 DEF ResolvedFbl
  <2> QED
    BY <1>1, <2>1
<1>5. CASE protocol = "HidType2"
  <2>1. code = IF pm \in {49, 59, 60} THEN 100
               ELSE IF known(mapped) # 0 THEN mapped ELSE known(pm)
    BY <1>5 DEF ResolvedFbl
  <2> QED
    BY <1>1, <1>2, <2>1
<1>6. CASE protocol = "HidType3"
  <2>1. code = IF fbl \in {100, 101} THEN fbl ELSE 0
    BY <1>6 DEF ResolvedFbl
  <2> QED
    BY <1>1, <1>2, <2>1
<1>7. CASE protocol = "Ly"
  <2>1. code = known(IF fbl # 0 THEN fbl ELSE mapped)
    BY <1>7 DEF ResolvedFbl
  <2> QED
    BY <1>1, <2>1
<1> QED
  BY <1>3, <1>4, <1>5, <1>6, <1>7 DEF Protocols

\* A table of angles yields an angle for every PM and SUB.
LEMMA AtAngle ==
    ASSUME NEW table, Angles(table), NEW key, NEW default \in Rotations
    PROVE  At(table, key, default) \in Rotations
BY DEF At, Angles

\* SCSI overrides the encoding with one it can carry, Type 3 overrides none.
LEMMA FamilyEncoding ==
    ASSUME NEW protocol, NEW pm, NEW encoding \in Encodings
    PROVE  /\ apply_family_encoding(protocol, pm, encoding) \in Encodings
           /\ protocol = "Scsi" =>
                  is_rgb565(apply_family_encoding(protocol, pm, encoding))
           /\ protocol = "HidType3" =>
                  apply_family_encoding(protocol, pm, encoding) = encoding
BY DEF apply_family_encoding, Encodings, is_rgb565

Size == (Nat \ {0}) \X (Nat \ {0})

\* The sizes that depend on the PM are sizes.
LEMMA PanelSizes ==
    ASSUME NEW pm
    PROVE  fbl_224_dims(pm) \in Size /\ fbl_192_dims(pm) \in Size
<1>1. fbl_224_dims(pm) \in {<<960, 540>>, <<800, 480>>, <<960, 320>>,
                            <<640, 172>>, <<854, 480>>}
  BY DEF fbl_224_dims
<1>2. fbl_192_dims(pm) \in {<<1280, 480>>, <<1920, 440>>, <<1920, 462>>}
  BY DEF fbl_192_dims
<1> QED
  BY <1>1, <1>2 DEF Size

\* What is true of every profile the program works with.
Sound(profile) ==
    /\ profile \in DeviceProfile
    /\ profile.widescreen => profile.rotate_panel

\* A profile made of a well formed entry is sound.
LEMMA FromBase ==
    ASSUME NEW base, Entry(base), Switches(base), NEW dims \in Size,
           NEW encoding \in Encodings, NEW pm, NEW sub
    PROVE  Sound(profile_from_base(base, dims, encoding, pm, sub))
<1> DEFINE profile == profile_from_base(base, dims, encoding, pm, sub)
<1>1. /\ profile.rotate_panel = base.rotate_panel
      /\ profile.widescreen = base.widescreen
      /\ profile.encode_invert = base.encode_invert
  BY Zenon DEF profile_from_base
<1>2. /\ profile.rotate_panel \in BOOLEAN /\ profile.widescreen \in BOOLEAN
      /\ profile.encode_invert \in BOOLEAN
  BY <1>1, Zenon DEF Switches
<1>3. profile.widescreen => profile.rotate_panel
  BY <1>1, Zenon DEF Switches
<1>4. 0 \in Rotations
  BY DEF Rotations
<1>5. /\ profile.encode_baseline \in Rotations
      /\ profile.encode_base \in Rotations
  BY <1>4, AtAngle DEF profile_from_base, Entry
<1>6. /\ profile.width \in Nat \ {0} /\ profile.height \in Nat \ {0}
      /\ profile.encoding \in Encodings
  BY DEF profile_from_base, Size
<1>7. profile = [width           |-> profile.width,
                 height          |-> profile.height,
                 encoding        |-> profile.encoding,
                 rotate_panel    |-> profile.rotate_panel,
                 widescreen      |-> profile.widescreen,
                 encode_baseline |-> profile.encode_baseline,
                 encode_base     |-> profile.encode_base,
                 encode_invert   |-> profile.encode_invert]
  BY Zenon DEF profile_from_base
<1> HIDE DEF profile
<1>8. profile \in DeviceProfile
  BY <1>2, <1>5, <1>6, <1>7, Zenon DEF DeviceProfile
<1> QED
  BY <1>3, <1>8, Zenon DEF Sound, profile

\* Whatever a device answers, the profile it is given is a sound one, and its
\* family carries the encoding.
LEMMA ProfileSound ==
    ASSUME NEW protocol \in Protocols, NEW pm \in Nat, NEW sub \in Nat,
           NEW fbl \in Nat, Resolvable(protocol, pm, sub, fbl)
    PROVE  LET profile == resolve_profile(protocol, pm, sub, fbl)
           IN  /\ Sound(profile)
               /\ protocol = "Scsi" => is_rgb565(profile.encoding)
               /\ protocol = "HidType3" =>
                      /\ profile.width = 320 /\ profile.height = 320
                      /\ is_rgb565(profile.encoding)
<1> DEFINE code == ResolvedFbl(protocol, pm, sub, fbl)
           base == fbl_base[code]
           dims == CASE code = 224 -> fbl_224_dims(pm)
                     [] code = 192 -> fbl_192_dims(pm)
                     [] OTHER      -> <<base.width, base.height>>
           encoding == apply_family_encoding(protocol, pm, base.encoding)
           profile == resolve_profile(protocol, pm, sub, fbl)
<1>1. Entry(base) /\ Switches(base)
  BY CodeKnown, TableEntries
<1>2. profile = profile_from_base(base, dims, encoding, pm, sub)
  BY DEF resolve_profile
<1>3. dims \in Size
  BY <1>1, PanelSizes DEF Entry, Size
<1>4. /\ encoding \in Encodings
      /\ protocol = "Scsi" => is_rgb565(encoding)
      /\ protocol = "HidType3" => encoding = base.encoding
  BY <1>1, FamilyEncoding DEF Entry
<1>5. ASSUME protocol = "HidType3"
      PROVE  dims = <<320, 320>> /\ is_rgb565(base.encoding)
  <2>1. code \in {100, 101}
    BY <1>5 DEF ResolvedFbl, Resolvable
  <2>2. base = Fixed(320, 320, "Rgb565Be")
    BY <2>1, TableRows
  <2>3. /\ base.width = 320 /\ base.height = 320
        /\ base.encoding = "Rgb565Be"
    BY <2>2 DEF Fixed
  <2> QED
    BY <2>1, <2>3 DEF is_rgb565
<1>6. /\ profile.width = dims[1] /\ profile.height = dims[2]
      /\ profile.encoding = encoding
  BY <1>2 DEF profile_from_base
<1> HIDE DEF base, dims, encoding
<1>7. Sound(profile)
  BY <1>1, <1>2, <1>3, <1>4, FromBase
<1> HIDE DEF profile
<1> QED
  BY <1>4, <1>5, <1>6, <1>7 DEF profile

-----------------------------------------------------------------------------
(***************************************************************************)
(* Angles.                                                                 *)
(***************************************************************************)

\* Angles are added and taken away in whole turns.
LEMMA AnglesAdd ==
    ASSUME NEW a \in Rotations, NEW b \in Rotations
    PROVE  /\ (a + b) % 360 \in Rotations
           /\ (a + b) % 360 = IF a + b < 360 THEN a + b ELSE a + b - 360
           /\ (a + 360 - b) % 360 = IF a < b THEN a + 360 - b ELSE a - b
           /\ (360 - b) % 360 \in Rotations
           /\ (360 - b) % 360 = IF b = 0 THEN 0 ELSE 360 - b
BY DEF Rotations

\* The mounting angles cancel: turning the wire frame back by the angle of an
\* unrotated frame leaves the user's rotation.
LEMMA Mounting ==
    ASSUME NEW a \in Rotations, NEW b \in Rotations, NEW s \in Rotations,
           NEW zero, zero = (((a + 0) % 360) + b) % 360,
           NEW turned, turned = (((a + s) % 360) + b) % 360
    PROVE  /\ zero \in Rotations /\ turned \in Rotations
           /\ (turned + ((360 - zero) % 360)) % 360 = s
BY AnglesAdd DEF Rotations

\* The frame lies on its side exactly when one of mounting and rotation does.
LEMMA MountingQuarter ==
    ASSUME NEW a \in Rotations, NEW b \in Rotations, NEW s \in Rotations,
           NEW zero, zero = (((a + 0) % 360) + b) % 360,
           NEW turned, turned = (((a + s) % 360) + b) % 360
    PROVE  (zero \in {90, 270}) = ((turned \in {90, 270}) # (s \in {90, 270}))
BY AnglesAdd DEF Rotations

\* The angle a frame is turned by is that of the mounting and the user's
\* rotation, which some panels take the other way round.
TurnedBy(profile, r) == IF TurnsWith(profile) THEN r ELSE (360 - r) % 360

\* The content angle is a mounting angle plus the rotation, counted in the
\* direction in which the panel turns.
LEMMA ContentTurned ==
    ASSUME NEW profile, Sound(profile), NEW r \in Rotations
    PROVE  \E a \in Rotations :
               /\ ContentAngle(profile, r) = (a + TurnedBy(profile, r)) % 360
               /\ ContentAngle(profile, 0) = (a + 0) % 360
<1> DEFINE fixed == profile.rotate_panel /\ ~profile.widescreen
           wide  == /\ profile.rotate_panel /\ profile.widescreen
                    /\ profile.encoding = "Jpeg"
           base  == IF /\ profile.width = 320 /\ profile.height = 240
                       /\ is_rgb565(profile.encoding) THEN 90 ELSE 0
           Signed(q) == IF profile.encode_invert THEN (360 - q) % 360 ELSE q
           ebase == profile.encode_base
<1>1. \A q : ContentAngle(profile, q) =
          IF fixed THEN (base + 360 - q) % 360
          ELSE IF wide THEN (ebase + Signed(q)) % 360
          ELSE (360 - q) % 360
  BY Zenon DEF ContentAngle
<1>2. /\ base \in Rotations /\ 0 \in Rotations
      /\ ebase \in Rotations
  BY DEF Rotations, Sound, DeviceProfile
<1>3. TurnsWith(profile) <=> wide /\ ~profile.encode_invert
  BY Zenon DEF TurnsWith, Sound
<1> HIDE DEF base, ebase
<1>4. CASE fixed
  <2>1. ~TurnsWith(profile)
    BY <1>3, <1>4, Zenon
  <2>2. TurnedBy(profile, r) = (360 - r) % 360
    BY <2>1 DEF TurnedBy
  <2>3. (base + 360 - r) % 360 = (base + ((360 - r) % 360)) % 360
    BY <1>2 DEF Rotations
  <2>4. (base + 360 - 0) % 360 = (base + 0) % 360
    BY <1>2 DEF Rotations
  <2>5. /\ ContentAngle(profile, r) = (base + 360 - r) % 360
        /\ ContentAngle(profile, 0) = (base + 360 - 0) % 360
    BY <1>1, <1>4, Zenon
  <2>6. /\ ContentAngle(profile, r)
               = (base + TurnedBy(profile, r)) % 360
        /\ ContentAngle(profile, 0) = (base + 0) % 360
    BY <2>2, <2>3, <2>4, <2>5
  <2> QED
    BY <1>2, <2>6
<1>5. CASE ~fixed /\ wide
  <2>1. TurnedBy(profile, r) = Signed(r)
    BY <1>3, <1>5, Zenon DEF TurnedBy
  <2>2. Signed(0) = 0
    OBVIOUS
  <2>3. /\ ContentAngle(profile, r) = (ebase + Signed(r)) % 360
        /\ ContentAngle(profile, 0) = (ebase + Signed(0)) % 360
    BY <1>1, <1>5, Zenon
  <2> HIDE DEF Signed
  <2> QED
    BY <1>2, <2>1, <2>2, <2>3, Zenon
<1>6. CASE ~fixed /\ ~wide
  <2>1. ~TurnsWith(profile)
    BY <1>3, <1>6, Zenon
  <2>2. TurnedBy(profile, r) = (360 - r) % 360
    BY <2>1 DEF TurnedBy
  <2>3. /\ ContentAngle(profile, r) = (360 - r) % 360
        /\ ContentAngle(profile, 0) = (360 - 0) % 360
    BY <1>1, <1>6, Zenon
  <2>4. (0 + ((360 - r) % 360)) % 360 = (360 - r) % 360
    BY AnglesAdd DEF Rotations
  <2>5. (0 + 0) % 360 = (360 - 0) % 360
    OBVIOUS
  <2>6. /\ ContentAngle(profile, r)
               = (0 + TurnedBy(profile, r)) % 360
        /\ ContentAngle(profile, 0) = (0 + 0) % 360
    BY <2>2, <2>3, <2>4, <2>5
  <2> QED
    BY <1>2, <2>6
<1> QED
  BY <1>4, <1>5, <1>6, Zenon

\* The angle of the wire frame, as a mounting angle and the user's rotation.
LEMMA WireAngle ==
    ASSUME NEW profile, Sound(profile), NEW r \in Rotations
    PROVE  /\ wire_angle(profile, r) \in Rotations
           /\ wire_angle(profile, 0) \in Rotations
           /\ TurnedBy(profile, r) \in Rotations
           /\ (wire_angle(profile, r)
                  + ((360 - wire_angle(profile, 0)) % 360)) % 360
                  = TurnedBy(profile, r)
           /\ (wire_angle(profile, 0) \in {90, 270}) =
                  ((wire_angle(profile, r) \in {90, 270}) # (r \in {90, 270}))
<1> DEFINE s == TurnedBy(profile, r)
           b == profile.encode_baseline
           turned == wire_angle(profile, r)
           zero == wire_angle(profile, 0)
<1>1. PICK a \in Rotations :
          /\ ContentAngle(profile, r) = (a + s) % 360
          /\ ContentAngle(profile, 0) = (a + 0) % 360
  BY ContentTurned
<1>2. b \in Rotations
  BY DEF Sound, DeviceProfile
<1>3. /\ s \in Rotations
      /\ (s \in {90, 270}) = (r \in {90, 270})
  BY AnglesAdd DEF TurnedBy, Rotations
<1>4. /\ turned = (((a + s) % 360) + b) % 360
      /\ zero = (((a + 0) % 360) + b) % 360
  BY <1>1, Zenon DEF wire_angle
<1> HIDE DEF s, b, turned, zero
<1>5. /\ zero \in Rotations /\ turned \in Rotations
      /\ (turned + ((360 - zero) % 360)) % 360 = s
  BY <1>2, <1>3, <1>4, Mounting
<1>6. (zero \in {90, 270}) = ((turned \in {90, 270}) # (s \in {90, 270}))
  BY <1>2, <1>3, <1>4, MountingQuarter
<1> QED
  BY <1>3, <1>5, <1>6, Zenon DEF s, turned, zero

\* However the user turned it, the turned canvas has the wire size.
LEMMA WireSize ==
    ASSUME NEW profile, Sound(profile), NEW r \in Rotations,
           NEW o, o = oriented_dimensions(profile.width, profile.height, r)
    PROVE  oriented_dimensions(o[1], o[2], wire_angle(profile, r))
               = wire_dimensions(profile)
BY WireAngle DEF oriented_dimensions, wire_dimensions

-----------------------------------------------------------------------------
(***************************************************************************)
(* Pictures.                                                               *)
(***************************************************************************)

Corners == {"tl", "tr", "bl", "br"}

Pixels(w, h) == (0..w-1) \X (0..h-1)

Pictures(w, h) ==
    [width : {w}, height : {h}, corners : [Corners -> Pixels(w, h)]]

\* A row and a column are found again in their index.
LEMMA IndexSplit ==
    ASSUME NEW d \in Nat \ {0}, NEW a \in Nat, NEW b \in 0..d-1
    PROVE  (a * d + b) \div d = a /\ (a * d + b) % d = b
<1> DEFINE n == a * d + b
           p == n \div d
           m == n % d
<1>1. n \in Nat
  OBVIOUS
<1>2. n = d * p + m /\ m \in 0..d-1 /\ p \in Int
  BY <1>1
<1>3. d * a + b = d * p + m
  BY <1>2
<1> HIDE DEF p, m
<1>4. d * p < d * (a + 1) /\ d * a < d * (p + 1)
  BY <1>2, <1>3
<1>5. p < a + 1
  BY <1>2, <1>4
<1>6. a < p + 1
  BY <1>2, <1>4
<1>7. p = a
  BY <1>2, <1>5, <1>6
<1>8. m = b
  BY <1>2, <1>3, <1>7
<1> QED
  BY <1>7, <1>8 DEF p, m

\* Where rotate_pixels copies a pixel to, by coordinates.
LEMMA PixelMoved ==
    ASSUME NEW w \in Nat \ {0}, NEW h \in Nat \ {0},
           NEW x \in 0..w-1, NEW y \in 0..h-1
    PROVE  /\ RotatedIndex(x, y, w, h, 0) % w = x
           /\ RotatedIndex(x, y, w, h, 0) \div w = y
           /\ RotatedIndex(x, y, w, h, 90) % h = h - 1 - y
           /\ RotatedIndex(x, y, w, h, 90) \div h = x
           /\ RotatedIndex(x, y, w, h, 180) % w = w - 1 - x
           /\ RotatedIndex(x, y, w, h, 180) \div w = h - 1 - y
           /\ RotatedIndex(x, y, w, h, 270) % h = y
           /\ RotatedIndex(x, y, w, h, 270) \div h = w - 1 - x
<1>1. /\ RotatedIndex(x, y, w, h, 0) = y * w + x
      /\ RotatedIndex(x, y, w, h, 90) = x * h + (h - 1 - y)
      /\ RotatedIndex(x, y, w, h, 270) = (w - 1 - x) * h + y
      /\ RotatedIndex(x, y, w, h, 180) = w * h - 1 - (y * w + x)
  BY DEF RotatedIndex
<1>2. w * h - 1 - (y * w + x) = (h - 1 - y) * w + (w - 1 - x)
  OBVIOUS
<1>3. /\ h - 1 - y \in 0..h-1 /\ w - 1 - x \in 0..w-1
      /\ h - 1 - y \in Nat /\ w - 1 - x \in Nat
      /\ x \in Nat /\ y \in Nat
  OBVIOUS
<1>4. (y * w + x) \div w = y /\ (y * w + x) % w = x
  BY <1>3, IndexSplit
<1>5. /\ (x * h + (h - 1 - y)) \div h = x
      /\ (x * h + (h - 1 - y)) % h = h - 1 - y
  BY <1>3, IndexSplit
<1>6. /\ ((w - 1 - x) * h + y) \div h = w - 1 - x
      /\ ((w - 1 - x) * h + y) % h = y
  BY <1>3, IndexSplit
<1>7. /\ ((h - 1 - y) * w + (w - 1 - x)) \div w = h - 1 - y
      /\ ((h - 1 - y) * w + (w - 1 - x)) % w = w - 1 - x
  BY <1>3, IndexSplit
<1>8. RotatedIndex(x, y, w, h, 180) = (h - 1 - y) * w + (w - 1 - x)
  BY <1>1, <1>2
<1> QED
  BY <1>1, <1>8, <1>4, <1>5, <1>6, <1>7

\* Two pictures are the same if their sizes and corners are.
LEMMA SamePicture ==
    ASSUME NEW w, NEW h, NEW p \in Pictures(w, h), NEW q \in Pictures(w, h),
           \A c \in Corners : p.corners[c] = q.corners[c]
    PROVE  p = q
BY DEF Pictures

\* A quarter turn swaps the sides and moves every corner with them.
LEMMA Quarter ==
    ASSUME NEW w \in Nat \ {0}, NEW h \in Nat \ {0}, NEW p \in Pictures(w, h)
    PROVE  /\ QuarterTurn(p) \in Pictures(h, w)
           /\ \A c \in Corners : QuarterTurn(p).corners[c] =
                  <<h - 1 - p.corners[c][2], p.corners[c][1]>>
BY DEF QuarterTurn, Pictures, Pixels

\* Two quarter turns turn it over, four turn it back.
LEMMA HalfTurn ==
    ASSUME NEW w \in Nat \ {0}, NEW h \in Nat \ {0}, NEW p \in Pictures(w, h)
    PROVE  /\ QuarterTurn(QuarterTurn(p)) \in Pictures(w, h)
           /\ \A c \in Corners : QuarterTurn(QuarterTurn(p)).corners[c] =
                  <<w - 1 - p.corners[c][1], h - 1 - p.corners[c][2]>>
<1> DEFINE q == QuarterTurn(p)
<1>1. /\ q \in Pictures(h, w)
      /\ \A c \in Corners :
             q.corners[c] = <<h - 1 - p.corners[c][2], p.corners[c][1]>>
  BY Quarter
<1> HIDE DEF q
<1>2. /\ QuarterTurn(q) \in Pictures(w, h)
      /\ \A c \in Corners : QuarterTurn(q).corners[c] =
             <<w - 1 - q.corners[c][2], q.corners[c][1]>>
  BY <1>1, Quarter
<1>3. ASSUME NEW c \in Corners
      PROVE  QuarterTurn(q).corners[c] =
                 <<w - 1 - p.corners[c][1], h - 1 - p.corners[c][2]>>
  BY <1>1, <1>2
<1> QED
  BY <1>2, <1>3 DEF q

\* Four quarter turns change nothing.
LEMMA FourTurns ==
    ASSUME NEW w \in Nat \ {0}, NEW h \in Nat \ {0}, NEW p \in Pictures(w, h)
    PROVE  QuarterTurn(QuarterTurn(QuarterTurn(QuarterTurn(p)))) = p
<1> DEFINE q == QuarterTurn(QuarterTurn(p))
<1>1. /\ q \in Pictures(w, h)
      /\ \A c \in Corners : q.corners[c] =
             <<w - 1 - p.corners[c][1], h - 1 - p.corners[c][2]>>
  BY HalfTurn
<1> HIDE DEF q
<1> DEFINE r == QuarterTurn(QuarterTurn(q))
<1>2. /\ r \in Pictures(w, h)
      /\ \A c \in Corners : r.corners[c] =
             <<w - 1 - q.corners[c][1], h - 1 - q.corners[c][2]>>
  BY <1>1, HalfTurn
<1> HIDE DEF r
<1>3. ASSUME NEW c \in Corners
      PROVE  r.corners[c] = p.corners[c]
  <2>1. p.corners[c] \in Pixels(w, h)
    BY DEF Pictures
  <2>2. r.corners[c] = <<w - 1 - (w - 1 - p.corners[c][1]),
                         h - 1 - (h - 1 - p.corners[c][2])>>
    BY <1>1, <1>2
  <2> QED
    BY <2>1, <2>2 DEF Pixels
<1>4. r = p
  BY <1>2, <1>3, SamePicture
<1> QED
  BY <1>4 DEF r, q

\* Two turns are one turn by the sum of their angles.
LEMMA TurnedBack ==
    ASSUME NEW w \in Nat \ {0}, NEW h \in Nat \ {0}, NEW p \in Pictures(w, h),
           NEW a \in Rotations, NEW b \in Rotations
    PROVE  Turned(Turned(p, a), b) = Turned(p, (a + b) % 360)
<1> DEFINE p1 == QuarterTurn(p)
           p2 == QuarterTurn(p1)
           p3 == QuarterTurn(p2)
<1>1. QuarterTurn(p3) = p
  BY FourTurns
<1>2. (a + b) % 360 = IF a + b < 360 THEN a + b ELSE a + b - 360
  BY AnglesAdd
<1>3. /\ Turned(p, 0) = p /\ Turned(p, 90) = p1
      /\ Turned(p, 180) = p2 /\ Turned(p, 270) = p3
  BY DEF Turned
<1>4. \A q : /\ Turned(q, 0) = q /\ Turned(q, 90) = QuarterTurn(q)
             /\ Turned(q, 180) = QuarterTurn(QuarterTurn(q))
             /\ Turned(q, 270) = QuarterTurn(QuarterTurn(QuarterTurn(q)))
  BY DEF Turned
<1>5. /\ QuarterTurn(p) = p1 /\ QuarterTurn(p1) = p2 /\ QuarterTurn(p2) = p3
  OBVIOUS
<1> HIDE DEF p1, p2, p3
<1> QED
  BY <1>1, <1>2, <1>3, <1>4, <1>5 DEF Rotations

\* The copies rotate_pixels makes are quarter turns.
LEMMA RotatedIsTurned ==
    ASSUME NEW w \in Nat \ {0}, NEW h \in Nat \ {0}, NEW p \in Pictures(w, h),
           NEW degrees \in Rotations
    PROVE  rotate_pixels(p, degrees) = Turned(p, degrees)
<1> DEFINE dims == oriented_dimensions(w, h, degrees)
           Index(c) == RotatedIndex(p.corners[c][1], p.corners[c][2], w, h,
                                    degrees)
           q == rotate_pixels(p, degrees)
           x(c) == p.corners[c][1]
           y(c) == p.corners[c][2]
<1>1. /\ p.width = w /\ p.height = h /\ DOMAIN p.corners = Corners
      /\ \A c \in Corners : x(c) \in 0..w-1 /\ y(c) \in 0..h-1
  BY DEF Pictures, Pixels
<1>2. q = [width |-> dims[1], height |-> dims[2],
           corners |-> [c \in Corners |->
                           <<Index(c) % dims[1], Index(c) \div dims[1]>>]]
  BY <1>1 DEF rotate_pixels
<1>3. ASSUME NEW to, dims = <<to[1], to[2]>>, NEW t \in Pictures(to[1], to[2]),
             \A c \in Corners : /\ Index(c) % dims[1] = t.corners[c][1]
                                /\ Index(c) \div dims[1] = t.corners[c][2]
      PROVE  q = t
  <2>1. t = [width |-> to[1], height |-> to[2], corners |-> t.corners]
    BY DEF Pictures
  <2>2. t.corners = [c \in Corners |-> <<t.corners[c][1], t.corners[c][2]>>]
    BY DEF Pictures, Pixels
  <2> QED
    BY <1>2, <1>3, <2>1, <2>2
<1>4. CASE degrees = 0
  <2>1. Turned(p, degrees) = p
    BY <1>4 DEF Turned
  <2>2. dims = <<w, h>>
    BY <1>4 DEF oriented_dimensions
  <2>3. \A c \in Corners : Index(c) % w = x(c) /\ Index(c) \div w = y(c)
    BY <1>1, <1>4, PixelMoved
  <2> QED
    BY <1>3, <2>1, <2>2, <2>3
<1>5. CASE degrees = 90
  <2> DEFINE t == QuarterTurn(p)
  <2>1. Turned(p, degrees) = t
    BY <1>5 DEF Turned
  <2>2. dims = <<h, w>>
    BY <1>5 DEF oriented_dimensions
  <2>3. \A c \in Corners : /\ Index(c) % h = h - 1 - y(c)
                          /\ Index(c) \div h = x(c)
    BY <1>1, <1>5, PixelMoved
  <2>4. /\ t \in Pictures(h, w)
        /\ \A c \in Corners : t.corners[c] = <<h - 1 - y(c), x(c)>>
    BY Quarter
  <2> HIDE DEF t
  <2> QED
    BY <1>3, <2>1, <2>2, <2>3, <2>4
<1>6. CASE degrees = 180
  <2> DEFINE t == QuarterTurn(QuarterTurn(p))
  <2>1. Turned(p, degrees) = t
    BY <1>6 DEF Turned
  <2>2. dims = <<w, h>>
    BY <1>6 DEF oriented_dimensions
  <2>3. \A c \in Corners : /\ Index(c) % w = w - 1 - x(c)
                          /\ Index(c) \div w = h - 1 - y(c)
    BY <1>1, <1>6, PixelMoved
  <2>4. /\ t \in Pictures(w, h)
        /\ \A c \in Corners : t.corners[c] = <<w - 1 - x(c), h - 1 - y(c)>>
    BY HalfTurn
  <2> HIDE DEF t
  <2> QED
    BY <1>3, <2>1, <2>2, <2>3, <2>4
<1>7. CASE degrees = 270
  <2> DEFINE u == QuarterTurn(QuarterTurn(p))
             t == QuarterTurn(u)
  <2>1. Turned(p, degrees) = t
    BY <1>7 DEF Turned
  <2>2. dims = <<h, w>>
    BY <1>7 DEF oriented_dimensions
  <2>3. \A c \in Corners : /\ Index(c) % h = y(c)
                          /\ Index(c) \div h = w - 1 - x(c)
    BY <1>1, <1>7, PixelMoved
  <2>4. /\ u \in Pictures(w, h)
        /\ \A c \in Corners : u.corners[c] = <<w - 1 - x(c), h - 1 - y(c)>>
    BY HalfTurn
  <2> HIDE DEF u
  <2>5. /\ t \in Pictures(h, w)
        /\ \A c \in Corners : t.corners[c] =
               <<h - 1 - u.corners[c][2], u.corners[c][1]>>
    BY <2>4, Quarter
  <2>6. \A c \in Corners : t.corners[c] = <<y(c), w - 1 - x(c)>>
    BY <1>1, <2>4, <2>5
  <2> HIDE DEF t
  <2> QED
    BY <1>3, <2>1, <2>2, <2>3, <2>5, <2>6
<1> QED
  BY <1>4, <1>5, <1>6, <1>7 DEF Rotations

\* The wire frame, seen through the panel's mounting, is the canvas turned by
\* the user's rotation.
LEMMA UprightTurned ==
    ASSUME NEW profile, Sound(profile), NEW r \in Rotations,
           NEW o, o = oriented_dimensions(profile.width, profile.height, r),
           NEW p \in Pictures(o[1], o[2])
    PROVE  Turned(rotate_pixels(p, wire_angle(profile, r)),
                  (360 - wire_angle(profile, 0)) % 360)
               = Turned(p, TurnedBy(profile, r))
<1> DEFINE turned == wire_angle(profile, r)
           zero == wire_angle(profile, 0)
           back == (360 - zero) % 360
<1>1. o[1] \in Nat \ {0} /\ o[2] \in Nat \ {0}
  BY DEF oriented_dimensions, Sound, DeviceProfile
<1>2. /\ turned \in Rotations /\ zero \in Rotations
      /\ (turned + back) % 360 = TurnedBy(profile, r)
  BY WireAngle
<1>3. back \in Rotations
  BY <1>2, AnglesAdd
<1> HIDE DEF turned, back
<1>4. rotate_pixels(p, turned) = Turned(p, turned)
  BY <1>1, <1>2, RotatedIsTurned
<1>5. Turned(Turned(p, turned), back) = Turned(p, (turned + back) % 360)
  BY <1>1, <1>2, <1>3, TurnedBack
<1> QED
  BY <1>2, <1>4, <1>5 DEF turned, back

-----------------------------------------------------------------------------
(***************************************************************************)
(* Letterboxes.                                                            *)
(***************************************************************************)

\* What rounding to the nearest whole number means.
LEMMA Rounded ==
    ASSUME NEW n \in Nat \ {0}, NEW num \in Nat \ {0}, NEW den \in Nat \ {0},
           NEW q, q = RoundedRatio(n, num, den)
    PROVE  /\ q \in Nat
           /\ 2 * (den * q) <= 2 * (n * num) + den
           /\ 2 * (n * num) + den < 2 * (den * q) + 2 * den
<1> DEFINE a == 2 * n * num + den
           b == 2 * den
<1>1. a \in Nat /\ b \in Nat \ {0} /\ a = 2 * (n * num) + den
  OBVIOUS
<1>2. q = a \div b
  BY DEF RoundedRatio
<1> HIDE DEF a, b
<1>3. /\ a = b * (a \div b) + (a % b) /\ a % b \in 0..b-1
      /\ a \div b \in Nat
  BY <1>1
<1>4. q \in Nat /\ b * q <= a /\ a < b * q + b
  BY <1>1, <1>2, <1>3
<1>5. b * q = 2 * (den * q)
  BY <1>4 DEF b
<1> QED
  BY <1>1, <1>4, <1>5 DEF b

\* One side fills the canvas, the other is rounded: it fits by itself, and is
\* within a pixel of the proportion.
LEMMA OtherSide ==
    ASSUME NEW w \in Nat \ {0}, NEW h \in Nat \ {0}, NEW tw \in Nat \ {0},
           NEW th \in Nat \ {0}, tw * h <= th * w,
           NEW s, s = Clamp(RoundedRatio(h, tw, w), 1, th)
    PROVE  /\ s \in 1..th
           /\ (tw - 1) * h < (s + 1) * w
           /\ (s - 1) * w < (tw + 1) * h
<1> DEFINE q == RoundedRatio(h, tw, w)
<1>1. /\ q \in Nat
      /\ 2 * (w * q) <= 2 * (h * tw) + w
      /\ 2 * (h * tw) + w < 2 * (w * q) + 2 * w
  BY Rounded
<1>2. s = IF q < 1 THEN 1 ELSE IF q > th THEN th ELSE q
  BY DEF Clamp
<1> HIDE DEF q
<1>3. q <= th
  <2>1. 2 * (w * q) < 2 * (w * (th + 1))
    BY <1>1
  <2>2. w * q < w * (th + 1)
    BY <1>1, <2>1
  <2> QED
    BY <1>1, <2>2
<1>4. CASE q = 0
  <2>1. s = 1
    BY <1>2, <1>4
  <2>2. 2 * (h * tw) < w
    BY <1>1, <1>4
  <2>3. (tw - 1) * h <= h * tw
    OBVIOUS
  <2> QED
    BY <2>1, <2>2, <2>3
<1>5. CASE q >= 1
  <2>1. s = q
    BY <1>1, <1>2, <1>3, <1>5
  <2>2. /\ (tw - 1) * h <= h * tw
        /\ (q + 1) * w = w * q + w
        /\ (q - 1) * w = w * q - w
        /\ (tw + 1) * h = h * tw + h
    BY <1>1
  <2>3. 2 * (h * tw) < 2 * (w * q) + w
    BY <1>1
  <2>4. h * tw \in Nat /\ w * q \in Nat
    BY <1>1
  <2>5. h * tw < w * q + w
    BY <2>3, <2>4
  <2>6. w * q - w < h * tw + h
    BY <1>1, <2>4
  <2> QED
    BY <1>1, <1>3, <1>5, <2>1, <2>2, <2>5, <2>6
<1> QED
  BY <1>1, <1>4, <1>5

\* The scaled picture fits the canvas, fills it one way, and keeps its shape up
\* to one pixel.
LEMMA Scaled ==
    ASSUME NEW w \in Nat \ {0}, NEW h \in Nat \ {0}, NEW tw \in Nat \ {0},
           NEW th \in Nat \ {0}, NEW s, s = ScaledSize(w, h, tw, th)
    PROVE  /\ s[1] \in 1..tw /\ s[2] \in 1..th
           /\ s[1] = tw \/ s[2] = th
           /\ (s[1] - 1) * h < (s[2] + 1) * w
           /\ (s[2] - 1) * w < (s[1] + 1) * h
<1>1. CASE tw * h <= th * w
  BY <1>1, OtherSide DEF ScaledSize
<1>2. CASE ~(tw * h <= th * w)
  <2>1. th * w <= tw * h
    BY <1>2
  <2> DEFINE q == Clamp(RoundedRatio(w, th, h), 1, tw)
  <2>2. s = <<q, th>>
    BY <1>2 DEF ScaledSize
  <2>3. q \in 1..tw /\ (th - 1) * w < (q + 1) * h
        /\ (q - 1) * h < (th + 1) * w
    BY <2>1, OtherSide
  <2> HIDE DEF q
  <2> QED
    BY <2>2, <2>3
<1> QED
  BY <1>1, <1>2


\* A drawn frame has its corners in the corners.
LEMMA Drawn ==
    ASSUME NEW w \in Nat \ {0}, NEW h \in Nat \ {0}
    PROVE  Picture(w, h) \in Pictures(w, h)
BY DEF Picture, Pictures, Pixels, Corners

\* A picture of the given size, on a canvas.
Fits(picture, size) ==
    LET c      == picture.corners
        left   == c.tl[1]
        top    == c.tl[2]
        right  == picture.width - 1 - c.br[1]
        bottom == picture.height - 1 - c.br[2]
        w      == c.br[1] - c.tl[1] + 1
        h      == c.br[2] - c.tl[2] + 1
    IN /\ left >= 0 /\ top >= 0 /\ right \in left..(left + 1)
       /\ bottom \in top..(top + 1)
       /\ w = picture.width \/ h = picture.height
       /\ (w - 1) * size[2] < (h + 1) * size[1]
       /\ (h - 1) * size[1] < (w + 1) * size[2]

\* Halves lose at most one.
LEMMA Half ==
    ASSUME NEW n \in Nat
    PROVE  /\ n \div 2 \in Nat
           /\ 2 * (n \div 2) <= n /\ n <= 2 * (n \div 2) + 1
OBVIOUS

\* adapt_frame_contain puts the whole picture on the canvas, centred and in
\* shape.
LEMMA Letterboxed ==
    ASSUME NEW w \in Nat \ {0}, NEW h \in Nat \ {0},
           NEW tw \in Nat \ {0}, NEW th \in Nat \ {0},
           NEW p, p = adapt_frame_contain(Picture(w, h), tw, th)
    PROVE  p \in Pictures(tw, th) /\ Fits(p, <<w, h>>)
<1> DEFINE s == ScaledSize(w, h, tw, th)
           x == (tw - s[1]) \div 2
           y == (th - s[2]) \div 2
           right == x + s[1] - 1
           bottom == y + s[2] - 1
           c == [tl |-> <<x, y>>, tr |-> <<right, y>>,
                 bl |-> <<x, bottom>>, br |-> <<right, bottom>>]
<1>2. CASE w = tw /\ h = th
  <2>1. p = Picture(tw, th)
    BY <1>2 DEF adapt_frame_contain, Picture
  <2>2. /\ p.width = tw /\ p.height = th
        /\ p.corners.tl = <<0, 0>> /\ p.corners.br = <<tw - 1, th - 1>>
    BY <2>1 DEF Picture
  <2>3. p \in Pictures(tw, th)
    BY <2>1, Drawn
  <2>4. /\ (tw - 1) * h < (th + 1) * w
        /\ (th - 1) * w < (tw + 1) * h
    BY <1>2
  <2>5. tw - 1 - 0 + 1 = tw /\ th - 1 - 0 + 1 = th
    OBVIOUS
  <2> QED
    BY <1>2, <2>2, <2>3, <2>4, <2>5 DEF Fits
<1>3. CASE ~(w = tw /\ h = th)
  <2>1. /\ s[1] \in 1..tw /\ s[2] \in 1..th
        /\ s[1] = tw \/ s[2] = th
        /\ (s[1] - 1) * h < (s[2] + 1) * w
        /\ (s[2] - 1) * w < (s[1] + 1) * h
    BY Scaled
  <2> DEFINE drawn == Picture(w, h)
  <2>9. drawn.width = w /\ drawn.height = h
    BY DEF Picture
  <2>10. p = adapt_frame_contain(drawn, tw, th)
    OBVIOUS
  <2> HIDE DEF drawn
  <2>2. p = [width |-> tw, height |-> th, corners |-> c]
    BY <1>3, <2>9, <2>10 DEF adapt_frame_contain
  <2> HIDE DEF s
  <2>3. /\ x \in Nat /\ 2 * x <= tw - s[1] /\ tw - s[1] <= 2 * x + 1
        /\ y \in Nat /\ 2 * y <= th - s[2] /\ th - s[2] <= 2 * y + 1
    <3>1. tw - s[1] \in Nat /\ th - s[2] \in Nat
      BY <2>1
    <3> QED
      BY <3>1, Half
  <2> HIDE DEF x, y
  <2>4. /\ x \in 0..tw-1 /\ right \in 0..tw-1
        /\ y \in 0..th-1 /\ bottom \in 0..th-1
    BY <2>1, <2>3
  <2>5. /\ right - x + 1 = s[1] /\ bottom - y + 1 = s[2]
        /\ tw - 1 - right \in x..(x + 1)
        /\ th - 1 - bottom \in y..(y + 1)
    <3>1. /\ s[1] \in Nat /\ s[2] \in Nat /\ tw \in Nat /\ th \in Nat
          /\ x \in Nat /\ y \in Nat
      BY <2>1, <2>3
    <3>2. right = x + s[1] - 1 /\ bottom = y + s[2] - 1
      OBVIOUS
    <3> HIDE DEF right, bottom
    <3> QED
      BY <2>3, <3>1, <3>2
  <2> HIDE DEF right, bottom
  <2>6. p \in Pictures(tw, th)
    BY <2>2, <2>4 DEF Pictures, Pixels, Corners
  <2>7. /\ p.width = tw /\ p.height = th
        /\ p.corners.tl[1] = x /\ p.corners.tl[2] = y
        /\ p.corners.br[1] = right /\ p.corners.br[2] = bottom
    BY <2>2
  <2>8. Fits(p, <<w, h>>)
    BY <2>1, <2>3, <2>5, <2>7 DEF Fits
  <2> QED
    BY <2>6, <2>8
<1> QED
  BY <1>2, <1>3

-----------------------------------------------------------------------------
(***************************************************************************)
(* The inductive invariant of FrameWire, in three parts: what the          *)
(* handshake selected, what the frame is made of, and how far the panel is *)
(* with it.  FramesAccepted, Pictured and Reassembled speak of single      *)
(* stages; what they need of the stages before is what is kept here.       *)
(***************************************************************************)

\* The profile of the session, and that its family carries the encoding.
Selected ==
    Negotiated =>
        /\ Sound(info.profile)
        /\ device.kind = "scsi" => is_rgb565(info.profile.encoding)
        /\ device.kind = "type3" =>
               /\ info.profile.width = 320 /\ info.profile.height = 320
               /\ is_rgb565(info.profile.encoding)

Oriented == oriented_dimensions(info.profile.width, info.profile.height,
                                rotation)

\* The canvas has the size the rotation gives it, and the frame is made of it.
Prepared ==
    /\ stage = "drawn" =>
           /\ source \in Size
           /\ frame = Picture(source[1], source[2])
    /\ stage = "adapted" => frame = canvas /\ Fits(canvas, source)
    /\ stage \in {"adapted", "encoded", "sending", "acking", "shown"} =>
           canvas \in Pictures(Oriented[1], Oriented[2])
    /\ stage \in {"encoded", "sending", "acking", "shown"} =>
           /\ frame.picture = rotate_pixels(canvas, Angle)
           /\ frame.length \in EncodedLengths(frame.picture)

\* The panel took what the host wrote, in order, and in the end all of it.
Carried ==
    /\ panel \in [taken : Nat, torn : BOOLEAN, ended : BOOLEAN]
    /\ stage \in {"sending", "acking"} => device.kind # "null"
    /\ stage = "sending" =>
           panel.taken = sent /\ sent <= Packet /\ ~panel.torn
    /\ stage \in {"acking", "shown"} /\ device.kind # "null" =>
           panel.taken = Packet /\ ~panel.torn /\ panel.ended

WireInv ==
    /\ WireTypeOK /\ device \in Devices /\ stage # "rejected"
    /\ Selected /\ Prepared /\ Carried


-----------------------------------------------------------------------------
(***************************************************************************)
(* Packets.                                                                *)
(***************************************************************************)

\* Quotient and remainder.
LEMMA Divided ==
    ASSUME NEW n \in Nat, NEW m \in Nat \ {0}
    PROVE  /\ n \div m \in Nat /\ n % m \in 0..m-1
           /\ n = m * (n \div m) + (n % m)
OBVIOUS

\* A packet rounded up to whole units holds what was rounded.
LEMMA RoundedUp ==
    ASSUME NEW n \in Nat, NEW unit \in Nat \ {0}
    PROVE  RoundUp(n, unit) \in Nat /\ n <= RoundUp(n, unit)
<1> DEFINE a == n + unit - 1
           q == a \div unit
           m == a % unit
<1>1. a \in Nat
  OBVIOUS
<1>2. q \in Nat /\ m \in 0..unit-1 /\ a = unit * q + m
  BY <1>1, Divided
<1>3. RoundUp(n, unit) = q * unit
  BY DEF RoundUp
<1> HIDE DEF q, m
<1>4. q * unit = unit * q /\ unit * q \in Nat
  BY <1>2
<1> QED
  BY <1>2, <1>3, <1>4

\* LY records hold the payload: all of them full but the last.
LEMMA Shares ==
    ASSUME NEW length \in Nat
    PROVE  /\ LyRecords(length).count \in Nat \ {0}
           /\ 496 * (LyRecords(length).count - 1) + LyRecords(length).last
                  = length
<1>1. /\ length \div 496 \in Nat
      /\ length = 496 * (length \div 496) + (length % 496)
  BY Divided
<1>2. /\ LyRecords(length).count = length \div 496 + 1
      /\ LyRecords(length).last = length % 496
  BY DEF LyRecords
<1> QED
  BY <1>1, <1>2

\* A packet has a length.
LEMMA PacketHolds ==
    ASSUME NEW kind \in Kinds, kind # "null", NEW length \in Nat
    PROVE  PacketLength(kind, length) \in Nat
<1>1. /\ RoundUp(20 + length, 512) \in Nat
      /\ RoundUp(LyRecords(length).count, 4) \in Nat
      /\ LyRecords(length).count \in Nat
  <2> DEFINE count == LyRecords(length).count
             framed == 20 + length
  <2>1. count \in Nat /\ framed \in Nat
    BY Shares
  <2> HIDE DEF count, framed
  <2>2. RoundUp(framed, 512) \in Nat /\ RoundUp(count, 4) \in Nat
    BY <2>1, RoundedUp
  <2> QED
    BY <2>1, <2>2 DEF count, framed
<1> QED
  BY <1>1 DEF PacketLength, Kinds

\* A write stays inside the packet.
LEMMA WriteFits ==
    ASSUME NEW n \in Nat, Packet \in Nat, n < Packet,
           device.kind \in Kinds, device.kind # "null"
    PROVE  NextWrite(n) \in Nat /\ n + NextWrite(n) <= Packet
<1>1. ASSUME NEW chunk \in Nat \ {0}
      PROVE  /\ Within(n, chunk, Packet) \in Nat
             /\ n + Within(n, chunk, Packet) <= Packet
  <2> DEFINE q == n \div chunk
             upto == (q + 1) * chunk
             packet == Packet
  <2>1. q \in Nat /\ n % chunk \in 0..chunk-1 /\ n = chunk * q + (n % chunk)
    BY Divided
  <2> HIDE DEF q
  <2>2. upto = chunk * q + chunk /\ chunk * q \in Nat
    BY <2>1
  <2>3. upto \in Nat /\ n <= upto
    BY <2>1, <2>2
  <2> HIDE DEF upto
  <2>4. Within(n, chunk, Packet) = Least(upto, packet) - n
    BY DEF Within, upto, q
  <2> HIDE DEF packet
  <2>5. packet \in Nat /\ n < packet
    BY DEF packet
  <2>6. Least(upto, packet) \in Nat /\ n <= Least(upto, packet)
        /\ Least(upto, packet) <= packet
    BY <2>3, <2>5 DEF Least
  <2> QED
    BY <2>4, <2>5, <2>6 DEF packet
<1>2. ScsiChunk \in Nat \ {0}
  BY DEF ScsiChunk
<1>3. CASE device.kind \in {"bulk", "square"}
  BY <1>1, <1>3 DEF NextWrite
<1>4. CASE device.kind \in {"type2", "pm58"}
  BY <1>1, <1>4 DEF NextWrite
<1>5. CASE device.kind = "scsi"
  BY <1>1, <1>2, <1>5 DEF NextWrite
<1>6. CASE device.kind \in {"pm128", "type3", "ly", "ly1"}
  BY <1>6 DEF NextWrite, Least
<1> QED
  BY <1>3, <1>4, <1>5, <1>6 DEF Kinds

\* A panel that took the whole packet has the whole payload.
LEMMA WholePayload ==
    ASSUME frame.length \in Nat, panel.taken = Packet,
           device.kind \in Kinds, device.kind # "null"
    PROVE  PanelPayload = frame.length
<1> DEFINE length == frame.length
           count == LyRecords(length).count
           last == LyRecords(length).last
           taken == panel.taken
<1>1. taken = PacketLength(device.kind, length)
  BY DEF Packet
<1>2. count \in Nat \ {0} /\ 496 * (count - 1) + last = length
  BY Shares
<1>3. CASE device.kind \in {"bulk", "square", "scsi", "type3"}
  BY <1>1, <1>3 DEF PanelPayload, PacketLength
<1>4. CASE device.kind \in {"type2", "pm58", "pm128"}
  <2>1. taken = RoundUp(20 + length, 512)
    BY <1>1, <1>4 DEF PacketLength
  <2>2. 20 + length <= taken /\ taken \in Nat
    BY <2>1, RoundedUp
  <2>3. PanelPayload = Least(taken - 20, length)
    BY <1>4 DEF PanelPayload
  <2> QED
    BY <2>2, <2>3 DEF Least
<1>5. ASSUME device.kind \in {"ly", "ly1"},
             NEW records \in Nat, taken = 512 * records, count <= records
      PROVE  PanelPayload = length
  <2>1. taken \div 512 = records
    BY <1>5
  <2>2. PanelPayload = IF taken \div 512 >= count
                       THEN 496 * (count - 1) + last
                       ELSE 496 * (taken \div 512)
    BY <1>5 DEF PanelPayload
  <2> HIDE DEF count, last, taken
  <2> QED
    BY <1>2, <1>5, <2>1, <2>2
<1>6. CASE device.kind = "ly"
  <2>1. taken = 512 * RoundUp(count, 4)
    BY <1>1, <1>6 DEF PacketLength
  <2>2. RoundUp(count, 4) \in Nat /\ count <= RoundUp(count, 4)
    BY <1>2, RoundedUp
  <2> QED
    BY <1>5, <1>6, <2>1, <2>2
<1>7. CASE device.kind = "ly1"
  <2>1. taken = 512 * count
    BY <1>1, <1>7 DEF PacketLength
  <2> QED
    BY <1>2, <1>5, <1>7, <2>1
<1> QED
  BY <1>3, <1>4, <1>6, <1>7 DEF Kinds


-----------------------------------------------------------------------------
(***************************************************************************)
(* The steps keep the invariant.                                           *)
(***************************************************************************)

\* The codes of a PM are numbers.
LEMMA PmCode ==
    ASSUME NEW pm \in Nat, NEW sub
    PROVE  pm_to_fbl(pm, sub) \in Nat /\ bulk_fbl(pm, sub) \in Nat
<1>1. pm_to_fbl_override(pm) \in Nat
  BY DEF pm_to_fbl_override
<1>2. pm_to_fbl(pm, sub) \in Nat
  BY <1>1 DEF pm_to_fbl
<1> QED
  BY <1>2 DEF bulk_fbl

\* What a handshake leaves: a session with a sound profile, or none.
Selects ==
    /\ stage' \in {"up", "refused"}
    /\ stage' = "up" =>
           /\ Sound(info'.profile)
           /\ device.kind = "scsi" => is_rgb565(info'.profile.encoding)
           /\ device.kind = "type3" =>
                  /\ info'.profile.width = 320 /\ info'.profile.height = 320
                  /\ is_rgb565(info'.profile.encoding)

\* build_device_info selects a sound profile that its family can carry.
LEMMA BuildSelects ==
    ASSUME NEW protocol \in Protocols, NEW pm \in Nat, NEW sub \in Nat,
           NEW fbl \in Nat, build_device_info(protocol, pm, sub, fbl),
           device.kind = "scsi" => protocol = "Scsi",
           device.kind = "type3" => protocol = "HidType3"
    PROVE  Selects
<1> DEFINE mapped == pm_to_fbl(pm, sub)
           code == IF fbl # 0 THEN fbl
                   ELSE IF protocol = "Bulk" THEN bulk_fbl(pm, sub)
                   ELSE IF protocol = "HidType2" /\ pm \in {49, 59, 60}
                   THEN 100
                   ELSE IF /\ protocol = "HidType2"
                           /\ mapped \notin KNOWN_FBL_CODES
                   THEN pm
                   ELSE mapped
           profile == resolve_profile(protocol, pm, sub, code)
<1>1. code \in Nat
  BY PmCode
<1>2. IF Resolvable(protocol, pm, sub, code)
      THEN stage' = "up" /\ info' = InfoOf(protocol, profile)
      ELSE stage' = "refused" /\ UNCHANGED info
  BY Zenon DEF build_device_info
<1> HIDE DEF code
<1>3. CASE Resolvable(protocol, pm, sub, code)
  <2>1. /\ Sound(profile)
        /\ protocol = "Scsi" => is_rgb565(profile.encoding)
        /\ protocol = "HidType3" =>
               /\ profile.width = 320 /\ profile.height = 320
               /\ is_rgb565(profile.encoding)
    BY <1>1, <1>3, ProfileSound
  <2>2. stage' = "up" /\ info'.profile = profile
    BY <1>2, <1>3 DEF InfoOf
  <2> HIDE DEF profile
  <2> QED
    BY <2>1, <2>2 DEF Selects
<1>4. CASE ~Resolvable(protocol, pm, sub, code)
  BY <1>2, <1>4 DEF Selects
<1> QED
  BY <1>3, <1>4

\* So do the exact device policies.
LEMMA ExactSelects ==
    ASSUME NEW policy \in {"Square87adPm4", "Type2Pm58", "Type2Pm128"},
           Exact(policy), device.kind \notin {"scsi", "type3"}
    PROVE  Selects
<1> DEFINE profile == ExactDevicePolicy[policy]
<1>1. profile \in {ExactProfile(480, 480, "Jpeg"),
                   ExactProfile(240, 320, "Rgb565Le"),
                   ExactProfile(1280, 480, "Jpeg")}
  BY DEF ExactDevicePolicy
<1>2. ASSUME NEW w \in Nat \ {0}, NEW h \in Nat \ {0},
             NEW encoding \in Encodings
      PROVE  Sound(ExactProfile(w, h, encoding))
  <2>1. 0 \in Rotations
    BY DEF Rotations
  <2> QED
    BY <2>1, Zenon DEF Sound, ExactProfile, DeviceProfile
<1>3. Sound(profile)
  BY <1>1, <1>2 DEF Encodings
<1>4. stage' = "up" /\ info'.profile = profile
  BY DEF Exact, InfoOf
<1> HIDE DEF profile
<1> QED
  BY <1>3, <1>4 DEF Selects


\* What a LY device answers is a PM and a SUB.
LEMMA LyCodes ==
    ASSUME NEW kind, NEW a \in Nat, NEW b \in Nat
    PROVE  /\ parse_ly_pm_sub(kind, a, b)[1] \in Nat
           /\ parse_ly_pm_sub(kind, a, b)[2] \in Nat
BY DEF parse_ly_pm_sub, Saturate

\* So does every family's answer.
LEMMA AnswersSelect ==
    ASSUME device \in Devices, Answers
    PROVE  Selects
<1> DEFINE a == device.answer[1]
           b == device.answer[2]
           ly == parse_ly_pm_sub(device.kind, a, b)
           Refuses == stage' = "refused" /\ UNCHANGED info
<1>1. device.kind \in Kinds /\ device.kind # "null"
  BY DevicesAssumption DEF Answers
<1>2. a \in Nat /\ b \in Nat
  BY <1>1, DevicesAssumption
<1>3. Refuses => Selects
  BY DEF Selects
<1>4. CASE device.kind = "bulk"
  <2>1. Refuses \/ build_device_info("Bulk", a, b, 0)
    BY <1>4, Zenon DEF Answers
  <2> QED
    BY <1>2, <1>3, <1>4, <2>1, BuildSelects DEF Protocols
<1>5. CASE device.kind = "scsi"
  <2>1. Refuses \/ build_device_info("Scsi", a, 0, a)
    BY <1>5, Zenon DEF Answers
  <2> QED
    BY <1>2, <1>3, <1>5, <2>1, BuildSelects DEF Protocols
<1>6. CASE device.kind = "type2"
  <2>1. build_device_info("HidType2", a, b, 0)
    BY <1>6, Zenon DEF Answers
  <2> QED
    BY <1>2, <1>6, <2>1, BuildSelects DEF Protocols
<1>7. CASE device.kind = "type3"
  <2>1. Refuses \/ /\ a \in {101, 102}
                   /\ build_device_info("HidType3", a - 1, 0, a - 1)
    BY <1>7, Zenon DEF Answers
  <2>2. CASE Refuses
    BY <1>3, <2>2
  <2>3. CASE /\ a \in {101, 102}
             /\ build_device_info("HidType3", a - 1, 0, a - 1)
    <3>1. a - 1 \in Nat
      BY <2>3
    <3> QED
      BY <1>7, <2>3, <3>1, BuildSelects DEF Protocols
  <2> QED
    BY <2>1, <2>2, <2>3
<1>8. CASE device.kind \in {"ly", "ly1"}
  <2>1. build_device_info("Ly", ly[1], ly[2], pm_to_fbl(ly[1], ly[2]))
    BY <1>8 DEF Answers
  <2>2. ly[1] \in Nat /\ ly[2] \in Nat /\ pm_to_fbl(ly[1], ly[2]) \in Nat
    BY <1>2, LyCodes, PmCode
  <2> QED
    BY <1>8, <2>1, <2>2, BuildSelects DEF Protocols
<1>9. CASE device.kind = "square"
  <2>1. Refuses \/ Exact("Square87adPm4")
    BY <1>9, Zenon DEF Answers
  <2> QED
    BY <1>3, <1>9, <2>1, ExactSelects
<1>10. CASE device.kind \in {"pm58", "pm128"}
  <2>1. Exact("Type2Pm58") \/ Exact("Type2Pm128")
    BY <1>10 DEF Answers
  <2> QED
    BY <1>10, <2>1, ExactSelects
<1> QED
  BY <1>1, <1>4, <1>5, <1>6, <1>7, <1>8, <1>9, <1>10 DEF Kinds

\* So does every fixture of the null transport.
LEMMA FixtureSelects ==
    ASSUME device \in Devices, NullHandshake
    PROVE  Selects
<1> DEFINE f == device.answer
<1>1. device.kind = "null" /\ build_device_info(f[1], f[2], f[3], f[4])
  BY DEF NullHandshake
<1>2. f \in Fixtures
  BY <1>1, DevicesAssumption
<1>3. f[1] \in Protocols /\ f[2] \in Nat /\ f[3] \in Nat /\ f[4] \in Nat
  BY <1>2 DEF Fixtures, Protocols
<1> QED
  BY <1>1, <1>3, BuildSelects

\* While a session is set up nothing is drawn and nothing is sent.
LEMMA NewSession ==
    ASSUME WireInv, stage' \in {"closed", "init", "up", "refused"},
           stage' = "up" => Selects,
           booting' \in 0..BOOT_MAX_ATTEMPTS,
           attempt' \in 1..BOOT_MAX_ATTEMPTS,
           losses' \in 0..MaxLosses,
           UNCHANGED <<device, rotation, source, canvas, frame, sent, panel>>
    PROVE  WireInv'
<1>1. WireTypeOK'
  BY DEF WireInv, WireTypeOK, Selects, Sound, Stages, Negotiated
<1>2. Selected'
  BY DEF Selected, Selects, Negotiated
<1>3. Prepared' /\ Carried'
  BY DEF WireInv, Prepared, Carried
<1>4. device' \in Devices /\ stage' # "rejected"
  BY DEF WireInv
<1> QED
  BY <1>1, <1>2, <1>3, <1>4 DEF WireInv


\* The steps of the handshake keep the invariant.
LEMMA HandshakeStep ==
    ASSUME WireInv, Handshake
    PROVE  WireInv'
<1>1. /\ device \in Devices /\ losses \in 0..MaxLosses
      /\ booting \in 0..BOOT_MAX_ATTEMPTS /\ attempt \in 1..BOOT_MAX_ATTEMPTS
  BY DEF WireInv, WireTypeOK
<1>2. CASE Answers
  <2>1. Selects
    BY <1>1, <1>2, AnswersSelect
  <2> QED
    BY <1>1, <1>2, <2>1, NewSession DEF Answers, Selects
<1>3. CASE PollBooting
  BY <1>1, <1>3, NewSession DEF PollBooting, BOOT_MAX_ATTEMPTS
<1>4. CASE SilentUnasked
  BY <1>1, <1>4, NewSession DEF SilentUnasked
<1>5. CASE AnswerLost
  BY <1>1, <1>5, NewSession, LossesAssumption
  DEF AnswerLost, Loss, BOOT_MAX_ATTEMPTS, HANDSHAKE_MAX_RETRIES
<1>6. CASE NullHandshake
  <2>1. Selects
    BY <1>1, <1>6, FixtureSelects
  <2> QED
    BY <1>1, <1>6, <2>1, NewSession DEF NullHandshake, Selects
<1> QED
  BY <1>2, <1>3, <1>4, <1>5, <1>6 DEF Handshake

\* What holds of every session that has a profile.
LEMMA OfSession ==
    ASSUME WireInv, Negotiated
    PROVE  /\ Sound(info.profile) /\ rotation \in Rotations
           /\ info.profile.width \in Nat \ {0}
           /\ info.profile.height \in Nat \ {0}
           /\ Oriented \in Size /\ Oriented = <<Oriented[1], Oriented[2]>>
<1>1. Sound(info.profile) /\ rotation \in Rotations
  BY DEF WireInv, WireTypeOK, Selected
<1>2. /\ info.profile.width \in Nat \ {0}
      /\ info.profile.height \in Nat \ {0}
  BY <1>1 DEF Sound, DeviceProfile
<1> QED
  BY <1>1, <1>2 DEF Oriented, oriented_dimensions, Size

\* The session stays as it is while a frame goes its way.
LEMMA SameSession ==
    ASSUME WireInv, Negotiated, UNCHANGED <<device, booting, attempt, info>>,
           rotation' \in Rotations, sent' \in Nat, losses' \in 0..MaxLosses,
           stage' \in Stages \ {"rejected"}, Prepared', Carried'
    PROVE  WireInv'
<1>1. WireTypeOK'
  BY DEF WireInv, WireTypeOK, Negotiated
<1>2. Selected'
  BY DEF WireInv, Selected, Negotiated
<1> QED
  BY <1>1, <1>2 DEF WireInv

\* Drawing keeps the invariant.
LEMMA RenderStep ==
    ASSUME WireInv, NEW r \in Rotations, Render(r)
    PROVE  WireInv'
<1>1. Negotiated /\ stage = "up"
  BY DEF Render, Negotiated
<1>2. PICK dims \in Canvases \cup
           {oriented_dimensions(info.profile.width, info.profile.height, r)} :
          source' = dims /\ frame' = Picture(dims[1], dims[2])
  BY DEF Render
<1>3. dims \in Size
  BY <1>1, <1>2, OfSession, CanvasesAssumption DEF oriented_dimensions, Size
<1>4. /\ stage' = "drawn" /\ rotation' = r
      /\ UNCHANGED <<device, booting, attempt, info, canvas, sent, panel,
                     losses>>
  BY DEF Render, session
<1>5. Prepared'
  BY <1>2, <1>3, <1>4 DEF Prepared
<1>6. Carried'
  BY <1>4 DEF WireInv, Carried
<1> QED
  BY <1>1, <1>4, <1>5, <1>6, SameSession DEF WireInv, WireTypeOK, Stages

\* The letterbox keeps the invariant: the frame is the oriented canvas now.
LEMMA AdaptStep ==
    ASSUME WireInv, Adapt
    PROVE  WireInv'
<1>1. Negotiated /\ stage = "drawn"
  BY DEF Adapt, Negotiated
<1>2. /\ source \in Size
      /\ frame = Picture(source[1], source[2])
  BY <1>1 DEF WireInv, Prepared
<1>3. /\ frame' = adapt_frame_contain(frame, Oriented[1], Oriented[2])
      /\ canvas' = frame' /\ stage' = "adapted"
      /\ UNCHANGED <<device, booting, attempt, info, rotation, source, sent,
                     panel, losses>>
  BY DEF Adapt, session, Oriented
<1>4. Oriented \in Size /\ Oriented' = Oriented
  BY <1>1, <1>3, OfSession DEF Oriented
<1>5. /\ source[1] \in Nat \ {0} /\ source[2] \in Nat \ {0}
      /\ source = <<source[1], source[2]>>
      /\ Oriented[1] \in Nat \ {0} /\ Oriented[2] \in Nat \ {0}
  BY <1>2, <1>4 DEF Size
<1>6. /\ canvas' \in Pictures(Oriented[1], Oriented[2])
      /\ Fits(canvas', source)
  BY <1>2, <1>3, <1>5, Letterboxed
<1>7. Prepared'
  BY <1>3, <1>4, <1>6 DEF Prepared
<1>8. Carried'
  BY <1>3 DEF WireInv, Carried
<1> QED
  BY <1>1, <1>3, <1>7, <1>8, SameSession DEF WireInv, WireTypeOK, Stages


\* The canvas turned for the wire has the wire size.
LEMMA TurnedForWire ==
    ASSUME WireInv, Negotiated, canvas \in Pictures(Oriented[1], Oriented[2]),
           NEW p, p = rotate_pixels(canvas, Angle)
    PROVE  /\ <<p.width, p.height>> = wire_dimensions(info.profile)
           /\ p.width \in Nat \ {0} /\ p.height \in Nat \ {0}
<1> DEFINE o == Oriented
           d == oriented_dimensions(o[1], o[2], Angle)
<1>1. /\ o = oriented_dimensions(info.profile.width, info.profile.height,
                                 rotation)
      /\ Sound(info.profile) /\ rotation \in Rotations
      /\ o[1] \in Nat \ {0} /\ o[2] \in Nat \ {0}
  BY OfSession DEF Oriented, Size
<1>2. canvas.width = o[1] /\ canvas.height = o[2]
  BY DEF Pictures
<1>3. p.width = d[1] /\ p.height = d[2]
  BY <1>2 DEF rotate_pixels
<1>4. d = wire_dimensions(info.profile)
  BY <1>1, WireSize DEF Angle
<1>5. /\ d = <<d[1], d[2]>>
      /\ d[1] \in Nat \ {0} /\ d[2] \in Nat \ {0}
  BY <1>1 DEF oriented_dimensions
<1> QED
  BY <1>3, <1>4, <1>5

\* Encoding keeps the invariant: it never meets a frame of the wrong size.
LEMMA EncodeStep ==
    ASSUME WireInv, encode_frame
    PROVE  WireInv'
<1>1. Negotiated /\ stage = "adapted"
  BY DEF encode_frame, Negotiated
<1>2. frame = canvas /\ canvas \in Pictures(Oriented[1], Oriented[2])
  BY <1>1 DEF WireInv, Prepared
<1>3. <<frame.width, frame.height>>
          = oriented_dimensions(info.profile.width, info.profile.height,
                                rotation)
  BY <1>1, <1>2, OfSession DEF Pictures, Oriented
<1>4. PICK length \in EncodedLengths(rotate_pixels(frame, Angle)) :
          frame' = [picture |-> rotate_pixels(frame, Angle),
                    length |-> length]
  BY <1>3 DEF encode_frame
<1>5. /\ stage' = "encoded"
      /\ UNCHANGED <<device, booting, attempt, info, rotation, source, canvas,
                     sent, panel, losses>>
  BY <1>3 DEF encode_frame, session
<1>6. Oriented' = Oriented /\ Angle' = Angle
  BY <1>5 DEF Oriented, Angle
<1>7. /\ frame'.picture = rotate_pixels(canvas, Angle)
      /\ frame'.length \in EncodedLengths(rotate_pixels(canvas, Angle))
  BY <1>2, <1>4
<1>8. frame'.length \in EncodedLengths(frame.picture)'
  BY <1>5, <1>7 DEF EncodedLengths
<1>9. Prepared'
  BY <1>2, <1>5, <1>6, <1>7, <1>8 DEF Prepared
<1>10. Carried'
  BY <1>5 DEF WireInv, Carried
<1> QED
  BY <1>1, <1>5, <1>9, <1>10, SameSession DEF WireInv, WireTypeOK, Stages

\* While a frame is sent it is made of its canvas, and its length is known.
LEMMA OfFrame ==
    ASSUME WireInv, stage \in {"encoded", "sending", "acking", "shown"}
    PROVE  /\ Negotiated /\ frame.length \in Nat \ {0}
           /\ <<frame.picture.width, frame.picture.height>>
                  = wire_dimensions(info.profile)
           /\ is_rgb565(info.profile.encoding) =>
                  frame.length = 2 * frame.picture.width * frame.picture.height
           /\ device.kind # "null" => Packet \in Nat
<1>1. Negotiated
  BY DEF Negotiated
<1>2. /\ canvas \in Pictures(Oriented[1], Oriented[2])
      /\ frame.picture = rotate_pixels(canvas, Angle)
      /\ frame.length \in EncodedLengths(frame.picture)
  BY DEF WireInv, Prepared
<1>3. /\ <<frame.picture.width, frame.picture.height>>
             = wire_dimensions(info.profile)
      /\ frame.picture.width \in Nat \ {0}
      /\ frame.picture.height \in Nat \ {0}
  BY <1>1, <1>2, TurnedForWire
<1>4. 2 * frame.picture.width * frame.picture.height \in Nat \ {0}
  BY <1>3
<1>5. frame.length \in Nat \ {0}
  BY <1>2, <1>4, LengthsAssumption DEF EncodedLengths
<1>6. device.kind # "null" => Packet \in Nat
  BY <1>5, PacketHolds, DevicesAssumption DEF Packet, WireInv
<1> QED
  BY <1>1, <1>2, <1>3, <1>5, <1>6 DEF EncodedLengths

\* No check of a transport refuses an encoded frame.
LEMMA TransportAccepts ==
    ASSUME WireInv, stage = "encoded"
    PROVE  Acceptable
<1>1. /\ <<frame.picture.width, frame.picture.height>>
             = wire_dimensions(info.profile)
      /\ is_rgb565(info.profile.encoding) =>
             frame.length = 2 * frame.picture.width * frame.picture.height
      /\ Negotiated
  BY OfFrame
<1>2. device.kind \in {"scsi", "type3"} => is_rgb565(info.profile.encoding)
  BY <1>1 DEF WireInv, Selected
<1>3. ASSUME device.kind = "type3"
      PROVE  frame.length = TYPE3_DATA_SIZE
  <2>1. info.profile.width = 320 /\ info.profile.height = 320
    BY <1>1, <1>3 DEF WireInv, Selected
  <2>2. frame.picture.width = 320 /\ frame.picture.height = 320
    BY <1>1, <2>1 DEF wire_dimensions, oriented_dimensions
  <2> QED
    BY <1>1, <1>2, <1>3, <2>2 DEF TYPE3_DATA_SIZE
<1> QED
  BY <1>1, <1>2, <1>3 DEF Acceptable

\* The frame and its packet stay as they are while it is sent.
LEMMA SameFrame ==
    ASSUME WireInv, stage \in {"encoded", "sending", "acking", "shown"},
           stage' \in {"sending", "acking", "shown", "failed"},
           UNCHANGED <<device, booting, attempt, info, rotation, source,
                       canvas, frame>>,
           sent' \in Nat, losses' \in 0..MaxLosses, Carried'
    PROVE  WireInv'
<1>1. Prepared'
  <2>1. Oriented' = Oriented /\ Angle' = Angle
    BY DEF Oriented, Angle
  <2>2. EncodedLengths(frame.picture)' = EncodedLengths(frame.picture)
    BY DEF EncodedLengths
  <2> QED
    BY <2>1, <2>2 DEF WireInv, Prepared
<1>2. rotation' \in Rotations
  BY DEF WireInv, WireTypeOK
<1> QED
  BY <1>1, <1>2, SameSession DEF Stages, Negotiated


\* Handing the frame to the transport keeps the invariant.
LEMMA SendBegins ==
    ASSUME WireInv, send_frame
    PROVE  WireInv'
<1>1. /\ stage = "encoded" /\ Acceptable
      /\ stage' = IF device.kind = "null" THEN "shown" ELSE "sending"
  <2>1. stage = "encoded"
    BY DEF send_frame
  <2>2. Acceptable
    BY <2>1, TransportAccepts
  <2> QED
    BY <2>1, <2>2 DEF send_frame
<1>2. /\ sent' = 0 /\ panel' = EmptyPanel
      /\ UNCHANGED <<device, booting, attempt, info, rotation, source, canvas,
                     frame, losses>>
  BY DEF send_frame, session
<1>3. device.kind # "null" => Packet \in Nat /\ Packet' = Packet
  BY <1>1, <1>2, OfFrame DEF Packet
<1>4. Carried'
  BY <1>1, <1>2, <1>3 DEF Carried, EmptyPanel
<1> QED
  BY <1>1, <1>2, <1>4, SameFrame DEF WireInv, WireTypeOK

\* A write keeps the invariant: it goes on where the panel is.
LEMMA WriteStep ==
    ASSUME WireInv, Write
    PROVE  WireInv'
<1>1. /\ stage = "sending" /\ sent < Packet
      /\ UNCHANGED <<device, booting, attempt, info, stage, rotation, source,
                     canvas, frame>>
  BY DEF Write, session
<1>2. /\ device.kind \in Kinds /\ device.kind # "null"
      /\ panel \in [taken : Nat, torn : BOOLEAN, ended : BOOLEAN]
      /\ panel.taken = sent /\ ~panel.torn
      /\ sent \in Nat /\ losses \in 0..MaxLosses
  BY <1>1, DevicesAssumption DEF WireInv, WireTypeOK, Carried
<1>3. Packet \in Nat /\ Packet' = Packet
  BY <1>1, <1>2, OfFrame DEF Packet
<1>4. NextWrite(sent) \in Nat /\ sent + NextWrite(sent) <= Packet
  BY <1>1, <1>2, <1>3, WriteFits
<1>5. ASSUME NEW n \in Nat, n <= NextWrite(sent), Take(sent, n),
             sent' = sent + n, losses' \in 0..MaxLosses
      PROVE  WireInv'
  <2>1. /\ panel' \in [taken : Nat, torn : BOOLEAN, ended : BOOLEAN]
        /\ panel'.taken = sent'
    <3> DEFINE torn == panel.torn \/ sent # panel.taken
    <3>1. torn \in BOOLEAN
      BY Zenon
    <3>2. panel' = [panel EXCEPT !.taken = @ + n, !.torn = torn]
      BY <1>5, Zenon DEF Take
    <3>3. /\ panel.taken + n \in Nat /\ panel.taken + n = sent'
          /\ panel.ended \in BOOLEAN
      BY <1>2, <1>5
    <3> HIDE DEF torn
    <3>4. panel' = [taken |-> panel.taken + n, torn |-> torn,
                    ended |-> panel.ended]
      BY <1>2, <3>2
    <3>5. panel' \in [taken : Nat, torn : BOOLEAN, ended : BOOLEAN]
      BY <3>1, <3>3, <3>4, Zenon
    <3> QED
      BY <3>3, <3>4, <3>5
  <2>2. ~panel'.torn
    BY <1>2, <1>5 DEF Take
  <2>3. sent' \in Nat /\ sent' <= Packet
    BY <1>2, <1>3, <1>4, <1>5
  <2>4. Carried'
    BY <1>1, <1>2, <1>3, <2>1, <2>2, <2>3 DEF Carried
  <2> QED
    BY <1>1, <1>5, <2>3, <2>4, SameFrame
<1>6. \/ /\ Take(sent, NextWrite(sent))
         /\ sent' = sent + NextWrite(sent)
         /\ losses' = losses
      \/ /\ NextWrite(sent) > 512 /\ Loss
         /\ Take(sent, 512)
         /\ sent' = sent + 512
  BY DEF Write
<1>7. Loss => losses' \in 0..MaxLosses
  BY <1>2, LossesAssumption DEF Loss
<1> QED
  BY <1>2, <1>4, <1>5, <1>6, <1>7

\* A failed write keeps the invariant.
LEMMA WriteFailsStep ==
    ASSUME WireInv, WriteFails
    PROVE  WireInv'
<1>1. /\ stage \in {"sending", "acking"} /\ stage' = "failed"
      /\ UNCHANGED <<device, booting, attempt, info, rotation, source, canvas,
                     frame, sent, panel>>
      /\ losses' \in 0..MaxLosses
  BY LossesAssumption DEF WriteFails, session, Loss, WireInv, WireTypeOK
<1>2. Carried'
  BY <1>1 DEF WireInv, Carried
<1> QED
  BY <1>1, <1>2, SameFrame DEF WireInv, WireTypeOK

\* The end of the transfer keeps the invariant: all of the packet is out.
LEMMA FinishStep ==
    ASSUME WireInv, Finish
    PROVE  WireInv'
<1>1. /\ stage = "sending" /\ sent >= Packet
      /\ stage' \in {"acking", "shown"}
      /\ UNCHANGED <<device, booting, attempt, info, rotation, source, canvas,
                     frame, sent, losses>>
      /\ panel' = [panel EXCEPT !.ended = Ended(device.kind, Packet)]
  BY DEF Finish, session
<1>2. /\ device.kind # "null"
      /\ panel \in [taken : Nat, torn : BOOLEAN, ended : BOOLEAN]
      /\ panel.taken = sent /\ sent <= Packet /\ ~panel.torn
      /\ sent \in Nat
  BY <1>1 DEF WireInv, WireTypeOK, Carried
<1>3. Packet \in Nat /\ Packet' = Packet
  BY <1>1, <1>2, OfFrame DEF Packet
<1>4. Ended(device.kind, Packet) = TRUE
  BY Zenon DEF Ended, ZeroLengthPacket
<1>5. sent = Packet
  BY <1>1, <1>2, <1>3
<1>6. panel' = [panel EXCEPT !.ended = TRUE]
  BY <1>1, <1>4
<1>7. Carried'
  BY <1>1, <1>2, <1>3, <1>5, <1>6 DEF Carried
<1> QED
  BY <1>1, <1>2, <1>7, SameFrame DEF WireInv, WireTypeOK

\* The acknowledgement keeps the invariant.
LEMMA AcknowledgeStep ==
    ASSUME WireInv, Acknowledge
    PROVE  WireInv'
<1>1. /\ stage = "acking" /\ stage' = "shown"
      /\ UNCHANGED <<device, booting, attempt, info, rotation, source, canvas,
                     frame, sent, panel, losses>>
  BY DEF Acknowledge, session
<1>2. Packet' = Packet
  BY <1>1 DEF Packet
<1>3. Carried'
  BY <1>1, <1>2 DEF WireInv, Carried
<1> QED
  BY <1>1, <1>3, SameFrame DEF WireInv, WireTypeOK

\* The next frame keeps the invariant.
LEMMA NextFrameStep ==
    ASSUME WireInv, NextFrame
    PROVE  WireInv'
<1>1. /\ stage = "shown" /\ stage' = "up"
      /\ rotation' = 0 /\ sent' = 0 /\ panel' = EmptyPanel
      /\ UNCHANGED <<device, booting, attempt, info, losses>>
  BY DEF NextFrame, session
<1>2. Prepared' /\ Carried'
  BY <1>1 DEF Prepared, Carried, EmptyPanel
<1> QED
  BY <1>1, <1>2, SameSession
  DEF WireInv, WireTypeOK, Stages, Negotiated, Rotations

\* The invariant holds before the handshake.
LEMMA WireInitInv ==
    ASSUME WireInit
    PROVE  WireInv
<1>1. WireTypeOK
  BY LossesAssumption
  DEF WireInit, WireTypeOK, Stages, Negotiated, Rotations, BOOT_MAX_ATTEMPTS
<1>2. Selected
  BY DEF WireInit, Selected, Negotiated
<1>3. Prepared /\ Carried
  BY DEF WireInit, Prepared, Carried, EmptyPanel
<1> QED
  BY <1>1, <1>2, <1>3 DEF WireInit, WireInv

\* Every step keeps the invariant.
LEMMA WireStepInv ==
    ASSUME WireInv, [WireNext]_wireVars
    PROVE  WireInv'
<1>1. CASE UNCHANGED wireVars
  <2>1. /\ UNCHANGED <<device, booting, stage, attempt, info, rotation, source,
                       canvas, frame, sent, panel, losses>>
    BY <1>1 DEF wireVars
  <2>2. WireTypeOK' /\ Selected'
    BY <2>1 DEF WireInv, WireTypeOK, Selected, Negotiated
  <2>3. Prepared'
    BY <2>1 DEF WireInv, Prepared, Oriented, Angle, EncodedLengths
  <2>4. Carried'
    BY <2>1 DEF WireInv, Carried, Packet
  <2> QED
    BY <2>1, <2>2, <2>3, <2>4 DEF WireInv
<1>2. CASE Handshake
  BY <1>2, HandshakeStep
<1>3. CASE \E r \in Rotations : Render(r)
  BY <1>3, RenderStep
<1>4. CASE Adapt
  BY <1>4, AdaptStep
<1>5. CASE encode_frame
  BY <1>5, EncodeStep
<1>6. CASE Send
  BY <1>6, SendBegins, WriteStep, WriteFailsStep, FinishStep, AcknowledgeStep
  DEF Send
<1>7. CASE NextFrame
  BY <1>7, NextFrameStep
<1> QED
  BY <1>1, <1>2, <1>3, <1>4, <1>5, <1>6, <1>7 DEF WireNext

(***************************************************************************)
(* WireInv is invariant: the session has a sound profile that its family   *)
(* carries, the frame is the canvas turned by the wire angle, and the      *)
(* panel has taken exactly what the host has written.                      *)
(***************************************************************************)
THEOREM WireInvariant == WireSpec => []WireInv
<1>1. WireInit => WireInv
  BY WireInitInv
<1>2. WireInv /\ [WireNext]_wireVars => WireInv'
  BY WireStepInv
<1> QED
  BY <1>1, <1>2, PTL DEF WireSpec

\* Handshake, frame and transfer keep their types.
THEOREM WireTypeCorrect == WireSpec => []WireTypeOK
<1>1. WireInv => WireTypeOK
  BY DEF WireInv
<1> QED
  BY <1>1, WireInvariant, PTL

(***************************************************************************)
(* No frame the service draws is refused: encode_frame finds the oriented  *)
(* canvas, and send_frame the wire size, encoding and payload length of    *)
(* the profile, whatever device answered and however the user turned it.   *)
(***************************************************************************)
THEOREM EveryFrameIsAccepted == WireSpec => []FramesAccepted
<1>1. WireInv => FramesAccepted
  BY DEF WireInv, FramesAccepted
<1> QED
  BY <1>1, WireInvariant, PTL

(***************************************************************************)
(* Once encoded, a picture seen through the mounting of its panel is the   *)
(* canvas turned as the user asked; and the letterbox keeps it whole, in   *)
(* shape and in the middle, for every pair of canvas sizes.                *)
(***************************************************************************)
THEOREM PictureIsKept == WireSpec => []Pictured
<1>1. ASSUME WireInv
      PROVE  Upright
  <2>1. SUFFICES ASSUME stage \in {"encoded", "sending", "acking", "shown"}
                 PROVE  Turned(frame.picture,
                               (360 - wire_angle(info.profile, 0)) % 360)
                            = Turned(canvas, TurnedBy(info.profile, rotation))
    BY DEF Upright, TurnedBy
  <2>2. /\ canvas \in Pictures(Oriented[1], Oriented[2])
        /\ frame.picture = rotate_pixels(canvas,
                                         wire_angle(info.profile, rotation))
    BY <1>1, <2>1 DEF WireInv, Prepared, Angle
  <2>3. Sound(info.profile) /\ rotation \in Rotations
    BY <1>1, <2>1, OfSession DEF Negotiated
  <2> QED
    BY <2>2, <2>3, UprightTurned DEF Oriented
<1>2. ASSUME WireInv
      PROVE  Contained
  BY <1>2 DEF WireInv, Prepared, Contained, Fits
<1>3. WireInv => Pictured
  BY <1>1, <1>2 DEF Pictured
<1> QED
  BY <1>3, WireInvariant, PTL

(***************************************************************************)
(* When send_frame has succeeded, the panel reads exactly the encoded      *)
(* frame from the writes of its family, for every length of payload and    *)
(* however the writes were cut short.                                      *)
(***************************************************************************)
THEOREM FramesAreReassembled == WireSpec => []Reassembled
<1>1. ASSUME WireInv, stage = "shown", device.kind # "null"
      PROVE  ~panel.torn /\ panel.ended /\ PanelPayload = frame.length
  <2>1. /\ panel.taken = Packet /\ ~panel.torn /\ panel.ended
        /\ device.kind \in Kinds
    BY <1>1, DevicesAssumption DEF WireInv, Carried
  <2>2. frame.length \in Nat
    BY <1>1, OfFrame
  <2> QED
    BY <1>1, <2>1, <2>2, WholePayload
<1>2. WireInv => Reassembled
  BY <1>1 DEF Reassembled
<1> QED
  BY <1>2, WireInvariant, PTL
=============================================================================
