---------------------------- MODULE DeviceProfiles ----------------------------
(***************************************************************************)
(* The panels thermalwriter knows, from src/transport/profile.rs: what     *)
(* a device's answer (protocol, PM, SUB, FBL) says of its size, encoding   *)
(* and mounting, and by which angle a frame is turned before it goes on    *)
(* the wire.                                                               *)
(*                                                                         *)
(* Tables are functions over the codes; a code outside the domain is one   *)
(* the program refuses.                                                    *)
(***************************************************************************)
EXTENDS Integers, FiniteSets, Sequences

Rotations == {0, 90, 180, 270}

Protocols == {"Bulk", "Scsi", "HidType2", "HidType3", "Ly"}

Encodings == {"Jpeg", "Rgb565Le", "Rgb565Be"}

is_rgb565(encoding) == encoding # "Jpeg"

(***************************************************************************)
(* What a resolved profile is.  encode_baseline turns the panel as it is   *)
(* mounted; encode_base and encode_invert belong to wide JPEG panels.      *)
(***************************************************************************)
DeviceProfile ==
    [width : Nat \ {0}, height : Nat \ {0}, encoding : Encodings,
     rotate_panel : BOOLEAN, widescreen : BOOLEAN,
     encode_baseline : Rotations, encode_base : Rotations,
     encode_invert : BOOLEAN]

-----------------------------------------------------------------------------
(***************************************************************************)
(* The table of panels by FBL code.                                        *)
(***************************************************************************)

Fixed(w, h, encoding) ==
    [width |-> w, height |-> h, encoding |-> encoding,
     rotate_panel |-> w # h, widescreen |-> FALSE,
     encode_base |-> 0, encode_invert |-> TRUE,
     encode_pm_bases |-> << >>, encode_sub_bases |-> << >>]

Wide(w, h, base, invert, subs) ==
    [width |-> w, height |-> h, encoding |-> "Jpeg",
     rotate_panel |-> TRUE, widescreen |-> TRUE,
     encode_base |-> base, encode_invert |-> invert,
     encode_pm_bases |-> << >>, encode_sub_bases |-> subs]

KNOWN_FBL_CODES == {36, 37, 50, 51, 52, 53, 54, 58, 64, 72, 100, 101, 102,
                    114, 128, 129, 192, 224}

fbl_base ==
    [fbl \in KNOWN_FBL_CODES |->
        CASE fbl \in {36, 37}             -> Fixed(240, 240, "Rgb565Le")
          [] fbl \in {50, 51, 52, 53, 58} -> Fixed(320, 240, "Rgb565Le")
          [] fbl = 54                     -> Fixed(360, 360, "Jpeg")
          [] fbl = 64                     -> Fixed(640, 480, "Rgb565Le")
          [] fbl \in {72, 129}            ->
                 [Fixed(480, 480, "Rgb565Le")
                      EXCEPT !.encode_pm_bases = [pm \in {6} |-> 180]]
          [] fbl \in {100, 101, 102}      -> Fixed(320, 320, "Rgb565Be")
          [] fbl = 114 -> Wide(1600, 720, 180, TRUE, [sub \in {3} |-> 0])
          [] fbl = 128 -> Wide(1280, 480, 0, TRUE, << >>)
          [] fbl = 192 -> Wide(1920, 462, 180, TRUE, [sub \in {2, 3, 4} |-> 0])
          [] fbl = 224 -> Wide(854, 480, 0, FALSE, [sub \in {2} |-> 180])]

-----------------------------------------------------------------------------
(***************************************************************************)
(* From PM and SUB to FBL.                                                 *)
(***************************************************************************)

pm_to_fbl_override(pm) ==
    CASE pm \in {5, 50}                    -> 50
      [] pm \in {7, 14}                    -> 64
      [] pm \in (9..13) \cup (15..17)      -> 224
      [] pm = 32                           -> 100
      [] pm \in {63, 64}                   -> 114
      [] pm \in {65, 66, 68, 69}           -> 192
      [] OTHER                             -> pm

pm_to_fbl(pm, sub) ==
    CASE <<pm, sub>> = <<1, 48>> -> 114
      [] <<pm, sub>> = <<1, 49>> -> 192
      [] OTHER                   -> pm_to_fbl_override(pm)

BULK_KNOWN_PMS == {5, 7, 9, 10, 11, 12, 32, 64, 65}

bulk_fbl(pm, sub) ==
    IF pm \in BULK_KNOWN_PMS \/ (pm = 1 /\ sub \in {48, 49})
    THEN pm_to_fbl(pm, sub) ELSE 72

fbl_224_dims(pm) ==
    CASE pm \in {10, 16} -> <<960, 540>>
      [] pm = 12         -> <<800, 480>>
      [] pm \in {13, 17} -> <<960, 320>>
      [] pm = 15         -> <<640, 172>>
      [] OTHER           -> <<854, 480>>

fbl_192_dims(pm) ==
    CASE pm = 68 -> <<1280, 480>>
      [] pm = 69 -> <<1920, 440>>
      [] OTHER   -> <<1920, 462>>

(***************************************************************************)
(* The FBL code whose table entry describes the device, or 0 when the      *)
(* program refuses it: a bulk device answers with a PM other than 0, HID   *)
(* Type 3 only with two codes, HID Type 2 may give its FBL as PM.          *)
(***************************************************************************)
ResolvedFbl(protocol, pm, sub, fbl) ==
    LET mapped == pm_to_fbl(pm, sub)
        known(code) == IF code \in KNOWN_FBL_CODES THEN code ELSE 0
    IN CASE protocol = "Bulk"     -> IF pm = 0 THEN 0 ELSE bulk_fbl(pm, sub)
         [] protocol = "Scsi"     -> known(fbl)
         [] protocol = "HidType2" -> IF pm \in {49, 59, 60} THEN 100
                                     ELSE IF known(mapped) # 0 THEN mapped
                                     ELSE known(pm)
         [] protocol = "HidType3" -> IF fbl \in {100, 101} THEN fbl ELSE 0
         [] protocol = "Ly"       -> known(IF fbl # 0 THEN fbl ELSE mapped)

apply_family_encoding(protocol, pm, encoding) ==
    CASE protocol = "Bulk" -> IF pm = 32 THEN "Rgb565Be" ELSE "Jpeg"
      [] protocol = "Scsi" -> IF encoding = "Rgb565Be" THEN encoding
                              ELSE "Rgb565Le"
      [] OTHER             -> encoding

At(table, key, default) == IF key \in DOMAIN table THEN table[key] ELSE default

profile_from_base(base, dims, encoding, pm, sub) ==
    [width           |-> dims[1],
     height          |-> dims[2],
     encoding        |-> encoding,
     rotate_panel    |-> base.rotate_panel,
     widescreen      |-> base.widescreen,
     encode_baseline |-> At(base.encode_pm_bases, pm, 0),
     encode_base     |-> At(base.encode_sub_bases, sub, base.encode_base),
     encode_invert   |-> base.encode_invert]

Resolvable(protocol, pm, sub, fbl) == ResolvedFbl(protocol, pm, sub, fbl) # 0

resolve_profile(protocol, pm, sub, fbl) ==
    LET code == ResolvedFbl(protocol, pm, sub, fbl)
        base == fbl_base[code]
        dims == CASE code = 224 -> fbl_224_dims(pm)
                  [] code = 192 -> fbl_192_dims(pm)
                  [] OTHER      -> <<base.width, base.height>>
    IN profile_from_base(base, dims,
                         apply_family_encoding(protocol, pm, base.encoding),
                         pm, sub)

-----------------------------------------------------------------------------
(***************************************************************************)
(* Orientation.                                                            *)
(***************************************************************************)

oriented_dimensions(w, h, rotation) ==
    IF rotation \in {90, 270} THEN <<h, w>> ELSE <<w, h>>

(***************************************************************************)
(* The angle a frame is turned by before it is encoded: a function of how  *)
(* the panel is mounted and of the user's rotation.                        *)
(***************************************************************************)
ContentAngle(profile, rotation) ==
    IF profile.rotate_panel /\ ~profile.widescreen
    THEN LET base == IF /\ profile.width = 320 /\ profile.height = 240
                        /\ is_rgb565(profile.encoding) THEN 90 ELSE 0
         IN (base + 360 - rotation) % 360
    ELSE IF /\ profile.rotate_panel /\ profile.widescreen
            /\ profile.encoding = "Jpeg"
    THEN (profile.encode_base
            + (IF profile.encode_invert THEN (360 - rotation) % 360
               ELSE rotation)) % 360
    ELSE (360 - rotation) % 360

wire_angle(profile, rotation) ==
    (ContentAngle(profile, rotation) + profile.encode_baseline) % 360

\* Faulty variant: the panel's own size, however it is mounted.
wire_dimensions_Native(profile) == <<profile.width, profile.height>>

wire_dimensions(profile) ==
    oriented_dimensions(profile.width, profile.height, wire_angle(profile, 0))

(***************************************************************************)
(* The exact devices hardware output is released for carry a profile of    *)
(* their own, outside the table.                                           *)
(***************************************************************************)
ExactProfile(w, h, encoding) ==
    [width |-> w, height |-> h, encoding |-> encoding,
     rotate_panel |-> FALSE, widescreen |-> FALSE,
     encode_baseline |-> 0, encode_base |-> 0, encode_invert |-> FALSE]

ExactDevicePolicy ==
    [Square87adPm4 |-> ExactProfile(480, 480, "Jpeg"),
     Type2Pm58     |-> ExactProfile(240, 320, "Rgb565Le"),
     Type2Pm128    |-> ExactProfile(1280, 480, "Jpeg")]

(***************************************************************************)
(* The fixtures the null transport can stand in for: protocol, PM, SUB and *)
(* FBL (and the USB product where two share a code).                       *)
(***************************************************************************)
Fixtures ==
    {<<"Bulk", 4, 5, 72>>, <<"Bulk", 32, 0, 100>>, <<"Bulk", 64, 0, 114>>,
     <<"Bulk", 5, 0, 50>>, <<"Scsi", 100, 0, 100>>, <<"HidType2", 58, 0, 58>>,
     <<"HidType2", 49, 0, 100>>, <<"HidType3", 100, 0, 100>>,
     <<"HidType3", 101, 0, 101>>, <<"Ly", 65, 3, 192>>,
     <<"HidType2", 68, 0, 192>>, <<"Ly", 50, 0, 50>>}
=============================================================================
