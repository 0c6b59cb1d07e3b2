------------------------------- MODULE FrameWire -------------------------------
(***************************************************************************)
(* One display and the frames it is sent: the handshake of its protocol    *)
(* family, the profile its answer selects, and the way of every frame from *)
(* the canvas it was drawn on over letterbox, rotation and encoding to the *)
(* writes that carry it (src/transport: encode.rs, bulk_usb.rs,            *)
(* hid_lcd.rs, scsi_lcd.rs, ly_lcd.rs, null.rs).                           *)
(*                                                                         *)
(* A picture is where its four corner pixels are, a payload is how long it *)
(* is, a packet is how far it has been written.  The panel is external: it *)
(* takes bytes in order and reads them by the framing of its family.       *)
(*                                                                         *)
(* The daemon opens "square", "pm58", "pm128" and null devices for output. *)
(* Of the other families it has the protocol - the flows over injectable   *)
(* I/O that the fixtures and the tests replay - but their                  *)
(* Transport::send_frame refuses until a panel has been validated.         *)
(***************************************************************************)
EXTENDS DeviceProfiles

CONSTANTS
    Devices,      \* what can be plugged in: [kind, answer]
    Canvases,     \* sizes of the picture another display is mirrored from
    JpegLengths,  \* lengths a JPEG may come out at
    MaxLosses,    \* answers lost and writes cut short
    Unset

Kinds == {"bulk", "square", "scsi", "type2", "pm58", "pm128", "type3", "ly",
          "ly1", "null"}

ASSUME DevicesAssumption ==
    \A d \in Devices : /\ d.kind \in Kinds
                       /\ d.answer \in IF d.kind = "null" THEN Fixtures
                                       ELSE Nat \X Nat
ASSUME CanvasesAssumption == Canvases \subseteq (Nat \ {0}) \X (Nat \ {0})
ASSUME LengthsAssumption  == JpegLengths \subseteq Nat \ {0}
ASSUME LossesAssumption   == MaxLosses \in Nat

VARIABLES
    device,    \* the display that is plugged in
    booting,   \* polls a SCSI display still answers with its boot signature
    stage,     \* where the session or the frame is
    attempt,   \* tries of the handshake
    info,      \* the negotiated DeviceInfo
    rotation,  \* the user's rotation, for this frame
    source,    \* the size of the canvas the frame was drawn on
    canvas,    \* the picture on the oriented canvas
    frame,     \* the frame on its way: raw or encoded
    sent,      \* bytes of the packet the host has written
    panel,     \* what the panel took: bytes, gaps, end of transfer
    losses

wireVars == <<device, booting, stage, attempt, info, rotation, source, canvas,
              frame, sent, panel, losses>>

session == <<device, booting, attempt, info>>

-----------------------------------------------------------------------------
(***************************************************************************)
(* The handshakes.                                                         *)
(***************************************************************************)

BOOT_MAX_ATTEMPTS == 5
HANDSHAKE_MAX_RETRIES == 3

ProtocolOf(kind) ==
    CASE kind \in {"bulk", "square"}         -> "Bulk"
      [] kind = "scsi"                       -> "Scsi"
      [] kind \in {"type2", "pm58", "pm128"} -> "HidType2"
      [] kind = "type3"                      -> "HidType3"
      [] kind \in {"ly", "ly1"}              -> "Ly"

EmptyPanel == [taken |-> 0, torn |-> FALSE, ended |-> FALSE]

WireInit ==
    /\ device \in Devices
    /\ booting \in IF device.kind = "scsi" THEN 0..BOOT_MAX_ATTEMPTS ELSE {0}
    /\ stage = "closed" /\ attempt = 1 /\ info = Unset
    /\ rotation = 0 /\ source = Unset /\ canvas = Unset /\ frame = Unset
    /\ sent = 0 /\ panel = EmptyPanel /\ losses = 0

Loss == losses < MaxLosses /\ losses' = losses + 1

InfoOf(protocol, profile) == [protocol |-> protocol, profile |-> profile]

(***************************************************************************)
(* build_device_info: the FBL is computed when the protocol did not say it *)
(* (fbl = 0), and a device the table does not know is refused.             *)
(***************************************************************************)
build_device_info(protocol, pm, sub, fbl) ==
    LET mapped == pm_to_fbl(pm, sub)
        code   == IF fbl # 0 THEN fbl
                  ELSE IF protocol = "Bulk" THEN bulk_fbl(pm, sub)
                  ELSE IF protocol = "HidType2" /\ pm \in {49, 59, 60} THEN 100
                  ELSE IF protocol = "HidType2" /\ mapped \notin KNOWN_FBL_CODES
                  THEN pm
                  ELSE mapped
    IN IF Resolvable(protocol, pm, sub, code)
       THEN /\ stage' = "up"
            /\ info' = InfoOf(protocol,
                              resolve_profile(protocol, pm, sub, code))
       ELSE stage' = "refused" /\ UNCHANGED info

Exact(policy) ==
    /\ stage' = "up"
    /\ info' = InfoOf(IF policy = "Square87adPm4" THEN "Bulk" ELSE "HidType2",
                      ExactDevicePolicy[policy])

(***************************************************************************)
(* PM and SUB from a LY answer: bytes 20 and 22 (5408), 36 and 22 (5409).  *)
(***************************************************************************)
Saturate(n) == IF n > 255 THEN 255 ELSE n

parse_ly_pm_sub(kind, a, b) ==
    IF kind = "ly"
    THEN <<Saturate(64 + (IF a <= 3 THEN 1 ELSE a)), Saturate(b + 1)>>
    ELSE <<Saturate(50 + a), b>>

(***************************************************************************)
(* The device answers as its family does.  PM 0 of a bulk device and FBL 0 *)
(* of a SCSI device are no answer.                                         *)
(***************************************************************************)
Answers ==
    /\ stage \in {"closed", "init"} /\ device.kind # "null" /\ booting = 0
    /\ LET a == device.answer[1]
           b == device.answer[2]
           ly == parse_ly_pm_sub(device.kind, a, b)
       IN CASE device.kind = "bulk" ->
                 IF a = 0 THEN stage' = "refused" /\ UNCHANGED info
                 ELSE build_device_info("Bulk", a, b, 0)
            [] device.kind = "scsi" ->
                 IF a = 0 THEN stage' = "refused" /\ UNCHANGED info
                 ELSE build_device_info("Scsi", a, 0, a)
            [] device.kind = "type2" ->
                 build_device_info("HidType2", a, b, 0)
            [] device.kind = "type3" ->
                 IF a \in {101, 102}
                 THEN build_device_info("HidType3", a - 1, 0, a - 1)
                 ELSE stage' = "refused" /\ UNCHANGED info
            [] device.kind \in {"ly", "ly1"} ->
                 build_device_info("Ly", ly[1], ly[2],
                                   pm_to_fbl(ly[1], ly[2]))
            [] device.kind = "square" ->
                 IF <<a, b>> = <<4, 5>> THEN Exact("Square87adPm4")
                 ELSE stage' = "refused" /\ UNCHANGED info
            [] device.kind = "pm58"  -> Exact("Type2Pm58")
            [] device.kind = "pm128" -> Exact("Type2Pm128")
    /\ UNCHANGED <<device, booting, attempt, rotation, source, canvas, frame,
                   sent, panel, losses>>

(***************************************************************************)
(* A SCSI display still shows its boot signature: the poll is repeated, at *)
(* most five times in all, and init is never sent to it.                   *)
(***************************************************************************)
PollBooting ==
    /\ stage = "closed" /\ booting > 0
    /\ booting' = booting - 1
    /\ IF attempt = BOOT_MAX_ATTEMPTS
       THEN stage' = "refused" /\ UNCHANGED attempt
       ELSE attempt' = attempt + 1 /\ UNCHANGED stage
    /\ UNCHANGED <<device, info, rotation, source, canvas, frame, sent, panel,
                   losses>>

(***************************************************************************)
(* A Type 2 device that does not answer unasked is sent the init packet.   *)
(***************************************************************************)
SilentUnasked ==
    /\ stage = "closed" /\ device.kind = "type2"
    /\ stage' = "init"
    /\ UNCHANGED <<device, booting, attempt, info, rotation, source, canvas,
                   frame, sent, panel, losses>>

(***************************************************************************)
(* An answer is lost or malformed: HID families try three times, the       *)
(* others give up.                                                         *)
(***************************************************************************)
AnswerLost ==
    /\ stage \in {"closed", "init"} /\ device.kind # "null"
    /\ device.kind = "type2" => stage = "init"
    /\ Loss
    /\ IF device.kind \in {"type2", "type3"} /\ attempt < HANDSHAKE_MAX_RETRIES
       THEN attempt' = attempt + 1 /\ UNCHANGED stage
       ELSE stage' = "refused" /\ UNCHANGED attempt
    /\ UNCHANGED <<device, booting, info, rotation, source, canvas, frame,
                   sent, panel>>

(***************************************************************************)
(* The null transport's handshake is the profile of its fixture.           *)
(***************************************************************************)
NullHandshake ==
    /\ stage = "closed" /\ device.kind = "null"
    /\ build_device_info(device.answer[1], device.answer[2], device.answer[3],
                         device.answer[4])
    /\ UNCHANGED <<device, booting, attempt, rotation, source, canvas, frame,
                   sent, panel, losses>>

Handshake ==
    Answers \/ PollBooting \/ SilentUnasked \/ AnswerLost \/ NullHandshake

-----------------------------------------------------------------------------
(***************************************************************************)
(* From the canvas to the wire.                                            *)
(***************************************************************************)

Picture(w, h) ==
    [width |-> w, height |-> h,
     corners |-> [tl |-> <<0, 0>>, tr |-> <<w - 1, 0>>,
                  bl |-> <<0, h - 1>>, br |-> <<w - 1, h - 1>>]]

(***************************************************************************)
(* A source is drawn: on the display's own oriented canvas, or, when the   *)
(* displays are mirrored, on the canvas of the first of them.              *)
(***************************************************************************)
Render(r) ==
    /\ stage = "up"
    /\ \E dims \in Canvases \cup
           {oriented_dimensions(info.profile.width, info.profile.height, r)} :
          /\ source' = dims
          /\ frame' = Picture(dims[1], dims[2])
    /\ rotation' = r
    /\ stage' = "drawn"
    /\ UNCHANGED <<session, canvas, sent, panel, losses>>

(***************************************************************************)
(* adapt_frame_contain: the picture is scaled to fit the canvas and        *)
(* centred on black.                                                       *)
(***************************************************************************)
RoundedRatio(n, num, den) == (2 * n * num + den) \div (2 * den)

Clamp(n, low, high) == IF n < low THEN low ELSE IF n > high THEN high ELSE n

\* Faulty variant: the picture covers the canvas instead of fitting into it.
ScaledSize_Cover(w, h, tw, th) ==
    IF tw * h >= th * w
    THEN <<tw, RoundedRatio(h, tw, w)>>
    ELSE <<RoundedRatio(w, th, h), th>>

ScaledSize(w, h, tw, th) ==
    IF tw * h <= th * w
    THEN <<tw, Clamp(RoundedRatio(h, tw, w), 1, th)>>
    ELSE <<Clamp(RoundedRatio(w, th, h), 1, tw), th>>

adapt_frame_contain(picture, tw, th) ==
    IF picture.width = tw /\ picture.height = th THEN picture
    ELSE LET scaled == ScaledSize(picture.width, picture.height, tw, th)
             x == (tw - scaled[1]) \div 2
             y == (th - scaled[2]) \div 2
             right  == x + scaled[1] - 1
             bottom == y + scaled[2] - 1
         IN [width |-> tw, height |-> th,
             corners |-> [tl |-> <<x, y>>, tr |-> <<right, y>>,
                          bl |-> <<x, bottom>>, br |-> <<right, bottom>>]]

Adapt ==
    /\ stage = "drawn"
    /\ LET target == oriented_dimensions(info.profile.width,
                                         info.profile.height, rotation)
       IN frame' = adapt_frame_contain(frame, target[1], target[2])
    /\ canvas' = frame'
    /\ stage' = "adapted"
    /\ UNCHANGED <<session, rotation, source, sent, panel, losses>>

\* Faulty variant: a quarter turn to the left counts columns from the left.
RotatedIndex_Mirrored(x, y, w, h, degrees) ==
    CASE degrees = 0   -> y * w + x
      [] degrees = 180 -> w * h - 1 - (y * w + x)
      [] degrees = 90  -> x * h + (h - 1 - y)
      [] degrees = 270 -> x * h + y

(***************************************************************************)
(* rotate_pixels: where pixel (x, y) of a w by h frame is copied to, as an *)
(* index into the rows of the turned frame.                                *)
(***************************************************************************)
RotatedIndex(x, y, w, h, degrees) ==
    CASE degrees = 0   -> y * w + x
      [] degrees = 180 -> w * h - 1 - (y * w + x)
      [] degrees = 90  -> x * h + (h - 1 - y)
      [] degrees = 270 -> (w - 1 - x) * h + y

rotate_pixels(picture, degrees) ==
    LET dims == oriented_dimensions(picture.width, picture.height, degrees)
        Moved(p) ==
            LET index == RotatedIndex(p[1], p[2], picture.width,
                                      picture.height, degrees)
            IN <<index % dims[1], index \div dims[1]>>
    IN [width |-> dims[1], height |-> dims[2],
        corners |-> [c \in DOMAIN picture.corners |->
                        Moved(picture.corners[c])]]

(***************************************************************************)
(* encode_frame turns the frame by the wire angle and encodes it; a frame  *)
(* that is not the oriented canvas is an error.                            *)
(***************************************************************************)
Angle == wire_angle(info.profile, rotation)

EncodedLengths(picture) ==
    IF is_rgb565(info.profile.encoding)
    THEN {2 * picture.width * picture.height} ELSE JpegLengths

encode_frame ==
    /\ stage = "adapted"
    /\ IF <<frame.width, frame.height>>
            = oriented_dimensions(info.profile.width, info.profile.height,
                                  rotation)
       THEN /\ \E turned \in {rotate_pixels(frame, Angle)} :
                 \E length \in EncodedLengths(turned) :
                    frame' = [picture |-> turned, length |-> length]
            /\ stage' = "encoded"
       ELSE stage' = "rejected" /\ UNCHANGED frame
    /\ UNCHANGED <<session, rotation, source, canvas, sent, panel, losses>>

-----------------------------------------------------------------------------
(***************************************************************************)
(* The packet of each family and the writes that carry it.                 *)
(***************************************************************************)

RoundUp(n, unit) == ((n + unit - 1) \div unit) * unit

\* Faulty variant: no terminal record when the payload divides evenly.
LyRecords_NoTerminal(length) ==
    [count |-> (length + 495) \div 496, last |-> length % 496]

\* LY records hold 496 bytes each; the last is short, and empty if need be.
LyRecords(length) == [count |-> length \div 496 + 1, last |-> length % 496]

PacketLength(kind, length) ==
    CASE kind \in {"bulk", "square"}         -> 64 + length
      [] kind \in {"type2", "pm58", "pm128"} -> RoundUp(20 + length, 512)
      [] kind = "type3"                      -> 16 + length
      [] kind = "scsi"                       -> length
      [] kind = "ly"  -> 512 * RoundUp(LyRecords(length).count, 4)
      [] kind = "ly1" -> 512 * LyRecords(length).count

Packet == PacketLength(device.kind, frame.length)

Least(m, n) == IF m <= n THEN m ELSE n

\* What is left of the chunk of the given size that starts before offset n.
Within(n, chunk, total) == Least((n \div chunk + 1) * chunk, total) - n

ScsiChunk == IF frame.picture.width * frame.picture.height <= 76800
             THEN 57600 ELSE 65536

(***************************************************************************)
(* The size of the next write at offset n.                                 *)
(***************************************************************************)
NextWrite(n) ==
    CASE device.kind \in {"bulk", "square"} -> Within(n, 16384, Packet)
      [] device.kind \in {"type2", "pm58"}  -> Within(n, 512, Packet)
      [] device.kind = "scsi"               -> Within(n, ScsiChunk, Packet)
      [] device.kind \in {"pm128", "type3"} -> Packet - n
      [] device.kind = "ly"  -> IF Packet - n >= 4096 THEN 4096
                                ELSE Least(Packet - n, 2048)
      [] device.kind = "ly1" -> Least(Packet - n, 4096)

(***************************************************************************)
(* The transport looks at the frame before it writes: its size must be the *)
(* profile's wire size, SCSI and HID Type 3 take only RGB565, and a Type 3 *)
(* payload has one length.  The null transport keeps the frame.            *)
(***************************************************************************)
TYPE3_DATA_SIZE == 204800

Acceptable ==
    /\ <<frame.picture.width, frame.picture.height>>
          = wire_dimensions(info.profile)
    /\ device.kind \in {"scsi", "type3"} => is_rgb565(info.profile.encoding)
    /\ device.kind = "type3" => frame.length = TYPE3_DATA_SIZE

send_frame ==
    /\ stage = "encoded"
    /\ CASE device.kind = "null" -> stage' = "shown"
         [] device.kind # "null" /\ Acceptable -> stage' = "sending"
         [] device.kind # "null" /\ ~Acceptable -> stage' = "rejected"
    /\ sent' = 0 /\ panel' = EmptyPanel
    /\ UNCHANGED <<session, rotation, source, canvas, frame, losses>>

(***************************************************************************)
(* The panel takes n bytes from offset `at` of the packet.                 *)
(***************************************************************************)
Take(at, n) ==
    panel' = [panel EXCEPT !.taken = @ + n,
                           !.torn  = @ \/ at # panel.taken]

(***************************************************************************)
(* One write.  Bulk and Type 3 writes may be cut short (at a boundary of   *)
(* USB packets) and go on where they stopped; a Type 2 write is one such   *)
(* packet; the other families treat a short write as an error.             *)
(***************************************************************************)
MayBeShort == device.kind \in {"bulk", "square", "type3"}

Write ==
    /\ stage = "sending" /\ sent < Packet
    /\ \E asked \in {NextWrite(sent)} :
          \/ /\ Take(sent, asked)
             /\ sent' = sent + asked
             /\ UNCHANGED losses
          \/ /\ MayBeShort /\ asked > 512 /\ Loss
             /\ Take(sent, 512)
             /\ sent' = sent + 512
    /\ UNCHANGED <<session, stage, rotation, source, canvas, frame>>

WriteFails ==
    /\ stage \in {"sending", "acking"} /\ Loss
    /\ stage' = "failed"
    /\ UNCHANGED <<session, rotation, source, canvas, frame, sent, panel>>

(***************************************************************************)
(* The end of a transfer: bulk sends an empty write when the packet fills  *)
(* its last USB packet, Type 3 and LY wait for an acknowledgement.         *)
(***************************************************************************)
Awaits == device.kind \in {"type3", "ly", "ly1"}

ZeroLengthPacket(kind, packet) ==
    kind \in {"bulk", "square"} /\ packet % 512 = 0

\* A short USB packet ends a bulk transfer; the other families count bytes.
Ended(kind, packet) ==
    kind \in {"bulk", "square"} /\ packet % 512 = 0
        => ZeroLengthPacket(kind, packet)

Finish ==
    /\ stage = "sending" /\ sent >= Packet
    /\ stage' = IF Awaits THEN "acking" ELSE "shown"
    /\ panel' = [panel EXCEPT !.ended = Ended(device.kind, Packet)]
    /\ UNCHANGED <<session, rotation, source, canvas, frame, sent, losses>>

Acknowledge ==
    /\ stage = "acking"
    /\ stage' = "shown"
    /\ UNCHANGED <<session, rotation, source, canvas, frame, sent, panel,
                   losses>>

(***************************************************************************)
(* The next frame.  What a failed write leads to is the subject of         *)
(* DeviceSessions.                                                         *)
(***************************************************************************)
NextFrame ==
    /\ stage = "shown"
    /\ stage' = "up"
    /\ rotation' = 0 /\ source' = Unset /\ canvas' = Unset /\ frame' = Unset
    /\ sent' = 0 /\ panel' = EmptyPanel
    /\ UNCHANGED <<session, losses>>

Send == send_frame \/ Write \/ WriteFails \/ Finish \/ Acknowledge

WireNext ==
    \/ Handshake
    \/ \E r \in Rotations : Render(r)
    \/ Adapt \/ encode_frame \/ Send \/ NextFrame

WireSpec == WireInit /\ [][WireNext]_wireVars

-----------------------------------------------------------------------------
(***************************************************************************)
(* Properties.                                                             *)
(***************************************************************************)

Stages == {"closed", "init", "up", "refused", "drawn", "adapted", "encoded",
           "sending", "acking", "shown", "failed", "rejected"}

\* A session that has a profile: everything after the handshake.
Negotiated == stage \notin {"closed", "init", "refused"}

WireTypeOK ==
    /\ stage \in Stages
    /\ booting \in 0..BOOT_MAX_ATTEMPTS /\ attempt \in 1..BOOT_MAX_ATTEMPTS
    /\ Negotiated => info.profile \in DeviceProfile
    /\ rotation \in Rotations
    /\ sent \in Nat /\ losses \in 0..MaxLosses

(***************************************************************************)
(* Whatever panel answers and however the user turned it, a frame that was *)
(* rendered is taken by encode_frame and by the transport: the oriented    *)
(* canvas turned by the wire angle always has the wire size of the         *)
(* profile, and the encoding is one its family carries.                    *)
(***************************************************************************)
FramesAccepted == stage # "rejected"

(***************************************************************************)
(* One quarter turn to the right, by where it takes a pixel.               *)
(***************************************************************************)
QuarterTurn(picture) ==
    [width |-> picture.height, height |-> picture.width,
     corners |-> [c \in DOMAIN picture.corners |->
                     <<picture.height - 1 - picture.corners[c][2],
                       picture.corners[c][1]>>]]

Turned(picture, degrees) ==
    CASE degrees = 0   -> picture
      [] degrees = 90  -> QuarterTurn(picture)
      [] degrees = 180 -> QuarterTurn(QuarterTurn(picture))
      [] degrees = 270 -> QuarterTurn(QuarterTurn(QuarterTurn(picture)))

\* Wide panels of FBL 224 turn with the user's rotation, the rest against it.
TurnsWith(profile) ==
    /\ profile.widescreen /\ profile.encoding = "Jpeg"
    /\ ~profile.encode_invert

(***************************************************************************)
(* The picture stands upright: seen on the panel as it is mounted (its     *)
(* wire picture turned back by the mounting angle), the encoded frame is   *)
(* the canvas turned by the user's rotation and nothing else - no corner   *)
(* swapped, none mirrored, whatever copies rotate_pixels and the angles of *)
(* the profile table make on the way.                                      *)
(***************************************************************************)
Upright ==
    stage \in {"encoded", "sending", "acking", "shown"} =>
        Turned(frame.picture, (360 - wire_angle(info.profile, 0)) % 360)
            = Turned(canvas, IF TurnsWith(info.profile) THEN rotation
                             ELSE (360 - rotation) % 360)

(***************************************************************************)
(* A picture of another display is shown whole and in proportion: inside   *)
(* the canvas, centred to a pixel, filling it in one direction, and with   *)
(* the other side within a pixel of the picture's own aspect.              *)
(***************************************************************************)
Contained ==
    stage = "adapted" =>
        LET c      == canvas.corners
            left   == c.tl[1]
            top    == c.tl[2]
            right  == canvas.width - 1 - c.br[1]
            bottom == canvas.height - 1 - c.br[2]
            w      == c.br[1] - c.tl[1] + 1
            h      == c.br[2] - c.tl[2] + 1
        IN /\ left >= 0 /\ top >= 0 /\ right \in left..(left + 1)
           /\ bottom \in top..(top + 1)
           /\ w = canvas.width \/ h = canvas.height
           /\ (w - 1) * source[2] < (h + 1) * source[1]
           /\ (h - 1) * source[1] < (w + 1) * source[2]

(***************************************************************************)
(* On the way from the renderer to the panel nothing of the picture is     *)
(* turned, mirrored, cropped or stretched that should not be.              *)
(***************************************************************************)
Pictured == Upright /\ Contained

(***************************************************************************)
(* What the panel makes of the bytes it took, by the framing of its        *)
(* family: a header that states the length, numbered records that state    *)
(* how much each holds, or the bare pixels.                                *)
(***************************************************************************)
PanelPayload ==
    LET taken   == panel.taken
        records == LyRecords(frame.length)
    IN CASE device.kind \in {"bulk", "square"} -> taken - 64
         [] device.kind = "scsi"               -> taken
         [] device.kind = "type3"              -> taken - 16
         [] device.kind \in {"type2", "pm58", "pm128"} ->
                Least(taken - 20, frame.length)
         [] device.kind \in {"ly", "ly1"} ->
                IF taken \div 512 >= records.count
                THEN 496 * (records.count - 1) + records.last
                ELSE 496 * (taken \div 512)

(***************************************************************************)
(* A frame that send_frame reports as sent is one the panel can put back   *)
(* together: every byte of the payload, in order and without a gap, and    *)
(* the end of the transfer marked - for lengths that just fill a record, a *)
(* chunk or a USB packet too, and after writes that were cut short.        *)
(***************************************************************************)
Reassembled ==
    stage = "shown" /\ device.kind # "null" =>
        ~panel.torn /\ panel.ended /\ PanelPayload = frame.length
=============================================================================
