------------------------------ MODULE MCFrameWire ------------------------------
(***************************************************************************)
(* FrameWire for TLC: a device of every family and table entry, pictures   *)
(* of four shapes, and JPEG lengths at the borders of LY records (496),    *)
(* USB packets (512 with the 64 byte header), HID packets (512 with the 20 *)
(* byte header), LY bursts (8 records) and bulk chunks (16 KiB).           *)
(***************************************************************************)
EXTENDS FrameWire

D(kind, a, b) == [kind |-> kind, answer |-> <<a, b>>]

MCDevices ==
         {D("bulk", pm, 0) : pm \in {0, 4, 5, 6, 7, 9, 10, 11, 12, 32, 64, 65}}
    \cup {D("bulk", 1, 48), D("bulk", 1, 49), D("square", 4, 5),
          D("square", 4, 4), D("pm58", 58, 0), D("pm128", 128, 0)}
    \cup {D("scsi", fbl, 0) : fbl \in {0, 36, 50, 64, 72, 99, 100, 128, 224}}
    \cup {D("type2", pm, 0) : pm \in {6, 36, 49, 54, 58, 68, 69, 128, 200}}
    \cup {D("type3", code, 0) : code \in {100, 101, 102}}
    \cup {D("ly", 1, 2), D("ly", 2, 1), D("ly", 4, 0), D("ly1", 0, 0),
          D("ly1", 14, 3), D("ly1", 22, 0)}
    \cup {[kind |-> "null", answer |-> f] : f \in Fixtures}

MCCanvases == {<<480, 480>>, <<1280, 480>>, <<320, 240>>, <<462, 1920>>}

MCJpegLengths == {448, 492, 495, 496, 512, 3967, 3968, 16320, 16368}
=============================================================================
