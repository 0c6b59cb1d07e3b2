--------------------------- MODULE MCFrameDelivery ---------------------------
(* Values of the constants of FrameDelivery for TLC.                        *)
EXTENDS FrameDelivery

CONSTANTS gauges, clock,      \* a static and an animated layout
          plain, image,       \* no background and a background
          cool, warm          \* sensor readings

MCTexts    == {gauges, clock}
MCAnimated == {clock}
MCImages   == {plain, image}
MCReadings == {cool, warm}

\* Independent displays, the first on a bulk transport; mirrored displays
\* that every failed send closes.
MCSound    == {[mirror |-> FALSE, bulk |-> {1}], [mirror |-> TRUE, bulk |-> {}]}

==============================================================================
