------------------------- MODULE MCDisplayService -------------------------
(***************************************************************************)
(* Instances of DisplayService for TLC.                                    *)
(***************************************************************************)
EXTENDS DisplayService, TLC

CONSTANTS c1, c2, a, b, v, w, red, slow, mid, fast, none

MCClients == {c1, c2}
MCLayouts == {a, b}
MCVars == {v, w}
MCRates == {slow, mid}
MCImages == {red}
MCOps == {"set_layout", "stream", "set_layout_vars", "set_default_layout",
          "set_background", "reload", "set_tick_rate"}
MCFirst(mode, image, entry) ==
  [mode |-> mode, layout |-> a, first |-> entry, image |-> image,
   vars |-> [l \in MCLayouts |-> v], rate |-> slow, valid |-> TRUE]
MCEntry(mode, layout) == [mode |-> mode, layout |-> layout]
\* [display] alone, with a background that may not be usable, and with a
\* first [[displays]] entry that has a mode of its own.
MCFirsts == {MCFirst("layout", none, MCEntry("display", none)),
             MCFirst(Stream, none, MCEntry("display", none)),
             MCFirst("layout", red, MCEntry(Stream, none)),
             MCFirst(Stream, none, MCEntry("layout", b))}
=============================================================================
