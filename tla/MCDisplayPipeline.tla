-------------------------- MODULE MCDisplayPipeline --------------------------
(***************************************************************************)
(* Instances of DisplayPipeline for TLC.                                   *)
(***************************************************************************)
EXTENDS DisplayPipeline

CONSTANTS svg, html, typed,  \* layouts, one per renderer
          big,               \* a background over the budget of ...
          panel              \* ... this canvas

MCKind == [l \in Layouts |-> IF l = svg THEN "svg"
                             ELSE IF l = html THEN "html" ELSE "typed"]

MCAllPrograms == Layouts \cup Commands
MCLayouts     == Layouts

MCNoMisfits       == {}
MCBigMisfitsPanel == {<<big, panel>>}
==============================================================================
