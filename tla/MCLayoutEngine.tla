----------------------------- MODULE MCLayoutEngine -----------------------------
(***************************************************************************)
(* LayoutEngine for TLC: documents of up to eight readings, one more than  *)
(* the tallest surface holds, with media in front of them and behind them, *)
(* under every recipe and bridge policy, and documents that are not valid; *)
(* two media files and two contents, which are alike, besides an image     *)
(* that can be decoded and is too large to be rasterized.                  *)
(***************************************************************************)
EXTENDS LayoutEngine, TLC

CONSTANTS c1, c2, huge

Symmetry == Permutations({c1, c2})

MCImageSize ==
    [c \in {c1, c2, huge} |-> IF c = huge
                              THEN [width |-> 8192, height |-> 8192]
                              ELSE [width |-> 640, height |-> 480]]

MCAliases == "cpu.temperature" :> "cpu_temp" @@ "gpu.power" :> "gpu_power"

Bound(n, name) == [kind |-> "metric", id |-> n, binding |-> name]

Reading(n) == Bound(n, IF n = 1 THEN "net_rx" ELSE "cpu.temperature")
Media(n, p) == [kind |-> "media", id |-> n, source |-> p]

Readings(n) == [i \in 1..n |-> Reading(i)]

WithMedia == {<<Media(20, 1)>> \o Readings(4), Readings(1) \o <<Media(20, 1)>>}

Lists == {Readings(n) : n \in {0, 2, 3, 4, 5, 7, 8}}

\* The zones of a curved surface hold four cards between them.
Panoramas == {Readings(n) : n \in 3..5} \cup WithMedia

Recipe(name, bridge) == [recipe |-> name, bridge |-> bridge]

MCDocuments ==
         {[modules |-> l, profiles |-> << >>] : l \in Lists}
    \cup {[modules |-> l,
           profiles |-> [n \in {"curved"}
                           |-> Recipe("zoned-panorama", "local-only")]] :
              l \in Panoramas}
    \cup {[modules |-> l,
           profiles |-> [n \in {"curved"} |-> Recipe("zoned-panorama", b)]] :
              l \in WithMedia, b \in {"media-only", "explicit-capable"}}
    \cup {[modules |-> l,
           profiles |-> [n \in {"wide", "square"} |-> Recipe(r, "local-only")]]
              : l \in {Readings(2)}, r \in Recipes \cup {"grid"}}
    \cup {[modules |-> Readings(1),
           profiles |-> [n \in {"curved"} |-> Recipe("zoned-panorama", "all")]],
          [modules |-> <<Reading(1), Reading(1)>>, profiles |-> << >>],
          [modules |-> <<Bound(1, "gpu.power")>>, profiles |-> << >>],
          [modules |-> <<Media(1, Outside)>>, profiles |-> << >>],
          [modules |-> <<Media(1, 1), Media(2, 2)>>, profiles |-> << >>]}
=============================================================================
