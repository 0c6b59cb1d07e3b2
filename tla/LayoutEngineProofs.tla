------------------------ MODULE LayoutEngineProofs -------------------------
(***************************************************************************)
(* The renderer of typed layouts and its cache of decoded media, for any   *)
(* documents, files, edits and number of calls: the cache holds the media  *)
(* of its sources and nothing else, a frame shows what was asked for, and  *)
(* its modules are placed apart where they can be read.                    *)
(*                                                                         *)
(* The inductive invariant says of the renderer that is kept what a call   *)
(* relies on (Kept), and of the call in progress that every image it has   *)
(* resolved, and every file as it is now, is something the file held since *)
(* the call began (Progress).  The placement is a lemma about each of the  *)
(* three solvers, on what rounded gaps do (Spaced): the validation counts  *)
(* cards, and that what it counts also fits is arithmetic.  SceneInv says  *)
(* that only documents that were accepted are ever solved.                 *)
(***************************************************************************)
EXTENDS LayoutEngine, FiniteSetTheorems, TLAPS

\* Every source has its entry, every entry a source, and an entry is what its
\* key says.
Tight(cache) ==
    /\ cache = [entries |-> cache.entries, sources |-> cache.sources]
    /\ DOMAIN cache.entries = {cache.sources[p] : p \in DOMAIN cache.sources}
    /\ \A k \in DOMAIN cache.entries : cache.entries[k] = k

\* The renderer shows what was asked for last, the GUI finds it again by what
\* it shows, and its cache belongs to its document.
Kept ==
    /\ renderer = [document |-> renderer.document,
                   surface |-> renderer.surface,
                   key |-> renderer.key, cache |-> renderer.cache]
    /\ renderer.document = request.document
    /\ renderer.surface = request.surface
    /\ host = "gui" =>
           /\ renderer.key.draft = renderer.document
           /\ renderer.key.surface = renderer.surface
    /\ Tight(renderer.cache)
    /\ DOMAIN renderer.cache.sources \subseteq SourcesOf(renderer.document)

\* What the call in progress has done so far.
Progress ==
    /\ DOMAIN assets \cup pending = SourcesOf(renderer.document)
    /\ DOMAIN assets \subseteq Paths
    /\ \A p \in DOMAIN assets : assets[p] \in held[p]

IInv ==
    /\ DOMAIN files = Paths /\ DOMAIN held = Paths
    /\ files = [p \in Paths |-> files[p]]
    /\ held = [p \in Paths |-> held[p]]
    /\ renderer = None \/ Kept
    /\ step \in {"asked", "resolving", "shown"} => Kept
    /\ step # "idle" => \A p \in Paths : files[p] \in held[p]
    /\ step \in {"resolving", "shown"} => Progress
    /\ step = "asked" => DOMAIN assets = {}
    /\ step = "shown" => pending = {}

-----------------------------------------------------------------------------
(* The cache. *)

LEMMA EmptyTight == Tight(NoEntries) /\ DOMAIN NoEntries.sources = {}
BY DEF Tight, NoEntries

\* Whatever the source pointed at before, and whoever else points there.
LEMMA CachedTight ==
    ASSUME NEW cache, NEW path, NEW content, Tight(cache)
    PROVE  LET new == Cached(cache, path, content)
           IN  /\ Tight(new)
               /\ DOMAIN new.sources = DOMAIN cache.sources \cup {path}
               /\ new.entries[content] = content
<1> DEFINE with == IF content \in DOMAIN cache.entries THEN cache.entries
                   ELSE Put(cache.entries, content, content)
           given == [cache EXCEPT !.entries = with]
           sources == Put(cache.sources, path, content)
           new == Cached(cache, path, content)
<1>1. /\ DOMAIN with = DOMAIN cache.entries \cup {content}
      /\ \A k \in DOMAIN with : with[k] = k
  BY DEF Tight, Put
<1>2. /\ DOMAIN sources = DOMAIN cache.sources \cup {path}
      /\ sources[path] = content
      /\ \A p \in DOMAIN cache.sources \ {path} : sources[p] = cache.sources[p]
  BY DEF Put
<1>3. given.entries = with /\ given.sources = cache.sources
  BY DEF Tight
<1> DEFINE Pointed(k) == \E p \in DOMAIN sources : sources[p] = k
           kept == {k \in DOMAIN with : \/ path \notin DOMAIN cache.sources
                                       \/ k # cache.sources[path]
                                       \/ Pointed(k)}
<1>4. new = [sources |-> sources, entries |-> [k \in kept |-> with[k]]]
  BY <1>3 DEF Cached, KeyOf, remember_source
<1> HIDE DEF with, sources, given, new
<1>5. kept = {sources[p] : p \in DOMAIN sources}
  <2>1. ASSUME NEW k \in kept
        PROVE  \E p \in DOMAIN sources : sources[p] = k
    <3>1. CASE k = content
      BY <1>2, <3>1
    <3>2. CASE k # content
      <4>1. PICK p \in DOMAIN cache.sources : k = cache.sources[p]
        BY <1>1, <2>1, <3>2 DEF Tight
      <4>2. CASE p = path
        BY <2>1, <4>1, <4>2
      <4>3. CASE p # path
        BY <1>2, <4>1, <4>3
      <4> QED
        BY <4>2, <4>3
    <3> QED
      BY <3>1, <3>2
  <2>2. ASSUME NEW p \in DOMAIN sources
        PROVE  sources[p] \in kept
    <3>1. sources[p] \in DOMAIN with
      BY <1>1, <1>2 DEF Tight
    <3> QED
      BY <3>1
  <2> QED
    BY <2>1, <2>2
<1>6. content \in kept
  BY <1>2, <1>5
<1> HIDE DEF kept
<1>7. kept \subseteq DOMAIN with
  BY DEF kept
<1>8. /\ new = [entries |-> new.entries, sources |-> new.sources]
      /\ new.sources = sources
      /\ new.entries = [k \in kept |-> with[k]]
  BY <1>4
<1>9. Tight(new)
  BY <1>1, <1>5, <1>7, <1>8 DEF Tight
<1>10. new.entries[content] = content
  BY <1>1, <1>6, <1>7, <1>8
<1> QED
  BY <1>2, <1>8, <1>9, <1>10 DEF new

-----------------------------------------------------------------------------
(* The calls. *)

LEMMA InitInv == Init => IInv
BY DEF Init, IInv

\* A new renderer is empty.
LEMMA NewRendererKept ==
    ASSUME NEW document, NEW surface, NEW key,
           renderer' = NewRenderer(document, surface, key),
           request' = [document |-> document, surface |-> surface],
           host' = "gui" => key.draft = document /\ key.surface = surface
    PROVE  Kept'
BY EmptyTight DEF NewRenderer, Kept

LEMMA StepInv == IInv /\ [Next]_vars => IInv'
<1> SUFFICES ASSUME IInv, [Next]_vars
             PROVE  IInv'
  OBVIOUS
\* What a call that begins makes of the files and what they held.
<1>1. ASSUME Begin
      PROVE  /\ DOMAIN files' = Paths /\ DOMAIN held' = Paths
             /\ files' = [p \in Paths |-> files'[p]]
             /\ held' = [p \in Paths |-> held'[p]]
             /\ \A p \in Paths : files'[p] \in held'[p]
             /\ host' = host
             /\ DOMAIN assets' = {}
  BY <1>1 DEF Begin, IInv
<1>2. ASSUME NEW p \in Paths, NEW c, Edit(p, c)
      PROVE  IInv'
  <2>1. /\ DOMAIN files' = Paths /\ files' = [q \in Paths |-> files'[q]]
        /\ \A q \in Paths : files'[q] = IF q = p THEN c ELSE files[q]
    BY <1>2 DEF Edit, IInv
  <2>2. /\ DOMAIN held' = Paths /\ held' = [q \in Paths |-> held'[q]]
        /\ \A q \in Paths : held[q] \subseteq held'[q]
        /\ step # "idle" => c \in held'[p]
    BY <1>2 DEF Edit, IInv
  <2>3. UNCHANGED <<host, renderer, step, pending, assets, request>>
    BY <1>2 DEF Edit
  <2>4. Kept => Kept'
    BY <2>3 DEF Kept
  <2>5. Progress => Progress'
    BY <2>2, <2>3 DEF Progress
  <2> QED
    BY <2>1, <2>2, <2>3, <2>4, <2>5 DEF IInv
<1>3. ASSUME NEW d \in Documents, NEW s \in SURFACE_PROFILES, Preview(d, s)
      PROVE  IInv'
  <2> DEFINE key == PreviewKey(d, s)
  <2>0. Begin
    BY <1>3 DEF Preview
  <2>1. CASE step' = "diagnosed" /\ UNCHANGED <<renderer, request>>
    <3>1. Kept => Kept'
      BY <1>1, <2>0, <2>1 DEF Kept
    <3> QED
      BY <1>1, <2>0, <2>1, <3>1 DEF IInv
  <2>2. CASE /\ step' = "asked"
             /\ request' = [document |-> d, surface |-> s]
             /\ renderer' = IF renderer # None /\ renderer.key = key
                            THEN renderer ELSE NewRenderer(d, s, key)
    <3>1. key.draft = d /\ key.surface = s
      BY DEF PreviewKey
    <3> HIDE DEF key
    <3>2. CASE renderer # None /\ renderer.key = key
      <4>1. Kept /\ renderer' = renderer
        BY <2>2, <3>2 DEF IInv
      <4>2. renderer.document = d /\ renderer.surface = s
        BY <1>3, <3>1, <3>2, <4>1 DEF Kept, Preview
      <4> QED
        BY <1>1, <2>0, <2>2, <4>1, <4>2 DEF IInv, Kept
    <3>3. CASE ~(renderer # None /\ renderer.key = key)
      <4>1. renderer' = NewRenderer(d, s, key)
        BY <2>2, <3>3
      <4>2. Kept'
        BY <2>2, <3>1, <4>1, NewRendererKept
      <4> QED
        BY <1>1, <2>0, <2>2, <4>2 DEF IInv
    <3> QED
      BY <3>2, <3>3
  <2> QED
    BY <1>3, <2>1, <2>2 DEF Preview
<1>4. ASSUME NEW d \in Documents, NEW w, NEW h, Load(d, w, h)
      PROVE  IInv'
  <2>0. Begin /\ host = "daemon"
    BY <1>4 DEF Load
  <2>1. CASE step' = "diagnosed" /\ UNCHANGED <<renderer, request>>
    <3>1. Kept => Kept'
      BY <1>1, <2>0, <2>1 DEF Kept
    <3> QED
      BY <1>1, <2>0, <2>1, <3>1 DEF IInv
  <2>2. ASSUME NEW s,
               renderer' = NewRenderer(d, s, None),
               request' = [document |-> d, surface |-> s],
               step' = "idle"
        PROVE  IInv'
    <3>1. Kept'
      BY <1>1, <2>0, <2>2, NewRendererKept
    <3> QED
      BY <1>1, <2>0, <2>2, <3>1 DEF IInv
  <2> QED
    BY <1>4, <2>1, <2>2 DEF Load
<1>5. CASE Tick
  <2>1. Begin /\ Kept /\ step' = "asked" /\ UNCHANGED <<renderer, request>>
    BY <1>5 DEF Tick, IInv
  <2>2. Kept'
    BY <1>1, <2>1 DEF Kept
  <2> QED
    BY <1>1, <2>1, <2>2 DEF IInv
<1>6. CASE Compile
  <2>1. /\ step = "asked"
        /\ UNCHANGED <<files, host, renderer, assets, held, request>>
        /\ \/ step' = "failed"
           \/ step' = "resolving" /\ pending' = SourcesOf(renderer.document)
    BY <1>6 DEF Compile
  <2>2. Kept'
    BY <2>1 DEF IInv, Kept
  <2>3. step' = "resolving" => Progress'
    BY <2>1 DEF IInv, Progress
  <2> QED
    BY <2>1, <2>2, <2>3 DEF IInv
<1>7. ASSUME NEW p \in Paths, Resolve(p)
      PROVE  IInv'
  <2>1. /\ step = "resolving" /\ p \in pending /\ Kept /\ Progress
        /\ files[p] \in held[p]
        /\ UNCHANGED <<files, host, held, request>>
    BY <1>7 DEF Resolve, IInv
  <2>2. CASE step' = "failed" /\ UNCHANGED <<renderer, pending, assets>>
    <3>1. Kept'
      BY <2>1, <2>2 DEF Kept
    <3> QED
      BY <2>1, <2>2, <3>1 DEF IInv
  <2>3. ASSUME NEW cache,
               cache = Cached(renderer.cache, p, files[p]),
               renderer' = [renderer EXCEPT !.cache = cache],
               assets' = Put(assets, p, cache.entries[KeyOf(p, files[p])]),
               pending' = pending \ {p},
               step' = step
        PROVE  IInv'
    <3>1. /\ Tight(cache)
          /\ DOMAIN cache.sources = DOMAIN renderer.cache.sources \cup {p}
          /\ cache.entries[files[p]] = files[p]
      BY <2>1, <2>3, CachedTight DEF Kept
    <3>2. /\ renderer'.document = renderer.document
          /\ renderer'.surface = renderer.surface
          /\ renderer'.key = renderer.key
          /\ renderer'.cache = cache
          /\ renderer' = [document |-> renderer'.document,
                          surface |-> renderer'.surface,
                          key |-> renderer'.key, cache |-> renderer'.cache]
      BY <2>1, <2>3 DEF Kept
    <3>3. p \in SourcesOf(renderer.document)
      BY <2>1 DEF Progress
    <3>4. Kept'
      BY <2>1, <3>1, <3>2, <3>3 DEF Kept
    <3>5. /\ DOMAIN assets' = DOMAIN assets \cup {p}
          /\ \A q \in DOMAIN assets' :
                 assets'[q] = IF q = p THEN files[p] ELSE assets[q]
      BY <2>3, <3>1 DEF Put, KeyOf
    <3>6. Progress'
      BY <2>1, <2>3, <3>2, <3>3, <3>5 DEF Progress
    <3> QED
      BY <2>1, <2>3, <3>4, <3>6 DEF IInv
  <2> QED
    BY <1>7, <2>2, <2>3 DEF Resolve
<1>8. CASE Rendered
  BY <1>8 DEF Rendered, IInv, Kept, Progress
<1>9. CASE UNCHANGED vars
  BY <1>9 DEF vars, IInv, Kept, Progress
<1> QED
  BY <1>2, <1>3, <1>4, <1>5, <1>6, <1>7, <1>8, <1>9 DEF Next

-----------------------------------------------------------------------------
(* Division. *)

\* The quotient of a division, by what it is between.
LEMMA Quotient ==
    ASSUME NEW a \in Int, NEW m \in Nat \ {0}
    PROVE  /\ a \div m \in Int
           /\ m * (a \div m) <= a
           /\ a < m * (a \div m) + m
<1>1. a = m * (a \div m) + (a % m) /\ a % m \in 0..m-1 /\ a \div m \in Int
  OBVIOUS
<1> QED
  BY <1>1, Z3

\* A larger dividend has no smaller quotient.
LEMMA QuotientMonotone ==
    ASSUME NEW a \in Int, NEW b \in Int, NEW m \in Nat \ {0}, a <= b
    PROVE  a \div m <= b \div m
<1> DEFINE p == a \div m
           q == b \div m
<1>1. p \in Int /\ q \in Int /\ m * p <= a /\ b < m * q + m
  BY Quotient
<1> HIDE DEF p, q
<1>2. m * p < m * (q + 1)
  BY <1>1
<1>3. ASSUME p >= q + 1
      PROVE FALSE
  BY <1>1, <1>2, <1>3
<1>4. p <= q
  BY <1>1, <1>3
<1> QED
  BY <1>4 DEF p, q

\* A remainder is less than the divisor.
LEMMA QuotientExact ==
    ASSUME NEW q \in Int, NEW r \in Int, NEW m \in Nat \ {0}, 0 <= r, r < m
    PROVE  (m * q + r) \div m = q
<1> DEFINE p == (m * q + r) \div m
<1>1. p \in Int /\ m * p <= m * q + r /\ m * q + r < m * p + m
  BY Quotient
<1> HIDE DEF p
<1>2. m * p < m * (q + 1) /\ m * q < m * (p + 1)
  BY <1>1
<1>3. p < q + 1
  BY <1>1, <1>2
<1>4. q < p + 1
  BY <1>1, <1>2
<1>5. p = q
  BY <1>1, <1>3, <1>4
<1> QED
  BY <1>5 DEF p

-----------------------------------------------------------------------------
(* Spacing. *)

\* The gaps are rounded, and still the cards come one after the other, all of
\* them within the span, if it holds them.
LEMMA Spaced ==
    ASSUME NEW origin \in Int, NEW span \in Int, NEW extent \in Nat,
           NEW count \in Nat \ {0}, extent * count <= span,
           NEW p, p = space_between_positions(origin, span, extent, count)
    PROVE  /\ \A i \in 1..count : /\ p[i] \in Int
                                  /\ origin <= p[i]
                                  /\ p[i] + extent <= origin + span
           /\ \A i, j \in 1..count : i < j => p[i] + extent <= p[j]
<1> DEFINE left == span - extent * count
           half == (count - 1) \div 2
           gap(i) == ((i - 1) * left + half) \div (count - 1)
<1>1. left \in Nat /\ Larger(left, 0) = left
  BY DEF Larger
<1>2. CASE count = 1
  <2>1. p = [i \in 1..1 |-> origin]
    BY <1>2 DEF space_between_positions
  <2>2. \A i \in 1..1 : p[i] = origin
    BY <2>1
  <2>3. extent <= span
    BY <1>2
  <2> QED
    BY <1>2, <2>2, <2>3
<1>3. CASE count # 1
  <2>0. /\ count - 1 \in Nat \ {0}
        /\ half \in Int /\ 0 <= half /\ half < count - 1
    <3>1. /\ half \in Int
          /\ 2 * half <= count - 1
          /\ count - 1 < 2 * half + 2
      BY Quotient
    <3> QED
      BY <1>3, <3>1
  <2>1. \A i \in 1..count :
            p[i] = origin + extent * (i - 1) + gap(i)
    BY <1>1, <1>3 DEF space_between_positions
  <2> HIDE DEF half
  <2>2. ASSUME NEW i \in 1..count, NEW j \in 1..count, i <= j
        PROVE  gap(i) \in Int /\ gap(j) \in Int /\ gap(i) <= gap(j)
    <3>1. /\ (i - 1) * left + half \in Int
          /\ (j - 1) * left + half \in Int
      BY <1>1, <2>0
    <3>2. (i - 1) * left <= (j - 1) * left
      BY <1>1, <2>2
    <3>3. (i - 1) * left + half <= (j - 1) * left + half
      BY <1>1, <2>0, <3>2
    <3> HIDE DEF left
    <3> QED
      BY <2>0, <3>1, <3>3, QuotientMonotone, Quotient
  <2>3. gap(1) = 0 /\ gap(count) = left
    <3>1. (1 - 1) * left + half = (count - 1) * 0 + half
      BY <1>1, <2>0
    <3> HIDE DEF left
    <3>2. ((count - 1) * 0 + half) \div (count - 1) = 0
      BY <2>0, QuotientExact
    <3>3. ((count - 1) * left + half) \div (count - 1) = left
      BY <1>1, <2>0, QuotientExact
    <3> QED
      BY <3>1, <3>2, <3>3
  <2> HIDE DEF gap
  <2>4. ASSUME NEW i \in 1..count
        PROVE  gap(i) \in Int /\ 0 <= gap(i) /\ gap(i) <= left
    BY <2>2, <2>3, <1>3
  <2>5. ASSUME NEW i \in 1..count
        PROVE  /\ p[i] \in Int
               /\ origin <= p[i]
               /\ p[i] + extent <= origin + span
    <3>1. extent * (i - 1) \in Nat /\ extent * (i - 1) + extent = extent * i
      OBVIOUS
    <3>2. extent * i <= extent * count
      OBVIOUS
    <3>3. extent * count + left = span /\ extent * count \in Nat
      OBVIOUS
    <3>4. gap(i) \in Int /\ 0 <= gap(i) /\ gap(i) <= left
      BY <2>4
    <3>5. p[i] = origin + extent * (i - 1) + gap(i)
      BY <2>1
    <3> QED
      BY <1>1, <3>1, <3>2, <3>3, <3>4, <3>5
  <2>6. ASSUME NEW i \in 1..count, NEW j \in 1..count, i < j
        PROVE  p[i] + extent <= p[j]
    <3>1. extent * (i - 1) + extent <= extent * (j - 1)
      BY <2>6
    <3>2. gap(i) \in Int /\ gap(j) \in Int /\ gap(i) <= gap(j)
      BY <2>2, <2>6
    <3>3. /\ p[i] = origin + extent * (i - 1) + gap(i)
          /\ p[j] = origin + extent * (j - 1) + gap(j)
      BY <2>1
    <3>4. extent * (i - 1) \in Int /\ extent * (j - 1) \in Int
      OBVIOUS
    <3> QED
      BY <3>1, <3>2, <3>3, <3>4
  <2> QED
    BY <2>5, <2>6
<1> QED
  BY <1>2, <1>3

\* Cards that are counted as fitting do.
LEMMA RowsFit ==
    ASSUME NEW bounds, bounds.height \in Nat, NEW extent \in Nat \ {0},
           NEW count \in Nat, count <= Rows(bounds, extent)
    PROVE  extent * count <= bounds.height
<1> DEFINE q == bounds.height \div extent
<1>1. q \in Int /\ extent * q <= bounds.height /\ count <= q
  BY Quotient DEF Rows
<1> HIDE DEF q
<1>2. extent * count <= extent * q
  BY <1>1
<1> QED
  BY <1>1, <1>2

-----------------------------------------------------------------------------
(* The surfaces. *)

\* Only the curved surface has more than one zone, or a bridge.
LEMMA Surfaces ==
    ASSUME NEW surface \in SURFACE_PROFILES
    PROVE  /\ surface.width \in Nat /\ surface.height \in Nat
           /\ is_curved(surface) => surface = Curved
           /\ ~is_curved(surface) =>
                  /\ DOMAIN surface.zones = {1}
                  /\ surface.zones[1] =
                         Rect(0, 0, surface.width, surface.height)
                  /\ surface.bridge = {}
BY DEF SURFACE_PROFILES, Rectangular, Curved, is_curved, Rect

\* The sizes that follow from the short axis.
LEMMA Extents ==
    ASSUME NEW surface \in SURFACE_PROFILES
    PROVE  /\ content_inset(surface) \in Nat
           /\ card_extent(surface) \in Nat
           /\ card_extent(surface) >= CARD_MIN_EXTENT
           /\ fixed_module_width(surface) \in Nat
<1>1. ShortAxis(surface) \in Nat
  BY Surfaces DEF ShortAxis, Smaller
<1>2. content_inset(surface) \in Nat
  <2>1. (ShortAxis(surface) + 29) \div 30 \in Int
    BY <1>1, Quotient
  <2> QED
    BY <2>1 DEF content_inset, Larger
<1>3. card_extent(surface) \in Nat /\ card_extent(surface) >= CARD_MIN_EXTENT
  <2>1. (ShortAxis(surface) * 172 + 240) \div 480 \in Int
    BY <1>1, Quotient
  <2> QED
    BY <2>1 DEF card_extent, Larger, CARD_MIN_EXTENT
<1>4. fixed_module_width(surface) \in Nat
  BY <1>1, <1>2 DEF fixed_module_width, Larger
<1> QED
  BY <1>2, <1>3, <1>4

\* The content of an area lies inside it.
LEMMA ContentInside ==
    ASSUME NEW surface \in SURFACE_PROFILES, NEW area,
           area.x \in Nat, area.y \in Nat,
           area.width \in Nat, area.height \in Nat
    PROVE  LET b == content_bounds(surface, area)
           IN  /\ b.x \in Nat /\ b.y \in Nat
               /\ b.width \in Nat /\ b.height \in Nat
               /\ area.x <= b.x /\ area.y <= b.y
               /\ b.width > 0 => b.x + b.width <= area.x + area.width
               /\ b.height > 0 => b.y + b.height <= area.y + area.height
<1>1. content_inset(surface) \in Nat
  BY Extents
<1> QED
  BY <1>1 DEF content_bounds, Rect, Larger

-----------------------------------------------------------------------------
(* The solver. *)

\* A card that can be read: inside a zone and off the bridge.
Readable(surface, r) ==
    /\ r.width >= CARD_MIN_EXTENT /\ r.height >= CARD_MIN_EXTENT
    /\ \E z \in DOMAIN surface.zones : contains(surface.zones[z], r)
    /\ \A b \in surface.bridge : ~overlaps(r, b)

\* Two cards apart, and in reading order within a zone.
InOrder(surface, r, q) ==
    LET ZonesOf(s) == {z \in DOMAIN surface.zones :
                          contains(surface.zones[z], s)}
    IN /\ ~overlaps(r, q)
       /\ ZonesOf(q) = ZonesOf(r) => r.y < q.y \/ (r.y = q.y /\ r.x < q.x)

\* What the solver owes a document: every module, but media on the whole
\* canvas, is readable, and they are apart and in order.
WellPlaced(document, surface, placed) ==
    LET Inside == {i \in DOMAIN document.modules :
                      ~(/\ document.modules[i].kind = "media"
                        /\ placed[i] = Canvas(surface))}
    IN /\ DOMAIN placed = DOMAIN document.modules
       /\ \A i \in Inside :
              /\ Readable(surface, placed[i])
              /\ \A j \in Inside :
                     j > i => InOrder(surface, placed[i], placed[j])

\* The content of a rectangular surface lies on it, and holds the rows.
LEMMA Rectangle ==
    ASSUME NEW document \in Documents, NEW surface \in SURFACE_PROFILES,
           validate_rectangular(document, surface)
    PROVE  LET b == rectangular_content_bounds(surface)
           IN  /\ b.x \in Nat /\ b.y \in Nat
               /\ b.width \in Nat /\ b.height \in Nat
               /\ b.x + b.width <= surface.width
               /\ b.y + b.height <= surface.height
               /\ card_extent(surface) * RowsNeeded(document, surface)
                      <= b.height
<1> DEFINE b == rectangular_content_bounds(surface)
           rows == RowsNeeded(document, surface)
<1>1. /\ surface.zones[1].x = 0 /\ surface.zones[1].y = 0
      /\ surface.zones[1].width = surface.width
      /\ surface.zones[1].height = surface.height
      /\ surface.width \in Nat /\ surface.height \in Nat
  <2>1. /\ surface.zones[1] = Rect(0, 0, surface.width, surface.height)
        /\ surface.width \in Nat /\ surface.height \in Nat
    BY Surfaces DEF validate_rectangular
  <2> QED
    BY <2>1 DEF Rect
<1>2. /\ b.width > 0 /\ b.height > 0
      /\ rows <= Rows(b, card_extent(surface))
  BY DEF validate_rectangular
<1>3. /\ b.x \in Nat /\ b.y \in Nat /\ b.width \in Nat /\ b.height \in Nat
      /\ b.x + b.width <= surface.width
      /\ b.y + b.height <= surface.height
  BY <1>1, <1>2, ContentInside DEF rectangular_content_bounds
<1>4. rows \in Nat
  <2>1. Len(document.modules) \in Nat
    BY DocumentsAssumption
  <2>2. \A k \in Nat : (k + 1) \div 2 \in Nat
    OBVIOUS
  <2> QED
    BY <2>1, <2>2 DEF RowsNeeded
<1>5. card_extent(surface) \in Nat \ {0}
  BY Extents DEF CARD_MIN_EXTENT
<1> HIDE DEF b, rows
<1>6. card_extent(surface) * rows <= b.height
  BY <1>2, <1>3, <1>4, <1>5, RowsFit
<1> QED
  BY <1>3, <1>6 DEF b, rows

\* A card inside the content of a rectangular surface can be read.
LEMMA CardReadable ==
    ASSUME NEW document \in Documents, NEW surface \in SURFACE_PROFILES,
           validate_rectangular(document, surface),
           NEW b, b = rectangular_content_bounds(surface),
           NEW x \in Int, NEW y \in Int, NEW w \in Nat, NEW h \in Nat,
           w >= CARD_MIN_EXTENT, h >= CARD_MIN_EXTENT,
           b.x <= x, b.y <= y,
           x + w <= b.x + b.width, y + h <= b.y + b.height
    PROVE  Readable(surface, Rect(x, y, w, h))
<1> DEFINE r == Rect(x, y, w, h)
<1>1. r.x = x /\ r.y = y /\ r.width = w /\ r.height = h
  BY DEF Rect
<1> HIDE DEF r
<1>2. /\ b.x \in Nat /\ b.y \in Nat
      /\ b.width \in Nat /\ b.height \in Nat
      /\ b.x + b.width <= surface.width
      /\ b.y + b.height <= surface.height
  BY Rectangle
<1>3. /\ surface.width \in Nat /\ surface.height \in Nat
      /\ DOMAIN surface.zones = {1}
      /\ surface.zones[1] = Rect(0, 0, surface.width, surface.height)
      /\ surface.bridge = {}
  BY Surfaces DEF validate_rectangular
<1>4. contains(Rect(0, 0, surface.width, surface.height), r)
  <2>1. /\ 0 <= x /\ 0 <= y
        /\ x + w <= surface.width /\ y + h <= surface.height
    BY <1>2, <1>3
  <2> QED
    BY <1>1, <1>3, <2>1 DEF contains, right, bottom, Rect
<1> QED
  BY <1>1, <1>3, <1>4 DEF Readable, r

\* A card is before those below it.
LEMMA Below ==
    ASSUME NEW surface, NEW r, NEW q,
           r.y \in Int, q.y \in Int, r.height \in Nat,
           r.height >= CARD_MIN_EXTENT, r.y + r.height <= q.y
    PROVE  InOrder(surface, r, q)
<1>1. r.y < q.y
  BY DEF CARD_MIN_EXTENT
<1> QED
  BY <1>1 DEF InOrder, overlaps, bottom

\* One card below the other.
LEMMA ColumnPlaced ==
    ASSUME NEW document \in Documents, NEW surface \in SURFACE_PROFILES,
           aspect_recipe(surface) = "column",
           validate_rectangular(document, surface)
    PROVE  WellPlaced(document, surface, solve_column(document, surface))
<1> DEFINE n == Len(document.modules)
           b == rectangular_content_bounds(surface)
           extent == card_extent(surface)
           y == space_between_positions(b.y, b.height, extent, n)
           placed == solve_column(document, surface)
<1>1. n \in Nat /\ DOMAIN document.modules = 1..n
  BY DocumentsAssumption
<1>2. /\ DOMAIN placed = 1..n
      /\ \A i \in 1..n : placed[i] = Rect(b.x, y[i], b.width, extent)
  BY <1>1 DEF solve_column
<1>3. /\ b.x \in Nat /\ b.y \in Nat /\ b.width \in Nat /\ b.height \in Nat
      /\ extent * n <= b.height
      /\ document.modules # << >> => b.width >= CARD_MIN_EXTENT
  BY Rectangle DEF RowsNeeded, validate_rectangular
<1>4. extent \in Nat /\ extent >= CARD_MIN_EXTENT
  BY Extents
<1>5. y = space_between_positions(b.y, b.height, extent, n)
  OBVIOUS
<1>6. b = rectangular_content_bounds(surface)
  OBVIOUS
<1> HIDE DEF n, b, extent, y, placed
<1>7. ASSUME NEW i \in 1..n
      PROVE  n \in Nat \ {0} /\ b.width >= CARD_MIN_EXTENT
  BY <1>1, <1>3, <1>7
<1>8. ASSUME NEW i \in 1..n
      PROVE  /\ y[i] \in Int /\ b.y <= y[i]
             /\ y[i] + extent <= b.y + b.height
             /\ \A j \in 1..n : i < j => y[i] + extent <= y[j]
  <2>1. n \in Nat \ {0} /\ b.y \in Int /\ b.height \in Int
    BY <1>3, <1>7, <1>8
  <2> QED
    BY <1>3, <1>4, <1>5, <1>8, <2>1, Spaced, Zenon
<1>9. ASSUME NEW i \in 1..n
      PROVE  Readable(surface, placed[i])
  <2>1. b.x \in Int /\ b.x <= b.x /\ b.x + b.width <= b.x + b.width
    BY <1>3
  <2>2. Readable(surface, Rect(b.x, y[i], b.width, extent))
    BY <1>3, <1>4, <1>6, <1>7, <1>8, <1>9, <2>1, CardReadable
  <2> QED
    BY <1>2, <1>9, <2>2
<1>10. ASSUME NEW i \in 1..n, NEW j \in 1..n, j > i
       PROVE  InOrder(surface, placed[i], placed[j])
  <2>1. /\ placed[i].y = y[i] /\ placed[j].y = y[j]
        /\ placed[i].height = extent
    BY <1>2 DEF Rect
  <2> QED
    BY <1>4, <1>8, <1>10, <2>1, Below
<1> QED
  BY <1>1, <1>2, <1>9, <1>10 DEF WellPlaced, placed

\* Row by row, the left card before the right one.
LEMMA TwoColumnPlaced ==
    ASSUME NEW document \in Documents, NEW surface \in SURFACE_PROFILES,
           aspect_recipe(surface) = "two-column",
           validate_rectangular(document, surface)
    PROVE  WellPlaced(document, surface, solve_two_column(document, surface))
<1> DEFINE n == Len(document.modules)
           b == rectangular_content_bounds(surface)
           extent == card_extent(surface)
           width == fixed_module_width(surface)
           rows == RowsNeeded(document, surface)
           y == space_between_positions(b.y, b.height, extent, rows)
           x == space_between_positions(b.x, b.width, width, 2)
           row(i) == 1 + ((i - 1) \div 2)
           col(i) == 1 + ((i - 1) % 2)
           placed == solve_two_column(document, surface)
<1>1. n \in Nat /\ DOMAIN document.modules = 1..n
  BY DocumentsAssumption
<1>2. /\ DOMAIN placed = 1..n
      /\ \A i \in 1..n :
             placed[i] = Rect(x[col(i)], y[row(i)], width, extent)
  BY <1>1 DEF solve_two_column
<1>3. /\ b.x \in Nat /\ b.y \in Nat /\ b.width \in Nat /\ b.height \in Nat
      /\ extent * rows <= b.height
      /\ document.modules # << >> =>
             width >= CARD_MIN_EXTENT /\ 2 * width <= b.width
  BY Rectangle DEF validate_rectangular
<1>4. /\ extent \in Nat /\ extent >= CARD_MIN_EXTENT
      /\ width \in Nat
  BY Extents
<1>5. /\ y = space_between_positions(b.y, b.height, extent, rows)
      /\ x = space_between_positions(b.x, b.width, width, 2)
      /\ b = rectangular_content_bounds(surface)
      /\ rows = (n + 1) \div 2
  BY DEF RowsNeeded
<1> HIDE DEF n, b, extent, width, rows, y, x, placed
<1>6. ASSUME NEW i \in 1..n
      PROVE  /\ rows \in Nat \ {0} /\ row(i) \in 1..rows /\ col(i) \in 1..2
             /\ width >= CARD_MIN_EXTENT /\ 2 * width <= b.width
  BY <1>1, <1>3, <1>5, <1>6
<1>7. ASSUME NEW i \in 1..n, NEW j \in 1..n, i < j
      PROVE  \/ row(i) < row(j)
             \/ row(i) = row(j) /\ col(i) = 1 /\ col(j) = 2
  BY <1>1, <1>7
<1> HIDE DEF row, col
<1>8. ASSUME rows \in Nat \ {0}
      PROVE  /\ \A i \in 1..rows : /\ y[i] \in Int /\ b.y <= y[i]
                                   /\ y[i] + extent <= b.y + b.height
             /\ \A i, j \in 1..rows : i < j => y[i] + extent <= y[j]
  <2>1. b.y \in Int /\ b.height \in Int
    BY <1>3
  <2> QED
    BY <1>3, <1>4, <1>5, <1>8, <2>1, Spaced, Zenon
<1>9. ASSUME 2 * width <= b.width
      PROVE  /\ \A i \in 1..2 : /\ x[i] \in Int /\ b.x <= x[i]
                                /\ x[i] + width <= b.x + b.width
             /\ x[1] + width <= x[2]
  <2>1. /\ b.x \in Int /\ b.width \in Int
        /\ width * 2 <= b.width /\ 2 \in Nat \ {0}
    BY <1>3, <1>4, <1>9
  <2>2. /\ \A i \in 1..2 : /\ x[i] \in Int /\ b.x <= x[i]
                           /\ x[i] + width <= b.x + b.width
        /\ \A i, j \in 1..2 : i < j => x[i] + width <= x[j]
    BY <1>4, <1>5, <2>1, Spaced, Zenon
  <2> QED
    BY <2>2
<1>10. ASSUME NEW i \in 1..n
       PROVE  Readable(surface, placed[i])
  <2>1. Readable(surface, Rect(x[col(i)], y[row(i)], width, extent))
    <3>1. /\ y[row(i)] \in Int /\ b.y <= y[row(i)]
          /\ y[row(i)] + extent <= b.y + b.height
      BY <1>6, <1>8, <1>10
    <3>2. /\ x[col(i)] \in Int /\ b.x <= x[col(i)]
          /\ x[col(i)] + width <= b.x + b.width
      BY <1>6, <1>9, <1>10
    <3> QED
      BY <1>4, <1>5, <1>6, <1>10, <3>1, <3>2, CardReadable
  <2> QED
    BY <1>2, <1>10, <2>1
<1>11. ASSUME NEW i \in 1..n, NEW j \in 1..n, j > i
       PROVE  InOrder(surface, placed[i], placed[j])
  <2>1. /\ placed[i].y = y[row(i)] /\ placed[j].y = y[row(j)]
        /\ placed[i].x = x[col(i)] /\ placed[j].x = x[col(j)]
        /\ placed[i].height = extent /\ placed[i].width = width
    BY <1>2 DEF Rect
  <2>2. /\ y[row(i)] \in Int /\ y[row(j)] \in Int
        /\ row(i) < row(j) => y[row(i)] + extent <= y[row(j)]
    BY <1>6, <1>8, <1>11
  <2>3. CASE row(i) < row(j)
    BY <1>4, <2>1, <2>2, <2>3, Below
  <2>4. CASE row(i) = row(j) /\ col(i) = 1 /\ col(j) = 2
    <3>1. /\ x[1] \in Int /\ x[2] \in Int /\ x[1] + width <= x[2]
          /\ x[1] < x[2]
      BY <1>4, <1>6, <1>9, <1>11 DEF CARD_MIN_EXTENT
    <3> QED
      BY <1>4, <2>1, <2>2, <2>4, <3>1 DEF InOrder, overlaps, right
  <2> QED
    BY <1>7, <1>11, <2>3, <2>4
<1> QED
  BY <1>1, <1>2, <1>10, <1>11 DEF WellPlaced, placed

\* The place of a module among those of its zone.
LEMMA Rank ==
    ASSUME NEW n \in Nat, NEW M \in SUBSET (1..n)
    PROVE  LET rank(i) == Cardinality({k \in M : k <= i})
           IN  /\ Cardinality(M) \in Nat
               /\ \A i \in M : rank(i) \in 1..Cardinality(M)
               /\ \A i, j \in M : i < j => rank(i) < rank(j)
<1> DEFINE upto(i) == {k \in M : k <= i}
<1>1. IsFiniteSet(M) /\ Cardinality(M) \in Nat
  <2>1. IsFiniteSet(1..n)
    BY FS_Interval
  <2> QED
    BY <2>1, FS_Subset, FS_CardinalityType
<1>2. ASSUME NEW i \in M
      PROVE  /\ IsFiniteSet(upto(i)) /\ Cardinality(upto(i)) \in Nat
             /\ Cardinality(upto(i)) <= Cardinality(M)
             /\ Cardinality(upto(i)) # 0
  <2>1. upto(i) \subseteq M /\ i \in upto(i)
    OBVIOUS
  <2> HIDE DEF upto
  <2>2. upto(i) # {}
    BY <2>1
  <2> QED
    BY <1>1, <2>1, <2>2, FS_Subset, FS_CardinalityType, FS_EmptySet
<1>3. ASSUME NEW i \in M, NEW j \in M, i < j
      PROVE  Cardinality(upto(i)) < Cardinality(upto(j))
  <2>1. upto(i) \subseteq upto(j) /\ j \in upto(j) /\ j \notin upto(i)
    <3>1. i \in Int /\ j \in Int /\ \A k \in M : k \in Int
      OBVIOUS
    <3>2. \A k \in M : k <= i => k <= j
      BY <1>3, <3>1
    <3>3. j <= j /\ ~(j <= i)
      BY <1>3, <3>1
    <3> QED
      BY <3>2, <3>3
  <2>2. /\ IsFiniteSet(upto(j)) /\ Cardinality(upto(j)) \in Nat
        /\ Cardinality(upto(i)) \in Nat
    BY <1>2
  <2> HIDE DEF upto
  <2>3. /\ Cardinality(upto(i)) <= Cardinality(upto(j))
        /\ Cardinality(upto(i)) # Cardinality(upto(j))
    BY <2>1, <2>2, FS_Subset
  <2> QED
    BY <2>2, <2>3
<1> HIDE DEF upto
<1>4. /\ \A i \in M : Cardinality(upto(i)) \in 1..Cardinality(M)
      /\ \A i, j \in M : i < j =>
             Cardinality(upto(i)) < Cardinality(upto(j))
  BY <1>1, <1>2, <1>3
<1> QED
  BY <1>1, <1>4 DEF upto

\* The zones of the curved surface are apart from the bridge and from each
\* other.
LEMMA InZone ==
    ASSUME NEW z \in 1..2, NEW r,
           r.x \in Int, r.y \in Int, r.width \in Nat, r.height \in Nat,
           r.width >= CARD_MIN_EXTENT, r.height >= CARD_MIN_EXTENT,
           contains(Curved.zones[z], r)
    PROVE  /\ Readable(Curved, r)
           /\ IF z = 1 THEN right(r) <= 960 ELSE r.x >= 1440
<1>1. /\ DOMAIN Curved.zones = 1..2
      /\ Curved.zones[1] = [x |-> 0, y |-> 0, width |-> 960, height |-> 1080]
      /\ Curved.zones[2] =
             [x |-> 1440, y |-> 0, width |-> 960, height |-> 1080]
      /\ Curved.bridge =
             {[x |-> 960, y |-> 0, width |-> 480, height |-> 1080]}
  BY DEF Curved, Rect
<1>2. IF z = 1 THEN right(r) <= 960 ELSE r.x >= 1440
  <2>1. CASE z = 1
    BY <1>1, <2>1 DEF contains, right
  <2>2. CASE z = 2
    BY <1>1, <2>2 DEF contains
  <2> QED
    BY <2>1, <2>2
<1>3. \A b \in Curved.bridge : ~overlaps(r, b)
  BY <1>1, <1>2 DEF overlaps, right
<1> QED
  BY <1>1, <1>2, <1>3 DEF Readable

\* Cards of different zones never meet.
LEMMA ZonesApart ==
    ASSUME NEW z \in 1..2, NEW v \in 1..2, z # v, NEW r, NEW q,
           r.x \in Int, r.y \in Int, r.width \in Nat, r.height \in Nat,
           q.x \in Int, q.y \in Int, q.width \in Nat, q.height \in Nat,
           r.width >= CARD_MIN_EXTENT, r.height >= CARD_MIN_EXTENT,
           q.width >= CARD_MIN_EXTENT, q.height >= CARD_MIN_EXTENT,
           contains(Curved.zones[z], r), contains(Curved.zones[v], q)
    PROVE  InOrder(Curved, r, q)
<1>1. /\ IF z = 1 THEN right(r) <= 960 ELSE r.x >= 1440
      /\ IF v = 1 THEN right(q) <= 960 ELSE q.x >= 1440
  <2>1. IF z = 1 THEN right(r) <= 960 ELSE r.x >= 1440
    BY InZone
  <2>2. IF v = 1 THEN right(q) <= 960 ELSE q.x >= 1440
    BY InZone
  <2> QED
    BY <2>1, <2>2, Zenon
<1>2. r.x < right(r) /\ q.x < right(q) /\ right(r) \in Int /\ right(q) \in Int
  BY DEF right, CARD_MIN_EXTENT
<1>3. ~overlaps(r, q)
  BY <1>1, <1>2 DEF overlaps
<1>4. ~contains(Curved.zones[z], q)
  <2>1. ASSUME contains(Curved.zones[z], q)
        PROVE  FALSE
    <3>1. IF z = 1 THEN right(q) <= 960 ELSE q.x >= 1440
      BY <2>1, InZone
    <3> QED
      BY <1>1, <1>2, <3>1
  <2> QED
    BY <2>1
<1>5. z \in DOMAIN Curved.zones
  BY DEF Curved
<1> QED
  BY <1>3, <1>4, <1>5 DEF InOrder

\* In each zone one card below the other, in the order of the document.
LEMMA PanoramaPlaced ==
    ASSUME NEW document \in Documents, NEW surface \in SURFACE_PROFILES,
           validate_zoned_panorama(document, surface)
    PROVE  WellPlaced(document, surface,
                      solve_zoned_panorama(document, surface))
<1> DEFINE n == Len(document.modules)
           extent == card_extent(surface)
           local == Local(document, surface)
           zone(i) == ZoneOf(i, document, surface)
           mates(z) == Assigned(z, document, surface)
           b(z) == content_bounds(surface, surface.zones[z])
           rank(i) == Cardinality({j \in mates(zone(i)) : j <= i})
           y(z) == space_between_positions(b(z).y, b(z).height, extent,
                                           Cardinality(mates(z)))
           placed == solve_zoned_panorama(document, surface)
<1>1. n \in Nat /\ DOMAIN document.modules = 1..n
  BY DocumentsAssumption
<1>2. /\ DOMAIN placed = 1..n
      /\ \A i \in 1..n :
             placed[i] = IF i \in local
                         THEN Rect(b(zone(i)).x, y(zone(i))[rank(i)],
                                   b(zone(i)).width, extent)
                         ELSE Canvas(surface)
  BY <1>1 DEF solve_zoned_panorama
<1>3. surface = Curved
  BY Surfaces DEF validate_zoned_panorama, panorama_canvas_bounds
<1>4. \A i \in 1..n \ local :
          document.modules[i].kind = "media" /\ placed[i] = Canvas(surface)
  BY <1>1, <1>2 DEF Local, can_span
<1>5. extent \in Nat /\ extent >= CARD_MIN_EXTENT /\ extent \in Nat \ {0}
  BY Extents DEF CARD_MIN_EXTENT
<1>6. /\ local \subseteq 1..n
      /\ \A i \in local : zone(i) \in 1..2 /\ i \in mates(zone(i))
      /\ \A z \in 1..2 : mates(z) \in SUBSET (1..n)
  <2>1. local \subseteq 1..n
    BY <1>1 DEF Local
  <2>2. ASSUME NEW i \in local
        PROVE  zone(i) \in 1..2
    <3> DEFINE before == {j \in local : j < i}
    <3>1. Cardinality(before) \in Nat
      <4>1. before \in SUBSET (1..n)
        BY <2>1
      <4> HIDE DEF before, n
      <4> QED
        BY <1>1, <4>1, Rank
    <3> HIDE DEF before
    <3>2. 1 + (Cardinality(before) % 2) \in 1..2
      BY <3>1
    <3> QED
      BY <3>2 DEF ZoneOf, before
  <2> QED
    BY <2>1, <2>2 DEF Assigned
<1>7. ASSUME NEW z \in 1..2
      PROVE  /\ b(z).x \in Nat /\ b(z).y \in Nat
             /\ b(z).width \in Nat /\ b(z).height \in Nat
             /\ Curved.zones[z].x <= b(z).x /\ Curved.zones[z].y <= b(z).y
             /\ b(z).width > 0 =>
                    b(z).x + b(z).width <= right(Curved.zones[z])
             /\ b(z).height > 0 =>
                    b(z).y + b(z).height <= bottom(Curved.zones[z])
  <2>1. /\ Curved.zones[z].x \in Nat /\ Curved.zones[z].y \in Nat
        /\ Curved.zones[z].width \in Nat /\ Curved.zones[z].height \in Nat
    BY <1>7 DEF Curved, Rect
  <2> QED
    BY <1>3, <2>1, ContentInside DEF right, bottom
<1>8. ASSUME NEW z \in 1..2
      PROVE  Cardinality(mates(z)) <= panorama_zone_capacity(surface, z)
  BY <1>8 DEF validate_zoned_panorama
<1>9. ASSUME NEW z \in 1..2
      PROVE  y(z) = space_between_positions(b(z).y, b(z).height, extent,
                                            Cardinality(mates(z)))
  OBVIOUS
<1>10. ASSUME NEW i \in local
       PROVE  /\ rank(i) \in 1..Cardinality(mates(zone(i)))
              /\ Cardinality(mates(zone(i))) \in Nat \ {0}
              /\ \A j \in local :
                     (i < j /\ zone(i) = zone(j)) => rank(i) < rank(j)
  <2>1. PICK z \in 1..2 : z = zone(i)
    BY <1>6, <1>10
  <2>2. mates(z) \in SUBSET (1..n) /\ i \in mates(z)
    BY <1>6, <1>10, <2>1
  <2>3. \A j \in local : zone(i) = zone(j) => j \in mates(z)
    BY <1>6, <2>1
  <2> HIDE DEF mates, zone, local, n
  <2>4. /\ Cardinality(mates(z)) \in Nat
        /\ \A k \in mates(z) :
               Cardinality({j \in mates(z) : j <= k})
                   \in 1..Cardinality(mates(z))
        /\ \A k, l \in mates(z) : k < l =>
               Cardinality({j \in mates(z) : j <= k})
                   < Cardinality({j \in mates(z) : j <= l})
    BY <1>1, <2>2, Rank
  <2>5. rank(i) \in 1..Cardinality(mates(z))
    BY <2>1, <2>2, <2>4
  <2>6. Cardinality(mates(z)) \in Nat \ {0}
    BY <2>4, <2>5
  <2>7. ASSUME NEW j \in local, i < j, zone(i) = zone(j)
        PROVE  rank(i) < rank(j)
    BY <2>1, <2>2, <2>3, <2>4, <2>7
  <2> QED
    BY <2>1, <2>5, <2>6, <2>7
<1> HIDE DEF n, extent, local, zone, mates, b, rank, y, placed
<1>11. ASSUME NEW i \in local
       PROVE  LET z == zone(i) IN
              /\ b(z).width >= CARD_MIN_EXTENT
              /\ b(z).height > 0
              /\ \A k \in 1..Cardinality(mates(z)) :
                     /\ y(z)[k] \in Int /\ b(z).y <= y(z)[k]
                     /\ y(z)[k] + extent <= b(z).y + b(z).height
              /\ \A k, l \in 1..Cardinality(mates(z)) :
                     k < l => y(z)[k] + extent <= y(z)[l]
  <2>1. PICK z \in 1..2 : z = zone(i)
    BY <1>6, <1>11
  <2>2. PICK count \in Nat \ {0} : count = Cardinality(mates(z))
    BY <1>10, <1>11, <2>1
  <2>3. /\ b(z).width >= CARD_MIN_EXTENT
        /\ count <= Rows(b(z), extent)
    <3>1. count <= panorama_zone_capacity(surface, z)
      BY <1>8, <2>2
    <3>2. panorama_zone_capacity(surface, z) =
              IF b(z).width < CARD_MIN_EXTENT THEN 0 ELSE Rows(b(z), extent)
      BY DEF panorama_zone_capacity, b, extent
    <3> QED
      BY <1>7, <3>1, <3>2 DEF CARD_MIN_EXTENT
  <2>4. /\ b(z).height \in Nat /\ b(z).y \in Int /\ b(z).height \in Int
    BY <1>7
  <2>5. extent * count <= b(z).height
    BY <1>5, <2>3, <2>4, RowsFit
  <2>6. b(z).height > 0
    BY <1>5, <2>4, <2>5 DEF CARD_MIN_EXTENT
  <2>7. y(z) = space_between_positions(b(z).y, b(z).height, extent, count)
    BY <1>9, <2>2
  <2>8. /\ \A k \in 1..count : /\ y(z)[k] \in Int /\ b(z).y <= y(z)[k]
                               /\ y(z)[k] + extent <= b(z).y + b(z).height
        /\ \A k, l \in 1..count : k < l => y(z)[k] + extent <= y(z)[l]
    BY <1>5, <2>4, <2>5, <2>7, Spaced, Zenon
  <2> QED
    BY <2>1, <2>2, <2>3, <2>6, <2>8
<1>12. ASSUME NEW i \in local
       PROVE  /\ placed[i].x = b(zone(i)).x
              /\ placed[i].y = y(zone(i))[rank(i)]
              /\ placed[i].width = b(zone(i)).width
              /\ placed[i].height = extent
  BY <1>2, <1>6, <1>12 DEF Rect
<1>13. ASSUME NEW i \in local
       PROVE  /\ placed[i].x \in Int /\ placed[i].y \in Int
              /\ placed[i].width \in Nat /\ placed[i].height \in Nat
              /\ placed[i].width >= CARD_MIN_EXTENT
              /\ placed[i].height >= CARD_MIN_EXTENT
              /\ contains(Curved.zones[zone(i)], placed[i])
  <2>1. PICK z \in 1..2 : z = zone(i)
    BY <1>6, <1>13
  <2>2. PICK t \in Int : /\ t = y(z)[rank(i)] /\ b(z).y <= t
                         /\ t + extent <= b(z).y + b(z).height
    BY <1>10, <1>11, <1>13, <2>1
  <2>3. b(z).width >= CARD_MIN_EXTENT /\ b(z).height > 0
    BY <1>11, <1>13, <2>1
  <2>4. /\ placed[i].x = b(z).x /\ placed[i].y = t
        /\ placed[i].width = b(z).width /\ placed[i].height = extent
    BY <1>12, <1>13, <2>1, <2>2
  <2>5. /\ Curved.zones[z].x <= b(z).x /\ Curved.zones[z].y <= t
        /\ b(z).x + b(z).width <= right(Curved.zones[z])
        /\ t + extent <= bottom(Curved.zones[z])
    <3>1. /\ Curved.zones[z].y \in Int /\ bottom(Curved.zones[z]) \in Int
      BY DEF Curved, Rect, bottom
    <3> QED
      BY <1>5, <1>7, <2>2, <2>3, <3>1 DEF CARD_MIN_EXTENT
  <2>6. contains(Curved.zones[z], placed[i])
    BY <1>7, <2>4, <2>5 DEF contains, right, bottom
  <2> QED
    BY <1>5, <1>7, <2>1, <2>3, <2>4, <2>6
<1>14. ASSUME NEW i \in local
       PROVE  Readable(surface, placed[i])
  <2>1. zone(i) \in 1..2
    BY <1>6, <1>14
  <2> QED
    BY <1>3, <1>13, <1>14, <2>1, InZone
<1>15. ASSUME NEW i \in local, NEW j \in local, j > i
       PROVE  InOrder(surface, placed[i], placed[j])
  <2>1. zone(i) \in 1..2 /\ zone(j) \in 1..2
    BY <1>6, <1>15
  <2>2. CASE zone(i) = zone(j)
    <3>1. PICK z \in 1..2 : z = zone(i) /\ z = zone(j)
      BY <2>1, <2>2
    <3>2. rank(i) < rank(j) /\ rank(i) \in 1..Cardinality(mates(z))
                            /\ rank(j) \in 1..Cardinality(mates(z))
      BY <1>6, <1>10, <1>15, <3>1
    <3>3. y(z)[rank(i)] + extent <= y(z)[rank(j)]
      BY <1>11, <1>15, <3>1, <3>2
    <3>4. placed[i].y + placed[i].height <= placed[j].y
      BY <1>12, <1>15, <3>1, <3>3
    <3> QED
      BY <1>13, <1>15, <3>4, Below
  <2>3. CASE zone(i) # zone(j)
    BY <1>3, <1>13, <1>15, <2>1, <2>3, ZonesApart
  <2> QED
    BY <2>2, <2>3
<1> QED
  BY <1>1, <1>2, <1>4, <1>14, <1>15 DEF WellPlaced, placed

\* Whatever is accepted is placed well.
LEMMA AcceptedPlaced ==
    ASSUME NEW document \in Documents, NEW surface \in SURFACE_PROFILES,
           validate(document, surface) # None
    PROVE  WellPlaced(document, surface, solve(document, surface))
<1> DEFINE recipe == validate(document, surface)
<1>1. \/ /\ recipe = "zoned-panorama"
         /\ validate_zoned_panorama(document, surface)
      \/ /\ recipe = aspect_recipe(surface)
         /\ validate_rectangular(document, surface)
  BY DEF validate
<1>2. aspect_recipe(surface) \in {"column", "two-column"}
  BY DEF aspect_recipe
<1> HIDE DEF recipe
<1>3. CASE recipe = "zoned-panorama"
  <2>1. solve(document, surface) = solve_zoned_panorama(document, surface)
    BY <1>3 DEF solve, recipe
  <2> QED
    BY <1>1, <1>2, <1>3, <2>1, PanoramaPlaced
<1>4. CASE recipe = "column"
  <2>1. solve(document, surface) = solve_column(document, surface)
    BY <1>4 DEF solve, recipe
  <2> QED
    BY <1>1, <1>4, <2>1, ColumnPlaced
<1>5. CASE recipe = "two-column"
  <2>1. solve(document, surface) = solve_two_column(document, surface)
    BY <1>5 DEF solve, recipe
  <2> QED
    BY <1>1, <1>5, <2>1, TwoColumnPlaced
<1> QED
  BY <1>1, <1>2, <1>3, <1>4, <1>5

-----------------------------------------------------------------------------
(* The placement of what is shown. *)

\* The renderer that is kept was made for a document that passed validation.
Accepted ==
    /\ renderer.document \in Documents
    /\ renderer.surface \in SURFACE_PROFILES
    /\ validate(renderer.document, renderer.surface) # None

\* The scene is the renderer's document as the solver places it.
Compiled ==
    LET document == renderer.document
        placed   == solve(document, renderer.surface)
    IN scene = [i \in DOMAIN document.modules |->
                   [module |-> document.modules[i], bounds |-> placed[i]]]

SceneInv ==
    /\ renderer = None \/ Accepted
    /\ step \in {"asked", "resolving"} => Accepted
    /\ scene # << >> => Accepted /\ Compiled

LEMMA SceneInitInv == Init => SceneInv
BY DEF Init, SceneInv

LEMMA SceneStepInv == IInv /\ SceneInv /\ [Next]_vars => SceneInv'
<1> SUFFICES ASSUME IInv, SceneInv, [Next]_vars
             PROVE  SceneInv'
  OBVIOUS
<1>1. ASSUME UNCHANGED <<renderer, step, scene>>
      PROVE  SceneInv'
  BY <1>1 DEF SceneInv, Accepted, Compiled
<1>2. ASSUME NEW p \in Paths, NEW c, Edit(p, c)
      PROVE  SceneInv'
  BY <1>1, <1>2 DEF Edit
<1>3. ASSUME NEW d \in Documents, NEW s \in SURFACE_PROFILES, Preview(d, s)
      PROVE  SceneInv'
  <2>0. scene' = << >>
    BY <1>3 DEF Preview, Begin
  <2>1. CASE step' = "diagnosed" /\ UNCHANGED renderer
    BY <2>0, <2>1 DEF SceneInv, Accepted
  <2>2. CASE /\ step' = "asked" /\ validate(d, s) # None
             /\ \/ renderer # None /\ renderer' = renderer
                \/ renderer' = NewRenderer(d, s, PreviewKey(d, s))
    <3>1. CASE renderer # None /\ renderer' = renderer
      BY <2>0, <2>2, <3>1 DEF SceneInv, Accepted
    <3>2. CASE renderer' = NewRenderer(d, s, PreviewKey(d, s))
      <4>1. renderer'.document = d /\ renderer'.surface = s
        BY <3>2 DEF NewRenderer
      <4> QED
        BY <1>3, <2>0, <2>2, <4>1 DEF SceneInv, Accepted
    <3> QED
      BY <2>2, <3>1, <3>2
  <2> QED
    BY <1>3, <2>1, <2>2 DEF Preview
<1>4. ASSUME NEW d \in Documents, NEW w, NEW h, Load(d, w, h)
      PROVE  SceneInv'
  <2>0. scene' = << >>
    BY <1>4 DEF Load, Begin
  <2>1. CASE step' = "diagnosed" /\ UNCHANGED renderer
    BY <2>0, <2>1 DEF SceneInv, Accepted
  <2>2. ASSUME NEW s \in SURFACE_PROFILES, validate(d, s) # None,
               renderer' = NewRenderer(d, s, None), step' = "idle"
        PROVE  SceneInv'
    <3>1. renderer'.document = d /\ renderer'.surface = s
      BY <2>2 DEF NewRenderer
    <3> QED
      BY <1>4, <2>0, <2>2, <3>1 DEF SceneInv, Accepted
  <2> QED
    BY <1>4, <2>1, <2>2 DEF Load
<1>5. CASE Tick
  <2>1. /\ renderer # None /\ renderer' = renderer
        /\ step' = "asked" /\ scene' = << >>
    BY <1>5 DEF Tick, Begin
  <2> QED
    BY <2>1 DEF SceneInv, Accepted
<1>6. CASE Compile
  <2>1. step = "asked" /\ renderer' = renderer
    BY <1>6 DEF Compile
  <2>2. Accepted /\ Accepted'
    BY <2>1 DEF SceneInv, Accepted
  <2>3. CASE UNCHANGED scene
    BY <2>1, <2>2, <2>3 DEF SceneInv, Compiled
  <2>4. CASE scene' # scene
    <3>1. Compiled'
      BY <1>6, <2>1, <2>4 DEF Compile, Compiled
    <3> QED
      BY <2>2, <3>1 DEF SceneInv
  <2> QED
    BY <2>3, <2>4
<1>7. ASSUME NEW p \in Paths, Resolve(p)
      PROVE  SceneInv'
  <2>1. /\ step = "resolving" /\ UNCHANGED scene /\ Accepted
        /\ \/ renderer' = renderer
           \/ \E cache : renderer' = [renderer EXCEPT !.cache = cache]
    BY <1>7 DEF Resolve, SceneInv
  <2>2. /\ renderer'.document = renderer.document
        /\ renderer'.surface = renderer.surface
    BY <2>1 DEF IInv, Kept
  <2> QED
    BY <2>1, <2>2 DEF SceneInv, Accepted, Compiled
<1>8. CASE Rendered
  BY <1>8 DEF Rendered, SceneInv, Accepted, Compiled
<1>9. CASE UNCHANGED vars
  BY <1>1, <1>9 DEF vars
<1> QED
  BY <1>2, <1>3, <1>4, <1>5, <1>6, <1>7, <1>8, <1>9 DEF Next

-----------------------------------------------------------------------------
(* The theorems. *)

LEMMA Invariance == Spec => []IInv
BY InitInv, StepInv, PTL DEF Spec

\* The cache of the renderer that is kept holds exactly the media its sources
\* point at, and only sources of its document: nothing piles up in it, however
\* often files are edited and drafts are previewed.
THEOREM CacheHoldsItsSources == Spec => []CacheBounded
<1>1. IInv => CacheBounded
  BY DEF IInv, Kept, Tight, CacheBounded
<1> QED
  BY <1>1, Invariance, PTL

\* A frame shows the document and the surface asked for, with an image for
\* every source that the file held while the frame was made.
THEOREM FramesAreFresh == Spec => []FrameFresh
<1>1. IInv => FrameFresh
  BY DEF IInv, Kept, Progress, FrameFresh
<1> QED
  BY <1>1, Invariance, PTL

\* Whatever document is accepted, for whatever surface: every module of a
\* frame is inside a readable zone, none over another or on the bridge, and
\* they are in reading order, but for media that are given the whole canvas.
\* (validation.rs counts, solver.rs places)
THEOREM ModulesPlacedApart == Spec => []PlacedApart
<1>1. SceneInv => PlacedApart
  <2> SUFFICES ASSUME SceneInv, scene # << >>
               PROVE  PlacedApart
    BY DEF PlacedApart
  <2> DEFINE document == renderer.document
             surface == renderer.surface
             placed == solve(document, surface)
  <2>1. /\ WellPlaced(document, surface, placed)
        /\ DOMAIN scene = DOMAIN document.modules
        /\ \A i \in DOMAIN scene : /\ scene[i].module = document.modules[i]
                                   /\ scene[i].bounds = placed[i]
    BY AcceptedPlaced DEF SceneInv, Accepted, Compiled
  <2> HIDE DEF placed
  <2> QED
    BY <2>1 DEF PlacedApart, WellPlaced, Spans, Readable, InOrder
<1>2. Spec => []SceneInv
  BY Invariance, SceneInitInv, SceneStepInv, PTL DEF Spec
<1> QED
  BY <1>1, <1>2, PTL
=============================================================================
