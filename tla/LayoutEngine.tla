------------------------------ MODULE LayoutEngine ------------------------------
(***************************************************************************)
(* Typed layout documents (src/layout_engine): the validation and the      *)
(* solver that place a document's modules on a display surface, and the    *)
(* renderer with its cache of decoded media, as the GUI's preview command  *)
(* and the daemon use it.                                                  *)
(*                                                                         *)
(* Geometry is in pixels, as in the code.  A media file is what it holds,  *)
(* an asset is the content it was decoded from; the text of a module and   *)
(* its drawing are left out.                                               *)
(***************************************************************************)
EXTENDS Integers, Sequences, FiniteSets

CONSTANTS
    Documents,  \* the documents that are previewed or loaded
    Contents,   \* what a readable media file may hold
    ImageSize,  \* the width and the height of the image in each content
    Unreadable, \* a media file that is absent, too long or no image
    Paths,      \* media files below the layout directory
    Outside,    \* a media source that leaves it
    DeclaredKeys,   \* the keys of the sensors the daemon has
    SENSOR_ALIASES, \* the sensor key each typed binding stands for
    MaxEdits,   \* edits of media files by others
    MaxCalls,   \* previews, or loads and frames
    None

ASSUME NamesAssumption ==
    /\ Outside \notin Paths /\ Unreadable \notin Contents
    /\ ImageSize \in [Contents -> [width : Nat, height : Nat]]

ASSUME DocumentsAssumption ==
    \A d \in Documents :
        /\ Len(d.modules) \in Nat /\ DOMAIN d.modules = 1..Len(d.modules)
        /\ \A i \in DOMAIN d.modules :
               d.modules[i].kind = "media" =>
                   d.modules[i].source \in Paths \cup {Outside}

VARIABLES
    files,     \* what the media files hold
    edits,     \* edits so far
    calls,     \* calls so far
    host,      \* "gui" or "daemon"
    renderer,  \* the renderer that is kept, with its media cache
    step,      \* where the call is
    scene,     \* the nodes of the frame
    pending,   \* sources that are still to be resolved
    assets,    \* the resolved ones
    held,      \* what each file held since the call began (history)
    request    \* what was last asked to be shown (history)

vars == <<files, edits, calls, host, renderer, step, scene, pending, assets,
          held, request>>

-----------------------------------------------------------------------------
(***************************************************************************)
(* Surfaces.                                                               *)
(***************************************************************************)

Rect(x, y, w, h) == [x |-> x, y |-> y, width |-> w, height |-> h]

right(r)  == r.x + r.width
bottom(r) == r.y + r.height

overlaps(r, s) ==
    /\ r.x < right(s) /\ s.x < right(r)
    /\ r.y < bottom(s) /\ s.y < bottom(r)

contains(r, s) ==
    /\ s.x >= r.x /\ s.y >= r.y
    /\ right(s) <= right(r) /\ bottom(s) <= bottom(r)

Rectangular(w, h) ==
    [id |-> "rectangular", width |-> w, height |-> h,
     zones |-> <<Rect(0, 0, w, h)>>, bridge |-> {}]

Curved ==
    [id |-> "curved", width |-> 2400, height |-> 1080,
     zones |-> <<Rect(0, 0, 960, 1080), Rect(1440, 0, 960, 1080)>>,
     bridge |-> {Rect(960, 0, 480, 1080)}]

SURFACE_PROFILES ==
    {Rectangular(480, 480), Rectangular(480, 1280), Rectangular(1280, 480),
     Rectangular(2400, 1080), Curved}

is_curved(surface) == surface.id = "curved"

Canvas(surface) == Rect(0, 0, surface.width, surface.height)

Smaller(m, n) == IF m <= n THEN m ELSE n
Larger(m, n)  == IF m >= n THEN m ELSE n

ShortAxis(surface) == Smaller(surface.width, surface.height)

-----------------------------------------------------------------------------
(***************************************************************************)
(* Sizes that follow from the short axis.                                  *)
(***************************************************************************)

CARD_MIN_EXTENT == 120

content_inset(surface) == Larger((ShortAxis(surface) + 29) \div 30, 8)

card_extent(surface) ==
    Larger((ShortAxis(surface) * 172 + 240) \div 480, CARD_MIN_EXTENT)

fixed_module_width(surface) ==
    Larger(ShortAxis(surface) - 2 * content_inset(surface), 0)

content_bounds(surface, area) ==
    LET inset == content_inset(surface)
    IN Rect(area.x + inset, area.y + inset,
            Larger(area.width - 2 * inset, 0), Larger(area.height - 2 * inset, 0))

\* Faulty variant: a started card counts.
Rows_Started(bounds, extent) == (bounds.height + extent - 1) \div extent

\* Cards of the fixed extent that fit below each other.
Rows(bounds, extent) == bounds.height \div extent

-----------------------------------------------------------------------------
(***************************************************************************)
(* Validation.  Nothing is placed unless the document's recipe suits the   *)
(* surface, its module ids are unique, and the fixed cards fit.            *)
(***************************************************************************)

Recipes == {"column", "two-column", "zoned-panorama"}

aspect_recipe(surface) ==
    IF surface.height >= surface.width THEN "column" ELSE "two-column"

aspect_name(surface) ==
    CASE surface.width = surface.height -> "square"
      [] surface.height > surface.width -> "portrait"
      [] OTHER                          -> "wide"

\* The document's profile for the surface: by its id, else by its aspect.
configured_profile(document, surface) ==
    CASE surface.id \in DOMAIN document.profiles ->
             document.profiles[surface.id]
      [] surface.id \notin DOMAIN document.profiles
         /\ aspect_name(surface) \in DOMAIN document.profiles ->
             document.profiles[aspect_name(surface)]
      [] OTHER -> None

NoId == 0  \* an empty id

validate_module_ids(document) ==
    LET m == document.modules
    IN \A i \in DOMAIN m : /\ m[i].id # NoId
                           /\ \A j \in DOMAIN m : m[i].id = m[j].id => i = j

BridgePolicies == {"local-only", "media-only", "explicit-capable"}

panorama_bridge_policy(document, surface) ==
    LET profile == configured_profile(document, surface)
    IN IF profile = None THEN "local-only" ELSE profile.bridge

can_span(policy, module) == policy # "local-only" /\ module.kind = "media"

\* The indices of the modules that are placed inside a zone.
Local(document, surface) ==
    {i \in DOMAIN document.modules :
        ~can_span(panorama_bridge_policy(document, surface),
                  document.modules[i])}

\* Local modules go to the left zone and to the right one in turn.
ZoneOf(i, document, surface) ==
    1 + (Cardinality({j \in Local(document, surface) : j < i}) % 2)

Assigned(zone, document, surface) ==
    {i \in Local(document, surface) : ZoneOf(i, document, surface) = zone}

panorama_zone_capacity(surface, zone) ==
    LET bounds == content_bounds(surface, surface.zones[zone])
    IN IF bounds.width < CARD_MIN_EXTENT THEN 0
       ELSE Rows(bounds, card_extent(surface))

panorama_canvas_bounds(surface) ==
    /\ is_curved(surface) /\ Len(surface.zones) = 2
    /\ Cardinality(surface.bridge) = 1
    /\ \A r \in surface.bridge : contains(Canvas(surface), r)
    /\ \A z \in 1..2 : /\ contains(Canvas(surface), surface.zones[z])
                       /\ \A r \in surface.bridge :
                              ~overlaps(surface.zones[z], r)
    /\ ~overlaps(surface.zones[1], surface.zones[2])

validate_zoned_panorama(document, surface) ==
    /\ panorama_canvas_bounds(surface)
    /\ validate_module_ids(document)
    /\ panorama_bridge_policy(document, surface) \in BridgePolicies
    /\ \A z \in 1..2 : Cardinality(Assigned(z, document, surface))
                           <= panorama_zone_capacity(surface, z)

rectangular_content_bounds(surface) ==
    content_bounds(surface, surface.zones[1])

RowsNeeded(document, surface) ==
    IF aspect_recipe(surface) = "column" THEN Len(document.modules)
    ELSE (Len(document.modules) + 1) \div 2

validate_rectangular(document, surface) ==
    LET bounds == rectangular_content_bounds(surface)
        width  == IF aspect_recipe(surface) = "column" THEN bounds.width
                  ELSE fixed_module_width(surface)
    IN /\ ~is_curved(surface)
       /\ bounds.width > 0 /\ bounds.height > 0
       /\ validate_module_ids(document)
       /\ document.modules # << >> =>
              /\ width >= CARD_MIN_EXTENT
              /\ aspect_recipe(surface) = "two-column" =>
                     2 * width <= bounds.width
       /\ RowsNeeded(document, surface)
              <= Rows(bounds, card_extent(surface))

(***************************************************************************)
(* The recipe the document is solved with, or None: it is diagnosed.       *)
(***************************************************************************)
validate(document, surface) ==
    LET profile    == configured_profile(document, surface)
        configured == IF profile = None THEN aspect_recipe(surface)
                      ELSE profile.recipe
    IN CASE configured = "zoned-panorama"
            /\ validate_zoned_panorama(document, surface) -> configured
         [] configured = aspect_recipe(surface)
            /\ validate_rectangular(document, surface) -> configured
         [] OTHER -> None

-----------------------------------------------------------------------------
(***************************************************************************)
(* The solver.                                                             *)
(***************************************************************************)

\* Integer space-between: each ideal position is rounded.
space_between_positions(origin, span, extent, count) ==
    LET left == Larger(span - extent * count, 0)
    IN [i \in 1..count |->
           IF count = 1 THEN origin
           ELSE origin + extent * (i - 1)
                  + ((i - 1) * left + (count - 1) \div 2) \div (count - 1)]

solve_column(document, surface) ==
    LET bounds == rectangular_content_bounds(surface)
        extent == card_extent(surface)
        y == space_between_positions(bounds.y, bounds.height, extent,
                                     Len(document.modules))
    IN [i \in DOMAIN document.modules |->
           Rect(bounds.x, y[i], bounds.width, extent)]

solve_two_column(document, surface) ==
    LET bounds == rectangular_content_bounds(surface)
        extent == card_extent(surface)
        width  == fixed_module_width(surface)
        y == space_between_positions(bounds.y, bounds.height, extent,
                                     RowsNeeded(document, surface))
        x == space_between_positions(bounds.x, bounds.width, width, 2)
    IN [i \in DOMAIN document.modules |->
           Rect(x[1 + ((i - 1) % 2)], y[1 + ((i - 1) \div 2)], width, extent)]

solve_zoned_panorama(document, surface) ==
    LET extent == card_extent(surface)
        local  == Local(document, surface)
        Placed(i) ==
            LET zone   == ZoneOf(i, document, surface)
                mates  == Assigned(zone, document, surface)
                bounds == content_bounds(surface, surface.zones[zone])
                y == space_between_positions(bounds.y, bounds.height, extent,
                                             Cardinality(mates))
            IN Rect(bounds.x, y[Cardinality({j \in mates : j <= i})],
                    bounds.width, extent)
    IN [i \in DOMAIN document.modules |->
           IF i \in local THEN Placed(i) ELSE Canvas(surface)]

solve(document, surface) ==
    LET recipe == validate(document, surface)
    IN CASE recipe = "column"         -> solve_column(document, surface)
         [] recipe = "two-column"     -> solve_two_column(document, surface)
         [] recipe = "zoned-panorama" -> solve_zoned_panorama(document, surface)

-----------------------------------------------------------------------------
(***************************************************************************)
(* Images.  The cache of decoded media and the decoder of backgrounds have *)
(* the same limits; whoever rasterizes an image needs room for its source, *)
(* for the rows it is resampled from and for the target besides.           *)
(***************************************************************************)

MAX_MEDIA_DIMENSION == 8192
MAX_MEDIA_ALLOC_BYTES == 256 * 1024 * 1024

checked_rgba_len(size) == 4 * size.width * size.height

decode_rgba8(content) ==
    /\ content # Unreadable
    /\ ImageSize[content].width \in 1..MAX_MEDIA_DIMENSION
    /\ ImageSize[content].height \in 1..MAX_MEDIA_DIMENSION
    /\ checked_rgba_len(ImageSize[content]) <= MAX_MEDIA_ALLOC_BYTES

\* The part of the source that has the target's aspect.
cover_crop(source, target) ==
    IF source.width * target.height > source.height * target.width
    THEN [width  |-> Smaller(Larger((source.height * target.width)
                                        \div target.height, 1), source.width),
          height |-> source.height]
    ELSE [width  |-> source.width,
          height |-> Smaller(Larger((source.width * target.height)
                                        \div target.width, 1), source.height)]

rasterization_alloc_bytes(source, target) ==
    LET crop == cover_crop(source, target)
    IN checked_rgba_len(source) + checked_rgba_len(target)
           + IF crop = target THEN 0 ELSE 16 * crop.width * target.height

\* A media module is emitted if its image can be made a square of 480.
validate_decode(content) ==
    LET target == [width |-> 480, height |-> 480]
    IN /\ decode_rgba8(content)
       /\ rasterization_alloc_bytes(ImageSize[content], target)
              <= MAX_MEDIA_ALLOC_BYTES

-----------------------------------------------------------------------------
(***************************************************************************)
(* The media cache: entries by content, and the key each source last had.  *)
(***************************************************************************)

NoEntries == [entries |-> << >>, sources |-> << >>]

Put(f, key, value) ==
    [k \in DOMAIN f \cup {key} |-> IF k = key THEN value ELSE f[k]]

\* Faulty variant: decoded media is kept by its path.
KeyOf_Path(path, content) == path

KeyOf(path, content) == content

\* Faulty variant: what a source pointed at before is kept.
remember_source_Kept(cache, path, key) ==
    [cache EXCEPT !.sources = Put(@, path, key)]

(***************************************************************************)
(* A source points at its new key; the entry it pointed at goes, unless    *)
(* another source still points there.                                      *)
(***************************************************************************)
remember_source(cache, path, key) ==
    LET sources == Put(cache.sources, path, key)
        Pointed(k) == \E p \in DOMAIN sources : sources[p] = k
        kept == {k \in DOMAIN cache.entries :
                    \/ path \notin DOMAIN cache.sources
                    \/ k # cache.sources[path]
                    \/ Pointed(k)}
    IN [sources |-> sources,
        entries |-> [k \in kept |-> cache.entries[k]]]

Cached(cache, path, content) ==
    LET key   == KeyOf(path, content)
        with  == IF key \in DOMAIN cache.entries THEN cache.entries
                 ELSE Put(cache.entries, key, content)
    IN remember_source([cache EXCEPT !.entries = with], path, key)

SourcesOf(document) ==
    {document.modules[i].source :
        i \in {j \in DOMAIN document.modules :
                  document.modules[j].kind = "media"}}

-----------------------------------------------------------------------------
(***************************************************************************)
(* The renderer.  Media files are edited by other programs at any time.    *)
(* A renderer keeps its document and its surface, so the context that      *)
(* MediaCache::prepare compares is that of the renderer.                   *)
(***************************************************************************)

NewRenderer(document, surface, key) ==
    [document |-> document, surface |-> surface, key |-> key,
     cache |-> NoEntries]

Init ==
    /\ files \in [Paths -> Contents]
    /\ edits = 0 /\ calls = 0
    /\ host \in {"gui", "daemon"}
    /\ renderer = None /\ step = "idle"
    /\ scene = << >> /\ pending = {} /\ assets = << >>
    /\ held = [p \in Paths |-> {}] /\ request = None

\* An edit matters while a renderer that shows the file is kept.
Edit(p, content) ==
    /\ edits < MaxEdits /\ content # files[p]
    /\ renderer # None /\ p \in SourcesOf(renderer.document)
    /\ edits' = edits + 1
    /\ files' = [files EXCEPT ![p] = content]
    /\ held' = IF step = "idle" THEN held
               ELSE [held EXCEPT ![p] = @ \cup {content}]
    /\ UNCHANGED <<calls, host, renderer, step, scene, pending, assets, request>>

\* A call begins: nothing of the call before is kept but the renderer.
Begin ==
    /\ step \in {"idle", "shown", "diagnosed", "failed"}
    /\ calls < MaxCalls /\ calls' = calls + 1
    /\ scene' = << >> /\ pending' = {} /\ assets' = << >>
    /\ held' = [p \in Paths |-> {files[p]}]
    /\ UNCHANGED <<files, edits, host>>

MediaFingerprint(document) ==
    [p \in SourcesOf(document) \cap Paths |-> files[p]]

\* Media sources that leave the layout directory are diagnosed before any is
\* read; one that is only absent is not.
layout_media_path_diagnostics(draft) == SourcesOf(draft) \cap {Outside}

PreviewKey(draft, surface) ==
    [draft |-> draft, surface |-> surface, media |-> MediaFingerprint(draft)]

(***************************************************************************)
(* preview_layout_document: a draft that is not valid is answered with its *)
(* diagnostics, and the kept renderer stays; any other draft is rendered,  *)
(* by the kept renderer if its key is still the same.                      *)
(***************************************************************************)
Preview(draft, surface) ==
    /\ host = "gui" /\ Begin
    /\ LET key == PreviewKey(draft, surface)
       IN IF \/ layout_media_path_diagnostics(draft) # {}
             \/ validate(draft, surface) = None
          THEN step' = "diagnosed" /\ UNCHANGED <<renderer, request>>
          ELSE /\ step' = "asked"
               /\ request' = [document |-> draft, surface |-> surface]
               /\ renderer' = IF renderer # None /\ renderer.key = key
                              THEN renderer
                              ELSE NewRenderer(draft, surface, key)

(***************************************************************************)
(* The daemon takes a surface for curved only if the document names it.    *)
(***************************************************************************)
resolve_document_surface(document, width, height) ==
    IF <<width, height>> = <<2400, 1080>>
       /\ "curved" \in DOMAIN document.profiles
    THEN Curved ELSE Rectangular(width, height)

\* A binding names a sensor by its key or by its typed name; the history of
\* a sensor is bound by the sensor's own name.
layout_binding_is_known(binding) ==
    \/ binding \in DeclaredKeys
    \/ /\ binding \in DOMAIN SENSOR_ALIASES
       /\ SENSOR_ALIASES[binding] \in DeclaredKeys

validate_document_bindings(document) ==
    DeclaredKeys # {} =>
        \A i \in DOMAIN document.modules :
            document.modules[i].kind # "media" =>
                layout_binding_is_known(document.modules[i].binding)

(***************************************************************************)
(* build_layout_document_source: the daemon loads a document for a display *)
(* and keeps the renderer; a document it refuses leaves the old source.    *)
(***************************************************************************)
Load(document, width, height) ==
    /\ host = "daemon" /\ Begin
    /\ LET surface == resolve_document_surface(document, width, height)
       IN IF /\ surface \in SURFACE_PROFILES
             /\ validate(document, surface) # None
             /\ validate_document_bindings(document)
          THEN /\ renderer' = NewRenderer(document, surface, None)
               /\ request' = [document |-> document, surface |-> surface]
               /\ step' = "idle"
          ELSE step' = "diagnosed" /\ UNCHANGED <<renderer, request>>

\* A tick renders the source that is kept.
Tick ==
    /\ host = "daemon" /\ renderer # None /\ Begin
    /\ step' = "asked"
    /\ UNCHANGED <<renderer, request>>

\* A media source is sought below the layout directory.
resolve_source(path) == path # Outside

\* The emitter of a media module decodes its file, to see that it can be.
emit(path) == resolve_source(path) /\ validate_decode(files[path])

\* compile_scene: the modules are placed and emitted.
Compile ==
    /\ step = "asked"
    /\ LET document == renderer.document
           sources  == SourcesOf(document)
           placed   == solve(document, renderer.surface)
       IN IF \E p \in sources : ~emit(p)
          THEN step' = "failed" /\ UNCHANGED <<scene, pending>>
          ELSE /\ step' = "resolving"
               /\ scene' = [i \in DOMAIN document.modules |->
                               [module |-> document.modules[i],
                                bounds |-> placed[i]]]
               /\ pending' = sources
    /\ UNCHANGED <<files, edits, calls, host, renderer, assets, held, request>>

(***************************************************************************)
(* resolve_path: a source is read again; an entry of the same content is   *)
(* used, any other is decoded into the cache.                              *)
(***************************************************************************)
Resolve(p) ==
    /\ step = "resolving" /\ p \in pending
    /\ IF ~decode_rgba8(files[p])
       THEN step' = "failed" /\ UNCHANGED <<renderer, pending, assets>>
       ELSE \E cache \in {Cached(renderer.cache, p, files[p])} :
               /\ renderer' = [renderer EXCEPT !.cache = cache]
               /\ assets' = Put(assets, p,
                                cache.entries[KeyOf(p, files[p])])
               /\ pending' = pending \ {p}
               /\ UNCHANGED step
    /\ UNCHANGED <<files, edits, calls, host, scene, held, request>>

Rendered ==
    /\ step = "resolving" /\ pending = {}
    /\ step' = "shown"
    /\ UNCHANGED <<files, edits, calls, host, renderer, scene, pending,
                   assets, held, request>>

Next ==
    \/ \E p \in Paths, c \in Contents \cup {Unreadable} : Edit(p, c)
    \/ \E d \in Documents, s \in SURFACE_PROFILES : Preview(d, s)
    \/ \E d \in Documents, s \in SURFACE_PROFILES :
           Load(d, s.width, s.height)
    \/ Tick \/ Compile \/ Rendered
    \/ \E p \in Paths : Resolve(p)

Spec == Init /\ [][Next]_vars

-----------------------------------------------------------------------------
(***************************************************************************)
(* Properties.                                                             *)
(***************************************************************************)

TypeOK ==
    /\ files \in [Paths -> Contents \cup {Unreadable}]
    /\ edits \in 0..MaxEdits /\ calls \in 0..MaxCalls
    /\ step \in {"idle", "asked", "resolving", "shown", "diagnosed", "failed"}
    /\ pending \subseteq Paths /\ DOMAIN assets \subseteq Paths

Spans(node) ==
    node.module.kind = "media" /\ node.bounds = Canvas(renderer.surface)

(***************************************************************************)
(* Whatever document passes validation, the solver places every module of  *)
(* it inside one readable zone, no two over each other, none on the bridge *)
(* of a curved surface, and in reading order; only media may be given the  *)
(* whole canvas.  validation.rs counts the cards, solver.rs puts them down *)
(* with rounded gaps and never looks whether they fit.                     *)
(***************************************************************************)
PlacedApart ==
    LET surface == renderer.surface
        Inside  == {i \in DOMAIN scene : ~Spans(scene[i])}
        ZonesOf(r) == {z \in DOMAIN surface.zones :
                          contains(surface.zones[z], r)}
    IN scene # << >> =>
        /\ DOMAIN scene = DOMAIN renderer.document.modules
        /\ \A i \in Inside :
               LET r == scene[i].bounds
               IN /\ r.width >= CARD_MIN_EXTENT /\ r.height >= CARD_MIN_EXTENT
                  /\ ZonesOf(r) # {}
                  /\ \A b \in surface.bridge : ~overlaps(r, b)
                  /\ \A j \in Inside : j > i =>
                         LET q == scene[j].bounds
                         IN /\ ~overlaps(r, q)
                            /\ ZonesOf(q) = ZonesOf(r) =>
                                   r.y < q.y \/ (r.y = q.y /\ r.x < q.x)

(***************************************************************************)
(* A frame shows the draft that was asked for, on the surface it was asked *)
(* for, and in every image something the file held while the frame was     *)
(* being made: neither the renderer that is kept from one preview to the   *)
(* next nor the cache of decoded media brings back what was there before.  *)
(***************************************************************************)
FrameFresh ==
    step = "shown" =>
        /\ renderer.document = request.document
        /\ renderer.surface = request.surface
        /\ DOMAIN assets = SourcesOf(renderer.document)
        /\ \A p \in DOMAIN assets : assets[p] \in held[p]

(***************************************************************************)
(* The cache holds the decoded media of its sources and nothing else: an   *)
(* entry stays exactly as long as some source points at it, however files  *)
(* are edited, swapped or made alike.                                      *)
(***************************************************************************)
CacheBounded ==
    renderer # None =>
        LET cache == renderer.cache
        IN /\ DOMAIN cache.entries =
                  {cache.sources[p] : p \in DOMAIN cache.sources}
           /\ DOMAIN cache.sources \subseteq SourcesOf(renderer.document)
=============================================================================
