--------------------------- MODULE FrameStreaming ---------------------------
(***************************************************************************)
(* From resident chunks to what a frame shows: stream_chunks() of          *)
(* application/engine.rs with both kinds of chunk source and the three     *)
(* kinds of renderer.                                                      *)
(*                                                                         *)
(* ChunkStreaming is the tick with an asynchronous source.  This module    *)
(* adds the synchronous branch (forced rebuilds, availability, refinement, *)
(* all on the spot) and the last part of stream_chunks, which both share:  *)
(* slots and texels or meshes of the renderer, the draw list, and the      *)
(* collision world are brought up to date if anything changed.             *)
(***************************************************************************)
EXTENDS ChunkStreaming, AtlasPool

CONSTANT MaxChunks   \* MAX_CHUNKS: the draw list's capacity

ASSUME FrameAssumption ==
  /\ RowsOf \in [{FineLod, CoarseLod} -> Nat \ {0}]
  /\ MaxChunks \in Nat \ {0}
  /\ Backrooms # Grassland

VARIABLES
  background,  \* source.is_async()
  backend,     \* the renderer: surfaces, an atlas patched by rows, or whole
  order,       \* ChunkStore.order: <<k, l>> if k was inserted before l
  loaded,      \* keys put into the store in this tick
  changed,     \* the store changed in this tick
  pool,        \* AtlasPool
  texture,     \* atlas rows of the renderer
  surfaces,    \* payloads whose mesh the renderer holds
  draws,       \* the draw list, a set: what is drawn first does not matter
  solids,      \* payloads whose boxes are in the collision world
  excused      \* history: chunks whose rebuild was dropped over the player

rigidVars == <<background, backend>>
localVars == <<order, loaded, changed>>
sceneVars == <<pool, texture, surfaces, draws, solids>>
frameVars == <<rigidVars, localVars, sceneVars, excused>>
allVars == <<vars, frameVars>>

Backend == {"surfaces", "rows", "whole"}

(* With an atlas the visual footprint is the streaming footprint, and its  *)
(* radius is cut to 2; a renderer of meshes sees further.                  *)
AtlasFits ==
  \A p \in Position : Visual[p] = Desired[p] /\ Len(Desired[p]) <= MaxChunks

FrameInit ==
  /\ Init
  /\ background \in BOOLEAN
  /\ backend \in Backend /\ (backend # "surfaces" => AtlasFits)
  /\ order = {} /\ loaded = <<>> /\ changed = FALSE
  /\ pool = NewPool /\ texture = <<>> /\ surfaces = {}
  /\ draws = {} /\ solids = {} /\ excused = {}

-----------------------------------------------------------------------------
(* What the happenings of ChunkStreaming do to the scene: a level switch   *)
(* drops it, the texels excepted, which nothing points at any more.        *)

ClearSurfaces == {}

ClearScene ==
  /\ order' = {} /\ pool' = NewPool /\ surfaces' = ClearSurfaces
  /\ draws' = {} /\ solids' = {} /\ excused' = {}
  /\ UNCHANGED <<rigidVars, loaded, changed, texture>>

Happens ==
  /\ Happenings
  /\ ~changed
  /\ IF level' # level THEN ClearScene ELSE UNCHANGED frameVars

-----------------------------------------------------------------------------
(* stream_chunks() up to the last part.                                    *)

Evicted == Keys(store) \ Keep

(* Mutant: slots of evicted chunks stay assigned.                          *)
LeakSlots(keys) == pool

ReleaseSlots(keys) == Release(pool, keys)

EvictFromScene ==
  /\ order' = order \cap (Keep \X Keep)
  /\ loaded' = <<>>
  /\ changed' = (Evicted # {})
  /\ excused' = excused \cap Keep
  /\ IF backend = "surfaces"
     THEN surfaces' = {s \in surfaces : s.key \notin Evicted} /\ pool' = pool
     ELSE pool' = ReleaseSlots(Evicted) /\ surfaces' = surfaces
  /\ UNCHANGED <<rigidVars, texture, draws, solids>>

(* A payload was put into the store.                                       *)
Loaded(k) ==
  /\ order' = IF k \in Keys(store) THEN order ELSE order \cup (Keys(store) \X {k})
  /\ loaded' = IF k \in Range(loaded) THEN loaded ELSE Append(loaded, k)
  /\ changed' = TRUE
  /\ UNCHANGED <<rigidVars, sceneVars>>

BeginBackground == background /\ BeginStreaming /\ EvictFromScene

InstallLoaded(r) == Install(r) /\ Loaded(r.key) /\ excused' = excused \ {r.key}

BackgroundStep ==
  \/ \E r \in Range(backlog) :
       DeferOverBudget(r) \/ DropStale(r) \/ DropUnwanted(r) \/ DeferBuried(r)
  \/ EndInstall \/ IssueReload \/ EndReload \/ IssueCoarse \/ EndCoarse
  \/ IssueRefine \/ SkipRefine

Background ==
  /\ background
  /\ \/ \E r \in Range(backlog) : InstallLoaded(r)
     \/ BackgroundStep /\ UNCHANGED frameVars

BeginNow ==
  /\ ~background
  /\ pc \in {"anomalies", "provisions", "shift", "noclip", "stream"}
  /\ pc' = "reload"
  /\ store' = {c \in store : c.key \in Keep}
  /\ forced' = forced \cap Keep
  /\ budget' = MaxLoads * FineLoadCost
  /\ EvictFromScene
  /\ UNCHANGED <<position, level, reality, pending, backlog, deferred,
                 sourceVars, historyVars, events, faults>>

PutNow(k, lod, rl) ==
  /\ store' = Put([key |-> k, level |-> level, lod |-> lod, reality |-> rl])
  /\ Loaded(k)
  /\ UNCHANGED <<pc, position, level, reality, pending, backlog, deferred,
                 sourceVars, historyVars, events, faults>>

AtStep(step) == ~background /\ pc = step

NextStep(step) ==
  /\ pc' = step
  /\ UNCHANGED <<engineVars, installVars, sourceVars, historyVars, events, faults, frameVars>>

(* Forced rebuilds come first and cost no budget.                          *)
RebuildNow(c) ==
  /\ AtStep("reload") /\ c \in ReloadTargets
  /\ PutNow(c.key, c.lod, ReloadReality(c))
  /\ forced' = forced \ {c.key}
  /\ excused' = excused \ {c.key}
  /\ UNCHANGED budget

(* A rebuild whose solids overlap the player is dropped with its mark.     *)
DropOverPlayer(c) ==
  /\ AtStep("reload") /\ c \in ReloadTargets
  /\ c.key \in Under[position]
  /\ forced' = forced \ {c.key}
  /\ excused' = excused \cup {c.key}
  /\ UNCHANGED <<pc, position, level, reality, store, pending, installVars, sourceVars,
                 historyVars, events, faults, rigidVars, localVars, sceneVars>>

EndRebuilds == AtStep("reload") /\ ReloadTargets = {} /\ NextStep("coarse")

(* Availability: missing chunks come in coarse, nearest first.             *)
LoadMissing(k) ==
  /\ AtStep("coarse") /\ budget > 0 /\ k \in MissingTarget
  /\ PutNow(k, CoarseLod, reality)
  /\ budget' = budget - 1
  /\ excused' = excused \ {k}
  /\ UNCHANGED forced

EndMissing == AtStep("coarse") /\ (budget = 0 \/ MissingTarget = {}) /\ NextStep("refine")

(* Refinement: the nearest coarse chunk of the fine ring, in the reality   *)
(* it is resident in.                                                      *)
RefineNow(c) ==
  /\ AtStep("refine") /\ budget >= FineLoadCost
  /\ c \in store /\ c.key \in RefineTarget
  /\ PutNow(c.key, FineLod, RefineReality(c))
  /\ budget' = budget - FineLoadCost
  /\ UNCHANGED <<forced, excused>>

EndRefinement ==
  AtStep("refine") /\ (budget < FineLoadCost \/ RefineTarget = {}) /\ NextStep("vitals")

Foreground ==
  \/ BeginNow
  \/ \E c \in store : RebuildNow(c) \/ DropOverPlayer(c) \/ RefineNow(c)
  \/ EndRebuilds \/ EndMissing \/ EndRefinement
  \/ \E k \in Chunk : LoadMissing(k)

-----------------------------------------------------------------------------
(* The last part of stream_chunks, if anything changed: the renderer is    *)
(* given what was loaded, then draw list and collision world are renewed.  *)

Publishing == pc = "vitals" /\ changed

Undisturbed == UNCHANGED <<vars, rigidVars, order, changed, excused>>

Narrower(a, b) == IF a <= b THEN a ELSE b

PayloadOf(k) == CHOOSE c \in store : c.key = k

(* upload_surfaces(): a mesh is replaced under its key.                    *)
UploadSurfaces ==
  /\ Publishing /\ backend = "surfaces" /\ loaded # <<>>
  /\ surfaces' = {s \in surfaces : s.key \notin Range(loaded)}
                 \cup {PayloadOf(k) : k \in Range(loaded)}
  /\ loaded' = <<>>
  /\ Undisturbed /\ UNCHANGED <<pool, texture, draws, solids>>

(* Slots for the streaming footprint, rows for the largest payload.        *)
NumSlots == Narrower(Len(Desired[position]), MaxChunks)
NumRows ==
  CHOOSE n \in {1} \cup {RowsOf[c.lod] : c \in store} : \A c \in store : RowsOf[c.lod] <= n

LayoutFits == ~NeedsLayout(pool, NumSlots, NumRows)

UploadAtlas(laid) ==
  /\ pool' = Assign(laid, Keys(store), order)
  /\ texture' = FullTexels(pool', store)
  /\ loaded' = <<>>
  /\ Undisturbed /\ UNCHANGED <<surfaces, draws, solids>>

(* A layout that has to grow: everything is assigned and uploaded anew.    *)
LayOutAgain ==
  /\ Publishing /\ backend # "surfaces" /\ ~LayoutFits
  /\ UploadAtlas(EnsureLayout(pool, NumSlots, NumRows))

(* upload_atlas_rows() for the next loaded chunk, in the slot it has or    *)
(* gets.                                                                   *)
PatchLoaded ==
  /\ Publishing /\ backend = "rows" /\ LayoutFits /\ loaded # <<>>
  /\ pool' = Assign(pool, {Head(loaded)}, order)
  /\ \E slot \in SlotOf(pool', Head(loaded)) :
       \E block \in {RebasedBlock(pool', slot, PayloadOf(Head(loaded)))} :
         /\ Accepts(texture, FirstRow(pool', slot), block)
         /\ texture' = UpdateRows(texture, FirstRow(pool', slot), block)
  /\ loaded' = Tail(loaded)
  /\ Undisturbed /\ UNCHANGED <<surfaces, draws, solids>>

(* No free slot, no partial updates, or a driver error: the whole atlas.   *)
PatchRefused ==
  /\ Publishing /\ backend # "surfaces" /\ LayoutFits /\ loaded # <<>>
  /\ \E assigned \in {Assign(pool, {Head(loaded)}, order)} : UploadAtlas(assigned)

DrawEntry(k, first) == [of |-> PayloadOf(k), first |-> first]

(* In an atlas, only chunks with a slot are drawn.                         *)
Drawable == {k \in Keys(store) : backend = "surfaces" \/ SlotOf(pool, k) # {}}

RootRow(k) ==
  IF backend = "surfaces" THEN 0
  ELSE FirstRow(pool, CHOOSE slot \in SlotOf(pool, k) : TRUE)

(* At most MaxChunks are drawn, the oldest.                                *)
DrawList ==
  {DrawEntry(k, RootRow(k)) : k \in
     {k \in Drawable : Cardinality({j \in Drawable : <<j, k>> \in order}) < MaxChunks}}

Publish ==
  /\ Publishing /\ loaded = <<>> /\ (backend = "surfaces" \/ LayoutFits)
  /\ changed' = FALSE
  /\ draws' = DrawList
  /\ solids' = store
  /\ UNCHANGED <<vars, rigidVars, order, loaded, pool, texture, surfaces, excused>>

Publication ==
  UploadSurfaces \/ LayOutAgain \/ PatchLoaded \/ PatchRefused \/ Publish

-----------------------------------------------------------------------------
Draws == EndTick /\ ~changed /\ UNCHANGED frameVars

Frames ==
  \/ BeginTick /\ UNCHANGED frameVars
  \/ BeginBackground \/ Background \/ Foreground \/ Publication \/ Draws

SourceSteps ==
  /\ UNCHANGED frameVars
  /\ \/ \E r \in open : SourceCompletes(r)
     \/ \E rs \in SUBSET open : SourceFails(rs)

FrameNext == Happens \/ Frames \/ SourceSteps

FrameSpec == FrameInit /\ [][FrameNext]_allVars

(* As in ChunkStreaming: the display keeps calling tick, and workers that  *)
(* again and again could answer an order for a chunk answer it.            *)
FrameFairness ==
  /\ WF_allVars(Frames)
  /\ \A k \in Chunk : SF_allVars(Answers(k) /\ UNCHANGED frameVars)

FairFrames == FrameSpec /\ FrameFairness

-----------------------------------------------------------------------------
(* The chunks the renderer shows with what it was given.                   *)
Shown ==
  IF backend = "surfaces" THEN surfaces
  ELSE UNION {Decoded(texture, d.first, d.of) : d \in draws}

(* What a frame shows is what is resident, every chunk of it and nothing   *)
(* else, and the player collides with the same: whatever slots were        *)
(* reused, pools laid out again, patches refused or levels switched in     *)
(* between ("stale nodes are never referenced by the draw table",          *)
(* atlas.rs), no draw entry points at texels of another payload.           *)
ShownIsResident ==
  pc = "frame" =>
    /\ Shown = store
    /\ solids = store
    /\ {d.of : d \in draws} \subseteq store

(* Both branches of stream_chunks: a resident chunk that is not marked was *)
(* generated from a reality at least as new as its last mark, unless its   *)
(* rebuild was dropped over the player's body (synchronous branch only).   *)
RebuiltUnlessBuried ==
  /\ \A c \in store : c.key \notin forced \cup excused => c.reality.world >= need[c.key]
  /\ background => excused = {}
=============================================================================
