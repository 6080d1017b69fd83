# A verification development of vackrooms

vackrooms is a voxel rendition of the Backrooms: a generator crate
(`src/src`) that computes a chunk of the world as a pure function of seed,
position, level, level of detail and *reality snapshot*, and a browser front end
(`src/wasm_frontend`, `src/static`) that streams those chunks around a player
through a pool of web workers. This directory holds TLA+ specifications of the
stateful part of that program, the TLC configurations that check them, and
theorems that TLAPS proves about them.

## 1. Inventory

| component | state | operations | hard part |
|---|---|---|---|
| engine tick (`application/engine.rs`) | player, level, reality, resident chunks, outstanding orders, marks, backlog | `tick` and everything it calls | many events change reality between an order and its completion |
| background streaming (`install_completed`, `issue_requests`) | `pending`, `forced_reloads`, `completed_backlog`, `store` | evict, poll, install under a budget, order rebuilds, missing chunks, refinements | late, stale and reordered completions; bounds; liveness |
| synchronous streaming (`stream_chunks`, else branch) | `store`, `forced_reloads` | forced rebuilds, availability, refinement | partial progress under a budget, dropped rebuilds |
| publication (`stream_chunks`, last part) | draw list, collision world, meshes or atlas rows at the renderer | upload meshes, patch rows, lay out again, rebuild | several representations of one store, renewed in steps |
| chunk source port (`application/ports.rs`) | none of its own | `request`, `poll_completed`, `poll_failed_requests` | what the engine may rely on |
| worker pool (`drivers/worker_source.rs`, `generation_worker_requests.rs`, `static/worker.js`) | in-flight queue and health per worker, answers not polled yet | `request`, message and error handlers, the worker's promise chain | worker death, late replies, failed sends, lost reports |
| reality snapshot (`domain/entities/anomaly/reality.rs`) | encounter stamps, drift epochs, consumed supplies, delirium | `with_advanced_gate`, `with_fabric_drift_advanced`, `with_supply_consumed`, `with_delirium` | which events make a new reality, which room is active |
| Red Rooms (`use_cases/red_rooms`, `level_zero/generate.rs`) | none: a function of the snapshot | gate export, recursive addresses | gates of the old address while it is being replaced |
| peripheral shift (`application/engine/peripheral_shift.rs`) | watched drift cells, cooldown | mark near cells, abandon far ones, rear shift | geometry of circles against squares |
| noclip and level doors | cooldowns, push timer | `switch_level` | leaves orders in flight behind; the two may undo each other |
| pits (`update_anomalies`) | last safe position | recovery | pits and walls stream in under the wanderer |
| SVO atlas pool (`application/atlas.rs`) | slot occupancy, rows per slot, texels on the GPU | `ensure_layout`, `assign`, `release`, partial and full uploads | slot reuse, relayout, back ends without partial upload |
| survival, body, thermal | float reserves, pockets, deaths | `advance_vitals`, `consume`, `try_pickup`, `advance_strain` | one supply listed many times; order of deliberate and assisted consumption |
| flares | list of flares | drop, advance, extinguish | geometry that arrives over them |
| performance governor | moving average, scale, cooldown, lockout | `update` | anti-flap lockout |
| route and navigation | cached target | select, invalidate | stale across levels |
| input (`adapters/input.rs`, `drivers/browser/input_bindings.rs`) | held keys, queued acts, pointer lock, fingers | event listeners, `take_frame` | events between frames in any order, lost keyups, two kinds of session |
| player, collision (`player.rs`, `collision.rs`) | position, velocity; boxes and their index by cells | one integration step; rebuild, look up | collision is tested at the end of a step only, through an index; boxes change between steps |
| region planning (`use_cases/region_plan`, `vertical_circulation.rs`) | none: a function of seed and region; inside, the boxes taken, a cursor along the spine, the list of suites | set out suites, duplicate, abandon, renovate, redden, place the stairwell | four passes place rooms, each with checks of its own |
| macro graph and anomaly plan (`use_cases/world_topology.rs`, `anomalies/macro_planner.rs`) | none: a function of seed, configuration and who asks | `red_room_event_for_region`, `plan_anomalies_for_region` | every region plans alone, and what it plans reaches into its neighbours |
| suite interiors (`region_plan/suites.rs`) | none: boxes, partitions, an automaton over them | `subdivide_space`, `evolve_partitions`, openings | walls meet walls and doorways nobody compares them with |
| voxel octree (`sparse_voxel_octree.rs`, `build_octree*.rs`, `compress_svdag.rs`) | one arena of nodes | build from a grid or a sampler, `set`, `get`, collision walk, share | arena indices, masks and collapses kept in step by separate recursions |
| light bake (`bake_voxel_lighting`) | distances per kind of lamp, a queue | clear, search, light the air, light the solids | range in halves of a voxel, solids that receive but do not transmit |
| expanse galleries (`wfc3d.rs`, `level_zero/menger_expanse.rs`) | none: a superposition per cell, a worklist | settle, draw, propagate | the worklist must forget nobody; contradictions |
| surface extraction (`voxel_mapper.rs`, `surface_mesh.rs`, `face_instances.rs`, splat shader) | none: visited cells, quads | merge slices, lay corners, cut and spread pieces | what width and height mean differs by direction in four places |
| octree ray queries (`adapters/cpu_splatter/raycast.rs`) | none: position, box, stack of boxes and steps left of one march, nearest hit so far | `trace_svo`, `svo_segment_is_occluded` | leaves a box through an edge or a corner; chunks that overlap; work and stack that run out |
| other level generators, codec | none | pure functions | large data |
| renderers, browser glue, `static/index.html` | GPU and DOM objects | draw, upload | external APIs |

The engine owns everything but the workers. It calls the source
(`request`, `poll_*`) inside a tick; workers run in parallel and reach the main
thread only through `message` and `error` events, which the browser dispatches
between two ticks. The generator is called by value with the snapshot an order
carries, so a payload never depends on state changed after the order.

What makes each component correct, in one line each:

* **background streaming**: what is resident belongs to the level and to a reality
  at least as new as the last event that demanded a rebuild; nothing ordered is
  lost; outstanding orders stay bounded; the footprint fills, rebuilds happen and
  near chunks reach full detail once the player rests.
* **worker pool**: every request is answered, once, by the pool or by the
  same-thread fallback, whatever fails.
* **reality snapshot and Red Rooms**: the most recently changed encounter is
  unambiguous; the gates in the world belong to the world shown.
* **atlas and publication**: a frame shows the resident chunks, every one and
  nothing else; a draw only ever points at the texels of the chunk it draws; the
  wanderer collides with what is shown.
* **tick**: no rebuild closes in on the wanderer, pits let go, doors and noclip do
  not undo each other; what belongs to a level stays on it.
* **input**: nobody walks by themselves; every press in play is acted on once.
* **survival**: no supply is used twice and none is lost.
* **player, collision**: nobody enters or passes a wall, however long a frame took, and the
  index of boxes finds what a look at all of them would.
* **governor**: the resolution does not flap.
* **region planning**: assemblies keep apart and inside their region, one can walk into
  them, and the Red Room is a suite that people live in.
* **macro graph and anomaly plan**: what spans regions is the same whichever region asks;
  no two Red Rooms are near each other.
* **suite interiors**: the rooms tile the suite and one can walk from each to the next.
* **voxel octree**: whatever was done to the arena, what is seen and what is bumped into
  is what was put there.
* **light bake**: every voxel is lit by just what reaches it through air.
* **expanse galleries**: a solution obeys the rules, and what fails could not succeed.
* **surface extraction**: every exposed face is shown once, outward and as it is, by the
  mesh and by the splats.
* **octree ray queries**: the nearest solid is found, and a segment is called clear only
  when nothing is in it, whatever becomes of the atlas and the budget.
* **peripheral shift**: what is resident is watched; what drifts is not resident.

Hazards of this code are listed, with their lines, in `PROJECT.json`.

## 2. Plan

Order of work: first what several actors can get wrong together (the pool, then
streaming), then the state machine that decides which world is shown, then the
sequential parts of the engine, then the planning of levels.

| step | module | composes / refines | state |
|---|---|---|---|
| 1 | `ChunkSource` | abstract: what the engine may rely on | done |
| 2 | `WorkerPool` | refines `ChunkSource` | done |
| 3 | `ChunkStreaming`, `MCChunkStreaming` | instantiates `ChunkSource` | done, asynchronous path |
| 4 | `StreamingProofs` | theorems of 3 and 8 | done |
| 5 | `Reality` | abstract reality snapshot, theorems in `RedRoomProofs` | done |
| 6 | `RealitySnapshot`, `MCRealitySnapshot` | refines `Reality` | done |
| 7 | `RedRooms`, `MCRedRooms`, `RedRoomProofs` | extends `Reality`; theorems of 5, 7 and 22 | done |
| 8 | `AtlasPool`, `FrameStreaming`, `MCFrameStreaming` | extends `ChunkStreaming`: the blocking path, slots, uploads, draw list | done |
| 9 | `Wanderer`, `MCWanderer` | the stages of one tick: steps, pits, doors, noclip, streaming, flares, route | done |
| 10 | `Session` | browser events to input frames | done |
| 11 | `Survival`, `Governor`, `MCUpkeep` | pockets, vitals and strain; resolution; `MCUpkeep` runs 10 and 11 | done |
| 12 | `UpkeepProofs`, `WandererProofs` | theorems of 10, 11 (the governor) and 23; of 9 and 11 (supplies) | done |
| 13 | `WorkerPoolProofs` | theorems of 2, the safety part of the refinement among them | done |
| 14 | `RegionPlan`, `SuiteInterior`, `MCGeneration` | the plan of a region; the division of a suite | done |
| 15 | `GenerationProofs` | theorems of 14, 19, 20 and of 18 (the light) | done |
| 16 | `SnapshotProofs` | theorems of 6, the refinement among them | done |
| 17 | `FabricDrift` | the watched circle against the square footprint, marks of drifted cells | later |
| 18 | `SvoArena`, `VoxelLighting` | the arena of a chunk; its light; run by `MCGeneration` | done |
| 19 | `WaveCollapse` | the solver behind the galleries; run by `MCGeneration` | done |
| 20 | `SurfaceMesh` | mapper, indexed mesh and splats of one chunk; run by `MCGeneration` | done |
| 21 | `RayMarch` | rays through the octrees of several chunks; run by `MCGeneration` | done |
| 22 | `WorldPlan` | what spans regions; run by `MCRedRooms`, theorems in `RedRoomProofs` | done |
| 23 | `Locomotion` | one step of the player among the boxes; run by `MCUpkeep`, theorem in `UpkeepProofs` | done |
| 24 | `OctreeProofs` | theorems of 18 (the arena) and 21 | done |

Abstract specifications worth stating: the chunk source, the reality snapshot,
the frame as a function of the resident chunks (all done). What is worth proving
and can be is proved in section 5; what is left to TLC is listed at its end.

## 3. Modules and code

### WorkerPool (worker_source.rs, generation_worker_requests.rs, worker.js)

Per worker, `accepting` and `inFlight` are the ledger
(`GenerationWorkerRequests`), `inbox` and `outbox` the two directions of
`postMessage`, `running`, `usable` and `errorDue` the worker thread itself; the
main thread keeps `completed`, `failed` and `nextWorker`. The actions are the
entry points of the two sides: `RequestPosted`, `RequestRefused`,
`RequestFallback` and `Poll` are `ChunkSourcePort` methods called by the engine;
`OnDone`, `OnFailed`, `OnMalformed`, `OnFatal` and `OnError` the arms of the
`onmessage` and `onerror` closures; `Worker...` what the script in the worker
does with the message at the head of its promise chain. A request is a number in
order of issue and a message is about one request; payloads are left out. The
faults are a refused `postMessage`, a failed initialisation, a generation error,
a reply the parser rejects and an error event, `MaxFaults` of them, and, where
`MaxLostReports` allows, a failure report that itself cannot be posted.

### ChunkSource (ports.rs)

What is left of the pool for its user: a set of open requests, finished loads
waiting in order to be polled, failures waiting to be polled. A request is
accepted, served on the spot or refused; an open one completes or fails, in any
order. `WorkerPool` implements it (`KeepsPromise`); `ChunkStreaming` uses it.

### ChunkStreaming (engine.rs and its submodules, streaming.rs)

One `tick` is a path of small steps, told apart by `pc`, in the order of the
code: `frame`, `anomalies`, `provisions`, `shift`, `noclip`, `stream`,
`install`, `reload`, `coarse`, `refine`, `vitals`. A step may be skipped when
the corresponding event does not happen. The browser delivers worker messages
only between two ticks, so the source moves only when `pc = "frame"`.

* `store`, `pending`, `forced`, `backlog` are the fields of `Engine`;
  `deferred` and `budget` the locals of `install_completed`.
* `Move`, `CrossRedGate`, `CrossRemapGate`, `AbandonDriftCells`, `RearShift`,
  `PickUpSupply`, `TakeDoor`, `Noclip`, `ChangeDelirium` are the handlers that
  change reality, level, position or marks, each whole: a Red Room crossing
  marks every resident chunk and drops its order, a level switch clears store,
  orders and marks.
* `InstallOne` takes one completion through all the early returns of the loop:
  over budget (kept for the next tick), not the exact order (dropped), not
  wanted (dropped), would bury the player (kept) or installed.
* A reality is a version number, which every monotone change raises (encounter,
  drift, supply), and a delirium tier. An order carries level, level of detail,
  reality and an id; the id is any one no live request of the chunk carries,
  which is what a wrapping counter guarantees for 2^32 requests.

Which chunk is near, wanted or under the player is given by constants per
position, so theorems hold for every geometry.

### FrameStreaming and AtlasPool (engine.rs, atlas.rs, renderer back ends)

`FrameStreaming` extends `ChunkStreaming` with what the engine does besides: the
synchronous branch (`BeginNow`, `RebuildNow`, `DropOverPlayer`, `LoadMissing`,
`RefineNow`, with `background` saying which branch the source selects) and the
last part of `stream_chunks`, which both branches share. That part runs between
`refine` and `vitals` if anything `changed`: `UploadSurfaces` for a renderer of
meshes; `LayOutAgain`, `PatchLoaded` and `PatchRefused` for one of an atlas,
patched by rows or only replaced as a whole; then `Publish` renews draw list and
collision world. `order` is the insertion order of `ChunkStore`, as the set of pairs
of an older and a younger key, `loaded` and `changed` are locals of the function.
`draws` is a set: which of the chunks is drawn first does not matter, which are
left out beyond `MaxChunks` does. `AtlasFits` is what `Engine::new` settles: with an
atlas the visual footprint is the streaming footprint, whose radius it cuts to 2, so 25
chunks, `MAX_CHUNKS`; only a renderer of meshes sees further. A level switch (`ClearScene`) drops slots,
meshes, draws and boxes in the call that drops the store. `excused` is a history
variable: the chunks whose rebuild the synchronous branch dropped over the
player.

`AtlasPool` holds the pool as operators on values, since several of its methods
are called within one step: slots, layouts, the rebased block of a payload. `Assign`
places the keys that wait at once, the oldest in the first free slot, as the loop over
the store in its order does. A
row of the texture remembers which payload's row it is and where its child
pointers were rebased to; `Decoded` is what a traversal that starts at a draw's
root finds, nothing unless all rows of the payload are there and rebased to
there. `Shown` is what the renderer then shows.

### Wanderer (engine.rs `tick`, noclip.rs, route.rs, flares.rs, peripheral_shift.rs)

A tick as one action, composed of its stages in the order of the code: steps, flares,
anomalies (a pit first, then gates), provisions (doors), fabric drift, noclip,
streaming, route, attrition. A stage is an operator from an engine to the set of
engines it may leave behind; luck, arrivals and what reality selects next are the
choices. A place stands for a position and the chunk around it, a version for
everything of the Backrooms that realities differ in; a chunk may be resident in a
version that reality no longer selects, and is coarse until it is refined (`fine`).
Both details have solids of their own (`Walls`): the boxes of a chunk come from an
octree whose voxels are twice as wide while it is coarse
(local_chunk_source.rs:91,144), so a wall of the fine chunk may stand a voxel off the
coarse one (generate_chunk.rs:541-544). Pits, doors and gates are authored and do not
depend on detail. `Install` is what streaming does in one tick: missing chunks arrive
coarse, rebuilds keep the detail of the chunk and wait if they would enclose the
wanderer (engine.rs:860-875, 1044-1052), and refinements of a resident version are
installed without asking (engine.rs:849-860, 1089-1116). Which chunks are marked is
not modelled here: the refinement of a chunk that is also marked for a rebuild, which
the asynchronous path does compare with the player, is one that may or may not come.
Flares are a set; the oldest are those with the least time left. The assumptions are
that doors lead to another level and that the recovery of a pit is no pit itself (it
lies half a lattice spacing away). Nothing is assumed of what stands at spawns,
arrivals and recoveries. `transit` (a door, a wall, a death), `settled` and `leaning`
are history variables.

### Session (input.rs, input_bindings.rs, browser.rs)

The collector (`input`), the touch session (`touch`) and the overlay, driven by
keys, pointer lock, fingers and focus; each DOM listener is an action, a lock
request, its grant and the event that reports it are three. `Frame` is the
animation frame: `take_frame` and what `tick` makes of it. Directions and acts
are sets, so that an amount of look is a member or not. History variables say
what was `asked` for in play since the last frame, which acts' keys went up
`unseen`, which directions are `orphans` of a release nobody saw and which
fingers touch play `abandoned`.

### Survival (survival_inventory.rs, player_vitals.rs) and Governor (perf_governor.rs)

Reserves are counted in twentieths and excess in hundredths, in which every
amount of the code is whole except the wear of one tick; a step of wear stands
for the ticks up to the next event. `SurvivalTick` is the part of `tick` about
supplies: pickups without the halo's duplicates, the lowest ids first while the
pocket has room (`Stocked`), chunks arriving with what was not consumed when they
were ordered, wear, deliberate then assisted consumption, death, strain. `Governor` counts frames; the moving average is
replaced by an arbitrary verdict per frame (over, under, between). `Session`,
`Survival`, `Governor` and `Locomotion` share no state; a behaviour of `MCUpkeep`
is about one of them.

### Locomotion (player.rs, collision.rs)

`Walk` is one `step_with_effort` as `tick` calls it, clamps included: friction, the
wish, then either axis moved and tested on its own (`Slid`). Lengths are counted in
0.005 u, speeds in 0.1 u/s and times in 0.05 s, in which every constant of the code
is whole; products are cut towards zero. `RebuildFrom` builds the index of
`CollisionWorld`, `Collides` and `CentersWithin` read it as the code does: by the
cells of the query, then what is in no cell. What streaming publishes and where
falls, doors and teleports put the player is a choice between two steps. `way` is a
history variable: where the last step led, around which corner.

### Reality (reality.rs, active_red_room)

One partial function from anomaly instances to encounter stamps, drift epochs,
consumed supplies, delirium tier. `CrossGate` is `with_advanced_gate` with its
idempotence check and its four transitions. `latest` and `walked` are history
variables: the room that last committed or moved, and the loops walked since
its escape was last withdrawn. The bounds `MaxCrossings` and `MaxDrifts` stop
the counters for TLC; both counters saturate at 2^32 in the code.

### RealitySnapshot (reality.rs)

The same snapshot as the code holds it: three vectors kept sorted by insertion
or by the constructor, and `to_words`/`from_words` with all four error returns.
A half of a 64-bit number has `HalfWidth` values instead of 2^32, so that signs
and halves matter with small numbers. The trailing hash is taken as injective.
The transition of a stamp is taken from `Reality` through the refinement
mapping; what this module adds, and what its properties are about, is the
representation. A retained, deduplicated and sorted vector is `InOrder` of a set:
the vector of its members in the order of their keys, each kept once, the last stamp
by all its fields and the last epoch of a cell (`LatestStamps`, `LatestDrifts`). An
insertion is `Inserted` at the `PlaceOf` the key, as `binary_search` finds it.

### RedRooms (generate.rs, recursive_level.rs, planning.rs, update_anomalies)

`Reality` composed with resident chunks. `Home` says in which world a room is
authored, `Exported(c, a)` which gates a chunk generated for address `a`
exports: those of its own plan, and the checkpoint of the room that opened `a`
if it is found in the plans of the base level. `WalkThrough` crosses a gate of
any resident chunk, old or new. Streaming is reduced to order, install, evict.

### WorldPlan (world_topology.rs, anomalies/macro_planner.rs)

Nothing is stored, so `PlanRegion` is the only action: some region is planned, or
planned again, and `plans` has what each was told. `world`, one of `Worlds`, is
everything hashes, noise and configuration decide: the score of each candidate
cell and the region it aims at, the anchors that host an anomaly and which, every
shape, the protected point and what is forced. Lengths are integers in units of
0.1 u. `Fires` is the tournament of a cell against its eight neighbours,
`InWindow` the anchors a region looks at, `Forced` and `Organic` the two sources
of anomalies, joined by identity, which is kind and anchor (the 64-bit hash
taken as injective). Red Rooms promoted from assemblies are in `RegionPlan`, gates and
interiors of anomalies are left out.

### RegionPlan (region_plan/mod.rs, suites.rs, corruption.rs, vertical_circulation.rs)

`generate_region_plan` is one pure function; its loops and passes are actions
and what it hashes is chosen from `Rolls`, `Shifts` and `Anchors`, so a
behaviour is the planning of one region for one outcome of the hashes. `stage`
is the place in the function: the walk along the legs of the main spine
(`EnterLeg`, `SetOutSuite`, `LeaveExposed`), the passes of `corrupt`
(`Duplicate`, `Abandon`, `Renovate`, then `ForceRedRoom` or `RealizeRedRoom`),
the stairwell. Lengths are integers in units of 0.2 u, the half-step of the plan
lattice: `Snap` rounds to the lattice as `snap` does, and widths and depths are
computed from the designer's genome in hundredths. `taken` is the list that
placements are checked against and `assemblies` the list of the plan; that the
two agree is not given, since three functions maintain them. An assembly is its
footprint, its entrance, the end of the leg it was set out on, and for a copy by
how far it was moved. Spines are an input: `build_corridors` is not modelled.

### SuiteInterior (region_plan/suites.rs, assembly_sampler.rs)

`subdivide_space` recurses on two halves; here a stack of boxes takes the place
of the recursion, in its order. A box is split at its middle give or take the
jitter (`Splits`), or stays whole. `evolve_partitions` starts from any set of
walls that stand and ages it twice (`AgeOnce`, `AgeTwice`); `Settle` keeps one
wall if none would be. `Filled` is what the sampler does where two walls cover a
column: it stays solid unless both are cut.

### WaveCollapse (wfc3d.rs, menger_expanse.rs)

`solve_wfc` with its two loops as actions: `Pop` takes a cell from the worklist,
`Pass`, `RestrictNeighbour` and `Contradict` are what one turn of the loop over
the six directions may do to a neighbour, `Draw` collapses the first cell of
lowest entropy, `Solve` returns. A superposition is the set of its modules, the
code's bit mask; `Allowed` reads the rules as `allow` records them, both ways.
Weights are left out but for the order of the entropies they give, and the draw
is open. `drawn` is a history variable.

### SurfaceMesh (voxel_mapper.rs, surface_mesh.rs, face_instances.rs, splat.rs)

`map_voxel_region_with_policy` as a count of merged slices, in its order, and
`greedy_mesh_2d` one rectangle at a time: `IsFirst`, `IsWidth` and `IsHeight`
are its three loops. A voxel outside the padded grid is what `GridNeighborhood`
makes of it. `Indexed` and `Splat` are what the two renderers make of a
rectangle, in half voxels: the corners `append_quad` lays, and the pieces
`emit_capped` cuts, spread by the basis of the vertex shader (the WebGPU shader
has the same one).

### VoxelLighting (use_cases/bake_voxel_lighting)

`bake_voxel_lighting` with its four stages as actions, the search one voxel of
the queue at a time. Lengths are in halves of a voxel, the finest the code
compares, so `Reach` is twice the range over the size of a voxel. Light is the
set of what contributes, a kind of lamp with how far its light has come; the
colour and the rounding to 16 levels are functions of it. Voxels found together are
queued in some order (`InSomeOrder`): the code has a fixed one, and no proof uses it.

### SvoArena (sparse_voxel_octree.rs, build_octree.rs, build_octree_direct.rs, compress_svdag.rs)

`nodes` is the arena, counted from 0 as in the code, leaves and branches with the
base and the mask of their eight nodes. The five recursions of the code (`Grow`,
`Look`, `Put`, `Shared`, `Walk`) are functions of the level, one step for a voxel and one
for a cube, so that they can be proved about; `Visits` is the loop over the octants that hands
the arena from call to call. `Grow` is the recursion of both builders:
they differ in the cubes they know to be uniform, which for `BuildDirect` is what
the grid sampler knows and any further true hints about the cubes it is asked about. `Paint` is
`set`: it splits, marks, descends and collapses. `Compress` lays every distinct block once,
where it is first met (`Interned`). A voxel has a kind and a light; colour
follows from the kind, and face occlusion is an attribute like light. `Look`,
`SolidCubes` and `IsEmpty` are the three readers. The local source walks the
tree for collision and uploads the graph; the property is about both readers on
both. `set` is called by tests only, on trees, and none puts air that is lit
(`ArenaAssumption`); editing a graph, whose parts have several owners, is not modelled.

### RayMarch (raycast.rs, cpu_splatter/atlas.rs)

A query is one behaviour: `Ask` finds the chunks the segment meets, `Enter` starts the
march of the next (`IsNext`: as listed, or first by entry), and one turn of
the loop of `raymarch_svo_single` is one of `OutOfReach`, `Indeterminate`, `Hit`,
`SkipLeaf`, `SkipOctant` and `Descend`. Arithmetic is exact where the code has
floats: parameters are kept times `Unit`, points times twice that, and the
representable float next to a plane is the next number, which no ray goes
through. A node is the cube it stands for, and that of a chunk is 2^depth voxels wide, as
`svo_world_size()` makes it; `stale` are mask bits of air that was
edited (see `SvoArena`), `lost` are nodes whose words the atlas does not have.
`Limits` are `MAX_TRAVERSAL_STEPS` and the frames a stack holds. A scene is `Intact`
when no word is lost, the ceiling on steps is above the estimate and the stack has a frame
per level. With the limits of the code that is every scene without lost words:
a tree has at most 8 levels (`MAX_SUPPORTED_SVO_DEPTH`, generate_chunk.rs:14), for which
the estimate is 6,937 steps of 32,768, and the stack takes 8 frames. The frames
matter: a march that has forgotten one goes back to an older ancestor, and from a
corner it may come back to a box it left without having got ahead. Rounding itself,
and the nudge that gives up after as many tries as floats differ by, are not
modelled.

## 4. Runs

| run | shows | instance |
|---|---|---|
| `pool` | one place and one answer per request, malformed replies blame the right one, only lost reports strand one, everything is answered, the pool implements the chunk source | 2 workers, 4 requests, 2 faults, 1 lost report, fair |
| `pool_lost_report` | counterexample, see below | 2 requests, 1 fault |
| `chunk_history` | no late completion undoes a rebuild, brings back a level that was left or makes a chunk regress | footprint of 1, 2 positions, 3 happenings anywhere in the tick, 1 failure |
| `frames` | every frame shows what is resident; rebuilds; the footprint fills, rebuilds happen, refinement completes | footprint of 2 of 3 chunks, both branches, three renderers, 1 happening, 1 failure, fair |
| `chunk_splice` | counterexample, see below | footprint of 2, 1 crossing |
| `reality_transport` | lossless transport, refinement of `Reality` | 2 rooms, 3 gates, 8 crossings, 2 cells, 2 supplies |
| `red_rooms` | rooms are only entered from the world of their parent; the room shown is the one that moved last, escapes are earned; regions plan one world | 3 nested rooms on 2 chunks, 5 crossings; 2 rooms with 5 gates, 10 crossings; any 2 regions of 32 |
| `red_room_checkpoint` | counterexample, see below | same, 4 crossings |
| `wanderer` | only a fall, a death, a first arrival or a refinement encloses who was free, pits let go, transits are earned, flares and route fit the world around them | 3 places, 3 levels, 2 versions, 2 details |
| `upkeep` | no ghost walks, play needs capture, fingers have one job, presses act once; supplies are conserved, the assist is measured; raises are apart; walks keep out of the boxes | a steering and an acting key, 2 fingers, 1 button, remapping; 4 supplies, 2 chunks, 1 death; 4 scales; 2 layouts of boxes, 3 headings, 2 frame times, 4 steps |
| `generation` | assemblies keep apart, only suites past a bend are sealed; rooms tile their suite; solutions are legal, contradictions are real; light goes through air; the arena shows its volume; mesh and splats show the surface; rays find the nearest solid and leak no light | 2 spines, 2 designers, rolls 0 and 95, 2 shifts, 1 anchor; 2 footprints, depth 2 and 3; 6 lattices of up to 4 cells, 3 catalogues; 384 rooms of 4 x 2 x 2; 4 volumes in a cube of 4, 3 edits; 192 chunks of 3 x 2 x 2, 2 policies; 300 rays, 10 scenes of one or two chunks, 3 queries, 3 limits |
| `generation_doors` | counterexample, see below | same |

`red_rooms`, `upkeep` and `generation` each hold parts that share no state: the
variable `part` says from the start which of them a behaviour is about, and the
others rest. `upkeep` is explored under a view
without `frame`, the record of the last animation frame: no action reads it and
no guard depends on it, and the one property about it, `PressesAreActs`, is about
steps, which TLC evaluates on every transition, to known states too.

**Why the bounds are enough.** Pool: two workers are needed for a reply of one
that was given up to arrive while the other goes on; two faults exhaust the
pool and force the fallback; four requests leave two in a queue when it dies.
Streaming: a chunk can go wrong by a mark during an order (one event), again before
the old completion arrives (two), across a level round trip (two) with a mark in
between (three); `IdCount` 4 suffices because no more than four live requests of one
chunk fit in those histories. The bound of outstanding orders is a theorem
(`OrdersStayBounded`) without a run. Frames: two chunks that need different numbers of
rows, one that leaves the footprint and one that takes its slot; one happening
suffices to switch levels, mark, move or change delirium between any two steps.
Wanderer: three places in a row give a pit whose recovery has a wall once it is fine
or in the other version, one whose recovery is in a wall of its own version, a door
where one arrives and a rock where one falls in place or wakes; one chunk installed
per tick leaves out a rebuild and a refinement of one chunk in the same tick, which
the theorems include; the cooldowns are scaled down with their order kept. Session:
the key that strafes or turns with the mapping, the key that acts, and two fingers for
joystick and look surface. Upkeep: two chunks list one bottle, pockets hold less than
there is, and one death empties them; the governor's counters keep the inequality that
matters, cooldown of a raise plus that of a drop below the probe
time (240 + 120 < 600 frames). Locomotion: walls a fifth of a unit thick on the
borders of cells, one longer than a cell, on both sides of zero; a ceiling and a wall too large
for the index, an inverted box, pillars inside and outside the radius of warmth; a frame of
0.05 s and one of 1 s, and four steps, in which the speed comes near its limit. Reality: an escape is open after eight
crossings, lost after nine, and a count that was kept shows at the tenth. Red
Rooms: three levels of nesting, so that a room exists whose parent is itself
nested; five crossings allow entering all three and walking a stale loop twice.
World plan: candidates in a square of cells, with equal and unequal scores; the
largest anomalies moved as far towards and away from a region as they get, small
ones beside them; an archway forced next to the border of a cell, and anchors on the rim
of the window. The property compares two regions, so two plans suffice.
Generation: the
straight spine has a branch and two level legs of one width; the meandering one has
a leg past whose end a suite can hang and a short one that hosts none. The rolls
are the ends of the hash (the last gives the widest and the longest advance), so
a leg holds one to four suites on either side; the two shifts move a copy onto
its neighbour and clear of it. Both footprints are ones `place_suite` computes
for a designer of `genome.rs`, each with the depth of that designer's rule. Light: the range ends between the
lengths of the paths in these rooms, so that a wall can make a detour too long or
cut a lamp off. Arena: three levels of nodes; volumes that fill the cube and that
do not, with alike and with unlike octants; two of the sites share a parent, and
three edits split a leaf, undo it and split another. Lattices: a row and a square
on which a draw reaches a cell twice; columns that leave a choice and such that do
not; one that cannot be. Surfaces: twelve voxels have exposed faces in all six
directions, rectangles that stop at another material, light or shade and at cells
that are taken, and a side longer than `MaxCells`, so that it is cut unevenly. Rays:
two chunks that overlap by a voxel in either order, one of three levels, one that
lost a node; five steps, so that the work runs out, and a stack of one frame, so
that frames are forgotten; directions that leave boxes through faces, edges and
corners at once.

**Deadlock** is checked in every run but those of the pool, where a bounded
number of requests ends and the system may stop, and those of generation, where
a plan, a solution, a bake, a mesh, a query or the edits come to an end.

**Fairness.** In the pool: the engine polls on every tick, the browser
dispatches the messages and errors that are due, and a worker takes the next
message of its queue. All three are weak fairness of one actor; a worker that
hangs inside generation is outside it (the code has no timeout, see hazards).
In streaming: the display keeps calling `tick`, so the steps of a tick are
weakly fair; per chunk, an order that is again and again in the hands of the
source while it may answer is answered (strong fairness, because evictions can
take the order away in between and answers are only possible between ticks).
`pool` shows that the pool justifies it. The blocking branch needs only the
ticks. Liveness is stated for after
the last happening, since a player who never rests outruns the streaming.

**Counterexamples.**

1. `chunk_splice`. A Red Room crossing rebuilds what is resident, because "every
   resident chunk belongs to the old address" (engine.rs:635-638). A chunk that
   is missing but on order then is not touched: its order survives the
   crossing, its completion is still exactly what is pending, and a payload of
   the old address is installed beside rebuilt ones, unmarked.
2. `pool_lost_report`. worker.js:53-54 names the browser's error event as the
   recovery path when a failure cannot even be reported. The exception is caught
   and logged there, so no error event is raised, and the request is stranded.
3. `red_room_checkpoint`. generate.rs:108-110 says that the encounter that
   opened a recursive branch retains one checkpoint in visible space. For a room
   met inside another room's world it does not: the lookup goes to the plans of
   the base level, where that room is not authored.
4. `generation_doors`. mod.rs:35-38 sizes doorways so that the opening stays "wider
   than the player capsule", and suites.rs:298-300 calls the topology "legible
   and walkable". The door is put at the middle of its partition without regard
   to the walls that end there: half of a suite of 20.0 u by 11.2 u is divided by
   a wall that ends in the middle of the doorway of the first, and 0.4 u are left
   on either side of it, where the player is 0.7 u wide.

**Remarks without a run**, from reading the code beside the model:

* A finger still down when touch play is left by its menu button stays in
  `move_id` or `look_id` (the release is ignored out of touch play,
  input_bindings.rs:232-234), so in the next touch session the half it held is
  taken until the browser reuses its identifier. `FingersHaveOneJob` excepts
  those fingers (`abandoned`).
* A direction stays set when its release is not seen: focus lost out of play, or
  the key mapping changed with the key down. `NoGhostWalk` excepts those
  (`orphans`); leaving play clears them. The edge flags of G, R and T are not
  cleared, so the first press after an unseen release is swallowed
  (`PressesAreActs`, `unseen`).
* The native app (bin/play/app.rs:286-300) sets `drop_flare`, `drink` and `eat`
  on key repeats too, where `InputFrame` (engine.rs:95-101) says edge-triggered.
* `route.rs` retires the needle on a reality transition so that it is reselected
  "against the new address"; `update_route` later in the same tick selects among
  doors still resident from the old one. `WhatIsKeptFits` is about levels.
* Forward and backward held together in the open count as pushing into a wall
  (noclip.rs:24-27).
* `last_safe_position` is the position at the end of the previous tick, so a
  walled-up recovery keeps the wanderer in the pit while the wall stands, the
  exception in `PitsLetGo`. The comment at phenomena.rs:222 calls the recovery, "the
  center between four pits", deterministically clear; behind the last pits of a lattice
  it is not between four. They need only keep their side's width from the
  edge of the room (phenomena.rs:213), and half a spacing further is its outer wall, or
  what lies beyond.
* A refinement does not ask whether the wanderer is in its way, as a rebuild does ("Safety
  beats the effect", engine.rs:868): who leans on a coarse wall may be inside the
  fine one, and cannot walk out. It is the last exception of `WallsNeverCloseIn`, which
  allows it only where the coarse chunk has no wall.
* A death wakes the wanderer at the spawn of the level as it is in the first world of
  Level 0 (engine.rs:176-182), also in a Red Room's world or in the grassland, and nobody
  looks what stands there; `WallsNeverCloseIn` excepts it.
* A threshold that is crossed again while an escape is open (only a stale chunk
  still exports it) seals the room and keeps the count of seven, so one loop opens
  it again. The comment at reality.rs:180-183 speaks of loop crossings only, and
  `EscapeIsEarned` counts those.
* The test `every_assembly_entrance_opens_onto_a_corridor` looks at four regions.
  A suite that hangs past the end of its leg may have its entrance there, since
  `place_suite` does not compare the entrance with the corridors;
  `SealedOnlyPastBends` says that this is the only way.
* `corrupt` returns at once from a plan without assemblies (corruption.rs:33-35),
  so `force_red_room_in_spawn_region` does not run there, although its doc says
  it "must succeed there even when nothing qualifies yet".
* `place_suite` says it refuses footprints that cross another corridor; it
  compares the centre with a radius of half the shorter side
  (suites.rs:436-445), so a corner may reach into one.
* `set` never clears a bit of a mask, so a part that became air again stays marked
  until its block collapses; sparse_voxel_octree.rs:16 has bit 0 for every empty
  part. Readers find air in it all the same, as `ArenaShowsVolume` shows.
* A forced archway is moved beside the protected point but keeps the identity of its
  anchor (macro_planner.rs:225-238). A region that does not see it but sees the
  organic archway of that anchor reports another anomaly with the same id, although
  mod.rs:21-22 says callers "receive the same instance". `SharedAnomalies` excepts it
  (`Usurped`); only a developer's setting forces a kind.
* collision.rs:3-5 takes boxes from walls and red walls; they come from the nine
  `SOLID_MATERIALS`, which `SolidKinds` stands for.

## 5. Proofs

All theorems hold for every value of the constants that satisfies the named
assumption of the module (`PoolAssumption`, `ConstantsAssumption`, `FrameAssumption`,
`RealityAssumption`, `SnapshotAssumption`, `RedRoomAssumption`, `SessionAssumption`,
`GovernorAssumption`, `WorldAssumption`, `RegionAssumption`, `InteriorAssumption`,
`WaveAssumption`, `LightingAssumption`, `RayAssumption`, `SceneAssumption`, `LocomotionAssumption`,
`MeshAssumption`, `ArenaAssumption`, `WandererAssumption`, `SurvivalAssumption`), which TLC evaluates for the instances above. None but the last, for the supplies,
says anything about finiteness. `SceneAssumption` also lists what is needed about powers of
two, which would take an induction.

**WorkerPoolProofs.** `Placed` is `ExactlyOneAnswer` restated worker by worker
(`PlacedMeans`): no queue in flight holds a request twice, no two share one, and none
that is held is also answered. With `TypeOK`, which is
proved and not run, it is inductive. The lemmas before
it are about sequences without duplicates (appending, taking the head,
joining); `AnswerMoves` covers every way a request leaves a queue for an answer.
The refinement says where such a step goes in the chunk source: what leaves
flight was unanswered there, what enters is a submission (`PromiseStep`).
`Ordered` is why a malformed
reply, which names no request, is blamed on the right one: what a worker still
has to say, its replies under way and then its inbox, after at most one init
message or report of failure, is about the requests in flight from the oldest
on, and about all of them while it runs. That fails once a report is lost, hence
the hypothesis in `MalformedBlamesItsRequest`. `StrandedByLostReportsOnly` is about
those losses: among all workers, no more requests are without an answer to come than reports
were lost. Requests are numbered as they are issued, so the order of a worker's queues is
that of the numbers (`InIssueOrder`); a reply that is blamed on a wrong request, the oldest
in flight, finds one with no reply under way, which is stranded already, so the request
it was about is stranded in that one's place and the count grows only with a loss
(`StrandedCount`; `PoolMoves`
names the forms a step can have). Theorems: `PoolTyping`,
`RequestsHaveOneAnswer`, `PoolKeepsPromise`, `BlameIsRight`, `LostReportsStrandOneEach`.

**StreamingProofs.** For `ChunkStreaming`, `Inductive` is the argument: `TypeOK`,
`RealityInOrder`, `RebuildsComeFirst` and `DeferredWhileInstalling`.
`RebuildsReachTheirReality` is not inductive alone: a completion may clear a
mark, so one needs that whatever is pending was ordered at or after the mark
(`OrdersAreCurrent`), which holds because a mark drops the order; that a
payload on its way in is exactly the pending order (`IsCurrent`); and that the
marked chunk is older than its mark (`ResidentsAreOlder`), or a refinement of
the same reality could pass for a rebuild. `HallwaysNeverReturn` needs the same
for levels: a level switch drops all orders, and leaving Backrooms advances the
reality in the same call. `NeverRegresses` and `OrdersStayBounded` follow from
the invariant and one step; the latter also needs that refinements are only
asked for when no rebuild waits (`RebuildsComeFirst`), so that two fine orders
are never outstanding. Theorems: `Typing`, `InductiveInvariant`,
`RebuildsReach`, `HallwaysStayLeft`, `ResidentsNeverRegress`,
`OrdersAreNeverLost`, `OrdersStayBounded`.
For `FrameStreaming`, `SceneInv` is what holds between the chunk store and the scene at every
step of `stream_chunks`. `Footing`: what is loaded is resident, a change is
under way only while streaming, and then what is resident is in the footprint.
`Insertions`: one chunk per key, and `order` orders them all. `MeshesFit` and
`AtlasHolds`: the renderer holds every resident chunk but the loaded ones that are yet to be
uploaded; in an atlas that is a slot of its own (`Apart`) whose rows the texture
holds whole, rebased to the slot. `Published`: once nothing is changed, shown, solid and
resident are the same. The lemmas go from finite sets to frames: every rank below the
size of a set of numbers is somebody's (`EveryRankIsTaken`), so `Assign` places
everybody for whom there is room (`AssignPlaces`, `RoomForAll`) and keeps slots apart;
the rows of two slots do not meet (`SlotsDoNotOverlap`), so a patch leaves the other slots'
rows as they were (`PatchesHold`) and the whole atlas holds everybody
(`FullTexelsHold`); what is resident fits the slots of a layout and the draw list
(`ResidentsFit`, through `FootprintIsSmall`), hence nobody is left out. Then there is
one lemma per kind of step. That slots left by evicted chunks still have texels in them
is harmless because an assignment is only ever followed by the upload of that very slot.
`RebuildInv` is `Inductive` of `ChunkStreaming` for a source in the
background, whose steps are those of that module (`EngineStepsAreNext`); for one on
the spot it is that no mark is of a reality to come, so that a rebuild meets its mark,
and that the one rebuild that is given up is excused. Theorems:
`FramesShowResidents`, `RebuildsReachBothWays`.

**RedRoomProofs.** `Inductive` of `Reality`: revisions are unique, there is a
newest one (kept as an invariant instead of proving that a finite set has a
maximum), the newest committed room is `latest`, and no room counts loops that
were not walked. Lemma `Reduction` says what one gate event can do to a stamp,
`NextEpochIsFresh` why the new revision exceeds all. Theorems:
`RealityIsOrdered`, `ActiveRoomIsLatest`, `EscapesAreEarned`.
For `RedRooms`, `ReachedThroughParent` needs that every chunk shown or on
order belongs to a world that was opened (`OnlyOpenedWorlds`), which needs that
committed rooms stay committed and that the address of an order is that of a
committed room. Theorem `RoomsAreReachedThroughParents`. `OnlyOpenedWorlds` is
proved on the way and has no run of its own. For the plan, `PlansInv` says that
every plan is what its region would be told again, which makes the property one
about the functions. An anomaly that reaches a region has its anchor in that region's
window, since jitter and the largest half extent together are within the margin
(`MarginSuffices`, `ReachesAreSeen`), and a forced one is decided without regard
to who asks (`AnomaliesAreShared`, `OneIdentityIsOneAnomaly`). Two cells that fire
are not adjacent, because of two adjacent candidates one beats the other
(`EventsKeepApart`). Theorem: `RegionsPlanOneWorld`.

**SnapshotProofs.** `Canonical` is the invariant: each vector is sorted by its key, so
it has each key once (`SortedMembers`). Keys are compared field by field, which is a
linear order on numbers and on pairs of them (`NumbersAreLinear`, `PairsAreLinear`).
Three facts carry the rest: a search ends where what is before has smaller keys and
what is not has none (`SearchFinds`), so an insertion there keeps the vector sorted
(`InsertionSorts`) and every finite set of distinct keys has a sorted vector
(`SortedExists`); and it has only one (`SortedIsUnique`, at the first place where two
differ each would have a member the other lacks). Hence `InOrder` is that vector
(`InOrderSorts`), and sorting again changes nothing (`MembersAgain`). Then each operation is
the one of `Reality` on what the vectors mean (`GateImplements`, `DriftImplements`,
`SupplyImplements`, `DeliriumImplements`); a crossing turns on the retained stamps
being all but that of the room. For the transport, a number is its
halves put together (`Halves`), a negative one has those of its complement
(`HalvesOfComplement`), the four fields of a packed word do not meet (`Unpacked`), and parts
of one size joined and cut again are the same parts, wherever in the words they stand
(`ChunksOfJoined`, `SevenParts`). So the decoder sees the members of each vector, and
there is only one vector to put them in. The words of a stamp hold any epoch and any number
of loops here; the code's saturate first. Theorems: `SnapshotImplementsReality`,
`TransportIsLossless`.

**UpkeepProofs.** `GovernorInv` says why a lockout that begins at the drop, not
at the raise, is enough: the newest raise is no older than any other, so a drop
that is past its probe is past that of every step above, and otherwise the
lockout covers the rest (`RaiseProbe <= RaiseLockout`, the constants of
perf_governor.rs). Theorem: `RaisesStayApart`. For `Locomotion`, `LocomotionInv` adds to
the property that every box is where the index looks for it (`Indexed`) and that
no speed exceeds 2.5 u/s (`SpeedBound`: friction takes from it what a wish can add).
Boxes that overlap have a cell in common (`SharedCell`), and what is within a radius
has its centre in a cell of the square around it, hence `CollisionsAreFound` and
`CentersAreCounted`. A step on one axis is at most 0.5 u with a frame cut to 0.1 s,
shorter than the player is wide, so a box between two clear ends would have to
overlap one of them (`SlidesAreClear`): the clamp is what the property rests on. Theorem:
`WalksStayOut`, for boxes of any whole coordinates.
For `Session`, `Inductive` has a part per property. `NoGhostWalk` is inductive
given the types: the joystick's allowance goes with the finger, and
`SetMoveAxes` leaves only turning, which no joystick does. `PlayNeedsCapture`
needs that touch play keeps the collector in play, because the pointer's
listener steps aside for it. `FingersHaveOneJob` needs that bindings left over
from an earlier touch session are those of `abandoned` fingers, and that only
such a finger can hold both jobs. `PressesAreActs` needs what the collector
believes to be held: the acts of the keys that are down and of those released
unseen (`PressInv`), and that no two keys trigger the same act
(`OneKeyPerAct`). Theorems: `SessionInductive`, `SessionTyping`,
`NothingWalksByItself`, `PlayIsCaptured`, `FingersKeepTheirJob`,
`EveryPressIsPerformedOnce`.

**WandererProofs.** One lemma per stage of a tick says what the stage may change
(`StepsWalk`, `FlaresBurn`, `AnomaliesMove`, `DoorsLead`, `FabricShifts`,
`WallsGive`, `InstallsKeepOff`, `RoutesAreSelected`, `TheDeadWake`), and `ATick`
joins them. The four properties are about a tick as a whole, so what the proof turns on is that
a level is switched at most once between the step and the streaming
(`TicksSwitchOnce`: a door sets the cooldown of noclip), that flares and needle
are dropped at every switch, that a chunk whose wall the wanderer would be in is not
rebuilt over a resident one, and that flares are looked after whenever anything is
installed. `KeepsOff` is what streaming may do where the wanderer stands: if a wall is
there now, either there was one, or nothing was resident, or the detail changed, and
then the coarse chunk in the same version is free there, rebuilt in this tick or not.
`WandererInv` ties the counters
of the code to the history: `settled + doorCooldown` never falls short of
`DoorCooldown`, and the push of noclip is never more than the ticks spent leaning.
For `Survival`, `SuppliesConserved` is inductive with the types: what is stocked is disjoint
from what was consumed, so counts add (`CountsAdd`), and what leaves the pockets is spent.
`Measured` says of one kind that the assist, after a deliberate use,
finds the reserve at `AutoConsumeAt` or above and uses nothing, for any reserve,
because one unit restores more than that. Theorems: `WandererInvariant`,
`WhatIsKeptFitsAlways`, `WallsNeverCloseInEver`, `PitsLetGoAlways`,
`TransitsAreAlwaysEarned`, `SurvivalInvariant`, `SuppliesAreConserved`,
`AssistIsAlwaysMeasured`.

**GenerationProofs.** For the plan of a region, `RegionInductive` types the plan and says what the
passes rely on: every footprint of the plan is among the boxes taken, those keep apart, marks
are on assemblies that exist, and nothing but the last pass places a stair core.
From it follow `AssembliesStayApart` (a new box is compared with all taken, by
4 or by 2 half-steps) and `RedRoomsStayLived`. `EntrancesReachCorridors` is the
long one, since neither `place_suite` nor `place_stairwell` looks at the
corridors near a door: the cursor stands within its leg (`AlongTheWalk`), a
suite is wide enough for its entrance to lie between its ends (`WidthBound`,
`EntranceBound`, through the bounds of rounding in `SnapUp`), so an entrance that
is not past the end of the leg is over the leg (`WithinTheLeg`) and as far from its
axis as the wall of the corridor is (`OnTheSide`), which is the distance
`Reaches` allows; a copy is checked for it, and a later placement takes nothing
away (`EntrancesKept`). Theorems: `RegionIsSound`, `AssembliesStayApart`,
`RedRoomsStayLived`, `EntrancesReachCorridors`.

For the suite, `Tiling` says of every unit square of the suite that exactly one
piece, whole or still to divide, has it, and of every square outside that none
has: two facts, that no square is lost and that none is given twice, each kept by
a split and by moving a box from the stack to the rooms. Theorem: `SuitesAreTiled`.
For the solver, `WaveInv` has the point: a cell whose neighbour still holds what
it does not tolerate is in the worklist, or is the busy one with that direction
to come (`Waiting`, `Served`). When the wave is quiet nobody waits, so cells that
are single obey the rules (`SolutionsObeyTheRules`). `KeptInv` says that a layout
which obeys rules and draws is in every superposition, since support is a union
over candidates that include its own. `PermissiveInv` says that every cell still
holds the module that goes with all, or is single and heeded by its neighbours
(`Heeded`): a restriction leaves that module to the one and, by the mirrored
rules, takes nothing from the other, so none is empty. It rests on the geometry,
there and back again (`ThereAndBack`), and on the index reaching every cell
(`EveryCellIndexed`). Theorem: `OnlyTheImpossibleGoes`.
For the light, `LightInv` has three facts about the search that goes on: a distance
found is the length of a way (`SearchSound`), the air below the lamps is found
(`SearchSeeded`), and a voxel that has left the queue has told its faces
(`SearchServes`), which includes one that was found again by a shorter way, since it
is queued again. When the queue is empty nothing is missed (`SearchMissesNothing`): of
the ways that are missed take the shortest, then the voxel before its end was found in
time and told the end. That argument, an induction over numbers by the least
counterexample (`LeastNumber`), also unfolds the recursive function `AirWithin`, for
any range. The rest is what air and solids make of the distances; that a solid gets
just what the air at its faces passes on rests on `OnlyAirIsReached`, and on faces being
shared. Theorem: `LightTakesTheShortestWays`.
For the surface, `MeshInv` says of every face of a voxel that it is exposed and merged
just when a rectangle covers it, that no two rectangles do, and that the one that does
matches the face; a face is merged with its slice or with its cell (`Merged`). A rectangle
keeps this since all its cells are open and join its first (`RectangleJoins`); the end of
a slice, since what is left of it is not exposed. Then comes the geometry of what is drawn. Four
corners that span a box of no depth, and turn outward, show exactly the faces of that direction
whose middle is in the box (`ShowsIs`), whatever the order of the corners. `IndexedSpans` and
`SplatSpans` say this of the corners `append_quad` lays and of what the shader's basis
makes of a piece, for all six directions; `CutsAre` says that every cell of a side is in
one piece, so one of the pieces of the rectangle that covers a face shows it (`OnePieceShows`).
Theorem: `SurfacesAreMeshed`.

**OctreeProofs.** Of `SvoArena`: indices say little about an arena, so the proofs say at which
cube each node stands. A `place` is a set of pairs of a node and a cube, and an arena is a
`Graph` under it when each node that is placed stands for its cube (`Right`): a leaf for
all of it, a branch by children that are placed at the octants, where those masked out are air.
One block may be placed many times, so trees and shared graphs are the same thing here.
From the root placed at the whole cube follow the readers, level by level (`LookIs`, `WalkIs`,
`AirIsLeaf`, together `GraphShows`), and that nobody has to clear a mask bit: a bit only
has to be set where a child is not air.
`ArenaInv` says that there are such places, for `shown`; that no branch has eight
equal leaves (`Compacted`), which `is_empty()` relies on; and, until the arena is shared, that
no two nodes are placed at one cube nor at cubes that meet unless one is a branch above the
other (`Apart`).
For the builders (`GrowIs`): a call for a cube in which nothing is placed adds its nodes
behind the arena and nothing elsewhere, eight calls in a row keep the earlier ones right
because an arena is only extended (`RightStays`). That both builders agree node by node is
`SameTree`: of a uniform cube the exhaustive traversal makes one leaf and lays
down nothing (`LeavesIs`), which is all that a true hint skips.
For an edit (`PutsIs`): on its way down the calls above have branches that are marked already and
not yet collapsed; these are `loose`, and may have equal children for the moment
(`TreeBut`). A node exchanged for another leaves all other nodes what they were, because
its only parents are loose (`ExchangedGraph`, `OneParent`): this is where `Apart` is
needed, and why an edit of a shared graph would go wrong. Splitting, marking and collapsing are each
one exchange (`SplitIs`, `MarkedIs`, `CollapsedIs`).
For sharing (`SharesIs`): a node that is shared stands for the same cube in what is laid down; a
block that is found stands for whatever octants the equal block at hand would (`BlockNamed`).
The recursive functions unfold by the least level at which they would not (`LeastNumber`),
for any `Depth`. Theorem: `ArenaShown`.

Of `RayMarch`: the ray is in exact arithmetic, so a box is a pair of times on each axis
(`SideOf`: a plane is before the point just when its time is before the ray's), and
nodes are cubes at multiples of their width (`IsNodeAt`), of which two never overlap unless
one is in the other. `RayTypeOK` says that a march is in a node that holds its point, over a stack
that begins at the root (`AtRoot`), which is what lets a march that is not contained
any more go back. `RayInv` then says what was passed: the march has not got past the time
at which the segment enters a solid of its chunk (`NothingPassed`), because the
box of a skip has no solid in it and the segment is in that box until the time of the skip
(`SkipPassesNothing`); a solid is in a chunk ahead, in the one that is marched or not nearer
than what was found (`AllWait`); and what is closest touches a solid. From these follows
`RaysStopAtSolids`, unless steps were wanting.

That steps are never wanting (`Budgeted`) is a proof of termination without
liveness: `Steady` has a level `k` of the march, and for each axis a bound of the planes
of voxels that are still ahead, such that `(depth + 1) * (sum of planes) + k + 1` steps remain.
A descent takes one step and one level. A skip gives back up to `depth` levels, so it has to take a
plane of some axis away. For an axis on which the ray goes up this is plain. On an axis on
which it goes down it is not: a point on a plane belongs to the upper box, so a box may
be left at the moment it is entered. `Past` tells the axes whose plane has been
left from those on which the point stands on it, and `Ranked` says that a plane
that was left is aligned to a grid on which the others are not, so that going back
to an ancestor never revives one. The stack has to be complete (`Stacked`). Theorems:
`MarchesAreRooted`, `WorkSuffices`, `RaysStop`.

**Only model-checked.** All liveness, since fairness and ENABLED are out of the
prover's reach: `EveryRequestAnswered`, `FootprintFills`, `RebuildsHappen` and
`RefinementCompletes`. Every other property of a run that passes has a theorem.

## 6. What is abstracted, and what is not modelled

But for `Locomotion` and the planners, coordinates, distances and collisions are
constants or free choices. Payloads
are what they were generated from; two generations from equal inputs are equal,
which is the generator's contract. The camera, lights, sprites and telemetry do
not feed back into the state modelled. `update_anomalies` handles gates in order
of id within one move; `ChunkStreaming`, `RedRooms` and `Reality` let any order
of crossings happen, one at a time. The modules overlap where they look at one
stage from two sides: `ChunkStreaming` has the orders and realities of a tick
and abstracts what is at a place, `Wanderer` has places and abstracts orders.

Bounds, all for TLC only: `MaxEvents` (happenings to the player), `MaxFaults`,
`MaxLostReports`, `MaxRequests`, `IdCount`, `MaxCrossings`, `MaxDrifts`,
`MaxDeaths`, `MaxEdits`, `MaxPlans`, `MaxSteps`, `HalfWidth`. `Reach`, `MaxConcurrent`, `MaxLoads`, `MaxDelirium`,
`MaxChunks`, `CarryCap`, `FlareCap` and the cooldowns are parameters of the code
(the last three scaled down).

Not modelled, with the reason in `PROJECT.json`: the spines of a region, ceilings,
fixtures, columns and the sampling of a plan into voxels, the other level
generators, parameter fields, portals and vertical links of the macro graph, the
inside of anomalies (pure functions of large data, no state and no order of
events), chunk codec, query parsing, renderers and browser glue
beyond uploads and input (external APIs), heat and heart rate
(float dynamics), the angles of a look, the rounding of floats in a step, which drift cells are watched (geometry of real
numbers).
