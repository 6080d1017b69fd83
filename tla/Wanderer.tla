------------------------------ MODULE Wanderer ------------------------------
(***************************************************************************)
(* One tick as the wanderer lives it: the feet carry them, pits and red    *)
(* thresholds act, doors and walls give way to other levels, chunks stream *)
(* in around them, flares burn down, and the route needle is reselected.   *)
(* Modelled from application/engine.rs (tick, update_anomalies,            *)
(* update_provisions, switch_level, respawn_after_attrition), flares.rs    *)
(* and, under engine/, noclip.rs, route.rs and peripheral_shift.rs.        *)
(*                                                                         *)
(* A place stands for a position and the chunk around it.  The reality     *)
(* selects one version of the Backrooms; a version names what a committed  *)
(* Red Room and drifted fabric replace.  Which event selects which reality *)
(* and how orders travel is the matter of RedRooms and ChunkStreaming.     *)
(***************************************************************************)
EXTENDS Naturals, FiniteSets

CONSTANTS
    Places, Versions,
    Near,          \* Near[p]: the places one tick of walking away from p
    Spawn,         \* Spawn[l]: level_spawn of a level
    Walls,         \* Walls[d][l][v]: places whose chunk is solid there at detail d
    Pits,          \* Pits[v]: the recovery of a place in a pit, else None
    Doors,         \* Doors[l][v]: the level exits, [at, to, arrival]
    Thresholds,    \* Thresholds[v]: walks <<p, q>> that cross a red threshold
    DoorCooldown, NoclipPush, NoclipCooldown, RoutePeriod,  \* in ticks
    FlareCap, FlareLife,
    LoadsPerTick,  \* chunks installed in one tick, at most
    None

Backrooms == 0
Habitable == 1
Grassland == 2
Levels == {Backrooms, Habitable, Grassland}

Coarse == "coarse"   \* COARSE_LOD, in which a chunk first arrives
Fine == "fine"       \* lod 0, in which it is refined
Details == {Coarse, Fine}
LevelExits == UNION {Doors[l][v] : l \in Levels, v \in Versions}

ASSUME WandererAssumption ==
    /\ Versions # {} /\ None \notin Versions
    /\ Near \in [Places -> SUBSET Places]
    /\ Spawn \in [Levels -> Places]
    /\ Pits \in [Versions -> [Places -> Places \cup {None}]]
    /\ \A l \in Levels, v \in Versions : \A d \in Doors[l][v] :
          d.to \in Levels \ {l} /\ d.arrival \in Places
    /\ \A v \in Versions, p \in Places :
          Pits[v][p] # None => Pits[v][Pits[v][p]] = None
    /\ {DoorCooldown, NoclipPush, NoclipCooldown, RoutePeriod,
     FlareCap, FlareLife, LoadsPerTick} \subseteq Nat \ {0}

VARIABLES
    engine,   \* the parts of Engine that move the wanderer
    transit,  \* history: how the last tick took the wanderer elsewhere, if it did
    settled,  \* history: ticks since the level changed, to DoorCooldown
    leaning   \* history: ticks spent pinned in a row on this level

vars == <<engine, transit, settled, leaning>>

-----------------------------------------------------------------------------
(* What the resident chunks export.  The chunk of place p is resident in   *)
(* version e.store[p], which need not be the one reality selects, and fine *)
(* if p is in e.fine.  Its solids are those of its voxels, which are twice *)
(* as wide while it is coarse; pits, doors and gates are the same.         *)

Resident(e) == {p \in Places : e.store[p] # None}
Detail(e, p) == IF p \in e.fine THEN Fine ELSE Coarse
Solid(e, p, version) == p \in Walls[Detail(e, p)][e.level][version]
Collides(e, p) == p \in Resident(e) /\ Solid(e, p, e.store[p])
Recovery(e, p) == IF p \in Resident(e) THEN Pits[e.store[p]][p] ELSE None
Exits(e) == {d \in LevelExits :
                /\ d.at \in Resident(e)
                /\ d \in Doors[e.level][e.store[d.at]]}
Crosses(e, old) == /\ old \in Resident(e)
                   /\ <<old, e.place>> \in Thresholds[e.store[old]]

-----------------------------------------------------------------------------
(* The stages of a tick, in their order.  A stage returns the engines it   *)
(* may leave behind: what reality selects next, the luck of a roll, which  *)
(* exit is nearest and which chunks arrive are not decided here.           *)

Less(n) == IF n = 0 THEN 0 ELSE n - 1
InvalidateRoute(e) == [e EXCEPT !.route = None, !.routeCooldown = 0]

\* step_with_effort: the wanderer walks to a place nearby, strolls within the
\* place or does not move.  Nobody walks into a wall, or inside one.
Steps(e) ==
    {e} \cup (IF Collides(e, e.place) THEN {}
              ELSE {[e EXCEPT !.place = q, !.moved = TRUE] :
                       q \in {e.place} \cup {q \in Near[e.place] : ~Collides(e, q)}})

\* advance and drop_from: a flare is dropped ahead or at the wanderer's feet,
\* and the oldest goes out for it at the cap.  A wanderer inside a wall drops
\* theirs there.  At most one is dropped in a tick, so what is left of them
\* tells flares apart and orders them.
Burning(flares) ==
    {[f EXCEPT !.left = @ - 1] : f \in {g \in flares : g.left > 1}}
Flare(e, q) ==
    [at |-> q, level |-> e.level, left |-> FlareLife, walled |-> Collides(e, q)]

UpdateFlares(e, drops) ==
    LET lit  == Burning(e.flares)
        kept == IF Cardinality(lit) < FlareCap THEN lit
                ELSE {f \in lit : \E g \in lit : g.left < f.left}
    IN  IF ~drops THEN {[e EXCEPT !.flares = lit]}
        ELSE {[e EXCEPT !.flares = kept \cup {Flare(e, q)}] :
                 q \in {e.place} \cup {p \in Near[e.place] : ~Collides(e, p)}}

\* The authored recovery; if that is walled up the last safe position, which
\* is where the tick began.
Recover(e, recovery) ==
    IF Collides(e, recovery) THEN [e EXCEPT !.place = e.safe, !.moved = FALSE]
    ELSE [e EXCEPT !.place = recovery, !.safe = recovery, !.moved = TRUE]

\* Mutant: only who walks into a pit is recovered.
AnomaliesOnEntry(e, old) ==
    IF e.level = Backrooms /\ Recovery(e, e.place) # None /\ e.place # old
    THEN {Recover(e, Recovery(e, e.place))}
    ELSE {[e EXCEPT !.safe = e.place]}

\* update_anomalies: a pit first, and nothing else in the tick of a fall;
\* then a red threshold the step crossed, which may select another version.
Anomalies(e, old) ==
    IF e.level = Backrooms /\ Recovery(e, e.place) # None
    THEN {Recover(e, Recovery(e, e.place))}
    ELSE {[e EXCEPT !.safe = e.place]} \cup
         IF e.level = Backrooms /\ Crosses(e, old)
         THEN {InvalidateRoute([e EXCEPT !.safe = e.place, !.version = v]) :
                  v \in Versions}
         ELSE {}

\* Mutant: the time spent pushing counts on after the fall.
SwitchLevelKeepsPush(e, target, arrival) ==
    {InvalidateRoute(
       [e EXCEPT !.level = target, !.store = [p \in Places |-> None], !.fine = {},
                 !.place = arrival, !.safe = arrival,
                 !.doorCooldown = DoorCooldown, !.flares = {}, !.moved = TRUE])}

\* switch_level: the world is dropped, and the fabric watched on a level that
\* drifts is another one when the wanderer comes back.
SwitchLevel(e, target, arrival) ==
    {InvalidateRoute(
       [e EXCEPT !.level = target, !.store = [p \in Places |-> None], !.fine = {},
                 !.version = v, !.place = arrival, !.safe = arrival, !.push = 0,
                 !.doorCooldown = DoorCooldown, !.flares = {}, !.moved = TRUE]) :
          v \in IF e.level = Backrooms THEN Versions ELSE {e.version}}

\* update_provisions, its doors: an exit the wanderer stands in is taken,
\* unless the level was switched a moment ago.
Provisions(e) ==
    LET cooled == [e EXCEPT !.doorCooldown = Less(@)]
        here   == {d \in Exits(e) : d.at = e.place}
    IN  IF cooled.doorCooldown > 0 \/ here = {} THEN {cooled}
        ELSE UNION {SwitchLevel(cooled, d.to, d.arrival) : d \in here}

\* update_peripheral_shift: fabric that nobody watches, or that a blackout
\* hides behind the wanderer, drifts into another version.
Shift(e) ==
    IF e.level = Backrooms THEN {[e EXCEPT !.version = v] : v \in Versions} ELSE {e}

\* noclip: in place into the grassland, to the spawn clearing from elsewhere.
Noclip(e) == IF e.level = Backrooms THEN SwitchLevel(e, Grassland, e.place)
             ELSE SwitchLevel(e, Backrooms, Spawn[Backrooms])

\* update_noclip: pushing without moving earns a roll per NoclipCooldown.
Pinned(e, held) == held /\ ~e.moved
UpdateNoclip(e, held) ==
    LET cooled == [e EXCEPT !.noclipCooldown = Less(@),
                            !.push = IF ~Pinned(e, held) THEN 0
                                     ELSE IF @ < NoclipPush THEN @ + 1 ELSE @]
        rolled == [cooled EXCEPT !.noclipCooldown = NoclipCooldown]
    IN  IF cooled.push < NoclipPush \/ cooled.noclipCooldown > 0 THEN {cooled}
        ELSE {rolled} \cup Noclip(rolled)

\* extinguish_buried, once the world has been rebuilt.
Extinguished(e) ==
    [e EXCEPT !.flares = {f \in @ : ~Collides(e, f.at)}]

\* What arrives: chunks in the version reality selects, missing ones coarse and
\* rebuilt ones in the detail they had, and then coarse chunks refined in the
\* version they are resident in, over whoever stands there.
Laid(e, built, refined) ==
    [e EXCEPT !.store = [p \in Places |-> IF p \in built THEN e.version ELSE @[p]],
              !.fine = @ \cup refined]

\* Mutant: a rebuild is installed over the wanderer.
InstallOverPlayer(e, arrivals, refined) ==
    IF arrivals \cup refined = {} THEN e ELSE Extinguished(Laid(e, arrivals, refined))

\* Mutant: new geometry leaves the flares alone.
InstallOverFlares(e, arrivals, refined) ==
    LET waits == {p \in Resident(e) \cap {e.place} : Solid(e, p, e.version)}
    IN  Laid(e, arrivals \ waits, refined)

\* stream_chunks: a rebuild whose walls would enclose the wanderer waits; new
\* chunks and refinements do not.
Awaited(e) == {p \in Places : e.store[p] # e.version}
Install(e, arrivals, refined) ==
    LET waits == {p \in Resident(e) \cap {e.place} : Solid(e, p, e.version)}
    IN  IF arrivals \subseteq waits /\ refined = {} THEN e
        ELSE Extinguished(Laid(e, arrivals \ waits, refined))

\* update_route: select_route_target, once per RoutePeriod.
Select(e, target) ==
    [e EXCEPT !.routeCooldown = RoutePeriod, !.route = target]
UpdateRoute(e) ==
    IF e.routeCooldown > 1 THEN {[e EXCEPT !.routeCooldown = @ - 1]}
    ELSE {Select(e, d) : d \in IF Exits(e) = {} THEN {None} ELSE Exits(e)}

\* succumb_if_dead and respawn_after_attrition.
Respawned(e) ==
    InvalidateRoute([e EXCEPT !.place = Spawn[e.level], !.safe = Spawn[e.level]])

-----------------------------------------------------------------------------
Init ==
    /\ engine = [level |-> Backrooms, version |-> CHOOSE v \in Versions : TRUE,
                 place |-> Spawn[Backrooms], safe |-> Spawn[Backrooms],
                 store |-> [p \in Places |-> None], fine |-> {}, moved |-> FALSE,
                 flares |-> {}, doorCooldown |-> 0, push |-> 0, noclipCooldown |-> 0,
                 route |-> None, routeCooldown |-> 0]
    /\ transit = "none" /\ settled = DoorCooldown /\ leaning = 0

Tally(how, pinned) ==
    /\ transit' = how
    /\ settled' = IF how \in {"door", "noclip"} THEN 0
                  ELSE IF settled < DoorCooldown THEN settled + 1 ELSE settled
    /\ leaning' = IF ~pinned THEN 0 ELSE IF transit = "noclip" THEN 1
                  ELSE IF leaning < NoclipPush THEN leaning + 1 ELSE leaning

\* One tick: a movement key is held or not, which matters to one who has not
\* moved; a flare is dropped or not, and the wanderer dies of attrition or not.
Next ==
    \E stepped \in Steps(engine), drops, dies \in BOOLEAN :
    \E lit \in UpdateFlares(stepped, drops) :
    \E met \in Anomalies(lit, engine.place) :
    \E passed \in UNION {Shift(p) : p \in Provisions(met)} :
    \E held \in IF passed.moved THEN {FALSE} ELSE BOOLEAN :
    \E fell \in UpdateNoclip(passed, held) :
    \E arrivals \in {a \in SUBSET Awaited(fell) : Cardinality(a) <= LoadsPerTick} :
    \E refined \in {r \in SUBSET ((Resident(fell) \cup arrivals) \ fell.fine) :
                        Cardinality(arrivals) + Cardinality(r) <= LoadsPerTick} :
    \E routed \in UpdateRoute(Install(fell, arrivals, refined)) :
        /\ engine' = [IF dies THEN Respawned(routed) ELSE routed
                        EXCEPT !.moved = FALSE]
        /\ Tally(IF passed.level # met.level THEN "door"
                 ELSE IF fell.level # passed.level THEN "noclip"
                 ELSE IF dies THEN "death" ELSE "none",
                 Pinned(passed, held))

Spec == Init /\ [][Next]_vars

-----------------------------------------------------------------------------
InWall == Collides(engine, engine.place)
InPit == engine.level = Backrooms /\ Recovery(engine, engine.place) # None

\* Walls never close in on the wanderer: who was free is in a wall only after a
\* fall into another level, waking in one after a death, where nothing was
\* resident before, or where the chunk has just been refined and its fine walls
\* stand where the coarse ones did not.  A step, a recovery and a rebuild never
\* do it, nor a rebuild that is refined in the same tick.
WallsNeverCloseIn ==
    [][InWall' /\ ~InWall =>
          \/ engine'.level # engine.level \/ transit' = "death"
          \/ engine.store[engine'.place] = None
          \/ /\ engine'.place \in engine'.fine \ engine.fine
             /\ engine'.place \notin
                   Walls[Coarse][engine'.level][engine'.store[engine'.place]]]_vars

\* A pit lets go in the next tick, also one that streamed in under the
\* wanderer: what keeps them there, other than waking in one after a death, is
\* only a pit, this one or one they step into from here, whose recovery is
\* walled up, or is this place, in a chunk of another version than the pit's
\* own, one of which is still to be rebuilt.
PitsLetGo ==
    [][InPit /\ InPit' /\ engine'.place = engine.place /\ transit' # "death" =>
          \E p \in {engine.place} \cup Near[engine.place] :
              LET recovery == Recovery(engine, p) IN
              /\ recovery # None
              /\ \/ Collides(engine, recovery)
                 \/ recovery = engine.place /\ engine.store[recovery] # engine.store[p]]_vars

\* A level is left through a door only when the last arrival is DoorCooldown
\* ago, and through a wall only after NoclipPush ticks against it in a row
\* since arriving, so that neither undoes the other at once.
TransitsAreEarned ==
    [][/\ transit' = "door" => settled + 1 >= DoorCooldown
       /\ transit' = "noclip" => leaning' = NoclipPush]_vars

\* What outlives a step of the world still fits it: the needle points at a door
\* of the level the wanderer is on, and a flare burns on the level it was
\* dropped on and never inside a wall that came after it, since only who was
\* walled in could have dropped it there.
WhatIsKeptFits ==
    /\ engine.route # None =>
        \E v \in Versions : engine.route \in Doors[engine.level][v]
    /\ \A flare \in engine.flares :
        /\ flare.level = engine.level
        /\ Collides(engine, flare.at) => flare.walled
=============================================================================
