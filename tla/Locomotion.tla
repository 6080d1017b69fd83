------------------------------ MODULE Locomotion ------------------------------
(***************************************************************************)
(* The player's step (player.rs) among the boxes of the collision world    *)
(* (collision.rs), which are looked up through an index by square cells.   *)
(* Streaming replaces the boxes and falls, doors and deaths the position,  *)
(* between two steps.                                                      *)
(*                                                                         *)
(* A unit of length is 0.005 u, of speed 0.1 u/s, of time 0.05 s, so that  *)
(* a speed times a time is a length.  Where the code rounds to a float,    *)
(* Cut rounds towards zero.                                                *)
(***************************************************************************)
EXTENDS Integers, FiniteSets

CONSTANTS
  Layouts,      \* what may be resident: box number -> box
  Arrivals,     \* where the player is put by other parts of the engine
  Headings,     \* sine and cosine of the yaw, in fifths
  FrameTimes,   \* what the display reports as the time of a frame
  Efforts,      \* the body's multiplier, in percent
  Intents,      \* forward and strafe, each -1, 0 or 1
  MaxSteps      \* bound on what happens

CellSize == 800
MaxCellsPerBox == 256
Radius == 70
EyeToFeet == 330
EyeToHead == 20
EnclosureRadius == 1200
LongestFrame == 2

Boxes == [minX : Int, minY : Int, minZ : Int, maxX : Int, maxY : Int, maxZ : Int]

ASSUME LocomotionAssumption ==
  /\ \A l \in Layouts : \A i \in DOMAIN l : l[i] \in Boxes
  /\ Arrivals \subseteq [x : Int, y : Int, z : Int]
  /\ Headings \subseteq [sin : -5..5, cos : -5..5]
  /\ FrameTimes \subseteq Int /\ Efforts \subseteq Int
  /\ Intents \subseteq [forward : -1..1, strafe : -1..1]
  /\ MaxSteps \in Nat

VARIABLES
  boxes,        \* CollisionWorld: the boxes in their order,
  occupiedCells,\* by each cell they are in,
  centerCells,  \* by the cell of their centre,
  fallback,     \* and those too large for that
  player,       \* [at, forward, strafe]: eye position, speed in its own frame
  way,          \* history: where the last step led, from, by way of, to
  steps

collisionWorld == <<boxes, occupiedCells, centerCells, fallback>>
locomotionVars == <<collisionWorld, player, way, steps>>

Lesser(a, b) == IF a < b THEN a ELSE b
Larger(a, b) == IF a > b THEN a ELSE b
Cut(n, d) == IF n >= 0 THEN n \div d ELSE -((-n) \div d)

-----------------------------------------------------------------------------
(* The collision world.                                                    *)

Overlap(a, b) ==
  /\ a.maxX > b.minX /\ a.minX < b.maxX
  /\ a.maxY > b.minY /\ a.minY < b.maxY
  /\ a.maxZ > b.minZ /\ a.minZ < b.maxZ

PlayerBox(p) ==
  [minX |-> p.x - Radius, minY |-> p.y - EyeToFeet, minZ |-> p.z - Radius,
   maxX |-> p.x + Radius, maxY |-> p.y + EyeToHead, maxZ |-> p.z + Radius]

CellsBetween(x0, z0, x1, z1) ==
  ((x0 \div CellSize)..(x1 \div CellSize)) \X ((z0 \div CellSize)..(z1 \div CellSize))

(* Mutant: a box is in the cells of its two corners.                       *)
CellsOfCorners(b) == {<<b.minX \div CellSize, b.minZ \div CellSize>>,
                      <<b.maxX \div CellSize, b.maxZ \div CellSize>>}

CellsOf(b) == CellsBetween(b.minX, b.minZ, b.maxX, b.maxZ)

\* Inverted boxes have no cells, others may have too many.
IsIndexed(b) ==
  /\ b.minX <= b.maxX /\ b.minZ <= b.maxZ
  /\ ((b.maxX \div CellSize) - (b.minX \div CellSize) + 1)
       * ((b.maxZ \div CellSize) - (b.minZ \div CellSize) + 1) <= MaxCellsPerBox

CenterCell(b) ==
  <<(b.minX + b.maxX) \div (2 * CellSize), (b.minZ + b.maxZ) \div (2 * CellSize)>>

RebuildFrom(layout) ==
  LET indexed == {i \in DOMAIN layout : IsIndexed(layout[i])}
  IN  /\ boxes' = layout
      /\ occupiedCells' = [c \in UNION {CellsOf(layout[i]) : i \in indexed} |->
                             {i \in indexed : c \in CellsOf(layout[i])}]
      /\ centerCells' = [c \in {CenterCell(layout[i]) : i \in indexed} |->
                             {i \in indexed : c = CenterCell(layout[i])}]
      /\ fallback' = DOMAIN layout \ indexed

(* intersects() and collides()                                             *)
Collides(p) ==
  LET query == PlayerBox(p)
  IN  \/ \E c \in CellsOf(query) \cap DOMAIN occupiedCells :
           \E i \in occupiedCells[c] : Overlap(query, boxes[i])
      \/ \E i \in fallback : Overlap(query, boxes[i])

\* Twice the coordinates are whole.
WithinRadius(dx, dz) == dx * dx + dz * dz <= 4 * EnclosureRadius * EnclosureRadius
CenterWithin(b, p) ==
  WithinRadius((b.minX + b.maxX) - 2 * p.x, (b.minZ + b.maxZ) - 2 * p.z)

(* count_centers_within_xz(), the boxes it counts                          *)
CentersWithin(p) ==
  LET cells == CellsBetween(p.x - EnclosureRadius, p.z - EnclosureRadius,
                            p.x + EnclosureRadius, p.z + EnclosureRadius)
  IN  {i \in fallback \cup UNION {centerCells[c] : c \in cells \cap DOMAIN centerCells} :
         CenterWithin(boxes[i], p)}

-----------------------------------------------------------------------------
(* step_with_effort()                                                      *)

(* Mutant: a frame is as long as the display says.                         *)
WholeFrame(time) == time

FrameTime(time) == Lesser(Larger(time, 0), LongestFrame)
Effort(e) == Lesser(Larger(e, 5), 100)

\* Friction, then the wish of at most unit length, in tenths.
Speed(v, wish, dt, effort) == Cut(v * (5 - 2 * dt), 5) + Cut(wish * effort * dt, 100)
Wish(intent) ==
  LET tenths == IF intent.forward # 0 /\ intent.strafe # 0 THEN 7 ELSE 10
  IN  [forward |-> tenths * intent.forward, strafe |-> tenths * intent.strafe]

\* Each axis is moved and tested on its own.
Slid(p, dx, dz) ==
  LET beside == [p EXCEPT !.x = @ + dx]
      corner == IF Collides(beside) THEN p ELSE beside
      ahead == [corner EXCEPT !.z = @ + dz]
  IN  [from |-> p, corner |-> corner, to |-> IF Collides(ahead) THEN corner ELSE ahead]

Walk(time, heading, intent, effort) ==
  LET dt == FrameTime(time)
      forward == Speed(player.forward, Wish(intent).forward, dt, Effort(effort))
      strafe == Speed(player.strafe, Wish(intent).strafe, dt, Effort(effort))
      dx == Cut((heading.cos * strafe - heading.sin * forward) * dt, 5)
      dz == Cut(((-heading.cos) * forward - heading.sin * strafe) * dt, 5)
  IN  /\ way' = Slid(player.at, dx, dz)
      /\ player' = [at |-> way'.to, forward |-> forward, strafe |-> strafe]
      /\ UNCHANGED collisionWorld

-----------------------------------------------------------------------------
(* What happens between two steps.                                         *)

Stay(p) == [from |-> p, corner |-> p, to |-> p]

\* Streaming has published, or a level was left.
Rebuild ==
  /\ \E layout \in Layouts : RebuildFrom(layout)
  /\ way' = Stay(player.at)
  /\ UNCHANGED player

\* relocate(): a pit, an arrival, a death.
Relocate(p) ==
  /\ player' = [at |-> p, forward |-> 0, strafe |-> 0]
  /\ way' = Stay(p)
  /\ UNCHANGED collisionWorld

\* teleport_player() keeps the momentum.
Teleport(p) ==
  /\ player' = [player EXCEPT !.at = p]
  /\ way' = Stay(p)
  /\ UNCHANGED collisionWorld

NoBoxes == [i \in {} |-> 0]
LocomotionInit ==
  /\ boxes = NoBoxes /\ occupiedCells = NoBoxes /\ centerCells = NoBoxes /\ fallback = {}
  /\ \E p \in Arrivals : player = [at |-> p, forward |-> 0, strafe |-> 0] /\ way = Stay(p)
  /\ steps = 0

LocomotionNext ==
  /\ steps < MaxSteps /\ steps' = steps + 1
  /\ \/ \E time \in FrameTimes, heading \in Headings, intent \in Intents, effort \in Efforts :
          Walk(time, heading, intent, effort)
     \/ Rebuild
     \/ \E p \in Arrivals : Relocate(p) \/ Teleport(p)

LocomotionSpec == LocomotionInit /\ [][LocomotionNext]_locomotionVars

-----------------------------------------------------------------------------
(* The box that holds the player on the way from p to q, along one axis.   *)
Sweep(p, q) ==
  [minX |-> Lesser(p.x, q.x) - Radius, minY |-> p.y - EyeToFeet, minZ |-> Lesser(p.z, q.z) - Radius,
   maxX |-> Larger(p.x, q.x) + Radius, maxY |-> p.y + EyeToHead, maxZ |-> Larger(p.z, q.z) + Radius]

Blocked(p) == \E i \in DOMAIN boxes : Overlap(PlayerBox(p), boxes[i])

(* The index is a short cut and nothing else: what it finds is what a look *)
(* at every box would (collision.rs:60-63), across the borders of cells,   *)
(* with negative coordinates and for boxes that are in no cell.            *)
IndexIsExact ==
  \A p \in {way.from, way.corner, way.to} :
    /\ Collides(p) <=> Blocked(p)
    /\ CentersWithin(p) = {i \in DOMAIN boxes : CenterWithin(boxes[i], p)}

(* A player in the clear neither enters a box nor comes out behind one,    *)
(* however long the frame took ("so a background-tab hitch can't teleport  *)
(* the player", engine.rs:428), and whatever momentum is left from before. *)
WayIsClear ==
  Blocked(way.from) \/
    \A i \in {j \in DOMAIN boxes : boxes[j].minX <= boxes[j].maxX /\ boxes[j].minZ <= boxes[j].maxZ} :
      /\ ~Overlap(Sweep(way.from, way.corner), boxes[i])
      /\ ~Overlap(Sweep(way.corner, way.to), boxes[i])

(* The pedometer, which takes a unit in one frame for a discontinuity      *)
(* (engine.rs:454-456), leaves no step out.                                *)
StepsAreCounted ==
  LET dx == way.to.x - way.from.x
      dz == way.to.z - way.from.z
  IN  dx * dx + dz * dz < 200 * 200

(* What a step of the player may do, wherever they are put and whatever is *)
(* streamed in between.                                                    *)
WalksKeepOut == IndexIsExact /\ WayIsClear /\ StepsAreCounted
=============================================================================
