---------------------------- MODULE SuiteInterior ----------------------------
(***************************************************************************)
(* The inside of one suite (suites.rs): the envelope is divided along its  *)
(* longer side again and again, an automaton then takes some partitions    *)
(* out, and every partition that stays gets a door at its middle.  The     *)
(* recursion is a stack here, and what is hashed is chosen.                *)
(*                                                                         *)
(* A unit is 0.2 u, half a step of the plan lattice and one fine voxel.    *)
(***************************************************************************)
EXTENDS Integers, Sequences, FiniteSets

CONSTANTS
  Outlines,   \* footprints of the suites, as boxes
  Rules       \* SubdivisionRules: [target, depth]

DoorWidth == 6    \* DOOR_WIDTH
HalfWall == 1     \* half of PLAN_WALL_T
BodyWidth == 4    \* voxels a body of PLAYER_RADIUS needs side by side

Box == [x0 : Int, z0 : Int, x1 : Int, z1 : Int]

ASSUME InteriorAssumption ==
  /\ Outlines \subseteq Box
  /\ \A r \in Rules : {r.target, r.depth} \subseteq Nat

VARIABLES
  outline, rule,
  pending,      \* stack of the boxes still to divide, with their depth
  leaves,       \* boxes that stay whole
  partitions,   \* sequence of the walls between the others
  retained,     \* automaton: the walls that stay
  phase

interiorVars == <<outline, rule, pending, leaves, partitions, retained, phase>>

Length(b) == IF b.x1 - b.x0 >= b.z1 - b.z0 THEN b.x1 - b.x0 ELSE b.z1 - b.z0
AlongX(b) == b.x1 - b.x0 >= b.z1 - b.z0

\* Where a span may be split: at its middle give or take 8 %, on the lattice.
Splits(span) == {s \in 0..span : s % 2 = 0 /\ 42 * span - 100 <= 100 * s /\ 100 * s <= 58 * span + 100}

TooSmall(b, s) == s < rule.target \/ Length(b) - s < rule.target

\* The box before the split, the box after it and the wall between them.
First(b, s) == IF AlongX(b) THEN [b EXCEPT !.x1 = b.x0 + s] ELSE [b EXCEPT !.z1 = b.z0 + s]

(* Mutant: the plane of the split is taken from the origin.                *)
SecondFromOrigin(b, s) == IF AlongX(b) THEN [b EXCEPT !.x0 = s] ELSE [b EXCEPT !.z0 = s]

Second(b, s) == IF AlongX(b) THEN [b EXCEPT !.x0 = b.x0 + s] ELSE [b EXCEPT !.z0 = b.z0 + s]

Wall(b, s) ==
  IF AlongX(b) THEN [b EXCEPT !.x0 = b.x0 + s, !.x1 = b.x0 + s]
               ELSE [b EXCEPT !.z0 = b.z0 + s, !.z1 = b.z0 + s]

InteriorInit ==
  /\ outline \in Outlines /\ rule \in Rules
  /\ pending = <<[box |-> outline, depth |-> 0]>>
  /\ leaves = {}
  /\ partitions = <<>> /\ retained = <<>>
  /\ phase = "divide"

(* subdivide_space() on the box on top of the stack.                       *)
Top == pending[Len(pending)]
Rest == SubSeq(pending, 1, Len(pending) - 1)

MayDivide == Top.depth < rule.depth /\ 100 * Length(Top.box) >= 205 * rule.target

KeepWhole ==
  /\ phase = "divide" /\ pending # <<>>
  /\ MayDivide => \E s \in Splits(Length(Top.box)) : TooSmall(Top.box, s)
  /\ leaves' = leaves \cup {Top.box}
  /\ pending' = Rest
  /\ UNCHANGED <<outline, rule, partitions, retained, phase>>

Divide(s) ==
  /\ phase = "divide" /\ pending # <<>>
  /\ MayDivide /\ s \in Splits(Length(Top.box)) /\ ~TooSmall(Top.box, s)
  /\ partitions' = Append(partitions, Wall(Top.box, s))
  /\ pending' = Rest \o <<[box |-> Second(Top.box, s), depth |-> Top.depth + 1],
                          [box |-> First(Top.box, s), depth |-> Top.depth + 1]>>
  /\ UNCHANGED <<outline, rule, leaves, retained, phase>>

-----------------------------------------------------------------------------
(* evolve_partitions()                                                     *)

Walls == DOMAIN partitions
Upright(w) == w.x0 = w.x1
Ends(w) == {[x |-> w.x0, z |-> w.z0], [x |-> w.x1, z |-> w.z1]}
On(p, w) == p.x \in w.x0..w.x1 /\ p.z \in w.z0..w.z1
Touch(v, w) == (\E p \in Ends(v) : On(p, w)) \/ (\E p \in Ends(w) : On(p, v))

Standing(k) == {j \in Walls \ {k} : retained[j] /\ Touch(partitions[k], partitions[j])}

Seed ==
  /\ phase = "divide" /\ pending = <<>>
  /\ retained' \in [Walls -> BOOLEAN]
  /\ phase' = "age"
  /\ UNCHANGED <<outline, rule, pending, leaves, partitions>>

AgeTo(next) ==
  /\ retained' = [k \in Walls |-> IF retained[k] THEN Cardinality(Standing(k)) <= 3
                                                ELSE Cardinality(Standing(k)) = 2]
  /\ phase' = next
  /\ UNCHANGED <<outline, rule, pending, leaves, partitions>>

AgeOnce == phase = "age" /\ AgeTo("age again")
AgeTwice == phase = "age again" /\ AgeTo("settle")

\* One wall is kept if none would be.
Settle ==
  /\ phase = "settle" /\ phase' = "done"
  /\ \/ /\ \/ Walls = {}
           \/ \E k \in Walls : retained[k]
        /\ UNCHANGED retained
     \/ /\ \A k \in Walls : ~retained[k]
        /\ \E k \in Walls : retained' = [retained EXCEPT ![k] = TRUE]
  /\ UNCHANGED <<outline, rule, pending, leaves, partitions>>

InteriorNext ==
  \/ KeepWhole
  \/ \E s \in 0..Length(outline) : Divide(s)
  \/ Seed \/ AgeOnce \/ AgeTwice \/ Settle

InteriorSpec == InteriorInit /\ [][InteriorNext]_interiorVars

-----------------------------------------------------------------------------
Pieces == leaves \cup {pending[i].box : i \in DOMAIN pending}

\* The unit square at (x, z) belongs to the box.
In(b, x, z) == b.x0 <= x /\ x < b.x1 /\ b.z0 <= z /\ z < b.z1

(* The rooms tile their suite: wherever two of the lines they are bounded  *)
(* by cross, exactly one of them has the square there.                     *)
RoomsTile ==
  LET xs == UNION {{b.x0, b.x1} : b \in Pieces \cup {outline}}
      zs == UNION {{b.z0, b.z1} : b \in Pieces \cup {outline}}
      Holders(x, z) == {b \in Pieces : In(b, x, z)}
  IN  \A x \in xs, z \in zs :
        IF In(outline, x, z) THEN \E b \in Pieces : Holders(x, z) = {b}
                             ELSE Holders(x, z) = {}

\* The voxel at c along the wall k is filled by another wall that stays.
Filled(k, c) ==
  \E j \in Standing(k) :
    LET w == partitions[j]
        v == IF Upright(partitions[k]) THEN w.z0 ELSE w.x0
    IN  Upright(w) # Upright(partitions[k]) /\ v - HalfWall <= c /\ c < v + HalfWall

(* mod.rs:33-36: doorways are sized so that the opening is "wider than the *)
(* player capsule", and every partition that stays has one.  The walls     *)
(* that end at a partition may end in its doorway.                         *)
DoorsAreClear ==
  phase = "done" =>
    \A k \in Walls : retained[k] =>
      LET w == partitions[k]
          middle == IF Upright(w) THEN (w.z0 + w.z1) \div 2 ELSE (w.x0 + w.x1) \div 2
      IN  \E c \in (middle - DoorWidth \div 2)..(middle + DoorWidth \div 2 - BodyWidth) :
            \A i \in 0..(BodyWidth - 1) : ~Filled(k, c + i)
=============================================================================
