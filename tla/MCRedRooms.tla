----------------------------- MODULE MCRedRooms -----------------------------
(***************************************************************************)
(* Instances of RedRooms and WorldPlan for TLC, in three parts that share  *)
(* no state.  "worlds": a Red Room of                                      *)
(* the base level whose world holds a second Red Room, whose world holds a *)
(* third, on two chunks.  "loops": the reducer alone over many crossings,  *)
(* with the outer room and another one of the base level that also has a   *)
(* remap gate; chunks take no part in it.  "plan": where Red Rooms and     *)
(* anomalies are, as two regions have it.                                  *)
(***************************************************************************)
EXTENDS RedRooms, WorldPlan, TLC

CONSTANTS outer, inner, deepest, other, west, east,
          MaxWorldCrossings   \* bound on the crossings of "worlds"

VARIABLE part

Rooms == {outer, inner, deepest, other}
GateIds == 1..9
GateOwner == (1 :> outer) @@ (2 :> outer) @@ (3 :> inner) @@ (4 :> inner)
             @@ (5 :> deepest) @@ (6 :> deepest)
             @@ (7 :> other) @@ (8 :> other) @@ (9 :> other)
GateKinds == [g \in GateIds |-> CASE g = 9 -> "remap"
                                  [] g \in {1, 3, 5, 7} -> "threshold"
                                  [] OTHER -> "loop"]
GatesForward == [g \in GateIds |-> "positive"]
Homes == (outer :> Base) @@ (inner :> outer) @@ (deepest :> inner) @@ (other :> Base)
Places == (1 :> {west}) @@ (2 :> {west, east}) @@ (3 :> {east}) @@ (4 :> {east})
          @@ (5 :> {west}) @@ (6 :> {west, east})
          @@ (7 :> {}) @@ (8 :> {}) @@ (9 :> {})

\* Candidates in a square whose scores may tie, and a far one.
P(x, z) == [x |-> x, z |-> z]
Square == [x : -1..0, z : 0..1]
Candidates ==
  {[c \in D \cup {P(2, 0)} |-> IF c \in D THEN s[c] ELSE 1] :
     D \in SUBSET Square, s \in [Square -> {0, 1}]}

\* The smallest and the largest anomalies, in the middle of their cells and as
\* far from it as they get: an archway near the protected point, one of the kind
\* that may be forced there, and an expanse away from it.
Extreme(d, halfX, halfZ) == [dx |-> d, dz |-> -d, halfX |-> halfX, halfZ |-> halfZ, turned |-> d > 0]
Largest(d) == Extreme(d, MaxHalf, 2400)
Smallest == Extreme(0, 40, 80)
Hosts == (P(1, 0) :> "archway") @@ (P(0, -1) :> "pillars") @@ (P(8, 3) :> "pillars")

Event(score, tx, tz) ==
  [score |-> score, target |-> [c \in DOMAIN score |-> P(tx, tz)], family |-> [a \in {} |-> 0],
   shape |-> [a \in {} |-> 0], protected |-> P(60, 400), frequent |-> TRUE, forced |-> NotForced]
Anomalous(family, d, forced, protected, frequent) ==
  [score |-> [c \in {} |-> 0], target |-> [c \in {} |-> 0], family |-> family,
   shape |-> [a \in {P(0, 0), P(1, 0), P(0, -1), P(8, 3)} |->
               [kind \in AnomalyKinds |-> IF kind = "archway" THEN Smallest ELSE Largest(d)]],
   protected |-> protected, frequent |-> frequent, forced |-> forced]

ManyWorlds ==
  {Event(score, tx, 1 - tx) : score \in Candidates, tx \in {0, 1}}
    \cup {Anomalous([a \in D |-> Hosts[a]], d, forced, protected, frequent) :
            D \in SUBSET DOMAIN Hosts, d \in {-Jitter, 0, Jitter},
            forced \in {NotForced, "red room", "archway", "pits", "pillars"},
            protected \in {P(60, 400), P(1598, 801)}, frequent \in BOOLEAN}
ManyRegions ==
  {P(x, z) : x \in {-2, -1, 0, 1, 4, 5}, z \in 0..3}
    \cup {P(2, 0), P(3, 0), P(2, 1), P(12, 7), P(20, 10), P(20, 2), P(14, 2), P(17, 7)}

PartInit ==
  /\ RoomsInit /\ part \in {"worlds", "loops", "plan"} /\ latest \in {outer, other}
  /\ PlanInit
  /\ IF part = "plan" THEN latest = outer ELSE world = Event([c \in {P(2, 0)} |-> 1], 0, 1)

LoopsNext ==
  \/ \E g \in {1, 2, 7, 8, 9}, d \in Direction : CrossGate(g, d)
  \/ \E cells \in SUBSET Cell : AdvanceDrift(cells)
  \/ \E id \in Supply : Consume(id)
  \/ \E tier \in 0..MaxDelirium : ChangeDelirium(tier)

PartNext ==
  /\ UNCHANGED part
  /\ \/ part = "worlds" /\ RoomsNext /\ crossings' <= MaxWorldCrossings /\ UNCHANGED planVars
     \/ part = "loops" /\ LoopsNext /\ UNCHANGED <<streaming, planVars>>
     \/ part = "plan" /\ PlanNext /\ UNCHANGED roomVars

PartSpec == PartInit /\ [][PartNext]_<<roomVars, planVars, part>>
=============================================================================
