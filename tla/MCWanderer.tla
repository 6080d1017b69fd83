----------------------------- MODULE MCWanderer -----------------------------
(***************************************************************************)
(* Instance of Wanderer for TLC: three places in a row. One version of the *)
(* Backrooms has a pit at the bend, whose recovery is the hall, where a    *)
(* wall stands once the chunk is fine; the other has its pit in the hall,  *)
(* and the recovery, the bend, is in its own wall. The door of Level 1 is  *)
(* in the hall or where the wanderer arrives, by the version, and the      *)
(* grassland has a rock where the Backrooms have their hall, on which the  *)
(* dead wake.                                                              *)
(***************************************************************************)
EXTENDS Wanderer

Corridor == {"spawn", "hall", "bend"}
CorridorNear == [spawn |-> {"hall"}, hall |-> {"spawn", "bend"}, bend |-> {"hall"}]
CorridorSpawn == [l \in Levels |-> IF l = Grassland THEN "hall" ELSE "spawn"]
CorridorWalls == [d \in Details |-> [l \in Levels |-> [v \in Versions |->
    CASE l = Backrooms -> IF v = 1 THEN {"bend"} ELSE IF d = Fine THEN {"hall"} ELSE {}
      [] l = Habitable -> {}
      [] l = Grassland -> {"hall"}]]]
CorridorPits == [v \in Versions |-> [p \in Places |->
    CASE v = 0 /\ p = "bend" -> "hall"
      [] v = 1 /\ p = "hall" -> "bend"
      [] OTHER -> None]]
Door(at, to, arrival) == [at |-> at, to |-> to, arrival |-> arrival]
CorridorDoors == [l \in Levels |-> [v \in Versions |->
    CASE l = Backrooms -> {Door(IF v = 0 THEN "hall" ELSE "spawn", Habitable, "spawn")}
      [] l = Habitable -> {Door("spawn", Backrooms, "spawn")}
      [] l = Grassland -> {}]]
CorridorThresholds == [v \in Versions |->
    IF v = 0 THEN {<<"spawn", "hall">>} ELSE {<<"hall", "bend">>}]
=============================================================================
