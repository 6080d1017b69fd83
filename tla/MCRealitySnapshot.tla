-------------------------- MODULE MCRealitySnapshot --------------------------
(***************************************************************************)
(* Two rooms and gates whose ids order differently by their halves, and    *)
(* cells on both sides of the origin.                                      *)
(***************************************************************************)
EXTENDS RealitySnapshot, TLC

Rooms == {18, 3}
GateIds == {5, 33, 20}
GateOwner == (5 :> 18) @@ (33 :> 18) @@ (20 :> 3)
GateKinds == (5 :> "threshold") @@ (33 :> "loop") @@ (20 :> "threshold")
GatesForward == (5 :> "positive") @@ (33 :> "negative") @@ (20 :> "negative")
GatePlanes == (5 :> 3) @@ (33 :> -2) @@ (20 :> -8)
GateAxes == (5 :> 0) @@ (33 :> 0) @@ (20 :> 1)
Cells == {<<-1, 20>>, <<-17, 0>>}
=============================================================================
