-------------------------- MODULE MCFrameStreaming --------------------------
(***************************************************************************)
(* FrameStreaming on a row of chunks, one position per cell, each seeing   *)
(* its own chunk and the next; a fine payload needs more rows than a       *)
(* coarse one.                                                             *)
(***************************************************************************)
EXTENDS FrameStreaming, TLC

CONSTANTS Cells, IdCount

Cell == 1..Cells
CellAlone == [p \in Cell |-> {p}]
PairChunk == 1..(Cells + 1)
PairFootprint == [p \in Cell |-> <<p, p + 1>>]
PairNear == [p \in Cell |-> {p, p + 1}]
Ids == 1..IdCount
TwoLevels == {0, 34}
PayloadRows == (0 :> 2) @@ (1 :> 1)

(* Every back end with a source that answers on the spot, and the atlas    *)
(* patched by rows with workers; the session starts in Backrooms.          *)
PairedInit ==
  FrameInit /\ level = Backrooms /\ (background => backend = "rows")
PairedFrames == PairedInit /\ [][FrameNext]_allVars /\ FrameFairness
=============================================================================
