-------------------------- MODULE MCChunkStreaming --------------------------
(***************************************************************************)
(* Instances of ChunkStreaming for TLC, all on a row of chunks with one    *)
(* position per cell 1..Cells.                                             *)
(*                                                                         *)
(*   Solo: a footprint of one chunk: long histories of one chunk.          *)
(*   Pair: the position's own chunk and the next, both refinable.          *)
(***************************************************************************)
EXTENDS ChunkStreaming

CONSTANTS Cells, IdCount

Cell == 1..Cells
CellAlone == [p \in Cell |-> {p}]
SoloFootprint == [p \in Cell |-> <<p>>]

PairChunk == 1..(Cells + 1)
PairFootprint == [p \in Cell |-> <<p, p + 1>>]
PairNear == [p \in Cell |-> {p, p + 1}]

Ids == 1..IdCount
TwoLevels == {0, 34}
=============================================================================
