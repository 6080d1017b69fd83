------------------------------ MODULE Governor ------------------------------
(***************************************************************************)
(* The internal-resolution governor, application/perf_governor.rs: it      *)
(* drops the scale while frames are slow, probes one step up while they    *)
(* are fast, and locks raises out for a while when a raise had to be taken *)
(* back.  The average of the frame times is left to the environment: in    *)
(* each frame it is above the budget, below it or in between.              *)
(***************************************************************************)
EXTENDS Naturals

CONSTANTS Scales,        \* number of scales, the last is native resolution
          DropCooldown, RaiseCooldown, RaiseProbe, RaiseLockout  \* in frames

ASSUME GovernorAssumption ==
    /\ Scales \in Nat /\ Scales > 2
    /\ {DropCooldown, RaiseCooldown, RaiseProbe, RaiseLockout} \subseteq Nat \ {0}
    /\ RaiseProbe <= RaiseLockout

VARIABLES governor,   \* PerfGovernor, its counters of frames capped
          raisedAgo   \* history: frames since the raise from each scale, capped

governorVars == <<governor, raisedAgo>>
Steps == 0..(Scales - 2)

Down(n) == IF n = 0 THEN 0 ELSE n - 1
Up(n) == IF n < RaiseProbe THEN n + 1 ELSE n

NewGovernor == [scale |-> Scales - 2, cooldown |-> 0,
                sinceRaise |-> RaiseProbe, lockout |-> 0]

\* Every counter advances, also in the frames of a cooldown.
Advanced(g) == [g EXCEPT !.sinceRaise = Up(@), !.lockout = Down(@)]

\* Mutant: a drop does not blame the raise before it.
DroppedBlameless(g) ==
    [g EXCEPT !.scale = @ - 1, !.cooldown = DropCooldown]

\* A drop soon after a raise means that the raise failed.
Dropped(g) ==
    [g EXCEPT !.scale = @ - 1, !.cooldown = DropCooldown,
              !.lockout = IF g.sinceRaise < RaiseProbe THEN RaiseLockout ELSE @]

Raised(g) ==
    [g EXCEPT !.scale = @ + 1, !.cooldown = RaiseCooldown, !.sinceRaise = 0]

Update(g, load) ==
    IF g.cooldown > 0 THEN [g EXCEPT !.cooldown = @ - 1]
    ELSE IF load = "over" /\ g.scale > 0 THEN Dropped(g)
    ELSE IF load = "under" /\ g.scale < Scales - 1 /\ g.lockout = 0
    THEN Raised(g) ELSE g

GovernorInit == governor = NewGovernor /\ raisedAgo = [s \in Steps |-> RaiseProbe]

GovernorFrame ==
    \E load \in {"over", "between", "under"} :
    \E g \in {Update(Advanced(governor), load)} :
        /\ governor' = g
        /\ raisedAgo' = [s \in Steps |->
               IF s = governor.scale /\ g.scale > s THEN 0 ELSE Up(raisedAgo[s])]

-----------------------------------------------------------------------------
\* The scale does not flap: however the load swings, the same step up is not
\* taken twice within the probe time, whether the first raise was taken back
\* at once, later, or after a further one.
RaisesAreApart ==
    [][\A s \in Steps :
          governor.scale = s /\ governor'.scale = s + 1 =>
              raisedAgo[s] + 1 >= RaiseProbe]_governorVars
=============================================================================
