------------------------------- MODULE Session -------------------------------
(***************************************************************************)
(* The browser session between the player's hands and the engine: DOM      *)
(* events of keyboard, pointer lock and touch arrive between two animation *)
(* frames and are folded by InputCollector into one InputFrame per tick.   *)
(* Modelled from wasm_frontend/src/adapters/input.rs,                      *)
(* drivers/browser/input_bindings.rs and the frame loop of                 *)
(* drivers/browser.rs.  Amounts of look are left out: a frame either turns *)
(* the view by mouse or finger or does not.  So is the flashlight, a       *)
(* toggle that nothing else reads or clears.                               *)
(***************************************************************************)
EXTENDS Naturals, FiniteSets

CONSTANTS Keys,         \* codes of the keys the keyboard has
          Fingers,      \* touch identifiers, which browsers reuse
          Buttons,      \* acts the page has a touch button for
          Deflections,  \* positions of the joystick, as sets of directions
          None          \* no finger

Walking == {"forward", "backward", "left", "right"}
Turning == {"turn_left", "turn_right"}
Directions == Walking \cup Turning
Acts == {"flare", "drink", "eat", "look"}
Spots == {"left", "right"}

ASSUME SessionAssumption ==
    /\ None \notin Fingers
    /\ Buttons \subseteq Acts
    /\ Deflections \subseteq SUBSET Walking

VARIABLES down,         \* keys that are physically held
          finger,       \* where on the canvas a finger went down, or "up"
          pointer,      \* the browser has locked the pointer
          asking,       \* a lock was requested and is not granted yet
          notice,       \* a pointerlockchange event waits to be dispatched
          doom,         \* DOOM_CONTROLS
          input,        \* InputCollector
          touch,        \* TouchState
          overlay,      \* the overlay is displayed
          frame,        \* what the engine was last ticked to do
          asked,        \* history: acts pressed in play since that frame
          unseen,       \* history: acts whose key was released unseen
          orphans,      \* history: directions whose release went unseen
          abandoned     \* history: fingers bound when touch play was left

page == <<pointer, asking, notice, overlay>>
history == <<asked, unseen, orphans, abandoned>>
vars == <<down, finger, page, doom, input, touch, frame, history>>

\* The act a key triggers, for keys that trigger one.
ActOf == [KeyG |-> "flare", KeyR |-> "drink", KeyT |-> "eat"]
Triggers(code) == IF code \in DOMAIN ActOf THEN {ActOf[code]} ELSE {}

\* The direction a key steers in; the doom controls swap turning and strafing.
Common == [KeyW |-> "forward", ArrowUp |-> "forward",
           KeyS |-> "backward", ArrowDown |-> "backward"]
Modern == [KeyA |-> "left", ArrowLeft |-> "left",
           KeyD |-> "right", ArrowRight |-> "right",
           KeyQ |-> "turn_left", KeyE |-> "turn_right"]
Doom == [KeyQ |-> "left", KeyE |-> "right",
         KeyA |-> "turn_left", ArrowLeft |-> "turn_left",
         KeyD |-> "turn_right", ArrowRight |-> "turn_right"]
Swapped(d) == IF d THEN Doom ELSE Modern
Steers(code, d) ==
    IF code \in DOMAIN Common THEN {Common[code]}
    ELSE IF code \in DOMAIN Swapped(d) THEN {Swapped(d)[code]} ELSE {}
SteeredBy(codes) == UNION {Steers(code, doom) : code \in codes}

-----------------------------------------------------------------------------
(* InputCollector *)

NewCollector == [intent |-> {}, locked |-> FALSE, queued |-> {}, held |-> {}]

\* An act fires on the edge of its key and in play only; a movement key sets
\* or clears its direction whether in play or not.
KeyEvent(in, code, pressed) ==
    [in EXCEPT
       !.queued = @ \cup (IF pressed /\ in.locked
                          THEN Triggers(code) \ in.held ELSE {}),
       !.held = IF pressed THEN @ \cup Triggers(code) ELSE @ \ Triggers(code),
       !.intent = IF pressed THEN @ \cup Steers(code, doom)
                             ELSE @ \ Steers(code, doom)]

SetMoveAxes(in, directions) ==
    [in EXCEPT !.intent = (@ \cap Turning) \cup directions]

\* queue_flare, queue_drink and queue_eat, and a mouse_delta of any amount.
Queue(in, act) ==
    [in EXCEPT !.queued = IF in.locked THEN @ \cup {act} ELSE @]

\* Mutant: releasing the pointer clears what is pending, not what is held.
SetLockedKeepsIntent(in, locked) ==
    IF locked THEN [in EXCEPT !.locked = TRUE]
    ELSE [in EXCEPT !.locked = FALSE, !.queued = {}]

SetLocked(in, locked) ==
    IF locked THEN [in EXCEPT !.locked = TRUE]
    ELSE [in EXCEPT !.locked = FALSE, !.intent = {}, !.queued = {}]

\* Mutant: a frame leaves the queue as it is.
TakeFrameKeepsQueue(in) == in

\* take_frame drains what is pending; directions stay until the key goes up.
TakeFrame(in) == [in EXCEPT !.queued = {}]

\* What the engine does with a frame: it turns the view and drops flares in
\* play only, and consumes whenever it is told to.
FrameOf(in) == IF in.locked THEN in.queued ELSE in.queued \ {"flare", "look"}

-----------------------------------------------------------------------------
Init ==
    /\ down = {} /\ finger = [f \in Fingers |-> "up"]
    /\ pointer = FALSE /\ asking = FALSE /\ notice = FALSE /\ overlay = TRUE
    /\ doom = FALSE
    /\ input = NewCollector
    /\ touch = [active |-> FALSE, move |-> None, look |-> None]
    /\ frame = {}
    /\ asked = {} /\ unseen = {} /\ orphans = {} /\ abandoned = {}

\* A key goes down.  Repeats the browser sends are ignored by the listener.
KeyDown(code) ==
    /\ code \notin down
    /\ down' = down \cup {code}
    /\ input' = KeyEvent(input, code, TRUE)
    /\ asked' = IF input.locked THEN asked \cup (Triggers(code) \ unseen)
                ELSE asked
    /\ UNCHANGED <<finger, page, doom, touch, frame, unseen, orphans, abandoned>>

KeyUp(code) ==
    /\ code \in down
    /\ down' = down \ {code}
    /\ input' = KeyEvent(input, code, FALSE)
    /\ unseen' = unseen \ Triggers(code)
    /\ UNCHANGED <<finger, page, doom, touch, frame, asked, orphans, abandoned>>

\* The window loses the focus with keys held: no listener sees them go up.
\* The browser gives the pointer back and says so.
LoseFocus ==
    /\ down # {} \/ pointer
    /\ down' = {}
    /\ unseen' = unseen \cup UNION {Triggers(code) : code \in down}
    /\ orphans' = orphans \cup (input.intent \cap SteeredBy(down))
    /\ notice' = (notice \/ pointer)
    /\ pointer' = FALSE /\ asking' = FALSE
    /\ UNCHANGED <<finger, doom, input, touch, overlay, frame, asked, abandoned>>

\* The settings menu changes the key mapping, whatever is held.
SetDoomControls ==
    /\ doom' = ~doom
    /\ orphans' = orphans \cup (input.intent \cap SteeredBy(down))
    /\ UNCHANGED <<down, finger, page, input, touch, frame,
                   asked, unseen, abandoned>>

\* The pointer moves: looked at in play, dropped otherwise.
MouseMove ==
    /\ input' = Queue(input, "look")
    /\ asked' = IF input.locked THEN asked \cup {"look"} ELSE asked
    /\ UNCHANGED <<down, finger, page, doom, touch, frame, unseen, orphans,
                   abandoned>>

-----------------------------------------------------------------------------
(* Pointer lock *)

ClickOverlay ==
    /\ overlay /\ ~pointer
    /\ asking' = TRUE
    /\ UNCHANGED <<down, finger, pointer, notice, overlay, doom, input, touch,
                   frame, history>>

GrantLock ==
    /\ asking
    /\ asking' = FALSE /\ pointer' = TRUE /\ notice' = TRUE
    /\ UNCHANGED <<down, finger, overlay, doom, input, touch, frame, history>>

PressEscape ==
    /\ pointer
    /\ pointer' = FALSE /\ notice' = TRUE
    /\ UNCHANGED <<down, finger, asking, overlay, doom, input, touch, frame,
                   history>>

\* What play leaves behind when the session stops taking input.
Leave(locked) ==
    /\ asked' = IF locked THEN asked ELSE {}
    /\ orphans' = IF locked THEN orphans ELSE {}

\* Mutant: every change of the pointer is taken for the next one in turn.
PointerLockChangeToggles ==
    /\ notice
    /\ notice' = FALSE
    /\ \/ /\ touch.active
          /\ UNCHANGED <<input, overlay, asked, orphans>>
       \/ /\ ~touch.active
          /\ input' = SetLocked(input, ~input.locked)
          /\ overlay' = ~input'.locked
          /\ Leave(input'.locked)
    /\ UNCHANGED <<down, finger, pointer, asking, doom, touch, frame, unseen,
                   abandoned>>

\* The listener reads the state of the pointer when it runs; a touch session
\* owns the overlay and the collector as long as it lasts.
PointerLockChange ==
    /\ notice
    /\ notice' = FALSE
    /\ \/ /\ touch.active
          /\ UNCHANGED <<input, overlay, asked, orphans>>
       \/ /\ ~touch.active
          /\ input' = SetLocked(input, pointer)
          /\ overlay' = ~pointer
          /\ Leave(pointer)
    /\ UNCHANGED <<down, finger, pointer, asking, doom, touch, frame, unseen,
                   abandoned>>

-----------------------------------------------------------------------------
(* Touch play *)

\* set_touch_play(true): a tap on the overlay.
TapOverlay ==
    /\ overlay /\ ~pointer
    /\ touch' = [touch EXCEPT !.active = TRUE]
    /\ input' = SetLocked(input, TRUE)
    /\ overlay' = FALSE
    /\ UNCHANGED <<down, finger, pointer, asking, notice, doom, frame, history>>

\* set_touch_play(false): the menu button of touch play.
TapMenu ==
    /\ touch.active
    /\ touch' = [touch EXCEPT !.active = FALSE]
    /\ input' = SetMoveAxes(SetLocked(input, FALSE), {})
    /\ overlay' = TRUE
    /\ Leave(FALSE)
    /\ abandoned' = {touch.move, touch.look} \ {None}
    /\ UNCHANGED <<down, finger, pointer, asking, notice, doom, frame, unseen>>

TapButton(act) ==
    /\ touch.active
    /\ input' = Queue(input, act)
    /\ asked' = IF input.locked THEN asked \cup {act} ELSE asked
    /\ UNCHANGED <<down, finger, page, doom, touch, frame, unseen, orphans,
                   abandoned>>

\* The first finger on the left side becomes the joystick, any other the look
\* surface; touches outside touch play are ignored.
Bound(f, spot) ==
    IF spot = "left" /\ touch.move = None THEN [touch EXCEPT !.move = f]
    ELSE IF touch.look = None THEN [touch EXCEPT !.look = f] ELSE touch

TouchStart(f, spot) ==
    /\ ~overlay /\ finger[f] = "up"
    /\ finger' = [finger EXCEPT ![f] = spot]
    /\ touch' = IF touch.active THEN Bound(f, spot) ELSE touch
    /\ UNCHANGED <<down, page, doom, input, frame, history>>

TouchMove(f) ==
    /\ touch.active /\ finger[f] # "up"
    /\ \/ /\ touch.move = f
          /\ \E directions \in Deflections :
                input' = SetMoveAxes(input, directions)
          /\ UNCHANGED asked
       \/ /\ touch.move # f /\ touch.look = f
          /\ input' = Queue(input, "look")
          /\ asked' = IF input.locked THEN asked \cup {"look"} ELSE asked
    /\ UNCHANGED <<down, finger, page, doom, touch, frame, unseen, orphans,
                   abandoned>>

\* Mutant: a finger that is lifted keeps the joystick.
ReleasedLookOnly(f) ==
    IF touch.look = f THEN [touch EXCEPT !.look = None] ELSE touch

\* touchend and touchcancel, which go to the canvas the touch began on.
Released(f) ==
    IF touch.move = f THEN [touch EXCEPT !.move = None]
    ELSE IF touch.look = f THEN [touch EXCEPT !.look = None] ELSE touch

TouchEnd(f) ==
    /\ finger[f] # "up"
    /\ finger' = [finger EXCEPT ![f] = "up"]
    /\ \/ /\ touch.active
          /\ touch' = Released(f)
          /\ input' = IF touch.move = f THEN SetMoveAxes(input, {}) ELSE input
          /\ abandoned' = IF f \in {touch'.move, touch'.look}
                          THEN abandoned ELSE abandoned \ {f}
       \/ /\ ~touch.active
          /\ UNCHANGED <<touch, input, abandoned>>
    /\ UNCHANGED <<down, page, doom, frame, asked, unseen, orphans>>

-----------------------------------------------------------------------------
\* One animation frame: the collector is drained and the engine ticked.
Frame ==
    /\ frame' = FrameOf(input)
    /\ input' = TakeFrame(input)
    /\ asked' = {}
    /\ UNCHANGED <<down, finger, page, doom, touch, unseen, orphans, abandoned>>

Next ==
    \/ \E code \in Keys : KeyDown(code) \/ KeyUp(code)
    \/ LoseFocus \/ SetDoomControls \/ MouseMove
    \/ ClickOverlay \/ GrantLock \/ PressEscape \/ PointerLockChange
    \/ TapOverlay \/ TapMenu
    \/ \E act \in Buttons : TapButton(act)
    \/ \E f \in Fingers : \/ \E spot \in Spots : TouchStart(f, spot)
                          \/ TouchMove(f) \/ TouchEnd(f)
    \/ Frame

Spec == Init /\ [][Next]_vars

-----------------------------------------------------------------------------
\* What the page, the collector and the touch state can hold: the queue holds
\* acts, whichever key, button or finger asked for them.
TypeOK ==
    /\ down \in SUBSET Keys
    /\ finger \in [Fingers -> {"up"} \cup Spots]
    /\ pointer \in BOOLEAN /\ asking \in BOOLEAN /\ notice \in BOOLEAN
    /\ overlay \in BOOLEAN /\ doom \in BOOLEAN
    /\ input \in [intent : SUBSET Directions, locked : BOOLEAN,
                  queued : SUBSET Acts, held : SUBSET Acts]
    /\ touch \in [active : BOOLEAN, move : Fingers \cup {None},
                  look : Fingers \cup {None}]
    /\ frame \in SUBSET Acts
    /\ asked \in SUBSET Acts /\ unseen \in SUBSET Acts
    /\ orphans \in SUBSET Directions /\ abandoned \in SUBSET Fingers

\* Each press of an act's key or button in play makes the engine perform that
\* act exactly once, in the next frame; a press before a pause is not acted on
\* after it.  The one press that is swallowed is the first one of a key whose
\* release went to another window (the key still counts as held).
PressesAreActs == [][Frame => frame' = asked]_vars

\* Nothing walks by itself: a direction is steered by a key that is down, a
\* walk in touch play by the joystick finger, or either by a key whose release
\* no listener of the current mapping saw since play was last left.
NoGhostWalk ==
    input.intent \subseteq
        SteeredBy(down) \cup orphans \cup
        (IF touch.active /\ touch.move # None /\ finger[touch.move] # "up"
         THEN Walking ELSE {})

\* In play without touch the pointer is captured, but for the event that says
\* it no longer is; two kinds of session share one collector and one overlay,
\* and the overlay always shows whether the collector is in play.
PlayNeedsCapture ==
    /\ overlay = ~input.locked
    /\ input.locked /\ ~touch.active /\ ~notice => pointer

\* In touch play the joystick is a finger that went down on the left side and
\* is still there, and the look surface is one that is still there, unless
\* touch play was left with that finger down.
FingersHaveOneJob ==
    touch.active =>
        /\ touch.move \notin abandoned \cup {None} => finger[touch.move] = "left"
        /\ touch.look \notin abandoned \cup {None} => finger[touch.look] # "up"
=============================================================================
