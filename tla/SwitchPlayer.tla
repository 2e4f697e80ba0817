---------------------------- MODULE SwitchPlayer ----------------------------
(***************************************************************************)
(* SwitchPlayer: a circle that is tapped or dragged to the right to start  *)
(* an episode and tapped to stop it.                                       *)
(*                                                                         *)
(* The circle's place is the constant of its left constraint.  A drag is   *)
(* followed by its translation, so it starts again from 0 wherever the     *)
(* circle stands.  The fonts, the shadows, the blur, the text's place and  *)
(* the pause picture change together in active(action:): `paused' is TRUE  *)
(* while the pause picture is shown.                                       *)
(***************************************************************************)
EXTENDS Naturals

CONSTANTS
    Switches,              \* the instances
    marginContainerImage,  \* the circle's place on the left
    xEndingPoint,          \* its place on the right
    reach,                 \* 45: so far from the right a drag counts as done
    Cancels                \* the switches on which UIKit may cancel a drag

ASSUME SwitchAssumption ==
    /\ marginContainerImage \in Nat
    /\ xEndingPoint \in Nat
    /\ marginContainerImage < xEndingPoint
    /\ reach \in 0 .. xEndingPoint
    /\ Cancels \subseteq Switches

VARIABLES isFinished, circle, dimmed, paused, panning

switchVars == <<isFinished, circle, dimmed, paused, panning>>

SwitchTypeOK ==
    /\ isFinished \in [Switches -> BOOLEAN]
    /\ circle \in [Switches -> marginContainerImage .. xEndingPoint]
    /\ dimmed \in [Switches -> BOOLEAN]
    /\ paused \in [Switches -> BOOLEAN]
    /\ panning \in [Switches -> BOOLEAN]

\* setup()
SwitchInit ==
    /\ isFinished = [w \in Switches |-> FALSE]
    /\ circle = [w \in Switches |-> marginContainerImage]
    /\ dimmed = [w \in Switches |-> FALSE]
    /\ paused = [w \in Switches |-> FALSE]
    /\ panning = [w \in Switches |-> FALSE]

Place(w, x) == circle' = [circle EXCEPT ![w] = x]

\* active(action:), with reset() when the switch goes off.
Active(w, finished) ==
    /\ isFinished' = [isFinished EXCEPT ![w] = finished]
    /\ dimmed' = [dimmed EXCEPT ![w] = FALSE]
    /\ paused' = [paused EXCEPT ![w] = finished]
    /\ Place(w, IF finished THEN xEndingPoint ELSE marginContainerImage)

\* imageTapped: a tap is not recognised during a drag.
ImageTapped(w) ==
    /\ ~panning[w]
    /\ Active(w, ~isFinished[w])
    /\ UNCHANGED panning

\* The state .began reaches the default branch.
PanBegan(w) ==
    /\ ~panning[w]
    /\ panning' = [panning EXCEPT ![w] = TRUE]
    /\ UNCHANGED <<isFinished, circle, dimmed, paused>>

\* Mutant of PanChanged: the circle follows past the right end.
PanChangedUnclamped(w, x) ==
    /\ panning[w]
    /\ ~isFinished[w]
    /\ Place(w, IF x <= marginContainerImage THEN marginContainerImage ELSE x)
    /\ dimmed' = [dimmed EXCEPT ![w] = TRUE]
    /\ UNCHANGED <<isFinished, paused, panning>>

\* handlePanGesture, .changed: the circle follows between its two places.
PanChanged(w, x) ==
    /\ panning[w]
    /\ ~isFinished[w]
    /\ \/ x <= marginContainerImage /\ Place(w, marginContainerImage) /\ UNCHANGED dimmed
       \/ x >= xEndingPoint /\ Place(w, xEndingPoint) /\ UNCHANGED dimmed
       \/ /\ marginContainerImage < x /\ x < xEndingPoint
          /\ Place(w, x)
          /\ dimmed' = [dimmed EXCEPT ![w] = TRUE]
    /\ UNCHANGED <<isFinished, paused, panning>>

\* reset(), the circle goes back.
Reset(w) ==
    /\ isFinished' = [isFinished EXCEPT ![w] = FALSE]
    /\ Place(w, marginContainerImage)
    /\ dimmed' = [dimmed EXCEPT ![w] = FALSE]
    /\ UNCHANGED paused

\* Mutant of PanEnded: without the early return of a finished switch.
PanEndedAlways(w, x) ==
    /\ panning[w]
    /\ panning' = [panning EXCEPT ![w] = FALSE]
    /\ IF x + reach >= xEndingPoint THEN Active(w, TRUE) ELSE Reset(w)

\* Mutant of PanEnded: a drag that is too short leaves the circle where it is.
PanEndedStays(w, x) ==
    /\ panning[w]
    /\ panning' = [panning EXCEPT ![w] = FALSE]
    /\ IF x + reach >= xEndingPoint /\ ~isFinished[w]
       THEN Active(w, TRUE)
       ELSE UNCHANGED <<isFinished, circle, dimmed, paused>>

\* handlePanGesture, .ended.
PanEnded(w, x) ==
    /\ panning[w]
    /\ panning' = [panning EXCEPT ![w] = FALSE]
    /\ \/ isFinished[w] /\ UNCHANGED <<isFinished, circle, dimmed, paused>>
       \/ ~isFinished[w] /\ x + reach >= xEndingPoint /\ Active(w, TRUE)
       \/ ~isFinished[w] /\ x + reach < xEndingPoint /\ Reset(w)

\* The state .cancelled reaches the default branch: the circle stays.
PanCancelled(w) ==
    /\ w \in Cancels
    /\ panning[w]
    /\ panning' = [panning EXCEPT ![w] = FALSE]
    /\ UNCHANGED <<isFinished, circle, dimmed, paused>>

SwitchNext ==
    \E w \in Switches :
        \/ ImageTapped(w)
        \/ PanBegan(w)
        \/ PanCancelled(w)
        \/ \E x \in 0 .. xEndingPoint + 1 : PanChanged(w, x) \/ PanEnded(w, x)

------------------------------------------------------------------------------
\* Properties

\* The pause picture is shown exactly while the switch is on, whatever was tapped,
\* dragged and cancelled: handlePanGesture may not touch a switch that is on.
SwitchShowsState == \A w \in Switches : paused[w] = isFinished[w]

\* Without a drag under way, the circle stands at the end that belongs to the
\* state of the switch and the text is not dimmed, unless UIKit cancelled a drag.
SwitchAtRest ==
    \A w \in Switches :
        w \notin Cancels /\ ~panning[w] =>
            /\ circle[w] = IF isFinished[w] THEN xEndingPoint ELSE marginContainerImage
            /\ ~dimmed[w]
==============================================================================
