----------------------------- MODULE Transition -----------------------------
(* transition.js of bootstrap.js: how its controls wait for a CSS transition.*)
(* A handler registered with .one('bsTransitionEnd') on an element runs at   *)
(* the element's next end event, after which it is gone; all handlers of the *)
(* element run at the same event, in the order of their registration.        *)
(* emulateTransitionEnd makes sure that there is an event. So an action End  *)
(* of a control is enabled while handlers wait, and is weakly fair. Without  *)
(* $.support.transition a control runs its handler at once.                  *)

VARIABLE transition   \* $.support.transition

TransitionInit == transition \in BOOLEAN
=============================================================================
