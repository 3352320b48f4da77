------------------------------ MODULE Tooltip ------------------------------
(* The tooltip of bootstrap.js, and the popover, which is one that a click   *)
(* toggles: events of the mouse and of the focus, delays, and transitions    *)
(* that go on while more events come. Where a tip is placed and what it says *)
(* are left out, and so are calls of the page's own.                         *)
EXTENDS Integers, Sequences, Transition

CONSTANT MaxHandlers   \* bound: handlers that wait for the end of a fade

ASSUME TooltipAssumption == MaxHandlers \in Nat \ {0}

VARIABLES
  triggers,    \* options.trigger
  delayed,     \* options.delay: of "show", of "hide"
  inState,     \* the triggers whose this.inState is true
  hoverState,  \* this.hoverState: "in", "out" or "null"
  timeout,     \* what this.timeout will do, "none" if it is not set
  fade,        \* the tip has class fade: it was shown once
  tipIn,       \* the tip has class in
  attached,    \* the tip is in the document
  fades,       \* handlers that wait on the tip, in their order
  bounced      \* history: the tip was wanted again while it faded out

tooltipVars == <<transition, triggers, delayed, inState, hoverState, timeout,
                 fade, tipIn, attached, fades, bounced>>
tipVars == <<hoverState, timeout, fade, tipIn, attached, fades, bounced>>

-----------------------------------------------------------------------------
(* What the handlers and calls make of the tip: t is the record of it.       *)

Tip == [hoverState |-> hoverState, timeout |-> timeout, fade |-> fade,
        tipIn |-> tipIn, attached |-> attached, fades |-> fades]

TipBecomes(t) ==
  /\ hoverState' = t.hoverState /\ timeout' = t.timeout
  /\ fade' = t.fade /\ tipIn' = t.tipIn
  /\ attached' = t.attached /\ fades' = t.fades

\* hide()'s complete: the tip is detached unless it is wanted again.
HiddenComplete(t) == [t EXCEPT !.attached = @ /\ t.hoverState = "in"]

\* hide(). A tip that was never shown has no fade to wait for.
HideTip(t) ==
  LET out == [t EXCEPT !.tipIn = FALSE] IN
  [IF transition /\ t.fade THEN [out EXCEPT !.fades = Append(@, "hidden")]
   ELSE HiddenComplete(out)
     EXCEPT !.hoverState = "null"]

\* Mutant: the state is left "in", so that the timer does nothing.
LeaveTipStaysIn(t) ==
  LET out == [t EXCEPT !.timeout = "none"] IN
  IF "hide" \in delayed THEN [out EXCEPT !.timeout = "hide"] ELSE HideTip(out)

\* leave(), when no trigger holds the tip any more.
LeaveTip(t) ==
  LET out == [t EXCEPT !.hoverState = "out", !.timeout = "none"] IN
  IF "hide" \in delayed THEN [out EXCEPT !.timeout = "hide"] ELSE HideTip(out)

\* Mutant: a leave that came during the fade is not made up for.
ShownCompleteForgets(t, held) == [t EXCEPT !.hoverState = "null"]

\* show()'s complete: it makes up for a leave that came during the fade.
ShownComplete(t, held) ==
  LET shown == [t EXCEPT !.hoverState = "null"] IN
  IF t.hoverState = "out" /\ ~held THEN LeaveTip(shown) ELSE shown

\* show().
ShowTip(t, held) ==
  LET in == [t EXCEPT !.fade = TRUE, !.tipIn = TRUE, !.attached = TRUE] IN
  IF transition THEN [in EXCEPT !.fades = Append(@, "shown")] ELSE ShownComplete(in, held)

\* enter(): nothing more if the tip is there or about to be.
EnterTip(t) ==
  IF t.tipIn \/ t.hoverState = "in" THEN [t EXCEPT !.hoverState = "in"]
  ELSE LET in == [t EXCEPT !.hoverState = "in", !.timeout = "none"] IN
       IF "show" \in delayed THEN [in EXCEPT !.timeout = "show"] ELSE ShowTip(in, TRUE)

\* History: a step from Tip to t enters the tip again in the middle of a fade.
Bounces(t) ==
  bounced' = (bounced \/ (fades # <<>> /\ ~tipIn /\ hoverState # "in" /\ t.hoverState = "in"))

-----------------------------------------------------------------------------
\* mouseenter, focusin; mouseleave, focusout.
Enter(trigger) ==
  /\ trigger \in triggers \ {"click"} /\ trigger \notin inState
  /\ Len(fades) < MaxHandlers
  /\ inState' = inState \cup {trigger}
  /\ TipBecomes(EnterTip(Tip)) /\ Bounces(EnterTip(Tip))
  /\ UNCHANGED <<transition, triggers, delayed>>

Leave(trigger) ==
  /\ trigger \in inState \ {"click"}
  /\ Len(fades) < MaxHandlers
  /\ inState' = inState \ {trigger}
  /\ IF inState' # {} THEN UNCHANGED tipVars
     ELSE TipBecomes(LeaveTip(Tip)) /\ bounced' = bounced
  /\ UNCHANGED <<transition, triggers, delayed>>

\* toggle(e), of a click.
ClickTip ==
  /\ "click" \in triggers
  /\ Len(fades) < MaxHandlers
  /\ LET next == IF "click" \in inState THEN inState \ {"click"} ELSE inState \cup {"click"}
         tip  == IF next # {} THEN EnterTip(Tip) ELSE LeaveTip(Tip) IN
     inState' = next /\ TipBecomes(tip) /\ Bounces(tip)
  /\ UNCHANGED <<transition, triggers, delayed>>

\* The timer of a delay: nothing if the state has changed since.
Timeout ==
  /\ timeout # "none"
  /\ LET out == [Tip EXCEPT !.timeout = "none"]
         tip == CASE timeout = "show" /\ hoverState = "in"  -> ShowTip(out, inState # {})
                  [] timeout = "hide" /\ hoverState = "out" -> HideTip(out)
                  [] OTHER -> out IN
     TipBecomes(tip) /\ Bounces(tip)
  /\ UNCHANGED <<transition, triggers, delayed, inState>>

RunTip(t, do) == IF do = "shown" THEN ShownComplete(t, inState # {}) ELSE HiddenComplete(t)

\* All of dos, one after the other.
RunTips(t, dos) ==
  LET ran[n \in 0 .. Len(dos)] == IF n = 0 THEN t ELSE RunTip(ran[n - 1], dos[n])
  IN  ran[Len(dos)]

\* The end event of the tip: all its handlers run.
EndOfTip ==
  /\ fades # <<>>
  /\ TipBecomes(RunTips([Tip EXCEPT !.fades = <<>>], fades))
  /\ UNCHANGED <<transition, triggers, delayed, inState, bounced>>

-----------------------------------------------------------------------------
TooltipInit ==
  /\ TransitionInit
  /\ triggers \in {{"hover", "focus"}, {"click"}}
  /\ delayed \in SUBSET {"show", "hide"}
  /\ inState = {} /\ hoverState = "null" /\ timeout = "none"
  /\ fade = FALSE /\ tipIn = FALSE /\ attached = FALSE /\ fades = <<>> /\ bounced = FALSE

TooltipNext ==
  \/ \E trigger \in {"hover", "focus"} : Enter(trigger) \/ Leave(trigger)
  \/ ClickTip \/ Timeout \/ EndOfTip

TooltipFairness == WF_tooltipVars(Timeout) /\ WF_tooltipVars(EndOfTip)

TooltipSpec == TooltipInit /\ [][TooltipNext]_tooltipVars /\ TooltipFairness

-----------------------------------------------------------------------------
TooltipTypeOK ==
  /\ transition \in BOOLEAN /\ delayed \subseteq {"show", "hide"}
  /\ inState \subseteq triggers
  /\ hoverState \in {"in", "out", "null"} /\ timeout \in {"none", "show", "hide"}
  /\ {fade, tipIn, attached, bounced} \subseteq BOOLEAN
  /\ fades \in Seq({"shown", "hidden"})

\* bootstrap.js:1481: at rest the tip is there if and only if the mouse, the
\* focus or a click holds it, whatever events, delays and fades overlapped,
\* unless it was entered again while it faded out.
TipFollows ==
  timeout = "none" /\ fades = <<>> =>
    /\ inState # {} /\ ~bounced => attached /\ tipIn
    /\ inState = {} => ~attached

\* A tip that nothing holds goes.
TipGoes == inState = {} ~> (inState # {} \/ ~attached)
=============================================================================
