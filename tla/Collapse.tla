------------------------------ MODULE Collapse ------------------------------
(* The accordion of bootstrap.js: panels of one parent, each opened and      *)
(* closed by a trigger with data-parent. A panel's Collapse object is made   *)
(* at the first click, or when another panel opens and closes it. Sizes and  *)
(* the aria attributes are left out.                                         *)
EXTENDS Integers, Transition

CONSTANT P    \* number of panels, in the order of the document

ASSUME CollapseAssumption == P \in Nat \ {0}

Panels == 1 .. P
None   == [there |-> FALSE, busy |-> FALSE, parent |-> FALSE]

VARIABLES
  unmade,   \* a panel is open in the markup, and the page made no objects
  class,    \* a panel's class: "collapse", "in" or "collapsing"
  object,   \* data('bs.collapse'): transitioning, and has a $parent; or None
  running   \* handlers that wait on a panel: what they complete, whether the
            \* object they belong to is still the panel's

collapseVars == <<transition, unmade, class, object, running>>

Handler == [do : {"shown", "hidden"}, own : BOOLEAN]

-----------------------------------------------------------------------------
\* A handler whose object was replaced.
Orphan(h) == [h EXCEPT !.own = FALSE]

\* children('.in, .collapsing') of the panels.
Actives == {q \in Panels : class[q] \in {"in", "collapsing"}}
First   == CHOOSE q \in Actives : \A r \in Actives : q <= r

\* activesData || actives.data('bs.collapse', null): data() is that of the
\* first of them only.
Forgets == ~object[First].there

\* hide() of q by another panel's show(), which makes q an object without a
\* parent if it has none; hide() itself does nothing but on an open panel at
\* rest.
Hides(q) == class[q] = "in" /\ ~object[q].busy

ClassAfterHide(q) == IF ~Hides(q) THEN class[q]
                     ELSE IF transition THEN "collapsing" ELSE "collapse"

ObjectAfterHide(q) ==
  IF Forgets THEN None
  ELSE [there |-> TRUE, busy |-> object[q].busy \/ (Hides(q) /\ transition),
        parent |-> object[q].parent]

RunningAfterHide(q) ==
  LET all == IF Hides(q) /\ transition
             THEN running[q] \cup {[do |-> "hidden", own |-> TRUE]} ELSE running[q] IN
  IF Forgets THEN {Orphan(h) : h \in all} ELSE all

\* The rest of show(), on an object of p with or without a parent: the panels
\* in others are hidden first. The object that opens is p's afterwards, unless
\* p itself moved and its object was forgotten; a new one always is.
Open(p, others, parent) ==
  LET keeps == object[p].there => p \notin others \/ ~Forgets
      shown == IF transition THEN {[do |-> "shown", own |-> keeps]} ELSE {}
      hidden == others \ {p} IN
  /\ class' = [q \in Panels |->
                 IF q \in hidden THEN ClassAfterHide(q)
                 ELSE IF q # p THEN class[q]
                 ELSE IF transition THEN "collapsing" ELSE "in"]
  /\ object' = [q \in Panels |->
                  IF q \in hidden THEN ObjectAfterHide(q)
                  ELSE IF q # p THEN object[q]
                  ELSE IF keeps THEN [there |-> TRUE, busy |-> transition, parent |-> parent]
                  ELSE None]
  /\ running' = [q \in Panels |->
                   IF q \in hidden THEN RunningAfterHide(q)
                   ELSE IF q # p THEN running[q]
                   ELSE shown \cup IF keeps THEN running[p] ELSE {Orphan(h) : h \in running[p]}]

\* new Collapse without a toggle that does anything.
Make(p) ==
  /\ object' = [object EXCEPT ![p] = [there |-> TRUE, busy |-> FALSE, parent |-> TRUE]]
  /\ UNCHANGED <<class, running>>

Ignore == UNCHANGED <<class, object, running>>

\* Mutant: nobody looks whether another panel is still moving.
ShowPanelAnyway(p) ==
  LET parent == object[p].there => object[p].parent IN
  Open(p, IF parent THEN Actives ELSE {}, parent)

\* show(): nothing while the first panel that is open or moves is moving.
ShowPanel(p) ==
  LET parent == object[p].there => object[p].parent
      others == IF parent THEN Actives ELSE {} IN
  IF others # {} /\ object[First].busy
  THEN IF object[p].there THEN Ignore ELSE Make(p)
  ELSE Open(p, others, parent)

\* hide(), by the trigger of p.
HidePanel(p) ==
  /\ class' = [class EXCEPT ![p] = IF transition THEN "collapsing" ELSE "collapse"]
  /\ object' = [object EXCEPT ![p] = [there |-> TRUE, busy |-> transition,
                                      parent |-> @.there => @.parent]]
  /\ running' = IF transition
                THEN [running EXCEPT ![p] = @ \cup {[do |-> "hidden", own |-> TRUE]}]
                ELSE running

\* A click on the trigger of p: toggle, by the constructor or by name.
Click(p) ==
  /\ IF object[p].busy THEN Ignore
     ELSE IF class[p] = "in" THEN HidePanel(p) ELSE ShowPanel(p)
  /\ UNCHANGED <<transition, unmade>>

\* Mutant: the handler is lost when the panel's object was replaced.
EndOfCollapseOwn(p) ==
  /\ running[p] # {}
  /\ class' = [class EXCEPT ![p] =
       IF \E h \in running[p] : h.do = "shown" /\ h.own THEN "in"
       ELSE IF \E h \in running[p] : h.own THEN "collapse" ELSE @]
  /\ object' = [object EXCEPT ![p].busy = @ /\ ~\E h \in running[p] : h.own]
  /\ running' = [running EXCEPT ![p] = {}]
  /\ UNCHANGED <<transition, unmade>>

\* The end event of p: every handler that waits runs. Once one has shown the
\* panel a "hidden" leaves it class in.
EndOfCollapse(p) ==
  /\ running[p] # {}
  /\ class' = [class EXCEPT ![p] =
       IF \E h \in running[p] : h.do = "shown" THEN "in" ELSE "collapse"]
  /\ object' = [object EXCEPT ![p].busy = @ /\ ~\E h \in running[p] : h.own]
  /\ running' = [running EXCEPT ![p] = {}]
  /\ UNCHANGED <<transition, unmade>>

-----------------------------------------------------------------------------
\* The page may make an object for every panel, without toggling it.
CollapseInit ==
  /\ TransitionInit
  /\ \E open \in {{}} \cup {{p} : p \in Panels}, made \in BOOLEAN :
       /\ class = [p \in Panels |-> IF p \in open THEN "in" ELSE "collapse"]
       /\ object = [p \in Panels |-> [there |-> made, busy |-> FALSE, parent |-> made]]
       /\ unmade = (open # {} /\ ~made)
  /\ running = [p \in Panels |-> {}]

CollapseNext == \E p \in Panels : Click(p) \/ EndOfCollapse(p)

CollapseFairness == \A p \in Panels : WF_collapseVars(EndOfCollapse(p))

CollapseSpec == CollapseInit /\ [][CollapseNext]_collapseVars /\ CollapseFairness

-----------------------------------------------------------------------------
CollapseTypeOK ==
  /\ transition \in BOOLEAN /\ unmade \in BOOLEAN
  /\ class \in [Panels -> {"collapse", "in", "collapsing"}]
  /\ object \in [Panels -> [there : BOOLEAN, busy : BOOLEAN, parent : BOOLEAN]]
  /\ running \in [Panels -> SUBSET Handler]

\* bootstrap.js:583: show() hides the panels that are open, and gives up while
\* the first of them moves. However fast the triggers are clicked, no two
\* panels of an accordion are open, unless the page leaves a panel open in its
\* markup without making it an object.
OneOpen ==
  ~unmade => \A p, q \in Panels : class[p] = "in" /\ class[q] = "in" => p = q

\* bootstrap.js:610 and :650: no panel stays halfway, or deaf to its trigger,
\* although its object may be replaced while it moves.
PanelsSettle ==
  \A p \in Panels :
    (class[p] = "collapsing" \/ object[p].busy) ~> (class[p] # "collapsing" /\ ~object[p].busy)
=============================================================================
