---------------------------- MODULE SlideProofs ----------------------------
(* What the controls promise whose elements slide in and out one by one: the *)
(* carousel, for any number of items and of waiting requests, and the        *)
(* accordion, for any number of panels.                                      *)
EXTENDS Carousel, Collapse, NaturalsInduction, SequenceTheorems, WellFoundedInduction, TLAPS

-----------------------------------------------------------------------------
(* The carousel. That one item is shown is not inductive by itself: a slide  *)
(* that starts adds its handler to those that wait, so there must be none    *)
(* while nothing slides.                                                     *)

\* One item is shown, and at most one slide is under way.
Showing(i) ==
  /\ active = {i}
  /\ ~sliding => indicator = i /\ slides = {}
  /\ sliding => slides = {[from |-> i, to |-> indicator]} /\ indicator # i

Shows == \E i \in Items : Showing(i)

\* The invariant.
CarouselInv == CarouselTypeOK /\ Shows

\* The first number of a set of numbers.
LEMMA FirstExists ==
  ASSUME NEW T \in SUBSET Nat, T # {}
  PROVE  \E n \in T : \A m \in T : n <= m
<1>1. IsWellFoundedOn(OpToRel(<,Nat), Nat)
  BY NatLessThanWellFounded
<1>2. PICK n \in T : \A m \in T : ~ (<<m, n>> \in OpToRel(<,Nat))
  BY <1>1, WFMin
<1>3. \A m \in T : ~ (m < n)
  BY <1>2 DEF OpToRel
<1> QED  BY <1>3

\* Items, and the arithmetic of getItemForDirection, stay among them.
LEMMA ItemInRange ==
  ASSUME NEW i \in Items, active = {i}, NEW type \in {"prev", "next"}
  PROVE  Active = i /\ ItemForDirection(type) \in Items
<1>1. Active = i
  BY DEF Active, Items
<1>2. N \in Nat /\ N > 0
  BY CarouselAssumption
<1>3. \A k \in Int : k % N \in 0 .. N - 1
  BY <1>2
<1>4. i + 1 + N \in Int /\ i + (-1) + N \in Int
  BY <1>2 DEF Items
<1> QED  BY <1>1, <1>3, <1>4 DEF ItemForDirection, Items

\* A slide that starts at rest, or is over at once.
LEMMA SlideStep ==
  ASSUME CarouselInv, ~sliding, NEW item \in Items, Slide(item), UNCHANGED carouselOptions
  PROVE  /\ Shows'
         /\ active' \subseteq Items /\ indicator' \in Items /\ sliding' \in BOOLEAN
         /\ slides' \subseteq [from : Items, to : Items]
         /\ slidDue' = slidDue /\ ticking' \in BOOLEAN /\ paused' \in BOOLEAN
<1>1. PICK i \in Items : active = {i} /\ indicator = i /\ slides = {}
  BY DEF CarouselInv, Shows, Showing
<1>2. Active = i
  BY <1>1, ItemInRange
<1>3. CASE item = i
  BY <1>1, <1>3 DEF Slide, CarouselInv, CarouselTypeOK, Shows, Showing
<1>4. CASE item # i /\ transition
  <2>1. /\ indicator' = item /\ slides' = {[from |-> i, to |-> item]} /\ sliding' = TRUE
        /\ active' = {i} /\ slidDue' = slidDue /\ CycleIfCycling
    BY <1>1, <1>2, <1>4 DEF Slide
  <2> QED  BY <1>4, <2>1 DEF CarouselInv, CarouselTypeOK, CycleIfCycling, Shows, Showing
<1>5. CASE item # i /\ ~transition
  <2>1. /\ indicator' = item /\ slides' = {} /\ sliding' = FALSE
        /\ active' = {item} /\ slidDue' = slidDue /\ CycleIfCycling
    BY <1>1, <1>2, <1>5 DEF Slide
  <2> QED  BY <2>1 DEF CarouselInv, CarouselTypeOK, CycleIfCycling, Shows, Showing
<1> QED  BY <1>3, <1>4, <1>5

\* A control, a key, the interval.
LEMMA StepStep ==
  ASSUME CarouselInv, NEW type \in {"prev", "next"}, Step(type)
  PROVE  CarouselInv'
<1>1. ItemForDirection(type) \in Items
  BY ItemInRange DEF CarouselInv, Shows, Showing
<1>2. ~sliding /\ Slide(ItemForDirection(type)) /\ UNCHANGED <<carouselOptions, waiting>>
  BY DEF Step
<1> QED  BY <1>1, <1>2, SlideStep DEF CarouselInv, CarouselTypeOK, carouselOptions

\* to(pos), at once or later.
LEMMA ToStep ==
  ASSUME CarouselInv, NEW pos \in Items, To(pos)
  PROVE  CarouselInv'
<1>1. CASE sliding
  <2>1. /\ waiting' = Append(waiting, pos)
        /\ UNCHANGED <<carouselOptions, active, indicator, sliding, slides, slidDue, ticking, paused>>
    BY <1>1 DEF To
  <2>2. waiting' \in Seq(Items)
    BY <2>1, AppendProperties DEF CarouselInv, CarouselTypeOK
  <2> QED  BY <2>1, <2>2 DEF CarouselInv, CarouselTypeOK, carouselOptions, Shows, Showing
<1>2. CASE ~sliding /\ pos \in active
  <2>1. /\ paused' = FALSE /\ ticking' = timed
        /\ UNCHANGED <<carouselOptions, active, indicator, sliding, slides, slidDue, waiting>>
    BY <1>2 DEF To, GoTo
  <2> QED  BY <2>1 DEF CarouselInv, CarouselTypeOK, carouselOptions, Shows, Showing
<1>3. CASE ~sliding /\ pos \notin active
  <2>1. Slide(pos) /\ UNCHANGED <<carouselOptions, waiting>>
    BY <1>3 DEF To, GoTo
  <2> QED  BY <1>3, <2>1, SlideStep DEF CarouselInv, CarouselTypeOK, carouselOptions
<1> QED  BY <1>1, <1>2, <1>3

\* The end of the slide that is under way: its item replaces the old one.
LEMMA EndOfSlideStep ==
  ASSUME CarouselInv, NEW item \in Items, EndOfSlide(item)
  PROVE  CarouselInv'
<1>1. PICK i \in Items : Showing(i)
  BY DEF CarouselInv, Shows
<1>2. {s \in slides : s.from = item} # {}
  BY DEF EndOfSlide
<1>3. sliding /\ item = i
  BY <1>1, <1>2 DEF Showing, CarouselInv, CarouselTypeOK
<1>4. slides = {[from |-> i, to |-> indicator]} /\ {s \in slides : s.from = item} = slides
  BY <1>1, <1>3 DEF Showing
<1>5. {s.to : s \in slides} = {indicator}
  BY <1>4
<1>6. /\ active' = {indicator} /\ slides' = {} /\ sliding' = FALSE /\ slidDue' = TRUE
      /\ UNCHANGED <<carouselOptions, indicator, waiting, ticking, paused>>
  BY <1>1, <1>3, <1>4, <1>5 DEF EndOfSlide, Showing
<1> QED  BY <1>6 DEF CarouselInv, CarouselTypeOK, carouselOptions, Shows, Showing

\* 'slid': the requests that waited are served, start a slide, or wait again.
LEMMA SlidStep == ASSUME CarouselInv, Slid PROVE CarouselInv'
<1> DEFINE others == {n \in 1 .. Len(waiting) : waiting[n] \notin active}
           first  == CHOOSE n \in others : \A m \in others : n <= m
<1>1. \A n \in Nat : Later(n) \in Seq(Items)
  <2> TAKE n \in Nat
  <2>1. waiting \in Seq(Items) /\ Len(waiting) \in Nat
    BY DEF CarouselInv, CarouselTypeOK
  <2>2. \A k \in n + 1 .. Len(waiting) : waiting[k] \in Items
    BY <2>1
  <2> QED  BY <2>1, <2>2, SubSeqProperties DEF Later
<1>2. UNCHANGED carouselOptions /\ slidDue' = FALSE
  BY DEF Slid
<1>3. CASE sliding
  <2>1. waiting' = Later(0) /\ UNCHANGED <<active, indicator, sliding, slides, ticking, paused>>
    BY <1>3 DEF Slid
  <2> QED  BY <1>1, <1>2, <2>1 DEF CarouselInv, CarouselTypeOK, carouselOptions, Shows, Showing
<1>4. CASE ~sliding /\ others = {}
  <2>1. /\ waiting' = <<>> /\ paused' \in BOOLEAN /\ ticking' \in BOOLEAN
        /\ UNCHANGED <<active, indicator, sliding, slides>>
    BY <1>4 DEF Slid, CarouselInv, CarouselTypeOK
  <2>2. waiting' \in Seq(Items)
    BY <2>1, EmptySeq
  <2> QED  BY <1>2, <2>1, <2>2 DEF CarouselInv, CarouselTypeOK, carouselOptions, Shows, Showing
<1>5. CASE ~sliding /\ others # {}
  <2>1. first \in others
    <3>1. others \in SUBSET Nat
      OBVIOUS
    <3>2. \E n \in others : \A m \in others : n <= m
      BY <1>5, <3>1, FirstExists
    <3> QED  BY <3>2
  <2>2. waiting[first] \in Items /\ waiting[first] \notin active /\ first \in Nat
    BY <2>1 DEF CarouselInv, CarouselTypeOK
  <2>3. PICK w \in Items : w = waiting[first] /\ w \notin active
    BY <2>2
  <2>4. /\ slides' = slides \cup {[from |-> Active, to |-> w]}
        /\ sliding' = TRUE /\ indicator' = w
        /\ waiting' = Later(first)
        /\ IF first > 1 THEN paused' = FALSE /\ ticking' = timed ELSE CycleIfCycling
        /\ UNCHANGED active
    BY <1>5, <2>3 DEF Slid
  <2>5. PICK i \in Items : active = {i} /\ slides = {}
    BY <1>5 DEF CarouselInv, Shows, Showing
  <2>6. Active = i
    BY <2>5, ItemInRange
  <2>7. Shows'
    <3>1. slides' = {[from |-> i, to |-> w]}
      BY <2>4, <2>5, <2>6
    <3>2. active' = {i} /\ indicator' = w /\ indicator' # i /\ sliding' = TRUE
      BY <2>3, <2>4, <2>5
    <3>3. slides' = {[from |-> i, to |-> indicator']}
      BY <3>1, <3>2
    <3>4. Showing(i)'
      BY <3>2, <3>3 DEF Showing
    <3> QED  BY <3>4 DEF Shows
  <2>8. paused' \in BOOLEAN /\ ticking' \in BOOLEAN
    BY <2>4 DEF CycleIfCycling, CarouselInv, CarouselTypeOK
  <2>9. slides' \subseteq [from : Items, to : Items]
    BY <2>4, <2>5, <2>6
  <2>10. waiting' \in Seq(Items)
    BY <1>1, <2>2, <2>4
  <2> QED  BY <1>2, <2>4, <2>7, <2>8, <2>9, <2>10 DEF CarouselInv, CarouselTypeOK, carouselOptions
<1> QED  BY <1>3, <1>4, <1>5

\* A carousel starts at rest on its first item.
LEMMA CarouselInitInv == CarouselInit => CarouselInv
<1> SUFFICES ASSUME CarouselInit PROVE CarouselInv
  OBVIOUS
<1>1. 0 \in Items
  BY CarouselAssumption DEF Items
<1>2. CarouselTypeOK
  BY <1>1, EmptySeq DEF CarouselInit, TransitionInit, CarouselTypeOK
<1>3. Shows
  BY <1>1 DEF CarouselInit, Shows, Showing
<1> QED  BY <1>2, <1>3 DEF CarouselInv

\* Every step keeps one item shown.
LEMMA CarouselStepInv == CarouselInv /\ [CarouselNext]_carouselVars => CarouselInv'
<1> SUFFICES ASSUME CarouselInv, [CarouselNext]_carouselVars PROVE CarouselInv'
  OBVIOUS
<1>1. CASE UNCHANGED carouselVars
  BY <1>1 DEF carouselVars, carouselOptions, CarouselInv, CarouselTypeOK, Shows, Showing
<1>2. CASE Control \/ Interval
  BY <1>2, StepStep DEF Control, Interval
<1>3. CASE Slid
  BY <1>3, SlidStep
<1>4. ASSUME NEW i \in Items, To(i) \/ EndOfSlide(i)
      PROVE  CarouselInv'
  BY <1>4, ToStep, EndOfSlideStep
<1>5. ASSUME NEW event \in BOOLEAN, Pause(event) \/ Cycle(event)
      PROVE  CarouselInv'
  <2>1. paused' \in BOOLEAN /\ ticking' \in BOOLEAN
    BY <1>5 DEF Pause, PauseBy, Cycle, CycleBy, CarouselInv, CarouselTypeOK
  <2>2. UNCHANGED <<carouselOptions, active, indicator, sliding, slides, slidDue, waiting>>
    BY <1>5 DEF Pause, Cycle
  <2> QED  BY <2>1, <2>2 DEF CarouselInv, CarouselTypeOK, carouselOptions, Shows, Showing
<1> QED  BY <1>1, <1>2, <1>3, <1>4, <1>5 DEF CarouselNext

LEMMA ShowsGiveOneActive == Shows => OneActive
BY DEF Shows, Showing, OneActive

\* bootstrap.js:411: one item is shown and the indicator is on it or on the
\* item that slides in, for any number of items and any sequence of requests.
THEOREM OneShown == CarouselSpec => []OneActive
<1>1. CarouselInv => OneActive
  BY ShowsGiveOneActive DEF CarouselInv
<1> QED  BY <1>1, CarouselInitInv, CarouselStepInv, PTL DEF CarouselSpec

LEMMA PausedInitInv == CarouselInit => PausedStays
BY DEF CarouselInit, PausedStays

LEMMA PausedStepInv == PausedStays /\ [CarouselNext]_carouselVars => PausedStays'
<1> SUFFICES ASSUME PausedStays, [CarouselNext]_carouselVars PROVE PausedStays'
  OBVIOUS
<1>1. \A item : Slide(item) => PausedStays'
  BY DEF Slide, CycleIfCycling, PausedStays
<1>2. CASE UNCHANGED carouselVars
  BY <1>2 DEF carouselVars, PausedStays
<1>3. CASE Control \/ Interval
  BY <1>1, <1>3 DEF Control, Interval, Step
<1>4. CASE Slid
  BY <1>4 DEF Slid, CycleIfCycling, PausedStays
<1>5. ASSUME NEW i \in Items, To(i) \/ EndOfSlide(i)
      PROVE  PausedStays'
  BY <1>1, <1>5 DEF To, GoTo, EndOfSlide, PausedStays
<1>6. ASSUME NEW event \in BOOLEAN, Pause(event) \/ Cycle(event)
      PROVE  PausedStays'
  BY <1>6 DEF Pause, PauseBy, Cycle, CycleBy, PausedStays
<1> QED  BY <1>2, <1>3, <1>4, <1>5, <1>6 DEF CarouselNext

\* bootstrap.js:355: a carousel the page paused does not move by itself.
THEOREM PausedRests == CarouselSpec => []PausedStays
BY PausedInitInv, PausedStepInv, PTL DEF CarouselSpec

-----------------------------------------------------------------------------
(* The accordion. That one panel is open is not inductive by itself: one that *)
(* moves is not open, but will be.                                            *)

\* A panel that is open, or will be when it has stopped moving.
Opening(p) == class[p] = "in" \/ \E h \in running[p] : h.do = "shown"

\* A panel of an accordion the page made, or that was made by clicks: one that
\* is open or moves has its object; every object knows the parent; a handler
\* waits only while the panel moves, and the object is busy then.
Settled(p) ==
  /\ class[p] \in {"in", "collapsing"} => object[p].there
  /\ object[p].there => object[p].parent
  /\ class[p] = "collapsing" => object[p].busy
  /\ class[p] # "collapsing" => running[p] = {}

\* The invariant: what is open cannot be told from class alone, since a panel
\* that moves is not open yet but will be.
CollapseInv ==
  /\ CollapseTypeOK
  /\ ~unmade =>
       /\ \A p \in Panels : Settled(p)
       /\ \A p, q \in Panels : Opening(p) /\ Opening(q) => p = q

\* The first panel that is open or moves is one.
LEMMA FirstActive ==
  ASSUME Actives # {}
  PROVE  First \in Actives
<1>1. Actives \in SUBSET Nat
  BY CollapseAssumption DEF Actives, Panels
<1>2. \E n \in Actives : \A m \in Actives : n <= m
  BY <1>1, FirstExists
<1> QED  BY <1>2 DEF First

\* What hide() and show() make of a panel has its type.
LEMMA HideTypes ==
  ASSUME CollapseTypeOK, NEW q \in Panels
  PROVE  /\ ClassAfterHide(q) \in {"collapse", "in", "collapsing"}
         /\ ObjectAfterHide(q) \in [there : BOOLEAN, busy : BOOLEAN, parent : BOOLEAN]
         /\ RunningAfterHide(q) \subseteq Handler
<1>1. class[q] \in {"collapse", "in", "collapsing"} /\ running[q] \subseteq Handler
      /\ object[q] \in [there : BOOLEAN, busy : BOOLEAN, parent : BOOLEAN]
  BY DEF CollapseTypeOK
<1>2. \A h \in Handler : Orphan(h) \in Handler
  BY DEF Handler, Orphan
<1>3. [do |-> "hidden", own |-> TRUE] \in Handler
  BY DEF Handler
<1>4. object[q].busy \in BOOLEAN /\ object[q].parent \in BOOLEAN
  BY <1>1
<1>5. ObjectAfterHide(q) \in [there : BOOLEAN, busy : BOOLEAN, parent : BOOLEAN]
  <2>1. CASE Forgets
    BY <2>1 DEF ObjectAfterHide, None
  <2>2. CASE ~Forgets
    <3>1. \E x \in BOOLEAN : ObjectAfterHide(q) = [there |-> TRUE, busy |-> x, parent |-> object[q].parent]
      BY <2>2 DEF ObjectAfterHide
    <3> QED  BY <1>4, <3>1
  <2> QED  BY <2>1, <2>2
<1> QED  BY <1>1, <1>2, <1>3, <1>5 DEF ClassAfterHide, RunningAfterHide

LEMMA OpenTypes ==
  ASSUME CollapseTypeOK, NEW p \in Panels, NEW others, NEW parent \in BOOLEAN,
         Open(p, others, parent), UNCHANGED <<transition, unmade>>
  PROVE  CollapseTypeOK'
<1> DEFINE keeps == object[p].there => p \notin others \/ ~Forgets
           shown == IF transition THEN {[do |-> "shown", own |-> keeps]} ELSE {}
           hidden == others \ {p}
<1>0. /\ class \in [Panels -> {"collapse", "in", "collapsing"}] /\ transition \in BOOLEAN
      /\ object \in [Panels -> [there : BOOLEAN, busy : BOOLEAN, parent : BOOLEAN]]
      /\ running \in [Panels -> SUBSET Handler]
  BY DEF CollapseTypeOK
<1>1. class' \in [Panels -> {"collapse", "in", "collapsing"}]
  <2>1. class' = [q \in Panels |->
                 IF q \in hidden THEN ClassAfterHide(q)
                 ELSE IF q # p THEN class[q]
                 ELSE IF transition THEN "collapsing" ELSE "in"]
    BY DEF Open
  <2> QED  BY <1>0, <2>1, HideTypes
<1>2. object' \in [Panels -> [there : BOOLEAN, busy : BOOLEAN, parent : BOOLEAN]]
  <2> DEFINE new == IF keeps THEN [there |-> TRUE, busy |-> transition, parent |-> parent] ELSE None
  <2>1. new \in [there : BOOLEAN, busy : BOOLEAN, parent : BOOLEAN]
    <3>1. [there |-> TRUE, busy |-> transition, parent |-> parent]
            \in [there : BOOLEAN, busy : BOOLEAN, parent : BOOLEAN]
      BY <1>0
    <3>2. None \in [there : BOOLEAN, busy : BOOLEAN, parent : BOOLEAN]
      BY DEF None
    <3> QED  BY <3>1, <3>2
  <2>2. object' = [q \in Panels |->
                  IF q \in hidden THEN ObjectAfterHide(q)
                  ELSE IF q # p THEN object[q] ELSE new]
    BY DEF Open
  <2> HIDE DEF new
  <2> QED  BY <1>0, <2>1, <2>2, HideTypes
<1>3. running' \in [Panels -> SUBSET Handler]
  <2> DEFINE new == shown \cup IF keeps THEN running[p] ELSE {Orphan(h) : h \in running[p]}
  <2>1. new \subseteq Handler
    <3>1. \A h \in Handler : Orphan(h) \in Handler
      BY DEF Handler, Orphan
    <3>2. keeps \in BOOLEAN
      OBVIOUS
    <3>3. shown \subseteq Handler
      <4> HIDE DEF keeps
      <4>1. [do |-> "shown", own |-> keeps] \in Handler
        BY <3>2 DEF Handler
      <4> QED  BY <4>1
    <3> QED  BY <1>0, <3>1, <3>3
  <2>2. running' = [q \in Panels |->
                   IF q \in hidden THEN RunningAfterHide(q)
                   ELSE IF q # p THEN running[q] ELSE new]
    BY DEF Open
  <2> HIDE DEF new
  <2> QED  BY <1>0, <2>1, <2>2, HideTypes
<1> QED  BY <1>1, <1>2, <1>3 DEF CollapseTypeOK

\* Every click and end event keeps the types.
LEMMA ClickTypes ==
  ASSUME CollapseTypeOK, NEW p \in Panels, Click(p)
  PROVE  CollapseTypeOK'
<1>0. /\ class \in [Panels -> {"collapse", "in", "collapsing"}] /\ transition \in BOOLEAN
      /\ object \in [Panels -> [there : BOOLEAN, busy : BOOLEAN, parent : BOOLEAN]]
      /\ running \in [Panels -> SUBSET Handler] /\ unmade \in BOOLEAN
      /\ UNCHANGED <<transition, unmade>>
  BY DEF CollapseTypeOK, Click
<1>1. CASE Ignore
  BY <1>0, <1>1 DEF CollapseTypeOK, Ignore
<1>2. CASE Make(p)
  BY <1>0, <1>2 DEF CollapseTypeOK, Make
<1>3. CASE HidePanel(p)
  <2>1. (object[p].there => object[p].parent) \in BOOLEAN
    OBVIOUS
  <2>2. \E x \in BOOLEAN : object' = [object EXCEPT ![p] = [there |-> TRUE, busy |-> transition, parent |-> x]]
    BY <1>0, <1>3, <2>1 DEF HidePanel
  <2>3. object' \in [Panels -> [there : BOOLEAN, busy : BOOLEAN, parent : BOOLEAN]]
    BY <1>0, <2>2
  <2>4. [do |-> "hidden", own |-> TRUE] \in Handler
    BY DEF Handler
  <2>5. running' \in [Panels -> SUBSET Handler]
    BY <1>0, <1>3, <2>4 DEF HidePanel
  <2>6. class' \in [Panels -> {"collapse", "in", "collapsing"}]
    BY <1>0, <1>3 DEF HidePanel
  <2> QED  BY <1>0, <2>3, <2>5, <2>6 DEF CollapseTypeOK
<1>4. CASE ~Ignore /\ ~Make(p) /\ ~HidePanel(p)
  <2> DEFINE parent == object[p].there => object[p].parent
             others == IF parent THEN Actives ELSE {}
  <2>1. Open(p, others, parent)
    BY <1>4 DEF Click, ShowPanel
  <2>2. parent \in BOOLEAN
    OBVIOUS
  <2> HIDE DEF parent, others
  <2> QED  BY <1>0, <2>1, <2>2, OpenTypes
<1> QED  BY <1>1, <1>2, <1>3, <1>4

LEMMA EndOfCollapseTypes ==
  ASSUME CollapseTypeOK, NEW p \in Panels, EndOfCollapse(p)
  PROVE  CollapseTypeOK'
<1>1. \E x \in BOOLEAN : object' = [object EXCEPT ![p].busy = x]
  <2>1. object' = [object EXCEPT ![p].busy = object[p].busy /\ ~\E h \in running[p] : h.own]
    BY DEF EndOfCollapse
  <2> QED  BY <2>1
<1>2. object' \in [Panels -> [there : BOOLEAN, busy : BOOLEAN, parent : BOOLEAN]]
  BY <1>1 DEF CollapseTypeOK
<1> QED  BY <1>2 DEF CollapseTypeOK, EndOfCollapse

\* A click that only makes the object of a closed panel, or none, leaves what
\* is open.
LEMMA MakeInv ==
  ASSUME CollapseInv, CollapseTypeOK', ~unmade, NEW p \in Panels, class[p] = "collapse",
         Make(p) \/ Ignore, UNCHANGED unmade
  PROVE  CollapseInv'
<1>1. class' = class /\ running' = running
  BY DEF Make, Ignore
<1>2. ASSUME NEW q \in Panels PROVE Settled(q)'
  <2>1. Settled(q)
    BY DEF CollapseInv
  <2>2. CASE q = p /\ Make(p)
    <3>1. object'[q].there /\ object'[q].parent
      BY <2>2 DEF Make, CollapseInv, CollapseTypeOK
    <3> QED  BY <1>1, <2>1, <2>2, <3>1 DEF Settled
  <2>3. CASE q # p \/ Ignore
    <3>1. object'[q] = object[q]
      BY <2>3 DEF Make, Ignore, CollapseInv, CollapseTypeOK
    <3> QED  BY <1>1, <2>1, <3>1 DEF Settled
  <2> QED  BY <2>2, <2>3
<1>3. \A q, r \in Panels : (Opening(q) /\ Opening(r))' => q = r
  BY <1>1 DEF CollapseInv, Opening
<1> QED  BY <1>2, <1>3 DEF CollapseInv

\* A click that closes the open panel.
LEMMA HidePanelInv ==
  ASSUME CollapseInv, CollapseTypeOK', ~unmade, NEW p \in Panels, class[p] = "in",
         HidePanel(p), UNCHANGED <<transition, unmade>>
  PROVE  CollapseInv'
<1>1. Settled(p) /\ running[p] = {}
  BY DEF CollapseInv, Settled
<1>2. /\ class'[p] = IF transition THEN "collapsing" ELSE "collapse"
      /\ running'[p] = IF transition THEN {[do |-> "hidden", own |-> TRUE]} ELSE {}
  BY <1>1 DEF HidePanel, CollapseInv, CollapseTypeOK
<1>3. object'[p].there /\ object'[p].parent /\ object'[p].busy = transition
  BY <1>1 DEF HidePanel, CollapseInv, CollapseTypeOK, Settled
<1>4. \A q \in Panels \ {p} : class'[q] = class[q] /\ running'[q] = running[q] /\ object'[q] = object[q]
  BY DEF HidePanel, CollapseInv, CollapseTypeOK
<1>5. ASSUME NEW q \in Panels PROVE Settled(q)'
  BY <1>2, <1>3, <1>4 DEF Settled, CollapseInv
<1>6. \A q \in Panels : Opening(q)' => Opening(q) /\ q # p
  BY <1>2, <1>4 DEF Opening
<1> QED  BY <1>5, <1>6 DEF CollapseInv

\* A click that opens a panel: the first of those that are open or move is at
\* rest, so it is the open one, and it is closed.
LEMMA OpenInv ==
  ASSUME CollapseInv, CollapseTypeOK', ~unmade, NEW p \in Panels, class[p] = "collapse",
         Actives # {} => ~object[First].busy,
         Open(p, Actives, TRUE), UNCHANGED <<transition, unmade>>
  PROVE  CollapseInv'
<1>0. /\ class \in [Panels -> {"collapse", "in", "collapsing"}] /\ transition \in BOOLEAN
      /\ object \in [Panels -> [there : BOOLEAN, busy : BOOLEAN, parent : BOOLEAN]]
      /\ \A q \in Panels : Settled(q)
  BY DEF CollapseInv, CollapseTypeOK
<1>1. p \notin Actives /\ running[p] = {} /\ Actives \subseteq Panels /\ Actives \ {p} = Actives
  BY <1>0 DEF Actives, Settled
<1>2. \A q \in Panels : Opening(q) => q \in Actives
  BY <1>0 DEF Opening, Actives, Settled
<1>3. \A q \in Actives : ~Forgets
  <2> SUFFICES ASSUME Actives # {} PROVE ~Forgets
    OBVIOUS
  <2>1. First \in Actives
    BY FirstActive
  <2> QED  BY <1>0, <1>1, <2>1 DEF Forgets, Actives, Settled
<1>4. \A q \in Actives : class[q] = "in" => q = First /\ Hides(q)
  <2> TAKE q \in Actives
  <2>1. First \in Actives /\ ~object[First].busy
    BY FirstActive
  <2>2. class[First] = "in"
    BY <1>0, <1>1, <2>1 DEF Actives, Settled
  <2> HAVE class[q] = "in"
  <2>3. q = First
    BY <1>1, <2>1, <2>2 DEF CollapseInv, Opening
  <2> QED  BY <2>1, <2>2, <2>3 DEF Hides
<1>5. \A q \in Actives : running[q] # {} => ~\E h \in running[q] : h.do = "shown"
  <2> TAKE q \in Actives
  <2> HAVE running[q] # {}
  <2>1. First \in Actives /\ ~object[First].busy
    BY FirstActive
  <2>2. class[First] = "in" /\ class[q] = "collapsing"
    BY <1>0, <1>1, <2>1 DEF Actives, Settled
  <2>3. q # First
    BY <2>2
  <2> QED  BY <1>1, <2>1, <2>2, <2>3 DEF CollapseInv, Opening
<1>6. p \in Panels /\ class'[p] = (IF transition THEN "collapsing" ELSE "in")
  BY <1>1 DEF Open
<1>7. object'[p] = [there |-> TRUE, busy |-> transition, parent |-> TRUE]
  BY <1>1 DEF Open
<1>8. running'[p] # {} => transition
  BY <1>1 DEF Open
<1>9. ASSUME NEW q \in Actives
      PROVE  /\ class'[q] = ClassAfterHide(q) /\ running'[q] = RunningAfterHide(q)
             /\ object'[q] = ObjectAfterHide(q)
  BY <1>1, <1>9 DEF Open
<1>10. ASSUME NEW q \in Panels, q \notin Actives, q # p
       PROVE  class'[q] = class[q] /\ running'[q] = running[q] /\ object'[q] = object[q]
  BY <1>1, <1>10 DEF Open
<1>11. ASSUME NEW q \in Actives
       PROVE  Settled(q)' /\ ~Opening(q)'
  <2>1. /\ running'[q] = (IF Hides(q) /\ transition
                          THEN running[q] \cup {[do |-> "hidden", own |-> TRUE]} ELSE running[q])
        /\ object'[q] = [there |-> TRUE, busy |-> object[q].busy \/ (Hides(q) /\ transition),
                         parent |-> object[q].parent]
        /\ class'[q] = IF ~Hides(q) THEN class[q] ELSE IF transition THEN "collapsing" ELSE "collapse"
    BY <1>3, <1>9 DEF ClassAfterHide, ObjectAfterHide, RunningAfterHide
  <2>2. object[q].there /\ object[q].parent /\ Settled(q)
    BY <1>0, <1>1 DEF Actives, Settled
  <2>3. object'[q].there /\ object'[q].parent
        /\ (object'[q].busy <=> object[q].busy \/ (Hides(q) /\ transition))
    <3> DEFINE busy == object[q].busy \/ (Hides(q) /\ transition)
    <3>1. object'[q] = [there |-> TRUE, busy |-> busy, parent |-> object[q].parent]
      BY <2>1
    <3> HIDE DEF busy
    <3>2. object'[q].there = TRUE /\ object'[q].busy = busy /\ object'[q].parent = object[q].parent
      BY <3>1
    <3> USE DEF busy
    <3> QED  BY <2>2, <3>2
  <2>4. CASE class[q] = "in"
    <3>1. Hides(q) /\ running[q] = {}
      BY <1>4, <2>2, <2>4 DEF Settled
    <3> QED  BY <2>1, <2>3, <3>1 DEF Settled, Opening
  <2>5. CASE class[q] = "collapsing"
    <3>1. ~Hides(q) /\ object[q].busy /\ running'[q] = running[q] /\ class'[q] = class[q]
      BY <2>1, <2>2, <2>5 DEF Hides, Settled
    <3> QED  BY <1>5, <2>3, <2>5, <3>1 DEF Settled, Opening
  <2> QED  BY <2>4, <2>5 DEF Actives
<1>12. Settled(p)'
  <2>1. object'[p].there /\ object'[p].parent /\ (transition => object'[p].busy)
    BY <1>7
  <2> QED  BY <1>6, <1>8, <2>1 DEF Settled
<1>13. ASSUME NEW q \in Panels PROVE Settled(q)'
  BY <1>0, <1>10, <1>11, <1>12 DEF Settled
<1>14. ASSUME NEW q \in Panels, q # p PROVE ~Opening(q)'
  BY <1>2, <1>10, <1>11, <1>14 DEF Opening
<1> QED  BY <1>13, <1>14 DEF CollapseInv

\* The end event of a panel.
LEMMA EndOfCollapseInv ==
  ASSUME CollapseInv, CollapseTypeOK', ~unmade, NEW p \in Panels, EndOfCollapse(p)
  PROVE  CollapseInv'
<1>1. /\ class'[p] = IF \E h \in running[p] : h.do = "shown" THEN "in" ELSE "collapse"
      /\ running'[p] = {}
  BY DEF EndOfCollapse, CollapseInv, CollapseTypeOK
<1>2. Settled(p) /\ class[p] = "collapsing"
  BY DEF EndOfCollapse, CollapseInv, CollapseTypeOK, Settled
<1>3. object'[p].there /\ object'[p].parent
  BY <1>2 DEF EndOfCollapse, CollapseInv, CollapseTypeOK, Settled
<1>4. \A q \in Panels \ {p} : class'[q] = class[q] /\ running'[q] = running[q] /\ object'[q] = object[q]
  BY DEF EndOfCollapse, CollapseInv, CollapseTypeOK
<1>5. ASSUME NEW q \in Panels PROVE Settled(q)'
  BY <1>1, <1>3, <1>4 DEF Settled, CollapseInv
<1>6. \A q \in Panels : Opening(q)' => Opening(q)
  BY <1>1, <1>4 DEF Opening
<1> QED  BY <1>5, <1>6 DEF CollapseInv, EndOfCollapse

LEMMA CollapseInitInv == CollapseInit => CollapseInv
<1> SUFFICES ASSUME CollapseInit PROVE CollapseInv
  OBVIOUS
<1>1. PICK open \in {{}} \cup {{p} : p \in Panels}, made \in BOOLEAN :
       /\ class = [p \in Panels |-> IF p \in open THEN "in" ELSE "collapse"]
       /\ object = [p \in Panels |-> [there |-> made, busy |-> FALSE, parent |-> made]]
       /\ unmade = (open # {} /\ ~made)
  BY DEF CollapseInit
<1>2. running = [p \in Panels |-> {}] /\ transition \in BOOLEAN
  BY DEF CollapseInit, TransitionInit
<1>3. CollapseTypeOK
  BY <1>1, <1>2 DEF CollapseTypeOK
<1>4. ASSUME ~unmade, NEW p \in Panels PROVE Settled(p)
  <2>1. CASE made = TRUE
    BY <1>1, <1>2, <2>1 DEF Settled
  <2>2. CASE made = FALSE
    <3>1. open = {}
      BY <1>1, <1>4, <2>2
    <3> QED  BY <1>1, <1>2, <2>2, <3>1 DEF Settled
  <2> QED  BY <2>1, <2>2
<1>5. \A p, q \in Panels : Opening(p) /\ Opening(q) => p = q
  BY <1>1, <1>2 DEF Opening
<1> QED  BY <1>3, <1>4, <1>5 DEF CollapseInv

LEMMA CollapseStepInv == CollapseInv /\ [CollapseNext]_collapseVars => CollapseInv'
<1> SUFFICES ASSUME CollapseInv, [CollapseNext]_collapseVars PROVE CollapseInv'
  OBVIOUS
<1>1. CASE UNCHANGED collapseVars
  BY <1>1 DEF collapseVars, CollapseInv, CollapseTypeOK, Settled, Opening
<1>2. ASSUME NEW p \in Panels, Click(p) PROVE CollapseInv'
  <2>1. CollapseTypeOK' /\ UNCHANGED <<transition, unmade>>
    BY <1>2, ClickTypes DEF CollapseInv, Click
  <2>2. CASE unmade
    BY <2>1, <2>2 DEF CollapseInv
  <2>3. CASE ~unmade
    <3>1. Settled(p) /\ class[p] \in {"collapse", "in", "collapsing"}
      BY <2>3 DEF CollapseInv, CollapseTypeOK
    <3>2. CASE Ignore
      BY <2>1, <3>2 DEF Ignore, CollapseInv, Settled, Opening
    <3>3. CASE ~Ignore /\ class[p] = "in"
      BY <1>2, <2>1, <2>3, <3>3, HidePanelInv DEF Click
    <3>4. CASE ~Ignore /\ class[p] # "in"
      <4>1. ShowPanel(p) /\ class[p] = "collapse"
        BY <1>2, <3>1, <3>4 DEF Click, Settled
      <4>2. object[p].there => object[p].parent
        BY <3>1 DEF Settled
      <4>3. (object[p].there => object[p].parent) = TRUE
        BY <4>2
      <4>4. CASE Actives # {} /\ object[First].busy
        BY <2>1, <2>3, <4>1, <4>3, <4>4, MakeInv DEF ShowPanel
      <4>5. CASE ~(Actives # {} /\ object[First].busy)
        <5>1. Open(p, Actives, TRUE)
          BY <4>1, <4>3, <4>5 DEF ShowPanel
        <5> QED  BY <2>1, <2>3, <4>1, <4>5, <5>1, OpenInv
      <4> QED  BY <4>4, <4>5
    <3> QED  BY <3>2, <3>3, <3>4
  <2> QED  BY <2>2, <2>3
<1>3. ASSUME NEW p \in Panels, EndOfCollapse(p) PROVE CollapseInv'
  <2>1. CollapseTypeOK' /\ UNCHANGED unmade
    BY <1>3, EndOfCollapseTypes DEF CollapseInv, EndOfCollapse
  <2> QED  BY <1>3, <2>1, EndOfCollapseInv DEF CollapseInv
<1> QED  BY <1>1, <1>2, <1>3 DEF CollapseNext

LEMMA CollapseInvGivesOneOpen == CollapseInv => OneOpen
BY DEF CollapseInv, OneOpen, Opening

\* bootstrap.js:583: however fast the triggers are clicked, no two panels of an
\* accordion are open, for any number of panels.
THEOREM PanelsExclude == CollapseSpec => []OneOpen
<1> QED  BY CollapseInvGivesOneOpen, CollapseInitInv, CollapseStepInv, PTL DEF CollapseSpec
=============================================================================
