------------------------------ MODULE Carousel ------------------------------
(* The carousel of bootstrap.js: its items, one of which is shown, the       *)
(* interval that moves it on, and requests for an item that arrive while a   *)
(* transition runs. The direction of a slide and the rendering are left out. *)
EXTENDS Integers, Sequences, Transition

CONSTANTS
  N,          \* number of items
  MaxWaiting  \* bound: requests that wait for the end of a slide

ASSUME CarouselAssumption == N \in Nat \ {0} /\ MaxWaiting \in Nat

Items == 0 .. N - 1

VARIABLES
  wrap,      \* options.wrap
  timed,     \* options.interval is not false
  active,    \* the items with class active
  indicator, \* the item whose indicator has class active
  sliding,   \* this.sliding
  slides,    \* handlers that wait for the end of a slide: from, to
  slidDue,   \* the timeout that will trigger 'slid' is set
  waiting,   \* positions of the to() calls that wait for 'slid'
  ticking,   \* this.interval is set
  paused     \* this.paused

carouselOptions == <<transition, wrap, timed>>
carouselVars == <<carouselOptions, active, indicator, sliding, slides, slidDue,
                  waiting, ticking, paused>>

-----------------------------------------------------------------------------
\* The item find('.item.active') gives, the first if there were several.
Active == CHOOSE i \in active : \A j \in active : i <= j

\* Mutant: the index does not wrap around.
ItemForDirectionBeyond(type) ==
  LET delta == IF type = "prev" THEN -1 ELSE 1
      ends  == IF type = "prev" THEN Active = 0 ELSE Active = N - 1 IN
  IF ends /\ ~wrap THEN Active ELSE Active + delta

\* getItemForDirection.
ItemForDirection(type) ==
  LET delta == IF type = "prev" THEN -1 ELSE 1
      ends  == IF type = "prev" THEN Active = 0 ELSE Active = N - 1 IN
  IF ends /\ ~wrap THEN Active ELSE (Active + delta + N) % N

\* isCycling && pause(), then isCycling && cycle(): the interval starts anew.
CycleIfCycling ==
  /\ ticking' = ticking
  /\ paused' = (paused /\ ~ticking)

\* slide(type, item). Without transitions it is over at once, 'slid' included.
Slide(item) ==
  IF item \in active
  THEN sliding' = FALSE /\ UNCHANGED <<active, indicator, slides, slidDue, ticking, paused>>
  ELSE /\ CycleIfCycling
       /\ indicator' = item
       /\ UNCHANGED slidDue
       /\ IF transition
          THEN /\ slides' = slides \cup {[from |-> Active, to |-> item]}
               /\ sliding' = TRUE
               /\ UNCHANGED active
          ELSE /\ active' = (active \ {Active}) \cup {item}
               /\ sliding' = FALSE
               /\ UNCHANGED slides

\* pause(e) while a slide runs calls cycle(e) first, and clears its interval.
PauseBy(event) ==
  /\ paused' = (paused \/ ~event)
  /\ ticking' = FALSE

\* Mutant: cycle does not look whether the carousel is paused.
CycleByPaused(event) ==
  /\ paused' = (paused /\ event)
  /\ ticking' = timed

CycleBy(event) ==
  /\ paused' = (paused /\ event)
  /\ ticking' = (timed /\ ~paused')

-----------------------------------------------------------------------------
(* What the user, the page and the timers do.                               *)

\* Mutant: nothing keeps a control from starting a second slide.
StepUnguarded(type) ==
  /\ Slide(ItemForDirection(type))
  /\ UNCHANGED <<carouselOptions, waiting>>

\* next() and prev(): a control, an arrow key, the interval.
Step(type) ==
  /\ ~sliding
  /\ Slide(ItemForDirection(type))
  /\ UNCHANGED <<carouselOptions, waiting>>

Control == \E type \in {"prev", "next"} : Step(type)
Interval == ticking /\ Step("next")

\* to(pos) when no slide runs. pause().cycle() starts a timed carousel.
GoTo(pos) ==
  IF pos \in active
  THEN /\ paused' = FALSE /\ ticking' = timed
       /\ UNCHANGED <<active, indicator, sliding, slides, slidDue>>
  ELSE Slide(pos)

\* to(pos): an indicator, or the page.
To(pos) ==
  /\ UNCHANGED carouselOptions
  /\ IF sliding
     THEN /\ Len(waiting) < MaxWaiting
          /\ waiting' = Append(waiting, pos)
          /\ UNCHANGED <<active, indicator, sliding, slides, slidDue, ticking, paused>>
     ELSE GoTo(pos) /\ UNCHANGED waiting

\* $().carousel('pause'), $().carousel('cycle'), the mouse enters and leaves.
Pause(event) ==
  /\ PauseBy(event)
  /\ UNCHANGED <<carouselOptions, active, indicator, sliding, slides, slidDue, waiting>>

Cycle(event) ==
  /\ CycleBy(event)
  /\ UNCHANGED <<carouselOptions, active, indicator, sliding, slides, slidDue, waiting>>

\* The end event of an item that slides out. The next one comes no sooner
\* than 'slid', which is a timeout of 0.
EndOfSlide(item) ==
  /\ ~slidDue
  /\ LET over == {s \in slides : s.from = item} IN
     /\ over # {}
     /\ active' = (active \ {item}) \cup {s.to : s \in over}
     /\ slides' = slides \ over
  /\ sliding' = FALSE /\ slidDue' = TRUE
  /\ UNCHANGED <<carouselOptions, indicator, waiting, ticking, paused>>

\* Mutant: calls that find a slide running again are dropped.
LaterNone(n) == <<>>

\* The calls after the nth wait once more.
Later(n) == SubSeq(waiting, n + 1, Len(waiting))

\* 'slid': the waiting calls run in turn, each of them to(pos) again. Those
\* for the item that is shown are served, the next one starts a slide, and
\* whatever comes after it waits once more.
Slid ==
  /\ slidDue /\ slidDue' = FALSE
  /\ LET others == {n \in 1 .. Len(waiting) : waiting[n] \notin active}
         first  == CHOOSE n \in others : \A m \in others : n <= m IN
     \/ /\ sliding
        /\ waiting' = Later(0)
        /\ UNCHANGED <<active, indicator, sliding, slides, ticking, paused>>
     \/ /\ ~sliding /\ others = {}
        /\ waiting' = <<>>
        /\ paused' = (paused /\ waiting = <<>>)
        /\ ticking' = IF waiting = <<>> THEN ticking ELSE timed
        /\ UNCHANGED <<active, indicator, sliding, slides>>
     \/ /\ ~sliding /\ others # {}
        /\ slides' = slides \cup {[from |-> Active, to |-> waiting[first]]}
        /\ sliding' = TRUE /\ indicator' = waiting[first]
        /\ waiting' = Later(first)
        /\ IF first > 1 THEN paused' = FALSE /\ ticking' = timed
                        ELSE CycleIfCycling
        /\ UNCHANGED active
  /\ UNCHANGED carouselOptions

-----------------------------------------------------------------------------
CarouselInit ==
  /\ TransitionInit
  /\ wrap \in BOOLEAN /\ timed \in BOOLEAN
  /\ active = {0} /\ indicator = 0
  /\ sliding = FALSE /\ slides = {} /\ slidDue = FALSE /\ waiting = <<>>
  /\ ticking = FALSE /\ paused = FALSE

CarouselNext ==
  \/ Control \/ Interval \/ Slid
  \/ \E i \in Items : To(i) \/ EndOfSlide(i)
  \/ \E event \in BOOLEAN : Pause(event) \/ Cycle(event)

\* The timers of emulateTransitionEnd and of 'slid' fire; not every time does
\* a click fall between the end of a slide and its 'slid'.
CarouselFairness ==
  /\ \A i \in Items : WF_carouselVars(EndOfSlide(i))
  /\ WF_carouselVars(Slid) /\ SF_carouselVars(Slid /\ ~sliding)

CarouselSpec == CarouselInit /\ [][CarouselNext]_carouselVars /\ CarouselFairness

-----------------------------------------------------------------------------
CarouselTypeOK ==
  /\ transition \in BOOLEAN /\ wrap \in BOOLEAN /\ timed \in BOOLEAN
  /\ active \subseteq Items /\ indicator \in Items
  /\ sliding \in BOOLEAN /\ slidDue \in BOOLEAN
  /\ ticking \in BOOLEAN /\ paused \in BOOLEAN
  /\ slides \subseteq [from : Items, to : Items]
  /\ waiting \in Seq(Items)

\* bootstrap.js:411: clicks, keys, the interval and waiting requests come while
\* slides run, and yet one item is shown, and the indicator is on the item
\* that is shown or is sliding in.
OneActive ==
  \E i \in Items :
    /\ active = {i}
    /\ ~sliding => indicator = i
    /\ sliding => slides = {[from |-> i, to |-> indicator]} /\ indicator # i

\* bootstrap.js:355: a carousel the page paused does not move on by itself,
\* wherever the mouse goes, until the page or the user moves it.
PausedStays == paused => ~ticking

\* bootstrap.js:382: an item asked for during a slide is shown in the end.
RequestsServed ==
  \A i \in Items : (\E n \in 1 .. Len(waiting) : waiting[n] = i) ~> (active = {i})
=============================================================================
