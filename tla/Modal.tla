------------------------------- MODULE Modal -------------------------------
(* The modal dialog of bootstrap.js, with class fade, a backdrop and an     *)
(* overflowing body: what its calls leave of the element, the backdrop, the *)
(* body's class and padding and the focus trap, while transitions are still *)
(* running. The events, the size of the dialog and other modals are left    *)
(* out; what ends the slide-in of the dialog only fires an event.  *)
EXTENDS Integers, Sequences, FiniteSets, Transition

CONSTANT MaxBackdrops   \* bound: backdrop elements, and paddings on the body

ASSUME ModalAssumption == MaxBackdrops \in Nat \ {0}

Backdrops == 1 .. MaxBackdrops
Modal     == 0           \* the modal element; backdrop 0 is null
Elements  == Backdrops \cup {Modal}

VARIABLES
  isShown,     \* this.isShown
  visible,     \* the element is displayed
  faded,       \* the element has class in
  inBody,      \* the backdrop elements in the body
  backdrop,    \* this.$backdrop, or 0
  bodyOpen,    \* the body has class modal-open
  pad,         \* paddings added to the body
  originalPad, \* this.originalBodyPad
  trap,        \* the document's focusin handler is set
  waits,       \* what waits for an element's end event, in its order
  ahead,       \* the backdrops whose transition began before an element's
  reshown,     \* history: show() came before a hide() was over
  rushed       \* history: hide() came before show() was over

modalVars == <<transition, isShown, visible, faded, inBody, backdrop, bodyOpen,
               pad, originalPad, trap, waits, ahead, reshown, rushed>>

-----------------------------------------------------------------------------
(* A step is written from the handlers it runs, in their order, to the state *)
(* they leave: st is the record of what they change.                         *)

State == [visible |-> visible, faded |-> faded, inBody |-> inBody,
          backdrop |-> backdrop, bodyOpen |-> bodyOpen, pad |-> pad,
          trap |-> trap, waits |-> waits, ahead |-> ahead]

Becomes(st) ==
  /\ visible' = st.visible /\ faded' = st.faded
  /\ inBody' = st.inBody /\ backdrop' = st.backdrop
  /\ bodyOpen' = st.bodyOpen /\ pad' = st.pad
  /\ trap' = st.trap /\ waits' = st.waits /\ ahead' = st.ahead

\* What waits has the time of its element's transition, which begins with it.
Wait(st, element, do) ==
  [st EXCEPT !.waits[element] = Append(@, do),
             !.ahead[element] = IF st.waits[element] # <<>> THEN @
                                ELSE {b \in Backdrops : st.waits[b] # <<>>}]

\* The transition of an element is over, or the element is gone.
Ended(st, element) ==
  [st EXCEPT !.waits[element] = <<>>,
             !.ahead = [e \in Elements |-> IF e = element THEN {} ELSE st.ahead[e] \ {element}]]

Idle == \A element \in Elements : waits[element] = <<>>

\* The callback of show(): the element appears, focus is kept in it.
Appear(st) == [st EXCEPT !.visible = TRUE, !.faded = TRUE, !.trap = TRUE]

\* Mutant: the class goes, the padding stays.
RestoreClass(st) == [st EXCEPT !.bodyOpen = FALSE]

\* The callback of hideModal(): class and padding of the body as before.
Restore(st) == [st EXCEPT !.bodyOpen = FALSE, !.pad = originalPad]

Free(st) == Backdrops \ st.inBody

\* A new element becomes this.$backdrop, whatever that was.
AddBackdrop(st) ==
  LET b == CHOOSE b \in Free(st) : \A c \in Free(st) : b <= c IN
  [st EXCEPT !.inBody = @ \cup {b}, !.backdrop = b]

\* removeBackdrop(): whatever this.$backdrop is by now; its handlers go too.
RemoveBackdrop(st) ==
  IF st.backdrop = 0 THEN st
  ELSE [Ended(st, st.backdrop) EXCEPT !.inBody = @ \ {st.backdrop}, !.backdrop = 0]

\* Mutant: the backdrop is not waited for, and stays.
HideModalKeeps(st, shown) == Restore([st EXCEPT !.visible = FALSE])

\* hideModal(): if the modal was shown again, backdrop() makes one more, and
\* body and padding are restored under the modal.
HideModal(st, shown) ==
  LET hidden == [st EXCEPT !.visible = FALSE] IN
  CASE shown /\ transition      -> LET added == AddBackdrop(hidden) IN Wait(added, added.backdrop, "restore")
    [] shown /\ ~transition     -> Restore(AddBackdrop(hidden))
    [] ~shown /\ st.backdrop = 0 -> Restore(hidden)
    [] ~shown /\ st.backdrop # 0 /\ transition  -> Wait(hidden, st.backdrop, "remove")
    [] ~shown /\ st.backdrop # 0 /\ ~transition -> Restore(RemoveBackdrop(hidden))

Run(st, do) ==
  CASE do = "show"    -> Appear(st)
    [] do = "hide"    -> HideModal(st, isShown)
    [] do = "remove"  -> Restore(RemoveBackdrop(st))
    [] do = "restore" -> Restore(st)

\* All of dos, one after the other.
RunAll(st, dos) ==
  LET ran[n \in 0 .. Len(dos)] == IF n = 0 THEN st ELSE Run(ran[n - 1], dos[n])
  IN  ran[Len(dos)]

-----------------------------------------------------------------------------
\* show(): a trigger, the page. A body that is modal-open already has no
\* scrollbar that a padding makes up for.
Show ==
  /\ ~isShown /\ Free(State) # {} /\ pad < MaxBackdrops
  /\ isShown' = TRUE
  /\ originalPad' = pad
  /\ LET added == AddBackdrop([State EXCEPT !.bodyOpen = TRUE,
                                            !.pad = IF bodyOpen THEN @ ELSE @ + 1]) IN
     Becomes(IF transition THEN Wait(added, added.backdrop, "show") ELSE Appear(added))
  /\ reshown' = (reshown \/ ~Idle)
  /\ UNCHANGED <<transition, rushed>>

\* hide(): a dismiss button, the escape key, a click beside the dialog, the page.
Hide ==
  /\ isShown
  /\ isShown' = FALSE
  /\ LET out == [State EXCEPT !.faded = FALSE, !.trap = FALSE] IN
     Becomes(IF transition THEN Wait(out, Modal, "hide") ELSE HideModal(out, FALSE))
  /\ rushed' = (rushed \/ ~Idle)
  /\ UNCHANGED <<transition, originalPad, reshown>>

\* The end event of an element. A transition of a backdrop takes 150 ms, one
\* of the modal 150 to 300, so that what waits for a backdrop is never
\* overtaken.
EndOfFade(element) ==
  /\ waits[element] # <<>> /\ ahead[element] = {}
  /\ Cardinality(Free(State)) >= Len(waits[element])
  /\ Becomes(RunAll(Ended(State, element), waits[element]))
  /\ UNCHANGED <<transition, isShown, originalPad, reshown, rushed>>

-----------------------------------------------------------------------------
ModalInit ==
  /\ TransitionInit
  /\ isShown = FALSE /\ visible = FALSE /\ faded = FALSE
  /\ inBody = {} /\ backdrop = 0 /\ bodyOpen = FALSE
  /\ pad = 0 /\ originalPad = 0 /\ trap = FALSE
  /\ waits = [element \in Elements |-> <<>>] /\ ahead = [element \in Elements |-> {}]
  /\ reshown = FALSE /\ rushed = FALSE

ModalNext == Show \/ Hide \/ \E element \in Elements : EndOfFade(element)

ModalFairness == \A element \in Elements : WF_modalVars(EndOfFade(element))

ModalSpec == ModalInit /\ [][ModalNext]_modalVars /\ ModalFairness

-----------------------------------------------------------------------------
ModalTypeOK ==
  /\ {transition, isShown, visible, faded, bodyOpen, trap, reshown, rushed} \subseteq BOOLEAN
  /\ inBody \subseteq Backdrops /\ backdrop \in Elements
  /\ pad \in 0 .. MaxBackdrops /\ originalPad \in 0 .. MaxBackdrops
  /\ waits \in [Elements -> Seq({"show", "hide", "remove", "restore"})]
  /\ ahead \in [Elements -> SUBSET Backdrops]

Closed == ~visible /\ inBody = {} /\ ~bodyOpen /\ pad = 0
Opened == visible /\ faded /\ inBody = {backdrop} /\ bodyOpen /\ pad = 1 /\ trap

\* bootstrap.js:986 and :1080: after the transitions a modal is there or gone
\* as a whole, however show and hide cut across them, unless show() came before
\* a hide() was over; and the page's focus is not trapped by a modal that is
\* gone, unless hide() came before show() was over.
ModalWhole ==
  Idle /\ ~reshown =>
    /\ isShown => Opened
    /\ ~isShown => Closed /\ (trap => rushed)

\* A modal that was hidden goes away.
ModalCloses == ~isShown ~> (isShown \/ reshown \/ Closed)
=============================================================================
