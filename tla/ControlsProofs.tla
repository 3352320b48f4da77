--------------------------- MODULE ControlsProofs ---------------------------
(* What OrderTicket promises about submitted orders, for every sequence of   *)
(* selections, input and re-rendering; and what all controls of the page     *)
(* promise side by side.                                                     *)
EXTENDS MCControls, FadeProofs

-----------------------------------------------------------------------------
(* The order form. The two switch handlers never look at each other's        *)
(* controls; the invariant says what they establish between them: which      *)
(* inputs are required follows from the two selections alone.                *)

\* The inputs a selection needs, whatever was selected before.
Needed(s, o) ==
  {"quantity"}
    \cup (IF s \in {"FUT", "OPT"} THEN {"maturity_month_year"} ELSE {})
    \cup (IF s = "OPT" THEN {"put_or_call", "strike_price"} ELSE {})
    \cup (IF o \in {"Limit", "Stop Limit"} THEN {"price"} ELSE {})
    \cup (IF o \in {"Stop", "Stop Limit"} THEN {"stop_price"} ELSE {})

\* The form: required inputs follow from the selections and are enabled.
FormInv ==
  /\ security \in Securities /\ ordType \in OrdTypes
  /\ filled \subseteq Inputs
  /\ required = Needed(security, ordType)
  /\ disabled = Controls \ required

\* The form, and what was submitted last.
TicketInv == FormInv /\ TicketTypeOK /\ SubmittedComplete /\ NoStalePrice

\* A change of the security type switches the inputs of the security type and
\* no others (updateSecurityType).
LEMMA SecuritySwitches ==
  ASSUME FormInv, NEW s \in Securities, UpdateSecurityType(s)
  PROVE  required' = Needed(s, ordType) /\ disabled' = Controls \ required'
<1>1. CASE s = "CS"
  BY <1>1 DEF FormInv, Needed, UpdateSecurityType, Switch, SecurityControls, Controls, Inputs
<1>2. CASE s = "FUT"
  BY <1>2 DEF FormInv, Needed, UpdateSecurityType, Switch, SecurityControls, Controls, Inputs
<1>3. CASE s = "OPT"
  BY <1>3 DEF FormInv, Needed, UpdateSecurityType, Switch, SecurityControls, Controls, Inputs
<1> QED  BY <1>1, <1>2, <1>3 DEF Securities

\* A change of the order type switches the two prices and no others
\* (updateOrdType).
LEMMA OrdTypeSwitches ==
  ASSUME FormInv, NEW o \in OrdTypes, UpdateOrdType(o)
  PROVE  required' = Needed(security, o) /\ disabled' = Controls \ required'
<1>1. CASE o = "Market"
  BY <1>1 DEF FormInv, Needed, UpdateOrdType, Switch, Prices, Controls, Inputs
<1>2. CASE o = "Limit"
  BY <1>2 DEF FormInv, Needed, UpdateOrdType, Switch, Prices, Controls, Inputs
<1>3. CASE o = "Stop"
  BY <1>3 DEF FormInv, Needed, UpdateOrdType, Switch, Prices, Controls, Inputs
<1>4. CASE o = "Stop Limit"
  BY <1>4 DEF FormInv, Needed, UpdateOrdType, Switch, Prices, Controls, Inputs
<1> QED  BY <1>1, <1>2, <1>3, <1>4 DEF OrdTypes

\* What the browser lets out has every input its selections need.
LEMMA SubmittedHasNeeded ==
  ASSUME FormInv, Submit
  PROVE  /\ posted' = [security |-> security, ordType |-> ordType, has |-> filled]
         /\ Needed(security, ordType) \cap Inputs \subseteq filled
BY DEF FormInv, Submit

\* order.Init takes an order that has what its selections need.
LEMMA NeededAccepted ==
  ASSUME NEW order, Needed(order.security, order.ordType) \cap Inputs \subseteq order.has
  PROVE  Accept(order) = "accepted"
BY DEF Accept, Needed, Inputs

\* The form keeps the invariant through every handler of the page.
LEMMA FormStep ==
  ASSUME FormInv, TicketNext
  PROVE  FormInv'
<1>1. CASE Render
  BY <1>1 DEF Render, Template, FormInv, Needed, Securities, OrdTypes, Controls, Inputs
<1>2. CASE Submit
  BY <1>2 DEF Submit, FormInv
<1>3. ASSUME NEW i \in Inputs, Type(i)
      PROVE  FormInv'
  BY <1>3 DEF Type, FormInv
<1>4. ASSUME NEW s \in Securities, SelectSecurity(s)
      PROVE  FormInv'
  <2>1. required' = Needed(s, ordType) /\ disabled' = Controls \ required'
    BY <1>4, SecuritySwitches DEF SelectSecurity
  <2> QED  BY <1>4, <2>1 DEF SelectSecurity, FormInv
<1>5. ASSUME NEW o \in OrdTypes, SelectOrdType(o)
      PROVE  FormInv'
  <2>1. required' = Needed(security, o) /\ disabled' = Controls \ required'
    BY <1>5, OrdTypeSwitches DEF SelectOrdType
  <2> QED  BY <1>5, <2>1 DEF SelectOrdType, FormInv
<1> QED  BY <1>1, <1>2, <1>3, <1>4, <1>5 DEF TicketNext

\* An order that goes out is accepted and complete, and its message has the
\* prices its type calls for and no other.
LEMMA SubmitStep ==
  ASSUME FormInv, Submit
  PROVE  /\ SubmittedComplete' /\ NoStalePrice'
         /\ posted' \in [security : Securities \cup {"none"},
                         ordType : OrdTypes \cup {"none"}, has : SUBSET Inputs]
         /\ verdict' = "accepted" /\ message' \subseteq Prices
<1>1. /\ posted' = [security |-> security, ordType |-> ordType, has |-> filled]
      /\ Needed(security, ordType) \cap Inputs \subseteq filled
  BY SubmittedHasNeeded
<1>2. verdict' = "accepted"
  <2>1. Accept(posted') = "accepted"
    BY <1>1, NeededAccepted
  <2> QED  BY <2>1 DEF Submit
<1>3. message' = PopulateOrder(posted')
  BY <1>2 DEF Submit
<1>4. SubmittedComplete'
  BY <1>1, <1>2 DEF SubmittedComplete, Needed, Inputs
<1>5. NoStalePrice'
  BY <1>1, <1>3 DEF NoStalePrice, PopulateOrder, Prices, Needed, Inputs
<1>6. message' \subseteq Prices
  BY <1>3 DEF PopulateOrder
<1>7. posted' \in [security : Securities \cup {"none"},
                   ordType : OrdTypes \cup {"none"}, has : SUBSET Inputs]
  BY <1>1 DEF FormInv
<1> QED  BY <1>2, <1>4, <1>5, <1>6, <1>7

\* The invariant holds of the form the page starts with.
LEMMA TicketInitInv == TicketInit => TicketInv
<1> SUFFICES ASSUME TicketInit PROVE TicketInv
  OBVIOUS
<1> USE DEF TicketInit, Template, NoOrder
<1>1. FormInv
  BY DEF FormInv, Needed, Securities, OrdTypes, Controls, Inputs
<1>2. TicketTypeOK
  BY DEF TicketTypeOK, Securities, OrdTypes, Controls, Inputs, Prices
<1>3. SubmittedComplete /\ NoStalePrice
  BY DEF SubmittedComplete, NoStalePrice
<1> QED  BY <1>1, <1>2, <1>3 DEF TicketInv

\* Every step keeps it: only submit changes what was posted.
LEMMA TicketStepInv == TicketInv /\ [TicketNext]_ticketVars => TicketInv'
<1> SUFFICES ASSUME TicketInv, [TicketNext]_ticketVars PROVE TicketInv'
  OBVIOUS
<1>1. CASE UNCHANGED ticketVars
  BY <1>1 DEF ticketVars, TicketInv, FormInv, TicketTypeOK, SubmittedComplete, NoStalePrice
<1>2. CASE TicketNext
  <2>1. FormInv'
    BY <1>2, FormStep DEF TicketInv
  <2>2. disabled' \subseteq Controls /\ required' \subseteq Controls
    BY <2>1 DEF FormInv, Needed, Controls, Inputs
  <2>3. CASE Submit
    <3>1. /\ SubmittedComplete' /\ NoStalePrice'
          /\ posted' \in [security : Securities \cup {"none"},
                          ordType : OrdTypes \cup {"none"}, has : SUBSET Inputs]
          /\ verdict' = "accepted" /\ message' \subseteq Prices
      BY <2>3, SubmitStep DEF TicketInv
    <3> QED  BY <2>1, <2>2, <3>1 DEF TicketInv, FormInv, TicketTypeOK
  <2>4. CASE ~Submit
    <3>1. UNCHANGED <<posted, verdict, message>>
      BY <1>2, <2>4 DEF TicketNext, Render, Type, SelectSecurity, SelectOrdType
    <3> QED  BY <2>1, <2>2, <3>1 DEF TicketInv, FormInv, TicketTypeOK, SubmittedComplete, NoStalePrice
  <2> QED  BY <2>3, <2>4
<1> QED  BY <1>1, <1>2

\* site.js:726 and :768 against order.go:50: an order the form lets out is
\* accepted and complete, for every sequence of handlers.
THEOREM OrdersComplete == TicketSpec => []SubmittedComplete
<1>1. TicketInv => SubmittedComplete
  BY DEF TicketInv
<1> QED  BY <1>1, TicketInitInv, TicketStepInv, PTL DEF TicketSpec

\* fix_factory.go:66: a price typed in for another order type never reaches
\* the counterparty.
THEOREM PricesFresh == TicketSpec => []NoStalePrice
<1>1. TicketInv => NoStalePrice
  BY DEF TicketInv
<1> QED  BY <1>1, TicketInitInv, TicketStepInv, PTL DEF TicketSpec

-----------------------------------------------------------------------------
(* The controls side by side. They share only transition, which none of them *)
(* changes: a step of one is a stutter of each of the others.                *)

ControlsInv ==
  /\ TicketInv /\ CarouselInv /\ PausedStays
  /\ CollapseInv /\ ModalInv /\ TipInv

LEMMA ControlsInitInv == ControlsInit => ControlsInv
BY TicketInitInv, CarouselInitInv, PausedInitInv, CollapseInitInv, ModalInitInv, TipInitInv
   DEF ControlsInit, ControlsInv

LEMMA ControlsStepInv == ControlsInv /\ [ControlsNext]_controlsVars => ControlsInv'
<1> SUFFICES ASSUME ControlsInv, [ControlsNext]_controlsVars PROVE ControlsInv'
  OBVIOUS
<1>1. /\ [TicketNext]_ticketVars /\ [CarouselNext]_carouselVars /\ [CollapseNext]_collapseVars
      /\ [ModalNext]_modalVars /\ [TooltipNext]_tooltipVars
  BY DEF ControlsNext, controlsVars, UseTicket, UseCarousel, UseCollapse, UseModal, UseTooltip
<1> QED
  BY <1>1, TicketStepInv, CarouselStepInv, PausedStepInv, CollapseStepInv, ModalStepInv, TipStepInv
     DEF ControlsInv

\* The state of every control keeps its type, whichever is used.
THEOREM ControlsTyping == ControlsSpec => []ControlsTypeOK
<1>1. ControlsInv => ControlsTypeOK
  BY DEF ControlsInv, ControlsTypeOK, TicketInv, CarouselInv, CollapseInv, ModalInv, TipInv
<1> QED  BY <1>1, ControlsInitInv, ControlsStepInv, PTL DEF ControlsSpec

\* What each control promises it promises beside the others: an unused control
\* stays as it was made, a used one disturbs no other.
THEOREM ControlsHold ==
  ControlsSpec => [](/\ SubmittedComplete /\ NoStalePrice /\ OneActive /\ PausedStays
                     /\ OneOpen /\ ModalWhole /\ TipFollows)
<1>1. ControlsInv => /\ SubmittedComplete /\ NoStalePrice /\ OneActive /\ PausedStays
                     /\ OneOpen /\ ModalWhole /\ TipFollows
  BY ShowsGiveOneActive, CollapseInvGivesOneOpen, ModalInvGivesWhole, TipInvGivesFollows
     DEF ControlsInv, TicketInv, CarouselInv
<1> QED  BY <1>1, ControlsInitInv, ControlsStepInv, PTL DEF ControlsSpec
=============================================================================
