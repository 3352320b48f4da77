----------------------------- MODULE MCControls -----------------------------
(* The controls of the page side by side: they share no state but whether    *)
(* the browser has transitions, so each behaviour uses one of them and       *)
(* leaves the others as they were made.                                      *)
EXTENDS OrderTicket, Carousel, Collapse, Modal, Tooltip

VARIABLE control   \* the one that is used

controlsVars == <<control, ticketVars, carouselVars, collapseVars, modalVars, tooltipVars>>

\* What an unused control starts with, so that it adds no states.
Unused ==
  /\ control = "ticket" => transition
  /\ control # "carousel" => wrap /\ timed
  /\ control # "collapse" => ~unmade /\ \A p \in Panels : object[p].there /\ class[p] # "in"
  /\ control # "tooltip" => triggers = {"click"} /\ delayed = {}

ControlsInit ==
  /\ TicketInit /\ CarouselInit /\ CollapseInit /\ ModalInit /\ TooltipInit
  /\ control \in {"ticket", "carousel", "collapse", "modal", "tooltip"}
  /\ Unused

UseTicket ==
  /\ control = "ticket" /\ TicketNext
  /\ UNCHANGED <<control, carouselVars, collapseVars, modalVars, tooltipVars>>

UseCarousel ==
  /\ control = "carousel" /\ CarouselNext
  /\ UNCHANGED <<control, ticketVars, collapseVars, modalVars, tooltipVars>>

UseCollapse ==
  /\ control = "collapse" /\ CollapseNext
  /\ UNCHANGED <<control, ticketVars, carouselVars, modalVars, tooltipVars>>

UseModal ==
  /\ control = "modal" /\ ModalNext
  /\ UNCHANGED <<control, ticketVars, carouselVars, collapseVars, tooltipVars>>

UseTooltip ==
  /\ control = "tooltip" /\ TooltipNext
  /\ UNCHANGED <<control, ticketVars, carouselVars, collapseVars, modalVars>>

ControlsNext == UseTicket \/ UseCarousel \/ UseCollapse \/ UseModal \/ UseTooltip

ControlsSpec ==
  /\ ControlsInit /\ [][ControlsNext]_controlsVars
  /\ CarouselFairness /\ CollapseFairness /\ ModalFairness /\ TooltipFairness

\* The state of every control has its type.
ControlsTypeOK ==
  TicketTypeOK /\ CarouselTypeOK /\ CollapseTypeOK /\ ModalTypeOK /\ TooltipTypeOK
=============================================================================
