---------------------------- MODULE OrderTicket ----------------------------
(* The order form of the trade client's page (App.Views.OrderTicket of      *)
(* site.js) and what the server makes of an order it saves: oms.Order.Init  *)
(* and the factories' populateOrder. An input is empty or holds what parses, *)
(* as a browser ensures of number inputs. Controls that nothing switches and *)
(* the server does not look into (symbol, account, side, tif, session) are   *)
(* left out, and so is maturity_day, which always goes with the month.       *)
EXTENDS Integers

Securities == {"CS", "FUT", "OPT"}
OrdTypes   == {"Market", "Limit", "Stop", "Stop Limit"}
Inputs     == {"quantity", "price", "stop_price", "maturity_month_year", "strike_price"}
\* put_or_call is a select, which always has a value.
Controls   == Inputs \cup {"put_or_call"}

VARIABLES
  security,  \* the option selected in #security_type
  ordType,   \* the option selected in #ordType
  disabled,  \* the controls with the attribute disabled
  required,  \* the controls with the attribute required
  filled,    \* the inputs whose value is not empty
  posted,    \* the last order that was submitted
  verdict,   \* what became of it
  message    \* the prices of the NewOrderSingle it became

ticketVars == <<security, ordType, disabled, required, filled, posted, verdict, message>>

NoOrder == [security |-> "none", ordType |-> "none", has |-> {}]

-----------------------------------------------------------------------------
(* The form.                                                                *)

\* The form as the template has it.
Template == [security |-> "CS", ordType |-> "Market",
             disabled |-> Controls \ {"quantity"}, required |-> {"quantity"}]

\* Another page was shown and this one again: a new form, nothing kept.
Render ==
  /\ security' = Template.security /\ ordType' = Template.ordType
  /\ disabled' = Template.disabled /\ required' = Template.required
  /\ filled' = {}
  /\ UNCHANGED <<posted, verdict, message>>

\* The user types into an input, or empties it.
Type(i) ==
  /\ i \in Inputs \ disabled
  /\ \E f \in {filled \cup {i}, filled \ {i}} : filled' = f
  /\ UNCHANGED <<security, ordType, disabled, required, posted, verdict, message>>

\* Of the controls in C those in on are enabled, those in must required.
Switch(C, on, must) ==
  /\ disabled' = (disabled \ C) \cup (C \ on)
  /\ required' = (required \ C) \cup must

SecurityControls == {"maturity_month_year", "put_or_call", "strike_price"}

\* Mutant: the strike price is enabled for an option, and not required.
UpdateSecurityTypeNoStrike(s) ==
  CASE s = "CS"  -> Switch(SecurityControls, {}, {})
    [] s = "FUT" -> Switch(SecurityControls, {"maturity_month_year"}, {"maturity_month_year"})
    [] s = "OPT" -> Switch(SecurityControls, SecurityControls,
                           {"maturity_month_year", "put_or_call"})

UpdateSecurityType(s) ==
  CASE s = "CS"  -> Switch(SecurityControls, {}, {})
    [] s = "FUT" -> Switch(SecurityControls, {"maturity_month_year"}, {"maturity_month_year"})
    [] s = "OPT" -> Switch(SecurityControls, SecurityControls, SecurityControls)

\* The change event of #security_type; what is typed in stays.
SelectSecurity(s) ==
  /\ s # security /\ security' = s
  /\ UpdateSecurityType(s)
  /\ UNCHANGED <<ordType, filled, posted, verdict, message>>

Prices == {"price", "stop_price"}

UpdateOrdType(o) ==
  CASE o = "Limit"      -> Switch(Prices, {"price"}, {"price"})
    [] o = "Stop"       -> Switch(Prices, {"stop_price"}, {"stop_price"})
    [] o = "Stop Limit" -> Switch(Prices, Prices, Prices)
    [] OTHER            -> Switch(Prices, {}, {})

SelectOrdType(o) ==
  /\ o # ordType /\ ordType' = o
  /\ UpdateOrdType(o)
  /\ UNCHANGED <<security, filled, posted, verdict, message>>

-----------------------------------------------------------------------------
(* The server.                                                              *)

\* order.Init: the first field it cannot parse. An empty strike price is fine,
\* and one that is there parses, since its input is a number (site.js:637), so
\* that the answer "Invalid StrikePrice" (order.go:47) is none to this form.
Accept(order) ==
  CASE "quantity" \notin order.has -> "Invalid Qty"
    [] order.ordType \in {"Limit", "Stop Limit"} /\ "price" \notin order.has -> "Invalid Price"
    [] order.ordType \in {"Stop", "Stop Limit"} /\ "stop_price" \notin order.has -> "Invalid StopPrice"
    [] OTHER -> "accepted"

\* Mutant: what is there is sent, as Init does with the strike price.
PopulateOrderAll(order) == order.has \cap Prices

\* populateOrder: the prices in the message.
PopulateOrder(order) ==
  {p \in Prices : \/ p = "price" /\ order.ordType \in {"Limit", "Stop Limit"}
                  \/ p = "stop_price" /\ order.ordType \in {"Stop", "Stop Limit"}}

\* submit. The browser holds it back while a required input that is enabled
\* is empty; the code then reads every input, disabled ones too.
Submit ==
  /\ (required \cap Inputs) \ disabled \subseteq filled
  /\ posted' = [security |-> security, ordType |-> ordType, has |-> filled]
  /\ verdict' = Accept(posted')
  /\ message' = IF verdict' = "accepted" THEN PopulateOrder(posted') ELSE {}
  /\ UNCHANGED <<security, ordType, disabled, required, filled>>

-----------------------------------------------------------------------------
TicketInit ==
  /\ security = Template.security /\ ordType = Template.ordType
  /\ disabled = Template.disabled /\ required = Template.required
  /\ filled = {}
  /\ posted = NoOrder /\ verdict = "none" /\ message = {}

TicketNext ==
  \/ Render \/ Submit
  \/ \E i \in Inputs : Type(i)
  \/ \E s \in Securities : SelectSecurity(s)
  \/ \E o \in OrdTypes : SelectOrdType(o)

TicketSpec == TicketInit /\ [][TicketNext]_ticketVars

-----------------------------------------------------------------------------
TicketTypeOK ==
  /\ security \in Securities /\ ordType \in OrdTypes
  /\ disabled \subseteq Controls /\ required \subseteq Controls
  /\ filled \subseteq Inputs
  /\ posted \in [security : Securities \cup {"none"},
                 ordType : OrdTypes \cup {"none"}, has : SUBSET Inputs]
  /\ verdict \in {"none", "accepted", "Invalid Qty", "Invalid Price", "Invalid StopPrice"}
  /\ message \subseteq Prices

\* site.js:726 and :768 against order.go:50: whatever was selected and typed
\* in whatever order, an order the form lets out is one the server accepts,
\* with a maturity if it is of a future or an option and a strike price if it
\* is of an option.
SubmittedComplete ==
  posted # NoOrder =>
    /\ verdict = "accepted"
    /\ posted.security \in {"FUT", "OPT"} => "maturity_month_year" \in posted.has
    /\ posted.security = "OPT" => "strike_price" \in posted.has

\* fix_factory.go:66: a price that was typed in for another order type stays
\* in its disabled input and is posted (site.js:710); it never reaches the
\* counterparty.
NoStalePrice ==
  /\ "price" \in message => posted.ordType \in {"Limit", "Stop Limit"} /\ "price" \in posted.has
  /\ "stop_price" \in message =>
       posted.ordType \in {"Stop", "Stop Limit"} /\ "stop_price" \in posted.has
=============================================================================
