------------------------------ MODULE WebPage ------------------------------
(* The trade client's page (cmd/tradeclient/assets/js/site.js): one browser *)
(* task at a time over two Backbone collections, a router and the element   *)
(* #app, with requests whose answers arrive in any order, or fail.          *)
(* The ticket's form is the module OrderTicket; the classes of the          *)
(* navigation bar and what the cells of a row say are left out.             *)
EXTENDS Integers

CONSTANTS
  Orders, Executions,   \* IDs the server may give
  Polls,                \* ticks whose requests can be in flight at once
  Clicks,               \* requests of the user's that can be in flight at once
  NoId

Ids    == Orders \cup Executions
Tables == {"orders", "executions"}
Pages  == Tables \cup {"secdefs"}
\* "home" is the fragment "", the others are their own fragments; the
\* fragment orders/:id or executions/:id is the ID.
Fragments == Pages \cup {"home"} \cup Ids
States == {"none", "open", "closed"}
Flight == {"idle", "sent", "answered"}

ASSUME IdsAreIds ==
  /\ Orders \cap Executions = {}
  /\ Ids \cap (Pages \cup {"home", "blank", NoId}) = {}

VARIABLES
  book,      \* the server's orders and executions ("closed": open = "0")
  started,   \* App.start has run
  models,    \* App.orders and App.executions; "none" is not in the collection
  route,     \* Backbone.history.fragment
  view,      \* what #app shows: a page, or the ID whose details it shows
  shown,     \* the state of that ID when it was rendered
  rows,      \* the rows of the table in #app
  gone,      \* the rows whose model was destroyed
  polls,     \* the list requests of the ticks
  asked,     \* the requests the user's clicks caused
  late,      \* history: #app shows details for a fragment already left
  lost,      \* history: the details fetch for this fragment failed
  cancels    \* history: DELETEs by rows since a list showed the order open

pageVars == <<models, route, view, shown, rows, gone, asked, late, lost, cancels>>
vars == <<book, started, polls, pageVars>>

IdsOf(table) == IF table = "orders" THEN Orders ELSE Executions
Nothing      == [i \in Ids |-> "none"]
Listing(table, of) == [i \in Ids |-> IF i \in IdsOf(table) THEN of[i] ELSE "none"]
Idle         == [at |-> "idle", reply |-> Nothing]
NoClick      == [do |-> "none", id |-> NoId, at |-> "idle", state |-> "none"]

-----------------------------------------------------------------------------
(* Rendering.                                                               *)

\* A table's render and addAll: one row per model of the collection.
Render(table, of) ==
  /\ rows' = Listing(table, of)
  /\ gone' = {}

RenderNone == rows' = Nothing /\ gone' = {}

\* showOrders, showExecutions and showSecurityDefinitions render at once.
ShowPage(page) ==
  /\ view' = page /\ shown' = "none" /\ late' = FALSE
  /\ IF page \in Tables THEN Render(page, models) ELSE RenderNone

\* save, fetch and destroy send a request and return.
Send(do, i) ==
  \E c \in Clicks :
    /\ asked[c].at = "idle"
    /\ asked' = [asked EXCEPT ![c] =
                   [do |-> do, id |-> i, at |-> "sent", state |-> "none"]]

\* Mutant: nothing is fetched while a request is in flight.
ShowDetailsAlone(i) ==
  /\ IF \A c \in Clicks : asked[c].at = "idle" THEN Send("get", i) ELSE UNCHANGED asked
  /\ UNCHANGED <<view, shown, rows, gone, late>>

\* showOrderDetails and showExecutionDetails only fetch.
ShowDetails(i) ==
  /\ Send("get", i)
  /\ UNCHANGED <<view, shown, rows, gone, late>>

\* Mutant: the table has no entry for the empty fragment.
PageOfAsItIs(f) == f

\* What the router's table leads a fragment to.
PageOf(f) == IF f = "home" THEN "orders" ELSE f

\* The router's handler of a fragment.
Handle(f) ==
  /\ route' = f /\ lost' = FALSE
  /\ IF f \in Ids THEN ShowDetails(f)
     ELSE ShowPage(PageOf(f)) /\ UNCHANGED asked

-----------------------------------------------------------------------------
(* Tasks of the page.                                                       *)

\* App.start: the collections take what the page was served with; the router
\* handles the fragment the page was opened at.
Start ==
  /\ ~started
  /\ started' = TRUE
  /\ \E f \in Fragments : Handle(f)
  /\ UNCHANGED <<book, models, polls, cancels>>

\* history.navigate(f, {trigger: true}): nothing if f is the fragment already.
Navigate(f) ==
  /\ started /\ f # route
  /\ Handle(f)
  /\ UNCHANGED <<book, started, models, polls, cancels>>

\* A link of the navigation bar.
ClickLink == \E f \in Pages \cup {"home"} : Navigate(f)

\* The Details button of a row.
ClickDetails == \E i \in Ids : rows[i] # "none" /\ Navigate(i)

\* history.back, the Back buttons of the details and of the browser. The stack
\* is left out: any other fragment may lie below.
PopState == \E f \in Fragments : Navigate(f)

\* Mutant: the model leaves the collection when the answer comes (wait: true).
RowCancelWaits(i) ==
  /\ view = "orders" /\ rows[i] = "open" /\ i \notin gone
  /\ Send("row delete", i)
  /\ cancels' = [cancels EXCEPT ![i] = @ + 1]
  /\ UNCHANGED <<book, started, polls, models, route, view, shown, rows, gone, late, lost>>

\* The Cancel button of a row, enabled unless open is "0". destroy, in one task,
\* sends the DELETE and takes the model out of its collection; the row stays. A
\* model without a collection has no url, and destroy throws.
RowCancel(i) ==
  /\ view = "orders" /\ rows[i] = "open" /\ i \notin gone
  /\ Send("row delete", i)
  /\ models' = [models EXCEPT ![i] = "none"]
  /\ gone' = gone \cup {i}
  /\ cancels' = [cancels EXCEPT ![i] = @ + 1]
  /\ UNCHANGED <<book, started, polls, route, view, shown, rows, late, lost>>

\* The Cancel button of the details: the model has its own urlRoot.
DetailsCancel(i) ==
  /\ view = i /\ shown = "open"
  /\ Send("details delete", i)
  /\ UNCHANGED <<book, started, polls, models, route, view, shown, rows, gone,
                 late, lost, cancels>>

\* The interval, once App.orders is there: two fetches, whatever is in flight.
Tick ==
  /\ started
  /\ \E n \in Polls :
       /\ \A t \in Tables : polls[n][t].at = "idle"
       /\ polls' = [polls EXCEPT ![n] = [t \in Tables |-> [Idle EXCEPT !.at = "sent"]]]
  /\ UNCHANGED <<book, started, pageVars>>

\* Mutant: the table does not listen to reset.
ListReplyUnseen(n, t) ==
  /\ polls[n][t].at = "answered"
  /\ polls' = [polls EXCEPT ![n][t] = Idle]
  /\ models' = [i \in Ids |-> IF i \in IdsOf(t) THEN polls[n][t].reply[i] ELSE models[i]]
  /\ cancels' = [i \in Orders |-> IF polls[n][t].reply[i] = "open" THEN 0 ELSE cancels[i]]
  /\ UNCHANGED <<book, started, route, view, shown, rows, gone, asked, late, lost>>

\* Mutant: the models that came are added, those that are there stay.
ListReplyAdds(n, t) ==
  /\ polls[n][t].at = "answered"
  /\ polls' = [polls EXCEPT ![n][t] = Idle]
  /\ models' = [i \in Ids |-> IF models[i] = "none" THEN polls[n][t].reply[i] ELSE models[i]]
  /\ IF view = t THEN Render(t, models') ELSE UNCHANGED <<rows, gone>>
  /\ cancels' = [i \in Orders |-> IF polls[n][t].reply[i] = "open" THEN 0 ELSE cancels[i]]
  /\ UNCHANGED <<book, started, route, view, shown, asked, late, lost>>

\* A list arrives: reset replaces all models of the collection, and the table
\* that listens re-renders. Tables no longer in #app do so unseen.
ListReply(n, t) ==
  /\ polls[n][t].at = "answered"
  /\ polls' = [polls EXCEPT ![n][t] = Idle]
  /\ models' = [i \in Ids |-> IF i \in IdsOf(t) THEN polls[n][t].reply[i] ELSE models[i]]
  /\ IF view = t THEN Render(t, polls[n][t].reply) ELSE UNCHANGED <<rows, gone>>
  /\ cancels' = [i \in Orders |-> IF polls[n][t].reply[i] = "open" THEN 0 ELSE cancels[i]]
  /\ UNCHANGED <<book, started, route, view, shown, asked, late, lost>>

\* The request is lost or refused: fetch has no error callback here.
ListError(n, t) ==
  /\ polls[n][t].at = "sent"
  /\ polls' = [polls EXCEPT ![n][t] = Idle]
  /\ UNCHANGED <<book, started, pageVars>>

Done(c) == [asked EXCEPT ![c] = NoClick]

\* The details arrive and fill #app, whatever the fragment is by now.
DetailsReply(c) ==
  /\ asked[c].do = "get" /\ asked[c].at = "answered"
  /\ view' = asked[c].id /\ shown' = asked[c].state
  /\ late' = (asked[c].id # route)
  /\ RenderNone
  /\ asked' = Done(c)
  /\ UNCHANGED <<book, started, polls, models, route, lost, cancels>>

\* The request is lost, or the ID is not known: the error is only logged.
DetailsError(c) ==
  /\ asked[c].do = "get" /\ asked[c].at = "sent"
  /\ asked' = Done(c)
  /\ lost' = (lost \/ asked[c].id = route)
  /\ UNCHANGED <<book, started, polls, models, route, view, shown, rows, gone, late, cancels>>

\* Mutant: the fragment changes, and its handler is not called.
CancelReplySilent(c) ==
  /\ asked[c].do = "details delete" /\ asked[c].at = "answered"
  /\ route' = "orders" /\ lost' = FALSE
  /\ asked' = Done(c)
  /\ UNCHANGED <<book, started, polls, models, view, shown, rows, gone, late, cancels>>

\* The details' cancel was accepted: on to the orders, from wherever.
CancelReply(c) ==
  /\ asked[c].do = "details delete" /\ asked[c].at = "answered"
  /\ IF route = "orders"
       THEN UNCHANGED <<route, view, shown, rows, gone, late, lost>>
       ELSE /\ route' = "orders" /\ lost' = FALSE
            /\ ShowPage("orders")
  /\ asked' = Done(c)
  /\ UNCHANGED <<book, started, polls, models, cancels>>

\* A row's cancel has no callback; the refusal or loss of one from the details
\* is only logged.
CancelDone(c) ==
  /\ \/ asked[c].do = "row delete" /\ asked[c].at # "idle"
     \/ asked[c].do = "details delete" /\ asked[c].at = "sent"
  /\ asked' = Done(c)
  /\ UNCHANGED <<book, started, polls, models, route, view, shown, rows, gone,
                 late, lost, cancels>>

-----------------------------------------------------------------------------
(* The server and the network.                                              *)

\* An order is accepted, ends, an execution is reported. A DELETE only sends a
\* cancel request: the order ends when the counterparty says so.
Progress(i) ==
  /\ \/ i \in Orders /\ book[i] = "none" /\ book' = [book EXCEPT ![i] = "open"]
     \/ i \in Orders /\ book[i] = "open" /\ book' = [book EXCEPT ![i] = "closed"]
     \/ i \in Executions /\ book[i] = "none" /\ book' = [book EXCEPT ![i] = "closed"]
  /\ UNCHANGED <<started, polls, pageVars>>

ServeList(n, t) ==
  /\ polls[n][t].at = "sent"
  /\ polls' = [polls EXCEPT ![n][t] = [at |-> "answered", reply |-> Listing(t, book)]]
  /\ UNCHANGED <<book, started, pageVars>>

\* GET and DELETE answer with the order or execution as it is.
Serve(c) ==
  /\ asked[c].at = "sent"
  /\ book[asked[c].id] # "none"
  /\ asked' = [asked EXCEPT ![c].at = "answered", ![c].state = book[asked[c].id]]
  /\ UNCHANGED <<book, started, polls, models, route, view, shown, rows, gone,
                 late, lost, cancels>>

-----------------------------------------------------------------------------
Init ==
  /\ book \in {b \in [Ids -> States] : \A e \in Executions : b[e] # "open"}
  /\ models = book                \* var bootstrap in tmpl/index.html
  /\ started = FALSE
  /\ route = "home" /\ view = "blank" /\ shown = "none"
  /\ rows = Nothing /\ gone = {}
  /\ polls = [n \in Polls |-> [t \in Tables |-> Idle]]
  /\ asked = [c \in Clicks |-> NoClick]
  /\ late = FALSE /\ lost = FALSE
  /\ cancels = [i \in Orders |-> 0]

User  == ClickLink \/ ClickDetails \/ PopState
           \/ \E i \in Orders : RowCancel(i) \/ DetailsCancel(i)
Reply == \/ \E n \in Polls, t \in Tables : ListReply(n, t) \/ ListError(n, t)
         \/ \E c \in Clicks : DetailsReply(c) \/ DetailsError(c) \/ CancelReply(c) \/ CancelDone(c)
Server == \/ \E i \in Ids : Progress(i)
          \/ \E n \in Polls, t \in Tables : ServeList(n, t)
          \/ \E c \in Clicks : Serve(c)

Next == Start \/ Tick \/ User \/ Reply \/ Server

Spec == Init /\ [][Next]_vars

\* The interval keeps firing, every request is answered or fails, and a list
\* that is fetched again and again does not fail for ever.
Fairness ==
  /\ WF_vars(Start) /\ WF_vars(Tick)
  /\ \A n \in Polls, t \in Tables :
       /\ WF_vars(ServeList(n, t) \/ ListError(n, t)) /\ SF_vars(ServeList(n, t))
       /\ WF_vars(ListReply(n, t))
  /\ \A c \in Clicks :
       WF_vars(Serve(c) \/ DetailsReply(c) \/ DetailsError(c) \/ CancelReply(c) \/ CancelDone(c))

FairSpec == Spec /\ Fairness

-----------------------------------------------------------------------------
TypeOK ==
  /\ book \in [Ids -> States]
  /\ started \in BOOLEAN /\ late \in BOOLEAN /\ lost \in BOOLEAN
  /\ models \in [Ids -> States] /\ rows \in [Ids -> States]
  /\ route \in Fragments
  /\ view \in Pages \cup {"blank"} \cup Ids /\ shown \in States
  /\ gone \subseteq Orders
  /\ polls \in [Polls -> [Tables -> [at : Flight, reply : [Ids -> States]]]]
  /\ asked \in [Clicks -> [do : {"none", "get", "row delete", "details delete"},
                          id : Ids \cup {NoId}, at : Flight, state : States]]
  /\ cancels \in [Orders -> Nat]

\* site.js:427 and :466 redraw a table on reset only: its rows must be the
\* collection at all times, but for those whose model a cancel destroyed.
TableAgrees ==
  view \in Tables =>
    /\ gone \subseteq IdsOf(view)
    /\ \A i \in gone : models[i] = "none" /\ rows[i] # "none"
    /\ \A i \in Ids \ gone : rows[i] = Listing(view, models)[i]

\* site.js:415: however often its row's Cancel is clicked, and whatever views
\* come and go, rows send one DELETE for an order at most until a list arrives
\* that shows it open. The Cancel of the details, which sends one each time it
\* is clicked, is not meant.
OneDelete == \A i \in Orders : cancels[i] <= 1

Waiting == \E c \in Clicks : asked[c].do = "get" /\ asked[c].id = route /\ asked[c].at # "idle"

\* site.js:79-102: details fill #app when they arrive. #app shows what the
\* fragment names, unless its details are on their way or were refused, or
\* details of a fragment already left came in between.
ContentFollowsRoute ==
  started => view = PageOf(route) \/ late \/ (route \in Ids /\ (Waiting \/ lost))

\* Details that were asked for are shown, or refused, or no longer wanted.
DetailsAnswered ==
  \A i \in Ids : (started /\ route = i) ~> (view = i \/ lost \/ route # i)

Mirrored == INSTANCE Mirror WITH source <- book, copy <- models

\* site.js:17-18, :343 and :417: in whatever order answers, cancels and news come,
\* the page lists nothing that the server did not list before.
NothingInvented == Mirrored!Safe

\* The page is a mirror of the server's lists: and in the end it lists the news.
ImplementsMirror == NothingInvented /\ Mirrored!Arrives
=============================================================================
