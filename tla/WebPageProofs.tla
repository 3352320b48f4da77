--------------------------- MODULE WebPageProofs ---------------------------
(* What WebPage promises for any number of orders, executions, ticks and    *)
(* clicks in flight. What the properties say is not inductive by itself: a  *)
(* row sends no second DELETE because a model that was cancelled is not in   *)
(* its collection, open, until a list has it so and clears the count; and   *)
(* the page lists nothing new because no answer on its way to it does.      *)
EXTENDS WebPage, TLAPS

\* A cancelled order is open in the collection only once a list showed it so.
CancelledOut == \A i \in Orders : cancels[i] = 0 \/ (cancels[i] = 1 /\ models[i] # "open")

\* A request under way is about an order or an execution.
Named == \A c \in Clicks : asked[c].at # "idle" => asked[c].id \in Ids

\* The invariant.
IInv == TypeOK /\ Named /\ TableAgrees /\ CancelledOut /\ ContentFollowsRoute

Flying == [do : {"none", "get", "row delete", "details delete"},
           id : Ids \cup {NoId}, at : Flight, state : States]

-----------------------------------------------------------------------------
(* The rendering of the page.                                               *)

\* A page that was just rendered agrees with the collections.
LEMMA RenderedAgrees ==
  ASSUME models' = models, models \in [Ids -> States], NEW page \in Pages, ShowPage(page)
  PROVE  TableAgrees' /\ view' = page /\ late' = FALSE
BY IdsAreIds DEF ShowPage, Render, RenderNone, TableAgrees, IdsOf, Ids, Tables

\* The types of what a rendering leaves.
LEMMA RenderedTypes ==
  ASSUME TypeOK, NEW page \in Pages, ShowPage(page)
  PROVE  /\ rows' \in [Ids -> States] /\ gone' \subseteq Orders
         /\ view' \in Pages /\ shown' \in States /\ late' \in BOOLEAN
BY DEF TypeOK, ShowPage, Render, RenderNone, Listing, Nothing, States

\* A request goes out in a place that was free.
LEMMA SentTypes ==
  ASSUME TypeOK, Named,
         NEW do \in {"get", "row delete", "details delete"}, NEW i \in Ids, Send(do, i)
  PROVE  /\ asked' \in [Clicks -> Flying] /\ Named'
         /\ \A c \in Clicks : asked[c].at # "idle" => asked'[c] = asked[c]
         /\ \E c \in Clicks : asked'[c].do = do /\ asked'[c].id = i /\ asked'[c].at = "sent"
<1>1. PICK c \in Clicks : /\ asked[c].at = "idle"
                          /\ asked' = [asked EXCEPT ![c] =
                                         [do |-> do, id |-> i, at |-> "sent", state |-> "none"]]
  BY DEF Send
<1>2. [do |-> do, id |-> i, at |-> "sent", state |-> "none"] \in Flying
  BY DEF Flying, Flight, States
<1>3. asked \in [Clicks -> Flying]
  BY DEF TypeOK, Flying
<1> QED  BY <1>1, <1>2, <1>3 DEF Named

\* The router's handler: the page is rendered, or the details are asked for.
LEMMA Handled ==
  ASSUME TypeOK, Named, TableAgrees, models' = models, NEW f \in Fragments, Handle(f)
  PROVE  /\ route' = f /\ lost' = FALSE
         /\ rows' \in [Ids -> States] /\ gone' \subseteq Orders
         /\ view' \in Pages \cup {"blank"} \cup Ids /\ shown' \in States /\ late' \in BOOLEAN
         /\ asked' \in [Clicks -> Flying] /\ Named'
         /\ TableAgrees'
         /\ view' = PageOf(f) \/ (f \in Ids /\ Waiting')
<1>1. CASE f \in Ids
  <2>1. ShowDetails(f) /\ route' = f /\ lost' = FALSE
    BY <1>1 DEF Handle
  <2>2. /\ asked' \in [Clicks -> Flying] /\ Named'
        /\ \E c \in Clicks : asked'[c].do = "get" /\ asked'[c].id = f /\ asked'[c].at = "sent"
    BY <2>1, <1>1, SentTypes DEF ShowDetails
  <2>3. UNCHANGED <<view, shown, rows, gone, late>>
    BY <2>1 DEF ShowDetails
  <2>4. TableAgrees'
    BY <2>3 DEF TableAgrees
  <2> QED  BY <1>1, <2>1, <2>2, <2>3, <2>4 DEF TypeOK, Waiting
<1>2. CASE f \notin Ids
  <2>1. PageOf(f) \in Pages
    BY <1>2 DEF PageOf, Fragments, Pages, Tables
  <2>2. ShowPage(PageOf(f)) /\ UNCHANGED asked /\ route' = f /\ lost' = FALSE
    BY <1>2 DEF Handle
  <2>3. TableAgrees' /\ view' = PageOf(f)
    BY <2>1, <2>2, RenderedAgrees DEF TypeOK
  <2>4. /\ rows' \in [Ids -> States] /\ gone' \subseteq Orders
        /\ view' \in Pages /\ shown' \in States /\ late' \in BOOLEAN
    BY <2>1, <2>2, RenderedTypes
  <2> QED  BY <2>2, <2>3, <2>4 DEF TypeOK, Flying, Named
<1> QED  BY <1>1, <1>2

\* A request that is over leaves the others as they are.
LEMMA DoneTypes ==
  ASSUME TypeOK, Named, NEW c \in Clicks, asked' = Done(c)
  PROVE  /\ asked' \in [Clicks -> Flying] /\ Named'
         /\ \A d \in Clicks \ {c} : asked'[d] = asked[d]
         /\ asked'[c] = NoClick
<1>1. NoClick \in Flying
  BY DEF NoClick, Flying, Flight, States
<1> QED  BY <1>1 DEF TypeOK, Done, Flying, Named, NoClick

-----------------------------------------------------------------------------
(* Steps that go through the router.                                        *)

\* The first page, and every navigation.
LEMMA RouterStep ==
  ASSUME IInv, Start \/ \E f \in Fragments : Navigate(f)
  PROVE  IInv'
<1>1. PICK f \in Fragments : /\ Handle(f) /\ started' = TRUE
                             /\ UNCHANGED <<book, models, polls, cancels>>
  BY DEF Start, Navigate, IInv, TypeOK
<1>2. TypeOK /\ Named /\ TableAgrees /\ models' = models
  BY <1>1 DEF IInv
<1> HIDE <1>1
<1>3. /\ route' = f /\ lost' = FALSE
      /\ rows' \in [Ids -> States] /\ gone' \subseteq Orders
      /\ view' \in Pages \cup {"blank"} \cup Ids /\ shown' \in States /\ late' \in BOOLEAN
      /\ asked' \in [Clicks -> Flying] /\ Named'
      /\ TableAgrees'
      /\ view' = PageOf(f) \/ (f \in Ids /\ Waiting')
  BY <1>1, <1>2, Handled
<1>4. TypeOK'
  BY <1>1, <1>2, <1>3 DEF TypeOK, Flying
<1>5. CancelledOut'
  BY <1>1 DEF IInv, CancelledOut
<1>6. ContentFollowsRoute'
  BY <1>3 DEF ContentFollowsRoute
<1> QED  BY <1>3, <1>4, <1>5, <1>6 DEF IInv

\* The cancel of the details, when it was accepted.
LEMMA CancelReplyStep ==
  ASSUME IInv, NEW c \in Clicks, CancelReply(c)
  PROVE  IInv'
<1>1. /\ asked[c].do = "details delete"
      /\ asked' = Done(c)
      /\ UNCHANGED <<book, started, polls, models, cancels>>
  BY DEF CancelReply
<1>2. /\ asked' \in [Clicks -> Flying] /\ Named'
      /\ \A d \in Clicks \ {c} : asked'[d] = asked[d]
  BY <1>1, DoneTypes DEF IInv
<1>3. CASE route = "orders"
  <2>1. UNCHANGED <<route, view, shown, rows, gone, late, lost>>
    BY <1>3 DEF CancelReply
  <2>2. TypeOK' /\ TableAgrees' /\ CancelledOut'
    BY <1>1, <1>2, <2>1 DEF IInv, TypeOK, TableAgrees, CancelledOut, Flying
  <2>3. Waiting => Waiting'
    BY <1>1, <1>2, <2>1 DEF Waiting
  <2>4. ContentFollowsRoute'
    BY <1>1, <2>1, <2>3 DEF IInv, ContentFollowsRoute
  <2> QED  BY <1>2, <2>2, <2>4 DEF IInv
<1>4. CASE route # "orders"
  <2>1. route' = "orders" /\ lost' = FALSE /\ ShowPage("orders")
    BY <1>4 DEF CancelReply
  <2>2. "orders" \in Pages
    BY DEF Pages, Tables
  <2>3. TableAgrees' /\ view' = "orders"
    BY <1>1, <2>1, <2>2, RenderedAgrees DEF IInv, TypeOK
  <2>4. /\ rows' \in [Ids -> States] /\ gone' \subseteq Orders
        /\ view' \in Pages /\ shown' \in States /\ late' \in BOOLEAN
    BY <2>1, <2>2, RenderedTypes DEF IInv
  <2>5. TypeOK' /\ CancelledOut'
    BY <1>1, <1>2, <2>1, <2>2, <2>4 DEF IInv, TypeOK, CancelledOut, Flying, Fragments
  <2>6. ContentFollowsRoute'
    BY <2>1, <2>3 DEF ContentFollowsRoute, PageOf
  <2> QED  BY <1>2, <2>3, <2>5, <2>6 DEF IInv
<1> QED  BY <1>3, <1>4

-----------------------------------------------------------------------------
(* The other tasks of the page.                                             *)

\* A row's Cancel: what the row shows is still in the collection, so that this
\* order was not cancelled since a list showed it open.
LEMMA RowCancelStep ==
  ASSUME IInv, NEW i \in Orders, RowCancel(i)
  PROVE  IInv'
<1>1. /\ view = "orders" /\ rows[i] = "open" /\ i \notin gone
      /\ Send("row delete", i)
      /\ models' = [models EXCEPT ![i] = "none"]
      /\ gone' = gone \cup {i}
      /\ cancels' = [cancels EXCEPT ![i] = @ + 1]
      /\ UNCHANGED <<book, started, polls, route, view, shown, rows, late, lost>>
  BY DEF RowCancel
<1>2. /\ asked' \in [Clicks -> Flying] /\ Named'
      /\ \A c \in Clicks : asked[c].at # "idle" => asked'[c] = asked[c]
  BY <1>1, SentTypes DEF IInv, Ids
<1>3. models[i] = "open"
  BY <1>1 DEF IInv, TableAgrees, Listing, Ids, IdsOf, Tables
<1>4. TypeOK'
  <2>1. models' \in [Ids -> States] /\ gone' \subseteq Orders
    BY <1>1 DEF IInv, TypeOK, States
  <2>2. cancels' \in [Orders -> Nat]
    <3>1. cancels \in [Orders -> Nat]
      BY DEF IInv, TypeOK
    <3>2. cancels[i] + 1 \in Nat
      BY <3>1
    <3>3. cancels' = [cancels EXCEPT ![i] = cancels[i] + 1]
      BY <1>1
    <3> QED  BY <3>1, <3>2, <3>3
  <2> QED  BY <1>1, <1>2, <2>1, <2>2 DEF IInv, TypeOK, Flying
<1>5. TableAgrees'
  BY <1>1 DEF IInv, TableAgrees, TypeOK, Listing, Ids, IdsOf, Tables
<1>6. CancelledOut'
  <2>1. cancels[i] = 0
    BY <1>3 DEF IInv, CancelledOut
  <2>2. cancels'[i] = 1 /\ models'[i] = "none"
    <3>1. cancels \in [Orders -> Nat] /\ models \in [Ids -> States] /\ i \in Ids
      BY DEF IInv, TypeOK, Ids
    <3>2. cancels' = [cancels EXCEPT ![i] = cancels[i] + 1]
      BY <1>1
    <3>3. cancels[i] + 1 = 1
      BY <2>1
    <3>4. cancels'[i] = 1
      BY <3>1, <3>2, <3>3
    <3> QED  BY <1>1, <3>1, <3>4
  <2>3. \A j \in Orders \ {i} : cancels'[j] = cancels[j] /\ models'[j] = models[j]
    BY <1>1 DEF IInv, TypeOK, Ids
  <2> QED  BY <2>2, <2>3 DEF IInv, CancelledOut
<1>7. Waiting => Waiting'
  BY <1>1, <1>2 DEF Waiting
<1>8. ContentFollowsRoute'
  BY <1>1, <1>7 DEF IInv, ContentFollowsRoute
<1> QED  BY <1>2, <1>4, <1>5, <1>6, <1>8 DEF IInv

\* The Cancel of the details sends a request and changes nothing else.
LEMMA DetailsCancelStep ==
  ASSUME IInv, NEW i \in Orders, DetailsCancel(i)
  PROVE  IInv'
<1>1. /\ Send("details delete", i)
      /\ UNCHANGED <<book, started, polls, models, route, view, shown, rows, gone,
                     late, lost, cancels>>
  BY DEF DetailsCancel
<1>2. /\ asked' \in [Clicks -> Flying] /\ Named'
      /\ \A c \in Clicks : asked[c].at # "idle" => asked'[c] = asked[c]
  BY <1>1, SentTypes DEF IInv, Ids
<1>3. TypeOK' /\ TableAgrees' /\ CancelledOut'
  BY <1>1, <1>2 DEF IInv, TypeOK, TableAgrees, CancelledOut, Flying
<1>4. Waiting => Waiting'
  BY <1>1, <1>2 DEF Waiting
<1>5. ContentFollowsRoute'
  BY <1>1, <1>4 DEF IInv, ContentFollowsRoute
<1> QED  BY <1>2, <1>3, <1>5 DEF IInv

\* A list arrives: the table that shows it is drawn anew, another table is of
\* the other collection.
LEMMA ListReplyStep ==
  ASSUME IInv, NEW n \in Polls, NEW t \in Tables, ListReply(n, t)
  PROVE  IInv'
<1>1. /\ polls' = [polls EXCEPT ![n][t] = Idle]
      /\ models' = [i \in Ids |-> IF i \in IdsOf(t) THEN polls[n][t].reply[i] ELSE models[i]]
      /\ IF view = t THEN Render(t, polls[n][t].reply) ELSE UNCHANGED <<rows, gone>>
      /\ cancels' = [i \in Orders |-> IF polls[n][t].reply[i] = "open" THEN 0 ELSE cancels[i]]
      /\ UNCHANGED <<book, started, route, view, shown, asked, late, lost>>
  BY DEF ListReply
<1>2. polls[n][t].reply \in [Ids -> States] /\ Idle \in [at : Flight, reply : [Ids -> States]]
  BY DEF IInv, TypeOK, Idle, Nothing, Flight, States
<1>3. models' \in [Ids -> States] /\ rows' \in [Ids -> States] /\ gone' \subseteq Orders
  <2>1. models' \in [Ids -> States]
    BY <1>1, <1>2 DEF IInv, TypeOK
  <2>2. \A m \in [Ids -> States] : Listing(t, m) \in [Ids -> States]
    BY DEF Listing, States
  <2>3. rows' \in [Ids -> States] /\ gone' \subseteq Orders
    <3>1. CASE view = t
      BY <1>1, <1>2, <2>2, <3>1 DEF Render
    <3>2. CASE view # t
      BY <1>1, <3>2 DEF IInv, TypeOK
    <3> QED  BY <3>1, <3>2
  <2> QED  BY <2>1, <2>3
<1>4. polls' \in [Polls -> [Tables -> [at : Flight, reply : [Ids -> States]]]]
  BY <1>1, <1>2 DEF IInv, TypeOK
<1>5. cancels' \in [Orders -> Nat]
  BY <1>1 DEF IInv, TypeOK
<1>6. TypeOK'
  BY <1>1, <1>3, <1>4, <1>5 DEF IInv, TypeOK
<1>9. TableAgrees'
  <2>1. CASE view = t
    BY <1>1, <1>2, <2>1 DEF TableAgrees, Render, Listing
  <2>2. CASE view # t /\ view \in Tables
    <3>1. IdsOf(view) \subseteq Ids /\ \A i \in IdsOf(view) : models'[i] = models[i]
      BY <1>1, <2>2, IdsAreIds DEF IdsOf, Tables, Ids
    <3>2. \A i \in Ids : Listing(view, models')[i] = Listing(view, models)[i]
      BY <3>1 DEF Listing
    <3> QED  BY <1>1, <2>2, <3>1, <3>2 DEF IInv, TableAgrees
  <2>3. CASE view \notin Tables
    BY <1>1, <2>3 DEF TableAgrees
  <2> QED  BY <2>1, <2>2, <2>3
<1>10. CancelledOut'
  <2>1. ASSUME NEW i \in Orders
        PROVE  /\ cancels'[i] = IF polls[n][t].reply[i] = "open" THEN 0 ELSE cancels[i]
               /\ models'[i] \in {polls[n][t].reply[i], models[i]}
    BY <1>1 DEF Ids
  <2> QED  BY <2>1 DEF IInv, CancelledOut
<1>11. ContentFollowsRoute' /\ Named'
  BY <1>1 DEF IInv, ContentFollowsRoute, Waiting, Named
<1> QED  BY <1>6, <1>9, <1>10, <1>11 DEF IInv

\* Details arrive, for the fragment the page is at or for another.
LEMMA DetailsReplyStep ==
  ASSUME IInv, NEW c \in Clicks, DetailsReply(c)
  PROVE  IInv'
<1>1. /\ asked[c].do = "get" /\ asked[c].at = "answered"
      /\ view' = asked[c].id /\ shown' = asked[c].state /\ late' = (asked[c].id # route)
      /\ RenderNone /\ asked' = Done(c)
      /\ UNCHANGED <<book, started, polls, models, route, lost, cancels>>
  BY DEF DetailsReply
<1>2. asked' \in [Clicks -> Flying] /\ Named'
  BY <1>1, DoneTypes DEF IInv
<1>3. asked[c].id \in Ids /\ asked[c].state \in States
  BY <1>1 DEF IInv, Named, TypeOK
<1>4. rows' \in [Ids -> States] /\ gone' \subseteq Orders
  BY <1>1 DEF RenderNone, Nothing, States
<1>5. TypeOK'
  BY <1>1, <1>2, <1>3, <1>4 DEF IInv, TypeOK, Flying
<1>6. view' \notin Tables /\ view' # "home"
  BY <1>1, <1>3, IdsAreIds DEF Pages
<1>7. TableAgrees' /\ CancelledOut'
  BY <1>1, <1>6 DEF IInv, TableAgrees, CancelledOut
<1>8. ContentFollowsRoute'
  BY <1>1, <1>6 DEF ContentFollowsRoute, PageOf
<1> QED  BY <1>2, <1>5, <1>7, <1>8 DEF IInv

\* Details are refused or lost: if they were those of the fragment, lost says so.
LEMMA DetailsErrorStep ==
  ASSUME IInv, NEW c \in Clicks, DetailsError(c)
  PROVE  IInv'
<1>1. /\ asked[c].do = "get" /\ asked' = Done(c)
      /\ lost' = (lost \/ asked[c].id = route)
      /\ UNCHANGED <<book, started, polls, models, route, view, shown, rows, gone, late, cancels>>
  BY DEF DetailsError
<1>2. /\ asked' \in [Clicks -> Flying] /\ Named'
      /\ \A d \in Clicks \ {c} : asked'[d] = asked[d]
  BY <1>1, DoneTypes DEF IInv
<1>3. TypeOK' /\ TableAgrees' /\ CancelledOut'
  BY <1>1, <1>2 DEF IInv, TypeOK, TableAgrees, CancelledOut, Flying
<1>4. Waiting => Waiting' \/ lost'
  BY <1>1, <1>2 DEF Waiting
<1>5. ContentFollowsRoute'
  BY <1>1, <1>4 DEF IInv, ContentFollowsRoute
<1> QED  BY <1>2, <1>3, <1>5 DEF IInv

\* A cancel that is over, accepted or not, was no request for details.
LEMMA CancelDoneStep ==
  ASSUME IInv, NEW c \in Clicks, CancelDone(c)
  PROVE  IInv'
<1>1. /\ asked[c].do # "get" /\ asked' = Done(c)
      /\ UNCHANGED <<book, started, polls, models, route, view, shown, rows, gone,
                     late, lost, cancels>>
  BY DEF CancelDone
<1>2. /\ asked' \in [Clicks -> Flying] /\ Named'
      /\ \A d \in Clicks \ {c} : asked'[d] = asked[d]
  BY <1>1, DoneTypes DEF IInv
<1>3. TypeOK' /\ TableAgrees' /\ CancelledOut'
  BY <1>1, <1>2 DEF IInv, TypeOK, TableAgrees, CancelledOut, Flying
<1>4. Waiting => Waiting'
  BY <1>1, <1>2 DEF Waiting
<1>5. ContentFollowsRoute'
  BY <1>1, <1>4 DEF IInv, ContentFollowsRoute
<1> QED  BY <1>2, <1>3, <1>5 DEF IInv

-----------------------------------------------------------------------------
(* Steps the page does not see.                                             *)

\* Polls and the server's lists are in no other part of the invariant.
LEMMA UnseenStep ==
  ASSUME IInv, UNCHANGED <<started, pageVars>>,
         book' \in [Ids -> States],
         polls' \in [Polls -> [Tables -> [at : Flight, reply : [Ids -> States]]]]
  PROVE  IInv'
<1>1. TypeOK'
  BY DEF IInv, TypeOK, pageVars
<1>2. Named' /\ TableAgrees' /\ CancelledOut' /\ ContentFollowsRoute'
  BY DEF IInv, pageVars, Named, TableAgrees, CancelledOut, ContentFollowsRoute, Waiting
<1> QED  BY <1>1, <1>2 DEF IInv

\* The interval.
LEMMA TickStep == ASSUME IInv, Tick PROVE IInv'
<1>1. PICK n \in Polls :
        polls' = [polls EXCEPT ![n] = [t \in Tables |-> [Idle EXCEPT !.at = "sent"]]]
  BY DEF Tick
<1>2. [t \in Tables |-> [Idle EXCEPT !.at = "sent"]] \in
        [Tables -> [at : Flight, reply : [Ids -> States]]]
  BY DEF Idle, Nothing, Flight, States
<1>3. polls' \in [Polls -> [Tables -> [at : Flight, reply : [Ids -> States]]]]
  BY <1>1, <1>2 DEF IInv, TypeOK
<1>4. book' \in [Ids -> States] /\ UNCHANGED <<started, pageVars>>
  BY DEF Tick, IInv, TypeOK
<1> QED  BY <1>3, <1>4, UnseenStep

\* A list that fails, and one the server answers.
LEMMA ListStep ==
  ASSUME IInv, NEW n \in Polls, NEW t \in Tables, ListError(n, t) \/ ServeList(n, t)
  PROVE  IInv'
<1>1. PICK r \in [at : Flight, reply : [Ids -> States]] : polls' = [polls EXCEPT ![n][t] = r]
  <2>1. CASE ListError(n, t)
    <3>1. Idle \in [at : Flight, reply : [Ids -> States]]
      BY DEF Idle, Nothing, Flight, States
    <3> QED  BY <2>1, <3>1 DEF ListError
  <2>2. CASE ServeList(n, t)
    <3>1. [at |-> "answered", reply |-> Listing(t, book)] \in [at : Flight, reply : [Ids -> States]]
      BY DEF IInv, TypeOK, Listing, Flight, States
    <3> QED  BY <2>2, <3>1 DEF ServeList
  <2> QED  BY <2>1, <2>2
<1>2. polls' \in [Polls -> [Tables -> [at : Flight, reply : [Ids -> States]]]]
  BY <1>1 DEF IInv, TypeOK
<1>3. book' \in [Ids -> States] /\ UNCHANGED <<started, pageVars>>
  BY DEF ListError, ServeList, IInv, TypeOK
<1> QED  BY <1>2, <1>3, UnseenStep

\* An order or execution moves on.
LEMMA ProgressStep == ASSUME IInv, NEW i \in Ids, Progress(i) PROVE IInv'
<1>1. book' \in [Ids -> States]
  BY DEF Progress, IInv, TypeOK, States
<1>2. UNCHANGED <<started, pageVars, polls>>
  BY DEF Progress
<1> QED  BY <1>1, <1>2, UnseenStep DEF IInv, TypeOK

\* The server answers a click's request: still under way.
LEMMA ServeStep ==
  ASSUME IInv, NEW c \in Clicks, Serve(c)
  PROVE  IInv'
<1>1. /\ asked[c].at = "sent"
      /\ asked' = [asked EXCEPT ![c].at = "answered", ![c].state = book[asked[c].id]]
      /\ UNCHANGED <<book, started, polls, models, route, view, shown, rows, gone,
                     late, lost, cancels>>
  BY DEF Serve
<1>2. asked[c].id \in Ids /\ book[asked[c].id] \in States
  BY <1>1 DEF IInv, Named, TypeOK
<1>3. asked' \in [Clicks -> Flying] /\ Named'
  BY <1>1, <1>2 DEF IInv, TypeOK, Flying, Flight, Named
<1>4. TypeOK' /\ TableAgrees' /\ CancelledOut'
  BY <1>1, <1>3 DEF IInv, TypeOK, TableAgrees, CancelledOut, Flying
<1>5. Waiting => Waiting'
  BY <1>1 DEF IInv, TypeOK, Waiting
<1>6. ContentFollowsRoute'
  BY <1>1, <1>5 DEF IInv, ContentFollowsRoute
<1> QED  BY <1>3, <1>4, <1>6 DEF IInv

-----------------------------------------------------------------------------
\* The invariant holds of the page as it is loaded.
LEMMA InitIInv == Init => IInv
<1> SUFFICES ASSUME Init PROVE IInv
  OBVIOUS
<1> USE DEF Init
<1>1. TypeOK
  BY DEF TypeOK, Nothing, States, Idle, Flight, NoClick, Fragments
<1>2. Named /\ CancelledOut /\ ContentFollowsRoute
  BY DEF Named, NoClick, CancelledOut, ContentFollowsRoute
<1>3. TableAgrees
  BY DEF TableAgrees, Tables
<1> QED  BY <1>1, <1>2, <1>3 DEF IInv

\* Every step keeps it.
LEMMA StepIInv == IInv /\ [Next]_vars => IInv'
<1> SUFFICES ASSUME IInv, [Next]_vars PROVE IInv'
  OBVIOUS
<1>1. CASE UNCHANGED vars
  BY <1>1, UnseenStep DEF vars, IInv, TypeOK
<1>2. CASE Start \/ ClickLink \/ ClickDetails \/ PopState
  <2>1. Start \/ \E f \in Fragments : Navigate(f)
    BY <1>2 DEF ClickLink, ClickDetails, PopState, Fragments
  <2> QED  BY <2>1, RouterStep
<1>3. ASSUME NEW i \in Orders, RowCancel(i) \/ DetailsCancel(i)
      PROVE  IInv'
  BY <1>3, RowCancelStep, DetailsCancelStep
<1>4. ASSUME NEW n \in Polls, NEW t \in Tables,
             ListReply(n, t) \/ ListError(n, t) \/ ServeList(n, t)
      PROVE  IInv'
  BY <1>4, ListReplyStep, ListStep
<1>5. ASSUME NEW c \in Clicks,
             DetailsReply(c) \/ DetailsError(c) \/ CancelReply(c) \/ CancelDone(c) \/ Serve(c)
      PROVE  IInv'
  BY <1>5, DetailsReplyStep, DetailsErrorStep, CancelReplyStep, CancelDoneStep, ServeStep
<1>6. CASE Tick \/ \E i \in Ids : Progress(i)
  BY <1>6, TickStep, ProgressStep
<1> QED  BY <1>1, <1>2, <1>3, <1>4, <1>5, <1>6 DEF Next, User, Reply, Server

\* The invariant holds always.
THEOREM Invariance == Spec => []IInv
<1> QED  BY InitIInv, StepIInv, PTL DEF Spec

\* Every variable of the page keeps its type.
THEOREM Typing == Spec => []TypeOK
<1>1. IInv => TypeOK
  BY DEF IInv
<1> QED  BY <1>1, Invariance, PTL

\* site.js:427 and :466: the rows of a table are its collection at all times,
\* but for those whose model a cancel destroyed.
THEOREM TablesAgree == Spec => []TableAgrees
<1>1. IInv => TableAgrees
  BY DEF IInv
<1> QED  BY <1>1, Invariance, PTL

\* site.js:415: rows send one DELETE for an order at most between two lists that
\* show it open, for any number of orders, clicks, polls and views.
THEOREM OneDeleteEach == Spec => []OneDelete
<1>1. IInv => OneDelete
  <2> SUFFICES ASSUME IInv, NEW i \in Orders PROVE cancels[i] <= 1
    BY DEF OneDelete
  <2>1. cancels[i] = 0 \/ cancels[i] = 1
    BY DEF IInv, CancelledOut
  <2> QED  BY <2>1
<1> QED  BY <1>1, Invariance, PTL

\* site.js:79-102: #app shows what the fragment names, unless its details are
\* on their way or were refused, or details of a fragment left came in between.
THEOREM ContentFollows == Spec => []ContentFollowsRoute
<1>1. IInv => ContentFollowsRoute
  BY DEF IInv
<1> QED  BY <1>1, Invariance, PTL
-----------------------------------------------------------------------------
(* The page as a mirror of the server's lists: the safety part of Mirror.    *)
(* What the page holds is known from the lists as long as what is under way  *)
(* to it is.                                                                 *)

Reported(m) == Mirrored!KnownFrom(m, book)

MirrorInv ==
  /\ Reported(models)
  /\ \A n \in Polls, t \in Tables : Reported(polls[n][t].reply)

LEMMA Ranks ==
  /\ \A s \in States : Mirrored!Rank[s] \in 0 .. 2
  /\ Mirrored!Rank["none"] = 0 /\ Mirrored!Rank["open"] = 1 /\ Mirrored!Rank["closed"] = 2
BY DEF Mirrored!Rank, Mirrored!States, States

\* An empty list, and an excerpt of one that is known, are known.
LEMMA ListingReported ==
  ASSUME TypeOK, NEW m \in [Ids -> States], Reported(m), NEW t
  PROVE  Reported(Listing(t, m)) /\ Reported(Nothing)
<1>1. \A i \in Ids : Mirrored!Rank[book[i]] \in 0 .. 2
  BY Ranks DEF TypeOK
<1> QED  BY <1>1, Ranks DEF Reported, Mirrored!KnownFrom, Listing, Nothing

LEMMA BookReported ==
  ASSUME TypeOK
  PROVE  Reported(book)
<1>1. \A i \in Ids : Mirrored!Rank[book[i]] \in 0 .. 2
  BY Ranks DEF TypeOK
<1> QED  BY <1>1 DEF Reported, Mirrored!KnownFrom

\* The lists only move on.
LEMMA BookMovesOn ==
  ASSUME TypeOK, NEW i \in Ids, Progress(i)
  PROVE  /\ book' \in [Ids -> States] /\ Mirrored!KnownFrom(book, book')
         /\ \A m \in [Ids -> States] : Reported(m) => Reported(m)'
<1>1. book \in [Ids -> States] /\ book' \in [Ids -> States]
  BY DEF TypeOK, Progress, States
<1>2. \A j \in Ids : Mirrored!Rank[book[j]] <= Mirrored!Rank[book'[j]]
  <2> SUFFICES ASSUME NEW j \in Ids PROVE Mirrored!Rank[book[j]] <= Mirrored!Rank[book'[j]]
    OBVIOUS
  <2>1. Mirrored!Rank[book[j]] \in 0 .. 2
    BY <1>1, Ranks
  <2>2. CASE j # i
    BY <1>1, <2>1, <2>2 DEF Progress
  <2>3. CASE j = i
    BY <1>1, <2>3, Ranks DEF Progress
  <2> QED  BY <2>2, <2>3
<1>3. ASSUME NEW m \in [Ids -> States], Reported(m) PROVE Reported(m)'
  <2> SUFFICES ASSUME NEW j \in Ids PROVE Mirrored!Rank[m[j]] <= Mirrored!Rank[book'[j]]
    BY DEF Reported, Mirrored!KnownFrom
  <2>1. Mirrored!Rank[m[j]] <= Mirrored!Rank[book[j]]
    BY <1>3 DEF Reported, Mirrored!KnownFrom
  <2>2. {Mirrored!Rank[m[j]], Mirrored!Rank[book[j]], Mirrored!Rank[book'[j]]} \subseteq 0 .. 2
    BY <1>1, Ranks
  <2> QED  BY <1>2, <2>1, <2>2
<1> QED  BY <1>1, <1>2, <1>3 DEF Mirrored!KnownFrom

\* A list request that is answered or over: the other requests stay as they are.
LEMMA PollReported ==
  ASSUME TypeOK, MirrorInv, NEW n \in Polls, NEW t \in Tables, NEW r, Reported(r.reply),
         polls' = [polls EXCEPT ![n][t] = r]
  PROVE  \A p \in Polls, u \in Tables : Reported(polls'[p][u].reply)
<1> SUFFICES ASSUME NEW p \in Polls, NEW u \in Tables PROVE Reported(polls'[p][u].reply)
  OBVIOUS
<1>1. polls'[p][u] = IF p = n /\ u = t THEN r ELSE polls[p][u]
  BY DEF TypeOK
<1> QED  BY <1>1 DEF MirrorInv

\* A step of the mirror, or none, and the invariant again.
Reflects == (Mirrored!Change \/ Mirrored!Refresh \/ UNCHANGED <<book, models>>) /\ MirrorInv'

\* Where the lists stand still, the mirror may hold whatever they report.
LEMMA RefreshReflects ==
  ASSUME TypeOK', book' = book, Reported(models'),
         \A n \in Polls, t \in Tables : Reported(polls'[n][t].reply)
  PROVE  Reflects
<1>1. Mirrored!Refresh
  BY DEF Mirrored!Refresh, Mirrored!States, Reported, TypeOK, States
<1>2. MirrorInv'
  BY DEF MirrorInv, Reported, Mirrored!KnownFrom
<1> QED  BY <1>1, <1>2 DEF Reflects

LEMMA RowCancelReflects ==
  ASSUME TypeOK, TypeOK', MirrorInv, NEW i \in Orders, RowCancel(i)
  PROVE  Reflects
<1>1. /\ models' = [models EXCEPT ![i] = "none"] /\ book' = book /\ polls' = polls /\ i \in Ids
  BY DEF RowCancel, Ids
<1>2. \A j \in Ids : Mirrored!Rank[book[j]] \in 0 .. 2
  BY Ranks DEF TypeOK
<1>3. Reported(models')
  <2> SUFFICES ASSUME NEW j \in Ids PROVE Mirrored!Rank[models'[j]] <= Mirrored!Rank[book[j]]
    BY DEF Reported, Mirrored!KnownFrom
  <2>1. Mirrored!Rank[models[j]] <= Mirrored!Rank[book[j]]
    BY DEF MirrorInv, Reported, Mirrored!KnownFrom
  <2>2. models'[j] = IF j = i THEN "none" ELSE models[j]
    BY <1>1 DEF TypeOK
  <2> QED  BY <1>2, <2>1, <2>2, Ranks
<1> QED  BY <1>1, <1>3, RefreshReflects DEF MirrorInv

LEMMA ListReflects ==
  ASSUME TypeOK, TypeOK', MirrorInv, NEW n \in Polls, NEW t \in Tables,
         ListReply(n, t) \/ ListError(n, t) \/ ServeList(n, t)
  PROVE  Reflects
<1>1. book' = book /\ Reported(book) /\ Reported(Listing(t, book)) /\ Reported(Nothing)
  BY BookReported, ListingReported DEF ListReply, ListError, ServeList, pageVars, TypeOK
<1>2. PICK r : polls' = [polls EXCEPT ![n][t] = r] /\ Reported(r.reply)
  <2>1. CASE ListReply(n, t) \/ ListError(n, t)
    <3>1. polls' = [polls EXCEPT ![n][t] = Idle]
      BY <2>1 DEF ListReply, ListError
    <3>2. Reported(Idle.reply)
      BY <1>1 DEF Idle
    <3> QED  BY <3>1, <3>2
  <2>2. CASE ServeList(n, t)
    <3> DEFINE r == [at |-> "answered", reply |-> Listing(t, book)]
    <3>1. polls' = [polls EXCEPT ![n][t] = r]
      BY <2>2 DEF ServeList
    <3>2. Reported(r.reply)
      BY <1>1
    <3> QED  BY <3>1, <3>2
  <2> QED  BY <2>1, <2>2
<1>3. \A p \in Polls, u \in Tables : Reported(polls'[p][u].reply)
  BY <1>2, PollReported
<1>4. Reported(models')
  <2>1. CASE ListReply(n, t)
    <3>1. models' = [i \in Ids |-> IF i \in IdsOf(t) THEN polls[n][t].reply[i] ELSE models[i]]
      BY <2>1 DEF ListReply
    <3>2. Reported(models) /\ Reported(polls[n][t].reply)
      BY DEF MirrorInv
    <3> QED  BY <3>1, <3>2 DEF Reported, Mirrored!KnownFrom
  <2>2. CASE ListError(n, t) \/ ServeList(n, t)
    BY <2>2 DEF ListError, ServeList, pageVars, MirrorInv
  <2> QED  BY <2>1, <2>2
<1> QED  BY <1>1, <1>3, <1>4, RefreshReflects

LEMMA TickReflects ==
  ASSUME TypeOK, TypeOK', MirrorInv, Tick
  PROVE  Reflects
<1>1. PICK n \in Polls : polls' = [polls EXCEPT ![n] = [t \in Tables |-> [Idle EXCEPT !.at = "sent"]]]
  BY DEF Tick
<1>2. book' = book /\ models' = models /\ Reported(Nothing)
  BY BookReported, ListingReported DEF Tick, pageVars, TypeOK
<1>3. \A p \in Polls, u \in Tables : polls'[p][u].reply = IF p = n THEN Nothing ELSE polls[p][u].reply
  BY <1>1 DEF TypeOK, Idle
<1> QED  BY <1>2, <1>3, RefreshReflects DEF MirrorInv

LEMMA ProgressReflects ==
  ASSUME TypeOK, MirrorInv, NEW i \in Ids, Progress(i)
  PROVE  Reflects
<1>1. models' = models /\ polls' = polls
  BY DEF Progress, pageVars
<1>2. /\ book' \in [Ids -> States] /\ Mirrored!KnownFrom(book, book')
      /\ \A m \in [Ids -> States] : Reported(m) => Reported(m)'
  BY BookMovesOn
<1>3. Mirrored!Change
  BY <1>1, <1>2 DEF Mirrored!Change, Mirrored!States, States
<1>4. MirrorInv'
  <2>1. models \in [Ids -> States] /\ \A n \in Polls, t \in Tables : polls[n][t].reply \in [Ids -> States]
    BY DEF TypeOK
  <2>2. Mirrored!KnownFrom(models, book') /\
        \A n \in Polls, t \in Tables : Mirrored!KnownFrom(polls[n][t].reply, book')
    BY <1>2, <2>1 DEF MirrorInv, Reported
  <2> QED  BY <1>1, <2>2 DEF MirrorInv, Reported
<1> QED  BY <1>3, <1>4 DEF Reflects

\* Steps that touch neither the lists nor the collections nor their requests.
LEMMA AsideReflects ==
  ASSUME MirrorInv, UNCHANGED <<book, models, polls>>
  PROVE  Reflects
BY DEF MirrorInv, Reflects, Reported, Mirrored!KnownFrom

LEMMA StepReflects ==
  ASSUME TypeOK, TypeOK', MirrorInv, [Next]_vars
  PROVE  Reflects
<1>1. CASE UNCHANGED vars
  BY <1>1, AsideReflects DEF vars, pageVars
<1>2. CASE Start \/ ClickLink \/ ClickDetails \/ PopState
  BY <1>2, AsideReflects DEF Start, ClickLink, ClickDetails, PopState, Navigate
<1>3. ASSUME NEW i \in Orders, RowCancel(i) \/ DetailsCancel(i)
      PROVE  Reflects
  BY <1>3, RowCancelReflects, AsideReflects DEF DetailsCancel
<1>4. ASSUME NEW n \in Polls, NEW t \in Tables,
             ListReply(n, t) \/ ListError(n, t) \/ ServeList(n, t)
      PROVE  Reflects
  BY <1>4, ListReflects
<1>5. ASSUME NEW c \in Clicks,
             DetailsReply(c) \/ DetailsError(c) \/ CancelReply(c) \/ CancelDone(c) \/ Serve(c)
      PROVE  Reflects
  BY <1>5, AsideReflects DEF DetailsReply, DetailsError, CancelReply, CancelDone, Serve
<1>6. CASE Tick \/ \E i \in Ids : Progress(i)
  BY <1>6, TickReflects, ProgressReflects
<1> QED  BY <1>1, <1>2, <1>3, <1>4, <1>5, <1>6 DEF Next, User, Reply, Server

LEMMA InitReflects ==
  ASSUME Init, TypeOK
  PROVE  MirrorInv /\ Mirrored!Init
<1>1. Reported(book) /\ Reported(Nothing)
  BY BookReported, ListingReported DEF TypeOK
<1>2. MirrorInv
  BY <1>1 DEF Init, MirrorInv, Idle
<1>3. Mirrored!Init
  BY DEF Init, TypeOK, Mirrored!Init, Mirrored!States, States
<1> QED  BY <1>2, <1>3

\* site.js:17-18, :343 and :417: what the page lists the server listed before, for any
\* orders and executions, with any number of requests under way.
THEOREM PageInventsNothing == Spec => NothingInvented
<1>1. Init /\ TypeOK => MirrorInv /\ Mirrored!Init
  BY InitReflects
<1>2. TypeOK /\ TypeOK' /\ MirrorInv /\ [Next]_vars
        => MirrorInv' /\ [Mirrored!Next]_<<book, models>>
  BY StepReflects DEF Reflects, Mirrored!Next
<1> QED  BY <1>1, <1>2, Typing, PTL DEF Spec, NothingInvented, Mirrored!Safe
=============================================================================
