# fixmore: a TLA+ verification project

fixmore is a FIX acceptor written in Go over the quickfix engine. It takes
orders from FIX sessions, hands them to an *executor* (a demo one, or one that
turns them into records of the Hundsun counter's dbf files), persists session
state in files, SQL tables or memory, and comes with a trade client: a web page
and a FIX initiator to enter orders with. These modules model the parts of it
that carry state shared by several goroutines, surviving a crash, or changed by
requests, timers and transitions that overlap in a browser.

All paths below are under `src/`.

## 1. Inventory

| component | source | state | operations | used by |
|---|---|---|---|---|
| SQL message store | `store/sqlstore.go` | `sessions` and `messages` tables, a cache of the two next numbers and the creation time | `Create`, `Refresh`, `Reset`, `SetNext*`, `IncrNext*`, `SaveMessage`, `GetMessages`, `Close` | the quickfix session, one store per session |
| Memory store | `store/memorystore.go` | numbers, creation time, message map | the same | the SQL store, as its cache |
| FIX session | quickfix (external), settings in `cmd/socket/etc/executor.cfg` | logon state, message being sent | logon, persist and send, receive, disconnect | the store; the executors' callbacks |
| Order management of the client | `cmd/tradeclient/internal/oms/*.go` | orders, ClOrdID lookup, executions, three counters, one `RWMutex` | `Save`, `SaveExecution`, `Get`, `GetAll`, `GetByClOrdID`, `AssignNextClOrdID` | HTTP handlers and the FIX callback |
| HTTP handlers of the client | `cmd/tradeclient/tradeclient.go` | a request's locals | `newOrder`, `deleteOrder`, `getOrder(s)`, `getExecution(s)` | the page |
| FIX callback of the client | `cmd/tradeclient/internal/basic/*.go` | ClOrdID counter | `FromApp`, `onExecutionReport`, the message factories | the FIX session's goroutine |
| Web page | `cmd/tradeclient/assets/js/site.js` | two collections, the route, the views in `#app`, the order form | polls, links, details, cancels, `submit` | the user; it calls the handlers |
| Controls | `cmd/tradeclient/assets/js/bootstrap/3.3.6/bootstrap.js` | classes of elements, flags, timers, handlers that wait for a transition | carousel, collapse, modal, tooltip and popover | pages; `index.html` itself does not load it |
| Executors | `apps/demo_fix.go`, `apps/hsfile/hsfix.go` | orderID and execID counters | `OnNewOrderSingle`, `OnOrderCancelRequest` ... | the FIX session's goroutine |
| Order conversion | `apps/hsfile/convert.go`, `wt.go`, `dict.go`, `account.go` | package variables, a record | `convertOrder`, `Validate`, `Save` | the Hundsun executor |
| Symbology | `service/symbol/file.go` | four maps, loaded once | `ToSender`, `FromSender`, `ExchangeToSender` ... | the conversion |
| Server | `service.go`, `socket/sever.go`, `cmd/socket/main.go` | the acceptor | load settings, choose a store, start, stop | `main` |

How they meet: quickfix runs one goroutine per session. It calls the store to
number and persist messages and the application to handle them; the server's
applications answer with `SendToTarget` from inside those callbacks. The client
adds gin, which runs each request in a goroutine of its own, over an
`OrderManager` all goroutines share. The page runs one task at a time, but sends
requests from many of them: a poll of both lists each interval, whatever is in
flight, details, cancels and orders; their answers come in any order.

What is hard to test here, and is listed line by line under `hazards` in
`PROJECT.json`:

- crashes, failed statements and lost replies between the two tables and the
  cache, and between the two statements of `Reset`, of `populateCache`, and of
  persist (`SaveMessage`, then `IncrNextSenderMsgSeqNum`);
- numbers kept as *next* in the row and as *last* in the cache;
- sessions that share the tables and differ in one column;
- handlers that share orders by pointer, read them outside the lock or write a
  map under the read lock; a lock held over a call that sends;
- a report that arrives before the handler that sent the order has returned;
- lists and details that arrive late or overtake one another, rows whose model a
  cancel took away before the server answered, inputs that two handlers enable
  and require by turns;
- clicks, keys, timers and calls of the page that come while a control's
  transition is running and its end handler is still to change the state.

What makes each component correct: the store never gives a number twice and can
resend what was sent (OutgoingLog); the client gives no ClOrdID twice, applies
every report to the order that is meant, shows no order in the middle of an
update and answers every request; an executor fills an order once; a conversion
names the account, market and price type the order named; a server starts with
an acceptor or reports why not; the page shows what its collections hold, which
follow the server's lists, sends from an order's row one cancel per list that
shows it open, and lets out only orders the server takes; a control is, once its
transitions are over, in the one state its last call asked for.

## 2. Modules

| module | models | kind |
|---|---|---|
| `SqlStore` | the SQL store and its cache, any number of sessions over two tables | detailed, at the grain of SQL statements |
| `OutgoingLog` | what a store promises a session about outgoing messages | abstract specification |
| `StoreSession` | the store as a quickfix session drives it; refinement of `OutgoingLog` | composition |
| `RWMutex` | Go's `sync.RWMutex` | library, external |
| `TradeClient` | handlers, callback and `OrderManager` over `RWMutex` | detailed, at the grain of locks and field accesses |
| `Symbology` | code conversion, filled from the configuration | detailed |
| `HsFix` | the Hundsun executor's handler and conversion over `Symbology` | detailed, composition |
| `Mirror` | what a page that polls promises about a server's lists | abstract specification |
| `WebPage` | collections, router, views and requests of the page; refinement of `Mirror` | detailed, at the grain of browser tasks |
| `OrderTicket` | the order form and what the server makes of an order | composition of page and server code |
| `Transition` | how a control waits for a CSS transition | shared by the next four |
| `Carousel`, `Collapse`, `Modal`, `Tooltip` | the controls that keep state across transitions | detailed, at the grain of browser tasks |
| `MCSqlStore`, `MCStoreSession`, `MCTradeClient`, `MCHsFix`, `MCControls` | their instances for TLC | |
| `SqlStoreProofs`, `StoreSessionProofs`, `TradeClientProofs`, `HsFixProofs`, `WebPageProofs` | theorems about the modules they are named for; `HsFixProofs` also about `Symbology` | TLAPS |
| `SlideProofs`, `FadeProofs`, `ControlsProofs` | theorems about `Carousel` and `Collapse`; `Modal` and `Tooltip`; `OrderTicket` and `MCControls` | TLAPS |

### SqlStore

`rows` and `messages` are the two tables, keyed by the eight columns that every
`WHERE` clause binds (`RowKey`); `cache` is `store.cache`; `pc` says where a
store object is between two statements. `op` and `result` record the last call
and what it returned. `doubt` is history: the cache fields that a failed call
left unconfirmed, cleared when a later call confirms them.

An action is one SQL statement with the Go code up to the next one. A statement
has one of three outcomes: it takes effect and returns nil (`ok`), it does not
and returns an error (`error`), or it takes effect and the reply is lost
(`lost`). `populateCache` is `PopulateSelect` then `PopulateInsert`; `Reset` is
`Reset` (DELETE, reset of the cache) then `ResetUpdate`; `IncrNext*` and
`SetNext*` are one action each. `Crash` falls between any two statements and
takes all store objects with it. The primary key of `messages` is in the schema
quickfix ships, not in this repository: `Stored` models it, as external.

Left out: reading the settings and opening the driver beyond success or failure,
the rewriting of placeholders for PostgreSQL, the order of the messages a
resend returns.

### OutgoingLog and StoreSession

`StoreSession` puts the session on top: `Logon` refreshes if the setting says so
and resets if the setting or the counterparty says so, `Persist` and
`PersistIncr` are the two calls that number a message, after which it is on the
`wire`. Calls on one store never overlap: quickfix makes them in the session's
goroutine, and the server's applications send only from its callbacks. The
session is quickfix's and therefore external; only its calls on the store are
modelled. Session statements reuse the actions of `SqlStore` as they are.

`OutgoingLog` has three variables per session (log, next number, wire) and four
steps. A message is logged above all others; next moves past the newest message,
which may go out by that step; the log is truncated; next is rewound only over
an empty log. The mapping is in `StoreSession!Log`: the log is the session's
part of the messages table, the next number is the row's.

### TradeClient

`orders`, `lookup`, `executions` and the counters are the fields of
`OrderManager`, `clOrdID` is the generator's counter, `pc` and `arg` are a
goroutine's place and locals. An order keeps what the properties tell apart: its
ClOrdID, the BeginString of its session, and `closed` and `open`, which a report
writes one after the other and the JSON encoder reads one after the other.

A handler is cut where another goroutine can come between: at lock calls, around
accesses made without the write lock, between those two fields. `deleteOrder`
writes `clOrdIDLookup` under the read lock: the model takes the outcomes the Go
runtime can produce, that is the entry is lost (`lost` remembers it) or the
process dies (`MapFatal`). `CHECK_DEADLOCK FALSE` in its configurations is for
the process that has died, and for the bound on ClOrdIDs.

`SendToTarget` may fail: nothing is sent then, an order stays registered and
`deleteOrder` goes on to its answer. A report may lack a field the callback
reads and is refused before it changes anything, or, with `LastShares` and no
`LastPx`, after.

The counterparty reports only on orders it was sent, and what it reports filled
and left adds up to the quantity. A cancel can overtake the order it cancels
(between `Unlock` and `SendToTarget` of `newOrder`); a counterparty that reports
on such a cancel by itself is not modelled: its report could write the order
that `newOrder` is reading.

Left out: requests refused before they touch shared state, the executions
handlers (they only read, under the read lock), the security definition
request, which is not implemented by the code either.

### Symbology and HsFix

`Symbology` keeps the two tables of `FileSymbology`, filled once by `Apply`, and
the last lookup and its answer. `ByValue` is the search through a Go map, in no
order: it stands for all answers the code may give. `Apply` panics without a
configuration, or with an empty one (`ApplyNothing`), and on an exchange that is
not a string; it drops a symbol that is neither string nor integer, and the key
`passthrough` counts whatever its value. What it makes of missing sections is
left to the configuration library.

`HsFix` extends it with the handlers of several sessions. `OnNewOrderSingle` is
the handler up to the atomic draw of the order ID, `ConvertOrder` the conversion
with all its early returns, `Submit` is `Validate` and `Save`. A message is the
fields the code reads and the set of tags that are absent or malformed. `Checks`
lists the early returns in the order of the code, so that the first that fails
is the reject the counterparty sees. Codes and account fields are strings since
`Validate` counts their characters; prices are left out, only their presence
counts. The validator is external: `len` of a number is its value.

### WebPage and Mirror

`models` are the two collections, `route` the fragment, `view`, `shown` and
`rows` what `#app` shows, `gone` the rows whose model a cancel destroyed; `book`
is the server. An action is one task of the page: a link, a button, the
interval, or the callback of an answer. `polls` are the list requests of the
ticks, `asked` those of the user's clicks. An answer may come at any time after
the server gave it, before or after others, or not at all (`ListError`,
`DetailsError`, `CancelDone`). `ListReply` is `reset` with every view that
listens: the table in `#app` renders anew, one that was replaced listens on but
is seen no more. Backbone and jQuery are modelled from how `site.js` uses them.

Three variables are history: `late` (details came after the user had moved on,
and fill `#app` all the same), `lost` (their request failed, which is only
logged) and `cancels` (DELETEs that rows sent for an order since a list last
showed it open). The first two excuse what the code does; `late` excuses exactly
what the hazard at `site.js:84` names, so that `ContentFollowsRoute` is about
everything else that could leave `#app` behind the fragment. The third is what
`OneDelete` bounds. A list that was asked for before the cancel may show the
order open again, and so may one asked for after it, since the order ends only
when the counterparty says so; either makes a second cancel possible. The Cancel
of the details is not counted (section 4).

`Mirror` has a list and a copy: the list moves on, the copy is replaced by what
the list was at some time before, and news arrives in the end, for good. A poll
that overtakes another makes the copy older for a while; that is why `Mirror`
does not say that the copy never goes back.

### OrderTicket

The controls of the form that `updateSecurityType` and `updateOrdType` switch,
with their attributes `disabled` and `required`, and which inputs hold a value;
then `submit`, `order.Init` and `populateOrder`. The browser's part is that it
holds a form back while a required, enabled input is empty. The inputs of prices
are of type number, whose value is empty or a number: the answer "Invalid
StrikePrice" of `order.Init` (`order.go:47`) is none to this form. What the form
has and nothing switches is left out.

### The controls

`Transition` says when a handler registered with `.one('bsTransitionEnd')` runs.
Each control starts an arbitrary transition, its handlers wait, and meanwhile
anything may be called. `Carousel` has the interval, `to()` calls that wait for
`slid` and pauses; `Collapse` the panels of one accordion, whose objects are
made and dropped as `show` and `hide` do it; `Modal` the element, its backdrops,
the body's class and padding and the focus trap; `Tooltip` triggers, delays and
fades. In `Collapse`, `Modal` and `Tooltip` a history variable names the one
sequence of calls under which the code does not do what it should (see section
4): `unmade`, `reshown` and `rushed`, `bounced`. The properties excuse these:
`reshown` is exactly the hazard at `bootstrap.js:1080`, so that `ModalWhole` and
`ModalCloses` are about the other overlaps of show, hide and backdrop; `unmade`
is a part of the one at `:583`, `bounced` of the one at `:1481`.

`MCControls` uses one of the five per behaviour, next to the others, which share
nothing with it but whether the browser has transitions.

## 3. Runs

| run | configuration | question | size |
|---|---|---|---|
| `store_calls` | one session, numbers to 3, all outcomes, two times; and two sessions that differ in `session_qualifier`, numbers to 2, no errors | do cache and row agree wherever no failed call is outstanding, whatever another session does; does the row exist; is a Reset complete; does a number move by one only | 251k states |
| `store_incr` | one session | is `IncrNextSenderMsgSeqNum` an increment by one? **violated**, finding 1 | |
| `session_durable` | one session that refreshes, or resets, on logon, two payloads, all outcomes, crashes | no number used twice, resends faithful, `OutgoingLog` implemented, a session that a crash left unable to number its next message recovers | 75k states |
| `client_safe` | two HTTP goroutines, one FIX session, BeginStrings both factories know, one knows, none knows, three ClOrdIDs | ClOrdIDs unique and registered, an order changed only by a report that means it, responses not torn, unlocked read safe, goroutines never all waiting | 4.2M states |
| `client_live` | the same with one BeginString and two ClOrdIDs | is every request answered | |
| `client_race` | the same | does the mutex guard the maps? **violated**, finding 2 | |
| `hs_orders` | two sessions, two orders; every market, type and lot, one thing missing or wrong at a time; the shipped tables and their reverse, with and without passthrough; lookups under every symbol set of at most two entries over three codes, shared values and a malformed set | is a record of one market, are order IDs unique, does the lookup by key lead back from what a search by value found | 235k states |
| `hs_exchange` | the shipped tables | does an order go to the configured market? **violated**, finding 3 | |
| `hs_reject` | as `hs_orders`, one order | is a reject about what is wrong? **violated**, finding 4 | |
| `web_page` | an order, an execution, one poll and two clicks in flight | do rows, collection and content agree; do rows cancel an order once per list that shows it open | 603k states |
| `web_live` | an order, two polls and one click in flight | are details answered, is the page a mirror of the server's lists: is nothing listed that the server did not list before, does news arrive | 125k states |
| `controls` | carousel of three items and two waiting calls, four panels, four backdrops, four waiting fades, the form in full | what each control is at rest, and that it comes to rest | 62k states |

Why the bounds are enough. Numbers: every action changes a number by one, to 1,
or to any number in range, so three numbers hold a cache that is behind, equal
to and ahead of the row. Sessions: actions touch one session's key, so any
interference is interference of two. Client: two requests and one report are
every pair of critical sections, and three ClOrdIDs are an order with two
cancels, or two orders and one. One execution suffices, as nothing in the code
relates two. Symbols: a search by value meets at most two keys that matter, and
two codes are enough to tell a key from a value; the theorem covers the rest.
Orders: 99 and 100 are the two sides of the only comparison. Quantity 1 tells an
unfilled order from a filled one; a torn response mixes the two. Page: one order
and one execution are a row of each table, two clicks are a request that
another overtakes; two polls are an old list after a new one, for which one
order is enough, since entries do not meet. Controls: three items are an item
shown, one sliding in and one asked for; four panels are two that move, one that
was moving and one that is clicked; four handlers or backdrops are more than any
clicks leave waiting between two ends, but for those that the history variables
name. The theorems hold for all sizes.

Fairness. `StoreSession!Fairness`: the process is restarted, the counterparty
reconnects, a session that cannot send is dropped (`Disconnect`; quickfix ends
it on a heartbeat or a test request it cannot number), and a statement that is
tried again and again succeeds in the end: strong fairness of the successful
outcome. Without the last no store can promise progress. `TradeClient!Fairness`:
weak fairness of each running goroutine is the Go scheduler's, strong fairness
of taking the write lock is the starvation mode of `sync.Mutex`, which is inside
`RWMutex`. No fairness makes a request or a report arrive. `WebPage!Fairness`:
the interval keeps firing, every request is answered or fails, and a list that
is fetched again and again does not fail for ever. The controls: the timers of
`emulateTransitionEnd`, of `slid` and of a tip's delay fire; for
`RequestsServed`, not every `slid` finds that a click came just before it. No
fairness makes a user do anything.

`executor.cfg` as shipped uses the file store and `ResetOnLogon=Y`; its SQL
section is commented out. `session_durable` takes this setting and the other
under which the store must be durable. With neither, `OutgoingLog` is not
implemented: a failed increment leaves the cache ahead, the reply to a DELETE
is lost and empties the log, the next message is saved above the row's number,
and after a crash the one that follows is appended below it. With both settings
the theorems hold as they do with either; `WedgeCleared` is not run with both.

`CHECK_DEADLOCK FALSE` stands where the system may stop or a bound stops it: the
client whose process died, the executors' bound on orders, the bounds on
backdrops and handlers.

## 4. Findings

1. `store/sqlstore.go:320` increments the cache before the UPDATE and leaves it
   incremented when the UPDATE fails; `:221` leaves the cache reset when the
   reload fails. A later increment that returns nil moves the persisted number
   by two, or down. `NumbersMoveByOne` shows that this is all: where no failed
   call left the number in doubt, an increment is one. `WireBelowNext` shows
   what saves the session that refreshes: it numbers a message from the cache it
   also saves it under, and a number that is ahead is only skipped.
2. `cmd/tradeclient/tradeclient.go:217-225` holds the read lock while
   `AssignNextClOrdID` writes `clOrdIDLookup`. Two deletes, or one and a
   listing, race; the runtime may end the process.
3. `apps/hsfile/convert.go:50` looks up incoming exchanges among the values;
   `symbol.yaml:9` has the counterparty's codes on the left. With the shipped
   file an order on XSHG becomes a record of market `XSHG`, of no price type and
   no holder code.
4. `apps/hsfile/convert.go:51` tests `err` for `ierr`: an unknown exchange is
   rejected as a wrong account.

Seen while modelling, with no document to hold them against: no record passes
`Validate` (`apps/hsfile/wt.go:146`), whose tags give the widths of the file's
fields and are read as values of numbers; `Save` is therefore never reached, and
it would use the package variable `wtdb` that `NewWTDB` shadows.
`FromSender` (`service/symbol/file.go:139`) returns a configured symbol as it
came once passthrough is set; nothing calls it. `passthrough: false` sets
passthrough. A report with `LastShares` and no `LastPx` is rejected after the
order was updated.

On the page: a security definition cannot be asked for with its description
(`site.js:716` looks for a `select` that is an input), inputs that are disabled
are posted with what was typed into them before, and the server looks at some of
them; the factories leave out maturity and strike price; a cancel from the
details that succeeds takes the user to the orders from wherever he is by then;
details are not fetched again while they are shown; views that were replaced
listen on and render unseen. The Cancel of the details stays enabled, and each
click sends another DELETE, that is another cancel to the counterparty; so does
a row's once a list shows its order open again. In the handlers: `newOrder` with
an unknown session aborts with an error that is nil, and `deleteOrder` answers
twice when the send failed.

`index.html` takes the style sheet of bootstrap and not its script, and the
script would refuse the page's jQuery 3.1.0 (`bootstrap.js:14` wants a version
lower than 3): the controls are modelled as bootstrap ships them, for a page
with a jQuery it takes.

In the controls: two quick clicks open two panels of an accordion if a panel
was open in the markup and the page made no objects, since `show` asks an object
that is not there whether it moves. `show` of a modal before its `hide` is over
leaves a backdrop and the body's padding behind and hides the modal that was to
be shown; `hide` before `show` is over leaves the document's focus handler on. A
tip entered again while it fades out may be detached although it is held.

## 5. Proofs

Every theorem holds for all values of the constants: any number of sessions,
goroutines, orders, items or requests, any configuration and every outcome.

| module | theorems | invariant, besides types |
|---|---|---|
| `SqlStoreProofs` | `Typing`, `RowsPresent`, `CacheAgrees`, `ResetsComplete`, `MovesByOne` | a store whose creation succeeded has its row; an INSERT meets none; a Reset between its statements has emptied the log and the cache |
| `StoreSessionProofs` | `SessionTyping`, `NumbersUsedOnce`, `ResendsFaithful`, `LogImplemented` | what a call under way has done so far; what went out is stored below the next number; the log is in order |
| `TradeClientProofs` | `Typing`, `ClOrdIDsNeverReused`, `EverySentRegistered`, `ResponsesNotTorn`, `UnlockedReadsSafe`, `NeverAllWait`, `ReportsAsMeant` | who holds the lock where; which ClOrdIDs are held by whom; which reports can be under way, and at which order |
| `HsFixProofs` | `LookupsInvert`, `Typing`, `OrderIDsUnique`, `RecordsOfOneMarket` | nothing is answered before the tables are filled; which IDs are held by handlers |
| `WebPageProofs` | `Typing`, `TablesAgree`, `OneDeleteEach`, `ContentFollows`, `PageInventsNothing` | a request or a row is about something the page knows; what is on its way is known |
| `SlideProofs` | `OneShown`, `PausedRests`, `PanelsExclude` | nothing waits on an item while nothing slides; one panel at most is open or will be |
| `FadeProofs` | `ModalEndsWhole`, `TipFollowsItsTriggers` | the phases of the modal; what the triggers, the timer and the waiting handlers say of one another |
| `ControlsProofs` | `OrdersComplete`, `PricesFresh`, `ControlsTyping`, `ControlsHold` | required and disabled are functions of the two selections |

`MovesByOne` and `ReportsAsMeant` are action properties, `LogImplemented` and
`PageInventsNothing` refinements, the rest invariants.

**SqlStore.** Assumptions are those of the module: sessions are functions of the
eight columns, the zero time is a time, outcomes are among the three, `NoRow` is
no row. `Agreement` speaks of stores between two calls and is not inductive. A
Refresh that fails returns to `idle` from `select` or `insert`, and then the row
must be there; so the invariant adds to typing, per session (`StoreInv`), that
the row exists wherever a call is under way on a store whose creation had
succeeded, that is everywhere except inside `Create`. An INSERT reached from
Refresh would contradict it; from `Create` it establishes it. The argument goes
action by action for the session that acts; `Frame` and `OthersSame` dispose of
the others, since `RowKey` is injective (`RowKeyIsSession`).

`ResetComplete` speaks of the time after a call; `AfterReset` adds the state
between the two statements, where messages and cache are empty and the UPDATE
writes the row from the cache, and that no other call ends as a Reset would.
`NumbersMoveByOne` needs of an increment that the cached number is the stored
one, which is `Agreement` outside `doubt`, and of an INSERT that it writes over
no row (`Unwritten`): the SELECT found none and no other session has written it.

**StoreSession.** The store's invariant, and per session three parts.
`ControlInv` says what the calls of a logon or of `persist` have done when they
are between two statements. `WireInv`: numbers are unique in the table, what
went out is stored, below the row's number, and not above the cache's unless a
Refresh just failed and the next logon will refresh again; this is where a cache
behind the row would give a number twice. `OrderInv` orders log and numbers so
that a message saved next is above all others or is refused by the primary key;
it needs a setting that reloads or resets at logon, and `LogImplemented` assumes
it. Its steps are then shown one by one to append, commit, truncate or rewind.

**TradeClient.** `Locks` relates each place in a handler to the state of the
`RWMutex`. `Drawn` says that a ClOrdID is held by one order or one handler only
and is not above the generator's counter. `Kept` says what lookup and the fields
of an order are outside the write lock; `Sent` what of it is true of a message
on the wire; `Reports` that a report under way is about an order that was sent,
so never about one that `newOrder` is still building; `Bounded` that the
generator stays within the model's bound, whoever is about to draw. From these
each invariant is read off. For `ReportsMeant`, a report between its two writes
is at the order its ClOrdID leads to (`Leads`), since it holds the write lock,
and that entry is of the order meant: lost entries are zero, not another order.
For `NotAllWait`, which is what can be proved of `AllReturn`, `Holders` is the
converse of `Locks`: whom the mutex has down as writer, reader or kept out is at
a place where it is that, so whoever waits, waits for the writer, the writer for
a reader, and a reader for nobody. `ThreadsAssumption`
makes the goroutines a finite set, as the reader count of the mutex is a
cardinality.

**Symbology and HsFix.** `LookupsInvert` assumes nothing of the configuration.
The counter's numbers: an ID is carried by one handler that converts or by one
record that was converted (`Tickets`). `RecordsOfOneMarket` assumes that the
holder codes of an account differ and are not empty, since otherwise a record
does not tell whose code it carries; it needs no further invariant, but the
early returns: what passes has an order type and an account the code knows.

**WebPage.** The types do most of the work, with `Named` (a request under way is
about an order or an execution) and `CancelledOut`: an order that a row
cancelled is not open in the collection until a list shows it open, so that no
row has a button that cancels it. `MirrorInv` is the invariant of the
refinement: the collections and the answers on their way to them are known from
the server's lists. The lists only move on (`BookMovesOn`), so what is known
stays known, and what a tick or a click is answered is a list or nothing; every
step is then a `Change`, a `Refresh` or neither.

**Carousel and Collapse.** There is one slide at a time, from the item shown to
the one the indicator is on, and none while `sliding` is false; two slides would
leave two items active. `OneOpen` cannot be proved from the classes: a panel
that moves is not open, but will be. The invariant counts a panel as `Opening`
when it is open or a handler waits that will open it, and says that a panel that
is open or moves has its object (`Settled`), which is what `show` asks. It holds
until `unmade`.

**Modal and Tooltip.** All handlers of an element run at one event, each on what
the one before it left. `RunAll` and `RunTips` are recursive functions over that
run. Their values are proved to exist (`RanExists`, by the least length for
which they would not) and what one handler keeps is carried along. The modal is
in one of six phases: gone, coming, there, going, its backdrop fading, or
overtaken by a `hide` while it came; each says which handlers wait for which
element, and which backdrop is there. It holds until `reshown`. For the tooltip,
`Coherent` relates the triggers, the state a timer will look at, and the
handlers that wait: a tip that nobody holds is on its way out, by the timer or
by a handler.

**OrderTicket and the controls together.** In the form `required` and `disabled`
are `Needed` of security and order type, which neither handler says on its own
since each switches half of the controls. `ControlsHold` puts the five
invariants side by side: the controls share only whether the browser has
transitions, which no step changes, so that a step of one is a stutter of the
others.

What the theorems do not say. `NumbersMoveByOne` says nothing of a number that
the session's last call set or reset. The generator of ClOrdIDs is one atomic
step in `TradeClient`, so that `ClOrdIDsUnique` rests on the generator's own
synchronisation. `UnlockedReadSafe` rests on a counterparty that does not report
on a cancel that overtook its order.

Only model-checked: liveness, which needs fairness and is out of the prover's
reach (`WedgeCleared`, `AllReturn`, `DetailsAnswered`, `RequestsServed`,
`PanelsSettle`, `ModalCloses`, `TipGoes`, and of `ImplementsMirror` that news
arrives; its other half, `NothingInvented`, is `PageInventsNothing`); and the
four violations, for each of which one instance is enough.

## 6. Not modelled

- The demo executor: two counters and a reply that is a function of the order.
  That its counters are incremented without synchronisation is listed as a
  hazard; the Hundsun executor asks the same question of an atomic counter. A
  crash between a fill and the engine's increment of the incoming number makes
  an order come again; the resend is quickfix's, and no document here says that
  an order is filled once.
- The start and stop of the server, its configuration, the choice of a store:
  straight-line code without a state that a later step could find wrong.
- quickfix, gin, Backbone, jQuery and the SQL drivers, beyond what the code's
  use of them shows; quickfix's own file and memory stores.
- A restart of the client, which numbers its ClOrdIDs from 1 again.
- The memory store on its own: nothing uses it but the SQL store, as a cache.
- `Save` of the Hundsun executor and the reject report after it: no record
  passes `Validate`, so neither is ever reached.
- The security definition form, which the server answers with Not Implemented.
- Of `bootstrap.js` the controls that keep no state but a class (dropdown, tab,
  scrollspy, affix, alert, button), and where tips are placed and what they say.
- The fixture paths of `test/data` and the list of files in `npm.js`.
