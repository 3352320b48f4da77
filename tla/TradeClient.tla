----------------------------- MODULE TradeClient -----------------------------
(* The trade client's order management (cmd/tradeclient): gin serves each   *)
(* request in a goroutine of its own (tradeclient.go), each FIX session has *)
(* a goroutine that runs FromApp (basic/fix_application.go), and all share  *)
(* one OrderManager (oms/order_manager.go) guarded by the RWMutex it embeds.*)
(* A handler is cut wherever another goroutine can come between: at lock    *)
(* calls, at the fields of an order it reads or writes one by one, and at   *)
(* the two ends of a map access made without the write lock.                *)
EXTENDS Integers, FiniteSets, RWMutex

CONSTANTS
  HTTP,           \* goroutines serving HTTP requests
  FIX,            \* goroutines of the FIX sessions
  BeginStrings,   \* the BeginString of the session an order is for
  NOSVersions,    \* those NewOrderSingle knows
  CancelVersions, \* those OrderCancelRequest knows
  NoBeginString,  \* the goroutine has bound no order
  Qty,            \* the quantity of an order
  MaxClOrdIDs,    \* bound: ClOrdIDs drawn
  MaxExecutions   \* bound: executions saved

ASSUME ThreadsAssumption == /\ Threads = HTTP \cup FIX /\ HTTP \cap FIX = {}
                            /\ IsFiniteSet(Threads)
ASSUME VersionsAssumption == /\ NOSVersions \subseteq BeginStrings
                             /\ CancelVersions \subseteq NOSVersions
ASSUME BoundsAssumption ==
  Qty \in Nat /\ MaxClOrdIDs \in Nat /\ MaxExecutions \in Nat

VARIABLES
  orders,       \* OrderManager.orders: order ID -> order
  lookup,       \* OrderManager.clOrdIDLookup: ClOrdID -> order ID, 0 if absent
  orderID,      \* OrderManager.orderID
  executions,   \* OrderManager.executions: the IDs in use
  executionID,  \* OrderManager.executionID
  clOrdID,      \* ClOrdIDGenerator.clOrdID
  pc,           \* where each goroutine is
  arg,          \* each goroutine's local data
  wire,         \* the messages handed to quickfix.SendToTarget
  lost,         \* history: ClOrdIDs whose map entry a data race lost
  alive         \* FALSE once the Go runtime has killed the process

omVars == <<orders, lookup, orderID, executions, executionID, clOrdID>>
vars == <<omVars, lockVars, pc, arg, wire, lost, alive>>

IDs == 1 .. MaxClOrdIDs

\* What the handlers read of an execution report.  LastPx matters only when
\* LastShares is there.
Report == [clOrdID : IDs, cum : 0 .. Qty, leaves : 0 .. Qty,
           last : {"none", "shares", "shares and px"}]
NoReport == [clOrdID |-> 0, cum |-> 0, leaves |-> 0, last |-> "none"]
Idle == [id |-> 0, clOrdID |-> 0, closed |-> 0,
         beginString |-> NoBeginString, report |-> NoReport]

TypeOK ==
  /\ LockTypeOK
  /\ orderID \in 0 .. MaxClOrdIDs /\ clOrdID \in 0 .. MaxClOrdIDs
  /\ executionID \in 0 .. MaxExecutions /\ executions = 1 .. executionID
  /\ orders \in [1 .. orderID -> [clOrdID : IDs, beginString : BeginStrings,
                                  closed : 0 .. Qty, open : 0 .. Qty]]
  /\ lookup \in [IDs -> 0 .. orderID]
  /\ pc \in [Threads -> {"idle", "new", "save", "build", "delete", "assign",
                         "cancel", "list", "iterate", "get", "closed", "open",
                         "lock", "report", "leaves"}]
  /\ arg \in [Threads -> [id : 0 .. MaxClOrdIDs, clOrdID : {0} \cup IDs,
                          closed : 0 .. Qty,
                          beginString : BeginStrings \cup {NoBeginString},
                          report : Report \cup {NoReport}]]
  /\ wire \subseteq [type : {"D", "F"}, id : 1 .. orderID, clOrdID : IDs, orig : IDs]
  /\ lost \subseteq IDs
  /\ alive \in BOOLEAN

Init ==
  /\ LockInit
  /\ orders = [i \in {} |-> Idle] /\ orderID = 0
  /\ lookup = [c \in IDs |-> 0] /\ clOrdID = 0
  /\ executions = {} /\ executionID = 0
  /\ pc = [t \in Threads |-> "idle"] /\ arg = [t \in Threads |-> Idle]
  /\ wire = {} /\ lost = {} /\ alive = TRUE

At(t, p)   == alive /\ pc[t] = p
Goto(t, p) == pc' = [pc EXCEPT ![t] = p]
Return(t)  == Goto(t, "idle") /\ arg' = [arg EXCEPT ![t] = Idle]

\* Bound: a request that will draw a ClOrdID starts only if one is left.
Drawing == {t \in HTTP : pc[t] \in {"new", "save", "delete"}}
ClOrdIDLeft == clOrdID + Cardinality(Drawing) < MaxClOrdIDs

-----------------------------------------------------------------------------
(* OrderManager                                                            *)

\* ClOrdIDGenerator.Next, atomic under clOrdIDLock: the number it returns.
NextClOrdID == clOrdID + 1

\* Mutant: the ClOrdID of an order is its ID, the generator is not asked.
SaveIDAsClOrdID(b) ==
  /\ orderID' = orderID + 1
  /\ UNCHANGED clOrdID
  /\ orders' = [i \in 1 .. orderID' |->
                  IF i = orderID' THEN [clOrdID |-> orderID', beginString |-> b,
                                        closed |-> 0, open |-> 0]
                  ELSE orders[i]]
  /\ lookup' = [lookup EXCEPT ![orderID'] = orderID']

\* Mutant: an order whose ClOrdID has just been drawn is not registered.
SaveNotRegistered(b) ==
  /\ orderID' = orderID + 1
  /\ clOrdID' = NextClOrdID
  /\ orders' = [i \in 1 .. orderID' |->
                  IF i = orderID' THEN [clOrdID |-> clOrdID', beginString |-> b,
                                        closed |-> 0, open |-> 0]
                  ELSE orders[i]]
  /\ UNCHANGED lookup

\* Mutant: the order is registered under its ID.
SaveByID(b) ==
  /\ orderID' = orderID + 1
  /\ clOrdID' = NextClOrdID
  /\ orders' = [i \in 1 .. orderID' |->
                  IF i = orderID' THEN [clOrdID |-> clOrdID', beginString |-> b,
                                        closed |-> 0, open |-> 0]
                  ELSE orders[i]]
  /\ lookup' = [lookup EXCEPT ![orderID'] = orderID']

\* Save, for an order of a session with BeginString b.
Save(b) ==
  /\ orderID' = orderID + 1
  /\ clOrdID' = NextClOrdID
  /\ orders' = [i \in 1 .. orderID' |->
                  IF i = orderID' THEN [clOrdID |-> clOrdID', beginString |-> b,
                                        closed |-> 0, open |-> 0]
                  ELSE orders[i]]
  /\ lookup' = [lookup EXCEPT ![clOrdID'] = orderID']

\* Mutant: the execution is stored under the number before the increment.
SaveExecutionEarly ==
  /\ executionID' = executionID + 1
  /\ executions' = executions \cup {executionID}

SaveExecution ==
  /\ executionID' = executionID + 1
  /\ executions' = executions \cup {executionID'}

\* Get; ids start at 1.
Found(i) == i \in 1 .. orderID

\* What GetAll ranges over: every order an entry points to.
GetAll == {lookup[c] : c \in IDs} \ {0}

Send(type, i, c) ==
  wire' = wire \cup {[type |-> type, id |-> i, clOrdID |-> c,
                      orig |-> orders[i].clOrdID]}

-----------------------------------------------------------------------------
(* newOrder.  A request that does not bind, names no session or fails      *)
(* Order.Init returns before anything is shared and is not modelled.       *)
NewOrder(t, b) ==
  /\ At(t, "idle") /\ ClOrdIDLeft
  /\ Goto(t, "new") /\ arg' = [arg EXCEPT ![t].beginString = b]
  /\ UNCHANGED <<omVars, lockVars, wire, lost, alive>>

NewOrderLock(t) ==
  /\ At(t, "new") /\ Lock(t) /\ Goto(t, "save")
  /\ UNCHANGED <<omVars, arg, wire, lost, alive>>

NewOrderSave(t) ==
  /\ At(t, "save") /\ HasLock(t)
  /\ Save(arg[t].beginString)
  /\ Unlock(t)
  /\ Goto(t, "build") /\ arg' = [arg EXCEPT ![t].id = orderID']
  /\ UNCHANGED <<executions, executionID, wire, lost, alive>>

\* The message is built from the shared order after Unlock. If NewOrderSingle
\* does not know the version or SendToTarget fails, the order stays registered.
NewOrderSend(t) ==
  LET i == arg[t].id IN
  /\ At(t, "build")
  /\ \/ orders[i].beginString \in NOSVersions /\ Send("D", i, orders[i].clOrdID)
     \/ UNCHANGED wire
  /\ Return(t)
  /\ UNCHANGED <<omVars, lockVars, lost, alive>>

(* deleteOrder: one read lock from its first line to its return.           *)
DeleteOrder(t, i) ==
  /\ At(t, "idle") /\ ClOrdIDLeft
  /\ RLock(t)
  /\ Goto(t, "delete") /\ arg' = [arg EXCEPT ![t].id = i]
  /\ UNCHANGED <<omVars, wire, lost, alive>>

\* Mutant: Get takes the read lock its caller already holds.
DeleteOrderGetRLocks(t) ==
  /\ At(t, "delete") /\ HasRLock(t)
  /\ writer = NoThread
  /\ Found(arg[t].id)
  /\ clOrdID' = NextClOrdID
  /\ Goto(t, "assign") /\ arg' = [arg EXCEPT ![t].clOrdID = clOrdID']
  /\ UNCHANGED <<lockVars, orders, lookup, orderID, executions, executionID,
                 wire, lost, alive>>

\* Get, then AssignNextClOrdID up to its write of clOrdIDLookup.
DeleteOrderGet(t) ==
  /\ At(t, "delete") /\ HasRLock(t)
  /\ \/ /\ ~Found(arg[t].id)
        /\ RUnlock(t) /\ Return(t)
        /\ UNCHANGED <<clOrdID>>
     \/ /\ Found(arg[t].id)
        /\ clOrdID' = NextClOrdID
        /\ Goto(t, "assign") /\ arg' = [arg EXCEPT ![t].clOrdID = clOrdID']
        /\ UNCHANGED lockVars
  /\ UNCHANGED <<orders, lookup, orderID, executions, executionID, wire, lost, alive>>

\* Goroutine t writes clOrdIDLookup while u writes it or ranges over it.
Races(t, u) == t # u /\ pc[t] = "assign" /\ pc[u] \in {"assign", "iterate"}

\* AssignNextClOrdID's write.  When it races, the entry may be lost...
DeleteOrderAssign(t) ==
  /\ At(t, "assign")
  /\ \/ /\ lookup' = [lookup EXCEPT ![arg[t].clOrdID] = arg[t].id]
        /\ UNCHANGED lost
     \/ /\ \E u \in Threads : Races(t, u)
        /\ lost' = lost \cup {arg[t].clOrdID}
        /\ UNCHANGED lookup
  /\ Goto(t, "cancel")
  /\ UNCHANGED <<orders, orderID, executions, executionID, clOrdID, lockVars,
                 arg, wire, alive>>

\* ... or the runtime notices and ends the process: "fatal error: concurrent
\* map writes" (or iteration and write).
MapFatal ==
  /\ alive /\ \E t, u \in Threads : Races(t, u)
  /\ alive' = FALSE
  /\ UNCHANGED <<omVars, lockVars, pc, arg, wire, lost>>

\* OrderCancelRequest knows one version; otherwise the entry just made stays.
\* When SendToTarget fails the handler answers the error and goes on all the
\* same, to answer with the order.
DeleteOrderSend(t) ==
  LET i == arg[t].id IN
  /\ At(t, "cancel")
  /\ \/ /\ orders[i].beginString \in CancelVersions
        /\ Send("F", i, arg[t].clOrdID) \/ UNCHANGED wire
        /\ Goto(t, "closed")
        /\ UNCHANGED <<lockVars, arg>>
     \/ /\ orders[i].beginString \notin CancelVersions
        /\ RUnlock(t) /\ Return(t)
        /\ UNCHANGED wire
  /\ UNCHANGED <<omVars, lost, alive>>

(* getOrders, getOrder: the response is marshalled under the read lock.    *)
GetOrders(t) ==
  /\ At(t, "idle")
  /\ RLock(t) /\ Goto(t, "list")
  /\ UNCHANGED <<omVars, arg, wire, lost, alive>>

GetOrdersBegin(t) ==
  /\ At(t, "list") /\ HasRLock(t)
  /\ Goto(t, "iterate")
  /\ UNCHANGED <<omVars, lockVars, arg, wire, lost, alive>>

\* Of the orders listed the model follows one.
GetOrdersEnd(t) ==
  /\ At(t, "iterate")
  /\ \/ /\ GetAll = {}
        /\ RUnlock(t) /\ Return(t)
     \/ \E i \in GetAll :
          /\ Goto(t, "closed") /\ arg' = [arg EXCEPT ![t].id = i]
          /\ UNCHANGED lockVars
  /\ UNCHANGED <<omVars, wire, lost, alive>>

GetOrder(t, i) ==
  /\ At(t, "idle")
  /\ RLock(t)
  /\ Goto(t, "get") /\ arg' = [arg EXCEPT ![t].id = i]
  /\ UNCHANGED <<omVars, wire, lost, alive>>

\* Mutant: the order is marshalled after the read lock is released.
GetOrderFoundUnlocks(t) ==
  /\ At(t, "get") /\ HasRLock(t)
  /\ RUnlock(t)
  /\ IF Found(arg[t].id) THEN Goto(t, "closed") /\ UNCHANGED arg ELSE Return(t)
  /\ UNCHANGED <<omVars, wire, lost, alive>>

\* Mutant: the return for an unknown order leaves the read lock taken.
GetOrderFoundKeepsLock(t) ==
  /\ At(t, "get") /\ HasRLock(t)
  /\ IF Found(arg[t].id) THEN Goto(t, "closed") /\ UNCHANGED arg ELSE Return(t)
  /\ UNCHANGED <<omVars, lockVars, wire, lost, alive>>

GetOrderFound(t) ==
  /\ At(t, "get") /\ HasRLock(t)
  /\ IF Found(arg[t].id)
     THEN Goto(t, "closed") /\ UNCHANGED <<lockVars, arg>>
     ELSE RUnlock(t) /\ Return(t)
  /\ UNCHANGED <<omVars, wire, lost, alive>>

\* ctx.JSON reads Closed, then Open; the deferred RUnlock follows.
MarshalClosed(t) ==
  /\ At(t, "closed")
  /\ Goto(t, "open")
  /\ arg' = [arg EXCEPT ![t].closed = orders[arg[t].id].closed]
  /\ UNCHANGED <<omVars, lockVars, wire, lost, alive>>

MarshalOpen(t) ==
  /\ At(t, "open")
  /\ RUnlock(t) /\ Return(t)
  /\ UNCHANGED <<omVars, wire, lost, alive>>

-----------------------------------------------------------------------------
(* onExecutionReport.  The counterparty reports on orders it was sent,     *)
(* under the ClOrdID of the order or of a request about it; what it reports*)
(* filled and left adds up to the quantity.                                *)
FromApp(f, r) ==
  /\ At(f, "idle") /\ executionID < MaxExecutions
  /\ \E m, d \in wire : /\ d.type = "D" /\ d.clOrdID = m.orig
                        /\ m.clOrdID = r.clOrdID
  /\ r.cum + r.leaves = Qty
  /\ Goto(f, "lock") /\ arg' = [arg EXCEPT ![f].report = r]
  /\ UNCHANGED <<omVars, lockVars, wire, lost, alive>>

ReportLock(f) ==
  /\ At(f, "lock") /\ Lock(f) /\ Goto(f, "report")
  /\ UNCHANGED <<omVars, arg, wire, lost, alive>>

\* The early returns, then GetByClOrdID's order. A report that lacks ClOrdID,
\* CumQty, AvgPx or LeavesQty, as any may, is rejected before it touches the
\* order; an unknown ClOrdID is logged and accepted.
ReportClosed(f) ==
  LET r == arg[f].report
      i == lookup[r.clOrdID] IN
  /\ At(f, "report") /\ HasLock(f)
  /\ \/ Unlock(f) /\ Return(f) /\ UNCHANGED orders
     \/ /\ i # 0
        /\ orders' = [orders EXCEPT ![i].closed = r.cum]
        /\ Goto(f, "leaves") /\ arg' = [arg EXCEPT ![f].id = i]
        /\ UNCHANGED lockVars
  /\ UNCHANGED <<lookup, orderID, executions, executionID, clOrdID, wire, lost, alive>>

\* A report with LastShares and no LastPx is rejected here, after the order
\* was updated.
ReportOpen(f) ==
  LET r == arg[f].report IN
  /\ At(f, "leaves")
  /\ orders' = [orders EXCEPT ![arg[f].id].open = r.leaves]
  /\ IF r.last = "shares and px" /\ executionID < MaxExecutions
     THEN SaveExecution ELSE UNCHANGED <<executions, executionID>>
  /\ Unlock(f) /\ Return(f)
  /\ UNCHANGED <<lookup, orderID, clOrdID, wire, lost, alive>>

-----------------------------------------------------------------------------
\* What a goroutine does once it has begun, but for taking the write lock.
Handle(t) ==
  \/ NewOrderSave(t) \/ NewOrderSend(t)
  \/ DeleteOrderGet(t) \/ DeleteOrderAssign(t) \/ DeleteOrderSend(t)
  \/ GetOrdersBegin(t) \/ GetOrdersEnd(t) \/ GetOrderFound(t)
  \/ MarshalClosed(t) \/ MarshalOpen(t)
  \/ ReportClosed(t) \/ ReportOpen(t)

TakeLock(t) == NewOrderLock(t) \/ ReportLock(t)

Next ==
  \/ \E t \in HTTP :
       \/ \E b \in BeginStrings : NewOrder(t, b)
       \/ \E i \in IDs : DeleteOrder(t, i) \/ GetOrder(t, i)
       \/ GetOrders(t)
  \/ \E f \in FIX, r \in Report : FromApp(f, r)
  \/ \E t \in Threads : Handle(t) \/ TakeLock(t)
  \/ MapFatal

Spec == Init /\ [][Next]_vars

\* The Go scheduler runs every goroutine that can run, and the mutex inside
\* RWMutex hands itself to writers in turn.
Fairness == \A t \in Threads : WF_vars(Handle(t)) /\ SF_vars(TakeLock(t))

FairSpec == Spec /\ Fairness

-----------------------------------------------------------------------------
(* Properties                                                              *)

\* FIX identifies a request by its ClOrdID: no two messages sent carry the
\* same one, although Save draws it under the write lock and AssignNextClOrdID
\* under the read lock only.
ClOrdIDsUnique ==
  \A m, n \in wire : m.clOrdID = n.clOrdID => m = n

\* Whatever a report answers, an order or a cancel, its ClOrdID was registered
\* before it was sent and leads to the order that is meant: no report of a
\* live order is dropped as unknown or applied to another order.  Only an
\* entry lost to a data race is excepted.
Registered ==
  \A m \in wire : m.clOrdID \notin lost =>
    /\ lookup[m.clOrdID] = m.id
    /\ lookup[m.orig] = m.id

\* A response never mixes the Closed of one report with the Open of another.
ResponseNotTorn ==
  \A t \in HTTP : alive /\ pc[t] = "open" =>
    LET o == orders[arg[t].id] IN
    arg[t].closed = o.closed /\ o.closed + o.open \in {0, Qty}

\* newOrder reads the shared order after Unlock; no report can be writing it,
\* because the counterparty has not seen its ClOrdID yet.
UnlockedReadSafe ==
  \A t \in HTTP, f \in FIX :
    alive /\ pc[t] = "build" /\ pc[f] = "leaves" => arg[t].id # arg[f].id

\* What a report on order i writes to it: a message about i was sent under the
\* ClOrdID the report carries.
Meant(i) ==
  \E f \in FIX, m \in wire :
    LET r == arg[f].report IN
    /\ pc[f] \in {"report", "leaves"} /\ m.clOrdID = r.clOrdID /\ m.id = i
    /\ orders'[i] \in {[orders[i] EXCEPT !.closed = r.cum],
                       [orders[i] EXCEPT !.open = r.leaves]}

\* fix_application.go:67-90: an order changes only by a report that means it, and
\* to what that report says, although the order is found by ClOrdID, which orders
\* and cancels share, and a race may have lost entries.
ReportsMeant == [][\A i \in 1 .. orderID : orders'[i] # orders[i] => Meant(i)]_vars

\* Goroutine t is under way and does not wait for the mutex.
Runs(t) ==
  \/ pc[t] \in {"build", "assign", "cancel", "iterate", "closed", "open", "leaves"}
  \/ pc[t] \in {"delete", "list", "get"} /\ HasRLock(t)
  \/ pc[t] \in {"save", "report"} /\ HasLock(t)
  \/ pc[t] \in {"new", "lock"} /\ writer = NoThread

\* tradeclient.go:193, :205, :217, :309 and fix_application.go:59: goroutines never
\* all wait for one another. Every way out of a handler gives back the lock it has, and
\* none asks for another while it has one.
NotAllWait == (\E t \in Threads : pc[t] # "idle") => \E u \in Threads : Runs(u)

\* Every request and every report is answered: the read lock deleteOrder holds
\* while it sends and the write lock of newOrder and onExecutionReport never
\* wait for one another.
AllReturn == \A t \in Threads : pc[t] # "idle" ~> (pc[t] = "idle" \/ ~alive)

\* The mutex embedded in OrderManager guards its maps: nobody writes
\* clOrdIDLookup while another goroutine writes it or ranges over it.
NoMapRace == \A t, u \in Threads : ~Races(t, u)
=============================================================================
