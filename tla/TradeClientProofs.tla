-------------------------- MODULE TradeClientProofs --------------------------
(* Proofs about TradeClient: the safety of the order management, for any     *)
(* number of request and session goroutines, orders and executions.          *)
EXTENDS TradeClient, FiniteSetTheorems, TLAPS

-----------------------------------------------------------------------------
(* The inductive invariant                                                  *)

\* Request handlers and session goroutines run different code, and hold the
\* lock their code needs where it needs it.
Locks ==
  \A t \in Threads :
    /\ t \in FIX => pc[t] \in {"idle", "lock", "report", "leaves"}
    /\ t \in HTTP => pc[t] \notin {"lock", "report", "leaves"}
    /\ pc[t] \in {"save", "report", "leaves"} => writer = t
    /\ pc[t] = "leaves" => readers = {}
    /\ pc[t] \in {"delete", "list", "get"} => t \in readers \cup blocked
    /\ pc[t] \in {"assign", "iterate", "cancel", "closed", "open"} => t \in readers

\* An order is registered under its own ClOrdID for ever; its two numbers add
\* up but while a report is half applied, which no reader sees.
Kept ==
  /\ orderID <= clOrdID
  /\ \A i \in 1 .. orderID :
       /\ orders[i].clOrdID <= clOrdID /\ lookup[orders[i].clOrdID] = i
       /\ \/ orders[i].closed + orders[i].open \in {0, Qty}
          \/ \E f \in Threads : pc[f] = "leaves" /\ arg[f].id = i
  /\ \A t \in Threads :
       /\ pc[t] \in {"new", "save"} => arg[t].beginString \in BeginStrings
       /\ pc[t] \in {"build", "assign", "cancel", "closed", "open", "leaves"} =>
            arg[t].id \in 1 .. orderID
       /\ pc[t] = "open" => arg[t].closed = orders[arg[t].id].closed

\* A ClOrdID drawn for a cancel is nobody else's: no other handler has it, no
\* order, no message sent.
Own(t) ==
  /\ arg[t].clOrdID \in 1 .. clOrdID
  /\ \A u \in Threads \ {t} :
       pc[u] \in {"assign", "cancel"} => arg[u].clOrdID # arg[t].clOrdID
  /\ \A i \in 1 .. orderID : orders[i].clOrdID # arg[t].clOrdID
  /\ \A m \in wire : m.clOrdID # arg[t].clOrdID

Drawn ==
  /\ \A c \in IDs : c > clOrdID => lookup[c] = 0
  /\ \A c \in lost : c <= clOrdID /\ lookup[c] = 0
  /\ \A t \in Threads :
       /\ pc[t] \in {"assign", "cancel"} => Own(t)
       /\ pc[t] = "assign" => arg[t].clOrdID \notin lost /\ lookup[arg[t].clOrdID] = 0
       /\ pc[t] = "cancel" =>
            arg[t].clOrdID \in lost \/ lookup[arg[t].clOrdID] = arg[t].id

Sent ==
  /\ \A m \in wire :
       /\ m.clOrdID <= clOrdID /\ m.orig = orders[m.id].clOrdID
       /\ m.type = "D" => m.clOrdID = m.orig
       /\ m.type = "F" => /\ \A i \in 1 .. orderID : orders[i].clOrdID # m.clOrdID
                          /\ m.clOrdID \in lost \/ lookup[m.clOrdID] = m.id
  /\ ClOrdIDsUnique

\* Who builds the message of an order is the only one, and it was not sent; a
\* report is about an order that was.
Building(t) ==
  /\ \A m \in wire : m.type = "D" => m.id # arg[t].id
  /\ \A u \in Threads \ {t} : pc[u] = "build" => arg[u].id # arg[t].id

Reported(r) ==
  /\ r \in Report /\ r.cum + r.leaves = Qty
  /\ \E m, d \in wire : d.type = "D" /\ d.clOrdID = m.orig /\ m.clOrdID = r.clOrdID

Reports ==
  \A t \in Threads :
    /\ pc[t] = "build" => Building(t)
    /\ pc[t] \in {"lock", "report", "leaves"} => Reported(arg[t].report)
    /\ pc[t] = "leaves" =>
         /\ orders[arg[t].id].closed = arg[t].report.cum
         /\ \E d \in wire : d.type = "D" /\ d.id = arg[t].id

\* Nobody draws a number beyond the bound.
Bounded == clOrdID + Cardinality(Drawing) <= MaxClOrdIDs

IInv == TypeOK /\ Locks /\ Kept /\ Drawn /\ Sent /\ Reports /\ Bounded

-----------------------------------------------------------------------------
(* The bound                                                                *)

LEMMA DrawingFinite == IsFiniteSet(Drawing) /\ Cardinality(Drawing) \in Nat
<1>1. Drawing \in SUBSET Threads
  BY ThreadsAssumption DEF Drawing
<1> QED
  BY <1>1, ThreadsAssumption, FS_Subset, FS_CardinalityType

\* A step with which t begins to draw, or nobody does.
LEMMA BoundedKept ==
  ASSUME TypeOK, Bounded, clOrdID' = clOrdID,
         \/ Drawing' \subseteq Drawing
         \/ ClOrdIDLeft /\ \E t : Drawing' \subseteq Drawing \cup {t}
  PROVE  Bounded'
<1>0. clOrdID \in Nat /\ MaxClOrdIDs \in Nat
  BY BoundsAssumption DEF TypeOK
<1> DEFINE D == Drawing
           E == Drawing'
<1>1. IsFiniteSet(D) /\ Cardinality(D) \in Nat
  BY DrawingFinite
<1>2. CASE E \subseteq D
  <2>1. IsFiniteSet(E) /\ Cardinality(E) <= Cardinality(D) /\ Cardinality(E) \in Nat
    BY <1>1, <1>2, FS_Subset, FS_CardinalityType
  <2> QED
    BY <1>0, <1>1, <2>1 DEF Bounded
<1>3. ASSUME NEW t, E \subseteq D \cup {t}, ClOrdIDLeft
      PROVE  Bounded'
  <2>1. IsFiniteSet(D \cup {t}) /\ Cardinality(D \cup {t}) <= Cardinality(D) + 1
    BY <1>1, FS_AddElement
  <2>2. IsFiniteSet(E) /\ Cardinality(E) <= Cardinality(D \cup {t}) /\ Cardinality(E) \in Nat
        /\ Cardinality(D \cup {t}) \in Nat
    BY <1>3, <2>1, FS_Subset, FS_CardinalityType
  <2> QED
    BY <1>0, <1>1, <1>3, <2>1, <2>2 DEF Bounded, ClOrdIDLeft
<1> QED
  BY <1>2, <1>3

\* The step with which t draws: there is a number left.
LEMMA BoundedDraw ==
  ASSUME TypeOK, Bounded, NEW t \in Drawing
  PROVE  /\ clOrdID + 1 \in IDs
         /\ Drawing' \subseteq Drawing \ {t} /\ clOrdID' = clOrdID + 1 => Bounded'
<1>0. clOrdID \in Nat /\ MaxClOrdIDs \in Nat
  BY BoundsAssumption DEF TypeOK
<1> DEFINE D == Drawing
           E == Drawing'
<1>1. IsFiniteSet(D) /\ Cardinality(D) \in Nat
  BY DrawingFinite
<1>2. IsFiniteSet(D \ {t}) /\ Cardinality(D \ {t}) = Cardinality(D) - 1
      /\ Cardinality(D \ {t}) \in Nat
  BY <1>1, FS_RemoveElement, FS_CardinalityType
<1>3. ASSUME E \subseteq D \ {t}
      PROVE  IsFiniteSet(E) /\ Cardinality(E) <= Cardinality(D) - 1 /\ Cardinality(E) \in Nat
  BY <1>2, <1>3, FS_Subset, FS_CardinalityType
<1> QED
  BY <1>0, <1>1, <1>2, <1>3 DEF Bounded, IDs

-----------------------------------------------------------------------------
(* Steps that change only the lock and a handler's own data                 *)

PCs == {"idle", "new", "save", "build", "delete", "assign", "cancel", "list",
        "iterate", "get", "closed", "open", "lock", "report", "leaves"}
Arg == [id : 0 .. MaxClOrdIDs, clOrdID : {0} \cup IDs, closed : 0 .. Qty,
        beginString : BeginStrings \cup {NoBeginString}, report : Report \cup {NoReport}]

LEMMA IdleArg == Idle \in Arg
BY BoundsAssumption DEF Idle, Arg

\* Handler t goes from a place where it has neither a ClOrdID nor a half
\* applied report to place p with data a.
LEMMA LocalStep ==
  ASSUME IInv, NEW t \in Threads, NEW p \in PCs, NEW a \in Arg,
         UNCHANGED <<omVars, wire, lost, alive>>,
         pc' = [pc EXCEPT ![t] = p], arg' = [arg EXCEPT ![t] = a],
         LockTypeOK', Locks', Bounded',
         pc[t] # "leaves", p \notin {"build", "assign", "cancel", "leaves"},
         p \in {"closed", "open"} => a.id \in 1 .. orderID,
         p = "open" => a.closed = orders[a.id].closed,
         p \in {"lock", "report"} => Reported(a.report),
         p \in {"new", "save"} => a.beginString \in BeginStrings
  PROVE  IInv'
<1>0. /\ \A u \in Threads \ {t} : pc'[u] = pc[u] /\ arg'[u] = arg[u]
      /\ pc'[t] = p /\ arg'[t] = a
  BY DEF IInv, TypeOK
<1>1. TypeOK'
  BY DEF IInv, TypeOK, omVars, PCs, Arg
<1>2. Kept'
  BY <1>0 DEF IInv, Kept, omVars
<1>3. Drawn'
  BY <1>0 DEF IInv, Drawn, Own, omVars
<1>4. Sent'
  BY DEF IInv, Sent, ClOrdIDsUnique, omVars
<1>5. Reports'
  BY <1>0 DEF IInv, Reports, Building, Reported, omVars
<1> QED
  BY <1>1, <1>2, <1>3, <1>4, <1>5 DEF IInv

LEMMA ArgType ==
  ASSUME IInv, NEW t \in Threads
  PROVE  arg[t] \in Arg /\ arg = [arg EXCEPT ![t] = arg[t]]
BY DEF IInv, TypeOK, Arg

LEMMA NewOrderInv ==
  ASSUME IInv, NEW t \in HTTP, NEW b \in BeginStrings, NewOrder(t, b)
  PROVE  IInv'
<1> DEFINE a == [arg[t] EXCEPT !.beginString = b]
<1>1. /\ t \in Threads /\ pc[t] = "idle" /\ pc' = [pc EXCEPT ![t] = "new"]
      /\ arg' = [arg EXCEPT ![t] = a]
      /\ UNCHANGED <<omVars, wire, lost, alive>> /\ UNCHANGED lockVars
  BY ThreadsAssumption DEF NewOrder, At, Goto
<1>2. a \in Arg /\ a.beginString = b
  BY <1>1, ArgType DEF Arg
<1>3. LockTypeOK' /\ Locks'
  BY <1>1, ThreadsAssumption DEF IInv, TypeOK, LockTypeOK, Locks, lockVars
<1>4. Bounded'
  <2>1. Drawing' \subseteq Drawing \cup {t} /\ clOrdID' = clOrdID /\ ClOrdIDLeft
    BY <1>1 DEF NewOrder, Drawing, omVars, IInv, TypeOK
  <2> QED
    BY <2>1, BoundedKept DEF IInv
<1> HIDE DEF a
<1> QED
  BY <1>1, <1>2, <1>3, <1>4, LocalStep DEF PCs

LEMMA NewOrderLockInv ==
  ASSUME IInv, NEW t \in Threads, NewOrderLock(t)
  PROVE  IInv'
<1>1. /\ pc[t] = "new" /\ pc' = [pc EXCEPT ![t] = "save"] /\ arg' = [arg EXCEPT ![t] = arg[t]]
      /\ UNCHANGED <<omVars, wire, lost, alive>> /\ Lock(t)
  BY ArgType DEF NewOrderLock, At, Goto
<1>2. LockTypeOK' /\ Locks'
  BY <1>1, ThreadsAssumption, NoThreadAssumption DEF IInv, TypeOK, LockTypeOK, Locks, Lock
<1>3. Drawing' \subseteq Drawing /\ clOrdID' = clOrdID
  BY <1>1 DEF Drawing, omVars, IInv, TypeOK
<1>4. arg[t].beginString \in BeginStrings
  BY <1>1 DEF IInv, Kept
<1> QED
  BY <1>1, <1>2, <1>3, <1>4, ArgType, BoundedKept, LocalStep DEF PCs, IInv

LEMMA ReportLockInv ==
  ASSUME IInv, NEW t \in Threads, ReportLock(t)
  PROVE  IInv'
<1>1. /\ pc[t] = "lock" /\ pc' = [pc EXCEPT ![t] = "report"]
      /\ arg' = [arg EXCEPT ![t] = arg[t]]
      /\ UNCHANGED <<omVars, wire, lost, alive>> /\ Lock(t)
  BY ArgType DEF ReportLock, At, Goto
<1>2. LockTypeOK' /\ Locks'
  BY <1>1, ThreadsAssumption, NoThreadAssumption DEF IInv, TypeOK, LockTypeOK, Locks, Lock
<1>3. Drawing' \subseteq Drawing /\ clOrdID' = clOrdID
  BY <1>1 DEF Drawing, omVars, IInv, TypeOK
<1>4. Reported(arg[t].report)
  BY <1>1 DEF IInv, Reports
<1> QED
  BY <1>1, <1>2, <1>3, <1>4, ArgType, BoundedKept, LocalStep DEF PCs, IInv

\* A handler that asks for the read lock is inside or kept out.
LEMMA RLockLocks ==
  ASSUME IInv, NEW t \in HTTP, NEW p \in {"delete", "list", "get"}, pc[t] = "idle",
         RLock(t), pc' = [pc EXCEPT ![t] = p]
  PROVE  LockTypeOK' /\ Locks'
<1>1. t \in Threads /\ t \notin FIX
  BY ThreadsAssumption
<1>2. LockTypeOK'
  BY <1>1 DEF IInv, TypeOK, LockTypeOK, RLock
<1>3. readers \subseteq readers' /\ blocked \subseteq blocked' /\ writer' = writer
      /\ t \in readers' \cup blocked' /\ (readers' = readers \/ writer = NoThread)
  BY DEF RLock
<1>4. \A u \in Threads : pc[u] = "leaves" => writer # NoThread
  BY NoThreadAssumption DEF IInv, Locks
<1> QED
  BY <1>1, <1>2, <1>3, <1>4 DEF IInv, TypeOK, Locks

LEMMA AskInv ==
  ASSUME IInv, NEW t \in HTTP,
         (\E i \in IDs : DeleteOrder(t, i) \/ GetOrder(t, i)) \/ GetOrders(t)
  PROVE  IInv'
<1>0. t \in Threads
  BY ThreadsAssumption
<1>1. PICK p \in {"delete", "list", "get"}, a \in Arg :
        /\ pc[t] = "idle" /\ pc' = [pc EXCEPT ![t] = p] /\ arg' = [arg EXCEPT ![t] = a]
        /\ UNCHANGED <<omVars, wire, lost, alive>> /\ RLock(t)
        /\ p = "delete" => ClOrdIDLeft
  <2>1. ASSUME NEW i \in IDs
        PROVE  [arg[t] EXCEPT !.id = i] \in Arg
    BY <1>0, ArgType DEF Arg, IDs
  <2> QED
    BY <1>0, <2>1, ArgType DEF DeleteOrder, GetOrder, GetOrders, At, Goto
<1>2. LockTypeOK' /\ Locks'
  BY <1>1, RLockLocks
<1>3. Bounded'
  <2>1. /\ Drawing' \subseteq Drawing \cup {t} /\ clOrdID' = clOrdID
        /\ p # "delete" => Drawing' \subseteq Drawing
    BY <1>0, <1>1 DEF Drawing, omVars, IInv, TypeOK
  <2> QED
    BY <1>1, <2>1, BoundedKept DEF IInv
<1> QED
  BY <1>0, <1>1, <1>2, <1>3, LocalStep DEF PCs

\* A reader that goes on, or leaves.
LEMMA ReaderInv ==
  ASSUME IInv, NEW t \in Threads, NEW p \in {"idle", "iterate", "closed", "open"},
         NEW a \in Arg, pc[t] \in {"delete", "list", "iterate", "get", "closed", "open"},
         UNCHANGED <<omVars, wire, lost, alive>>,
         pc' = [pc EXCEPT ![t] = p], arg' = [arg EXCEPT ![t] = a],
         IF p = "idle" THEN RUnlock(t) ELSE UNCHANGED lockVars /\ t \in readers,
         p \in {"closed", "open"} => a.id \in 1 .. orderID,
         p = "open" => a.closed = orders[a.id].closed
  PROVE  IInv'
<1>1. LockTypeOK'
  BY DEF IInv, TypeOK, LockTypeOK, RUnlock, lockVars
<1>2. Locks'
  <2>1. t \notin FIX
    BY DEF IInv, Locks
  <2>2. writer' = writer /\ readers' \subseteq readers /\ blocked' = blocked
        /\ readers \ {t} \subseteq readers' /\ (p # "idle" => t \in readers')
    BY DEF RUnlock, lockVars
  <2> QED
    BY <2>1, <2>2 DEF IInv, TypeOK, Locks
<1>3. Drawing' \subseteq Drawing /\ clOrdID' = clOrdID
  BY DEF Drawing, omVars, IInv, TypeOK
<1> QED
  BY <1>1, <1>2, <1>3, BoundedKept, LocalStep DEF PCs, IInv

LEMMA ReadersInv ==
  ASSUME IInv, NEW t \in Threads,
         \/ GetOrdersBegin(t) \/ GetOrdersEnd(t) \/ GetOrderFound(t)
         \/ MarshalClosed(t) \/ MarshalOpen(t)
  PROVE  IInv'
<1>0. /\ arg[t] \in Arg /\ arg = [arg EXCEPT ![t] = arg[t]] /\ Idle \in Arg
      /\ TypeOK /\ lockVars = <<writer, readers, blocked>>
      /\ pc[t] \in {"iterate", "closed", "open"} => t \in readers
      /\ pc[t] \in {"closed", "open"} => arg[t].id \in 1 .. orderID
  BY ArgType, IdleArg DEF lockVars, IInv, Locks, Kept
<1>1. CASE GetOrdersBegin(t)
  BY <1>0, <1>1, ReaderInv DEF GetOrdersBegin, At, Goto, HasRLock
<1>2. CASE GetOrdersEnd(t)
  <2>1. CASE RUnlock(t) /\ Return(t)
    BY <1>0, <1>2, <2>1, ReaderInv DEF GetOrdersEnd, At, Goto, Return
  <2>2. ASSUME NEW i \in GetAll, Goto(t, "closed"), arg' = [arg EXCEPT ![t].id = i],
               UNCHANGED lockVars
        PROVE  IInv'
    <3> DEFINE a == [arg[t] EXCEPT !.id = i]
    <3>1. i \in 1 .. orderID /\ i \in 0 .. MaxClOrdIDs
      BY <1>0, BoundsAssumption DEF GetAll, TypeOK
    <3>2. a \in Arg /\ a.id = i /\ arg' = [arg EXCEPT ![t] = a]
      BY <1>0, <2>2, <3>1 DEF Arg
    <3> HIDE DEF a
    <3> QED
      BY <1>0, <1>2, <2>2, <3>1, <3>2, ReaderInv DEF GetOrdersEnd, At, Goto
  <2> QED
    BY <1>2, <2>1, <2>2 DEF GetOrdersEnd
<1>3. CASE GetOrderFound(t)
  <2>1. CASE Found(arg[t].id)
    BY <1>0, <1>3, <2>1, ReaderInv DEF GetOrderFound, At, Goto, HasRLock, Found
  <2>2. CASE ~Found(arg[t].id)
    BY <1>0, <1>3, <2>2, ReaderInv DEF GetOrderFound, At, Goto, Return
  <2> QED
    BY <2>1, <2>2
<1>4. CASE MarshalClosed(t)
  <2> DEFINE i == arg[t].id
             a == [arg[t] EXCEPT !.closed = orders[i].closed]
  <2>1. pc[t] = "closed" /\ i \in 1 .. orderID /\ orders[i].closed \in 0 .. Qty
    BY <1>0, <1>4 DEF MarshalClosed, At, TypeOK
  <2>2. /\ a \in Arg /\ a.id = i /\ a.closed = orders[i].closed
        /\ arg' = [arg EXCEPT ![t] = a]
    BY <1>0, <1>4, <2>1 DEF MarshalClosed, Arg
  <2> HIDE DEF a
  <2> QED
    BY <1>0, <1>4, <2>1, <2>2, ReaderInv DEF MarshalClosed, At, Goto
<1>5. CASE MarshalOpen(t)
  BY <1>0, <1>5, ReaderInv DEF MarshalOpen, At, Goto, Return
<1> QED
  BY <1>1, <1>2, <1>3, <1>4, <1>5

LEMMA FromAppInv ==
  ASSUME IInv, NEW f \in FIX, NEW r \in Report, FromApp(f, r)
  PROVE  IInv'
<1> DEFINE a == [arg[f] EXCEPT !.report = r]
<1>1. /\ f \in Threads /\ f \notin HTTP /\ pc[f] = "idle" /\ pc' = [pc EXCEPT ![f] = "lock"]
      /\ arg' = [arg EXCEPT ![f] = a]
      /\ UNCHANGED <<omVars, wire, lost, alive>> /\ UNCHANGED lockVars
  BY ThreadsAssumption DEF FromApp, At, Goto
<1>2. a \in Arg /\ a.report = r
  BY <1>1, ArgType DEF Arg
<1>3. LockTypeOK' /\ Locks'
  BY <1>1, ThreadsAssumption DEF IInv, TypeOK, LockTypeOK, Locks, lockVars
<1>4. Reported(r)
  BY DEF FromApp, Reported
<1>5. Drawing' \subseteq Drawing /\ clOrdID' = clOrdID
  BY <1>1 DEF Drawing, omVars, IInv, TypeOK
<1> HIDE DEF a
<1> QED
  BY <1>1, <1>2, <1>3, <1>4, <1>5, BoundedKept, LocalStep DEF PCs, IInv

-----------------------------------------------------------------------------
(* Steps that change what is shared                                         *)

LEMMA NewOrderSaveInv ==
  ASSUME IInv, NEW t \in Threads, NewOrderSave(t)
  PROVE  IInv'
<1> DEFINE b == arg[t].beginString
           n == orderID + 1
           c == clOrdID + 1
<1>1. /\ pc[t] = "save" /\ pc' = [pc EXCEPT ![t] = "build"]
      /\ arg' = [arg EXCEPT ![t].id = n]
      /\ UNCHANGED <<executions, executionID, wire, lost, alive>>
      /\ writer = t /\ readers = {} /\ Unlock(t) /\ t \in HTTP
  BY ThreadsAssumption DEF NewOrderSave, Save, At, Goto, HasLock, IInv, Locks
<1>2. /\ orderID' = n /\ clOrdID' = c
      /\ orders' = [i \in 1 .. n |-> IF i = n THEN [clOrdID |-> c, beginString |-> b,
                                                   closed |-> 0, open |-> 0]
                                     ELSE orders[i]]
      /\ lookup' = [lookup EXCEPT ![c] = n]
  BY DEF NewOrderSave, Save, NextClOrdID
<1>3. c \in IDs /\ n \in 1 .. c /\ b \in BeginStrings /\ orderID \in Nat /\ clOrdID \in Nat
  <2>1. t \in Drawing /\ b \in BeginStrings /\ orderID <= clOrdID
    BY <1>1 DEF Drawing, IInv, Kept
  <2>2. orderID \in Nat /\ clOrdID \in Nat
    BY DEF IInv, TypeOK
  <2> QED
    BY <2>1, <2>2, BoundedDraw DEF IInv
<1>4. /\ \A u \in Threads \ {t} : pc'[u] = pc[u] /\ arg'[u] = arg[u]
      /\ pc'[t] = "build" /\ arg'[t].id = n /\ arg[t] \in Arg
      /\ arg' = [arg EXCEPT ![t] = [arg[t] EXCEPT !.id = n]]
      /\ [arg[t] EXCEPT !.id = n] \in Arg
  <2>1. arg[t] \in Arg /\ n \in 0 .. MaxClOrdIDs
    BY <1>3, ArgType, BoundsAssumption DEF IDs
  <2>2. [arg[t] EXCEPT !.id = n] \in Arg /\ [arg[t] EXCEPT !.id = n].id = n
    BY <2>1 DEF Arg
  <2> HIDE DEF n
  <2>3. arg' = [arg EXCEPT ![t] = [arg[t] EXCEPT !.id = n]]
    BY <1>1
  <2> QED
    BY <1>1, <2>1, <2>2, <2>3 DEF IInv, TypeOK
<1>5. /\ \A i \in 1 .. orderID : orders'[i] = orders[i] /\ i # n
      /\ orders'[n] = [clOrdID |-> c, beginString |-> b, closed |-> 0, open |-> 0]
      /\ 1 .. n = (1 .. orderID) \cup {n}
  BY <1>2, <1>3
<1>6. /\ lookup'[c] = n
      /\ \A d \in IDs : d <= clOrdID => lookup'[d] = lookup[d]
      /\ \A d \in IDs : d > c => lookup'[d] = lookup[d]
  BY <1>2, <1>3 DEF IInv, TypeOK, IDs
<1> HIDE DEF b, n, c
<1>7. LockTypeOK' /\ Locks'
  <2>1. LockTypeOK'
    BY <1>1, <1>3 DEF IInv, TypeOK, LockTypeOK, Unlock
  <2>2. t \notin FIX
    BY <1>1, ThreadsAssumption
  <2>3. \A u \in Threads \ {t} : pc[u] \notin {"save", "report", "leaves"}
    BY <1>1 DEF IInv, Locks
  <2> QED
    BY <1>1, <1>4, <2>1, <2>2, <2>3 DEF IInv, Locks, Unlock
<1>8. TypeOK'
  <2>1. orders' \in [1 .. orderID' -> [clOrdID : IDs, beginString : BeginStrings,
                                       closed : 0 .. Qty, open : 0 .. Qty]]
    BY <1>2, <1>3, BoundsAssumption DEF IInv, TypeOK, n
  <2>2. orderID' \in 0 .. MaxClOrdIDs /\ clOrdID' \in 0 .. MaxClOrdIDs
    BY <1>2, <1>3, BoundsAssumption DEF IDs
  <2>3. lookup' \in [IDs -> 0 .. orderID']
    BY <1>2, <1>3 DEF IInv, TypeOK, n
  <2>4. arg' \in [Threads -> Arg] /\ pc' \in [Threads -> PCs]
    BY <1>1, <1>4, ArgType DEF IInv, TypeOK, PCs, Arg
  <2>5. wire' \subseteq [type : {"D", "F"}, id : 1 .. orderID', clOrdID : IDs, orig : IDs]
    BY <1>1, <1>2, <1>3 DEF IInv, TypeOK, n
  <2> QED
    BY <1>1, <1>7, <2>1, <2>2, <2>3, <2>4, <2>5 DEF IInv, TypeOK, PCs, Arg
<1>9. Kept'
  <2>1. ASSUME NEW i \in 1 .. orderID
        PROVE  /\ orders'[i].clOrdID <= clOrdID' /\ lookup'[orders'[i].clOrdID] = i
               /\ \/ orders'[i].closed + orders'[i].open \in {0, Qty}
                  \/ \E f \in Threads : pc'[f] = "leaves" /\ arg'[f].id = i
    <3>1. orders[i].clOrdID \in IDs /\ orders[i].clOrdID <= clOrdID /\ c = clOrdID + 1
      BY DEF IInv, TypeOK, Kept, c
    <3>2. \A f \in Threads : pc[f] = "leaves" => pc'[f] = "leaves" /\ arg'[f].id = arg[f].id
      BY <1>1, <1>4
    <3> QED
      BY <1>2, <1>3, <1>5, <1>6, <3>1, <3>2 DEF IInv, Kept, IDs
  <2>2. /\ orders'[n].clOrdID <= clOrdID' /\ lookup'[orders'[n].clOrdID] = n
        /\ orders'[n].closed + orders'[n].open \in {0, Qty} /\ orderID' <= clOrdID'
    BY <1>2, <1>3, <1>5, <1>6 DEF IDs
  <2>3. ASSUME NEW u \in Threads
        PROVE  /\ pc'[u] \in {"new", "save"} => arg'[u].beginString \in BeginStrings
               /\ pc'[u] \in {"build", "assign", "cancel", "closed", "open", "leaves"} =>
                    arg'[u].id \in 1 .. orderID'
               /\ pc'[u] = "open" => arg'[u].closed = orders'[arg'[u].id].closed
    <3>1. CASE u = t
      BY <1>2, <1>3, <1>4, <3>1
    <3>2. CASE u # t
      <4>1. pc'[u] = pc[u] /\ arg'[u] = arg[u]
        BY <1>4, <3>2
      <4>2. \A i \in 1 .. orderID : i \in 1 .. orderID' /\ orders'[i] = orders[i]
        BY <1>2, <1>5
      <4> QED
        BY <4>1, <4>2 DEF IInv, Kept
    <3> QED
      BY <3>1, <3>2
  <2> QED
    BY <1>2, <1>5, <2>1, <2>2, <2>3 DEF Kept
<1>10. Drawn'
  <2>1. c = clOrdID + 1 /\ lost \subseteq IDs
    BY DEF c, IInv, TypeOK
  <2>2. ASSUME NEW u \in Threads, pc'[u] \in {"assign", "cancel"}
        PROVE  Own(u)' /\ pc'[u] = pc[u] /\ arg'[u] = arg[u] /\ arg[u].clOrdID \in IDs
               /\ lookup'[arg[u].clOrdID] = lookup[arg[u].clOrdID]
    <3>1. u # t /\ Own(u) /\ pc'[u] = pc[u] /\ arg'[u] = arg[u]
      BY <1>4, <2>2 DEF IInv, Drawn
    <3>2. arg[u].clOrdID \in 1 .. clOrdID /\ arg[u].clOrdID \in IDs
      BY <1>3, <2>1, <3>1, BoundsAssumption DEF Own, IDs
    <3> QED
      BY <1>1, <1>2, <1>3, <1>4, <1>5, <1>6, <2>1, <3>1, <3>2 DEF Own
  <2>3. \A d \in IDs : d > clOrdID' => lookup'[d] = 0
    BY <1>2, <1>3, <1>6, <2>1 DEF IInv, Drawn, IDs
  <2>4. \A d \in lost' : d <= clOrdID' /\ lookup'[d] = 0
    BY <1>1, <1>2, <1>3, <1>6, <2>1 DEF IInv, Drawn, IDs
  <2> QED
    BY <1>1, <2>2, <2>3, <2>4 DEF IInv, Drawn
<1>11. Sent'
  <2>1. c = clOrdID + 1
    BY DEF c
  <2>2. ASSUME NEW m \in wire
        PROVE  /\ m.clOrdID <= clOrdID' /\ m.orig = orders'[m.id].clOrdID
               /\ m.type = "F" => /\ \A i \in 1 .. orderID' : orders'[i].clOrdID # m.clOrdID
                                  /\ m.clOrdID \in lost' \/ lookup'[m.clOrdID] = m.id
    <3>1. /\ m.id \in 1 .. orderID /\ m.clOrdID \in IDs /\ m.clOrdID <= clOrdID
      BY DEF IInv, TypeOK, Sent
    <3>2. /\ m.clOrdID <= clOrdID' /\ m.clOrdID # c /\ orders'[m.id] = orders[m.id]
          /\ lookup'[m.clOrdID] = lookup[m.clOrdID]
      BY <1>2, <1>3, <1>5, <1>6, <2>1, <3>1 DEF IDs
    <3>3. ASSUME NEW i \in 1 .. orderID', m.type = "F"
          PROVE  orders'[i].clOrdID # m.clOrdID
      BY <1>2, <1>5, <3>2, <3>3 DEF IInv, Sent
    <3> QED
      BY <1>1, <3>2, <3>3 DEF IInv, Sent
  <2> QED
    BY <1>1, <2>2 DEF IInv, Sent, ClOrdIDsUnique
<1>12. Reports'
  <2>1. \A m \in wire : m.id \in 1 .. orderID /\ m.id # n
    BY <1>5 DEF IInv, TypeOK
  <2>2. \A u \in Threads : pc[u] = "build" => arg[u].id \in 1 .. orderID /\ arg[u].id # n
    BY <1>5 DEF IInv, Kept
  <2>3. ASSUME NEW u \in Threads, pc'[u] = "build"
        PROVE  Building(u)'
    BY <1>1, <1>4, <2>1, <2>2, <2>3 DEF IInv, Reports, Building
  <2>4. ASSUME NEW u \in Threads, pc'[u] \in {"lock", "report", "leaves"}
        PROVE  Reported(arg[u].report)' /\ pc'[u] = pc[u] /\ arg'[u] = arg[u]
    BY <1>1, <1>4, <2>4 DEF IInv, Reports, Reported
  <2>5. \A u \in Threads : pc[u] = "leaves" => orders'[arg[u].id] = orders[arg[u].id]
    BY <1>5 DEF IInv, Kept
  <2> QED
    BY <1>1, <2>3, <2>4, <2>5 DEF IInv, Reports
<1>13. Bounded'
  <2>1. t \in Drawing /\ Drawing' \subseteq Drawing \ {t} /\ clOrdID' = clOrdID + 1
    BY <1>1, <1>2, <1>4, ThreadsAssumption DEF Drawing, c
  <2> QED
    BY <2>1, BoundedDraw DEF IInv
<1> QED
  BY <1>7, <1>8, <1>9, <1>10, <1>11, <1>12, <1>13 DEF IInv

LEMMA NewOrderSendInv ==
  ASSUME IInv, NEW t \in Threads, NewOrderSend(t)
  PROVE  IInv'
<1> DEFINE i == arg[t].id
           m == [type |-> "D", id |-> i, clOrdID |-> orders[i].clOrdID,
                 orig |-> orders[i].clOrdID]
<1>1. /\ pc[t] = "build" /\ pc' = [pc EXCEPT ![t] = "idle"] /\ arg' = [arg EXCEPT ![t] = Idle]
      /\ UNCHANGED <<omVars, lost, alive>> /\ UNCHANGED lockVars
      /\ wire' = wire \/ wire' = wire \cup {m}
  BY DEF NewOrderSend, Send, At, Goto, Return
<1>2. /\ \A u \in Threads \ {t} : pc'[u] = pc[u] /\ arg'[u] = arg[u]
      /\ pc'[t] = "idle" /\ arg'[t] = Idle
      /\ UNCHANGED <<orders, lookup, orderID, clOrdID, executions, executionID>>
  BY <1>1 DEF IInv, TypeOK, omVars
<1>3. /\ i \in 1 .. orderID /\ orders[i].clOrdID \in IDs /\ orders[i].clOrdID <= clOrdID
      /\ lookup[orders[i].clOrdID] = i /\ Building(t)
  BY <1>1 DEF IInv, TypeOK, Kept, Reports
<1>4. m.type = "D" /\ m.id = i /\ m.clOrdID = orders[i].clOrdID /\ m.orig = m.clOrdID
  OBVIOUS
<1>5. m \in [type : {"D", "F"}, id : 1 .. orderID, clOrdID : IDs, orig : IDs]
  BY <1>3
<1> HIDE DEF i, m
<1>6. Locks'
  BY <1>1, <1>2, ThreadsAssumption DEF IInv, Locks, lockVars
<1>7. TypeOK'
  BY <1>1, <1>2, <1>5, IdleArg, ArgType DEF IInv, TypeOK, LockTypeOK, lockVars, Arg
<1>8. Kept'
  BY <1>1, <1>2 DEF IInv, Kept
<1>9. Drawn'
  <2>1. ASSUME NEW u \in Threads, pc'[u] \in {"assign", "cancel"}
        PROVE  Own(u)' /\ u # t
    <3>1. u # t /\ Own(u) /\ arg'[u] = arg[u]
      BY <1>2, <2>1 DEF IInv, Drawn
    <3>2. \A k \in wire' : k.clOrdID # arg[u].clOrdID
      BY <1>1, <1>3, <1>4, <3>1 DEF Own
    <3> QED
      BY <1>2, <3>1, <3>2 DEF Own
  <2> QED
    BY <1>1, <1>2, <2>1 DEF IInv, Drawn
<1>10. Sent'
  <2>1. ASSUME NEW k \in wire, k.clOrdID = m.clOrdID
        PROVE  FALSE
    <3>1. k.type = "D" /\ k.id \in 1 .. orderID /\ k.clOrdID = orders[k.id].clOrdID
      BY <1>3, <1>4, <2>1 DEF IInv, TypeOK, Sent
    <3>2. k.id = i
      BY <1>3, <1>4, <2>1, <3>1 DEF IInv, Kept
    <3> QED
      BY <1>3, <3>1, <3>2 DEF Building, i
  <2>2. ClOrdIDsUnique'
    BY <1>1, <2>1 DEF IInv, Sent, ClOrdIDsUnique
  <2> QED
    BY <1>1, <1>2, <1>3, <1>4, <2>2 DEF IInv, Sent
<1>11. Reports'
  <2>1. ASSUME NEW u \in Threads, pc'[u] = "build"
        PROVE  Building(u)'
    <3>1. u # t /\ pc[u] = "build" /\ arg'[u] = arg[u] /\ Building(u) /\ arg[u].id # i
      BY <1>1, <1>2, <1>3, <2>1 DEF IInv, Reports, Building, i
    <3> QED
      BY <1>1, <1>2, <1>4, <3>1 DEF Building
  <2>2. ASSUME NEW u \in Threads, pc'[u] \in {"lock", "report", "leaves"}
        PROVE  u # t /\ Reported(arg[u].report)'
    <3>1. u # t /\ arg'[u] = arg[u] /\ Reported(arg[u].report)
      BY <1>2, <2>2 DEF IInv, Reports
    <3> QED
      BY <1>1, <3>1 DEF Reported
  <2> QED
    BY <1>1, <1>2, <2>1, <2>2 DEF IInv, Reports
<1>12. Bounded'
  <2>1. Drawing' \subseteq Drawing
    BY <1>2, ThreadsAssumption DEF Drawing
  <2> QED
    BY <1>2, <2>1, BoundedKept DEF IInv
<1> QED
  BY <1>6, <1>7, <1>8, <1>9, <1>10, <1>11, <1>12 DEF IInv

LEMMA DeleteOrderGetInv ==
  ASSUME IInv, NEW t \in Threads, DeleteOrderGet(t)
  PROVE  IInv'
<1>0. pc[t] = "delete" /\ t \in readers /\ t \in HTTP /\ t \in Drawing
  BY ThreadsAssumption DEF DeleteOrderGet, At, HasRLock, IInv, Locks, Drawing
<1>1. CASE ~Found(arg[t].id)
  BY <1>0, <1>1, IdleArg, ReaderInv DEF DeleteOrderGet, At, Goto, Return, omVars
<1>2. CASE Found(arg[t].id)
  <2> DEFINE c == clOrdID + 1
             a == [arg[t] EXCEPT !.clOrdID = c]
  <2>1. /\ pc' = [pc EXCEPT ![t] = "assign"] /\ arg' = [arg EXCEPT ![t] = a]
        /\ clOrdID' = c /\ UNCHANGED lockVars
        /\ UNCHANGED <<orders, lookup, orderID, executions, executionID, wire, lost, alive>>
        /\ arg[t].id \in 1 .. orderID
    BY <1>2 DEF DeleteOrderGet, At, Goto, NextClOrdID, Found
  <2>2. c \in IDs /\ clOrdID \in Nat /\ orderID \in Nat /\ c = clOrdID + 1
    <3>1. TypeOK /\ Bounded
      BY DEF IInv
    <3>2. c \in IDs
      BY <1>0, <3>1, BoundedDraw
    <3> QED
      BY <3>1, <3>2, BoundsAssumption DEF TypeOK
  <2>3. a \in Arg /\ a.id = arg[t].id /\ a.clOrdID = c
    BY <2>2, ArgType DEF Arg
  <2> HIDE DEF c, a
  <2>4. /\ \A u \in Threads \ {t} : pc'[u] = pc[u] /\ arg'[u] = arg[u]
        /\ pc'[t] = "assign" /\ arg'[t] = a
    BY <2>1 DEF IInv, TypeOK
  <2>5. Locks'
    BY <1>0, <2>1, <2>4, ThreadsAssumption DEF IInv, Locks, lockVars
  <2>6. TypeOK'
    <3>1. clOrdID' \in 0 .. MaxClOrdIDs
      BY <2>1, <2>2, BoundsAssumption DEF IDs
    <3>2. pc' \in [Threads -> PCs] /\ arg' \in [Threads -> Arg]
      BY <2>1, <2>3 DEF IInv, TypeOK, Arg, PCs
    <3> QED
      BY <2>1, <3>1, <3>2 DEF IInv, TypeOK, LockTypeOK, lockVars, Arg, PCs
  <2>7. Kept'
    <3>1. /\ \A i \in 1 .. orderID : orders[i].clOrdID \in Nat /\ orders[i].clOrdID <= clOrdID'
          /\ orderID <= clOrdID'
      BY <2>1, <2>2 DEF IInv, TypeOK, Kept, IDs
    <3>2. \A f \in Threads : pc[f] = "leaves" => pc'[f] = "leaves" /\ arg'[f] = arg[f]
      BY <1>0, <2>4
    <3> QED
      BY <1>0, <2>1, <2>3, <2>4, <3>1, <3>2 DEF IInv, Kept
  <2>8. Drawn'
    <3>1. Own(t)'
      <4>1. \A i \in 1 .. orderID : orders[i].clOrdID # c
        BY <2>2 DEF IInv, TypeOK, Kept, IDs
      <4>2. \A m \in wire : m.clOrdID # c
        BY <2>2 DEF IInv, TypeOK, Sent, IDs
      <4>3. \A u \in Threads \ {t} : pc[u] \in {"assign", "cancel"} => arg[u].clOrdID # c
        BY <2>2 DEF IInv, Drawn, Own
      <4>4. c \in 1 .. clOrdID'
        BY <2>1, <2>2
      <4> QED
        BY <2>1, <2>3, <2>4, <4>1, <4>2, <4>3, <4>4 DEF Own
    <3>2. ASSUME NEW u \in Threads \ {t}, pc'[u] \in {"assign", "cancel"}
          PROVE  Own(u)'
      <4>1. pc[u] = pc'[u] /\ Own(u) /\ arg'[u] = arg[u]
        BY <2>4, <3>2 DEF IInv, Drawn
      <4>2. arg[u].clOrdID \in 1 .. clOrdID' /\ arg[u].clOrdID # c
        BY <2>1, <2>2, <4>1 DEF Own
      <4>3. \A v \in Threads \ {u} :
              pc'[v] \in {"assign", "cancel"} => arg'[v].clOrdID # arg[u].clOrdID
        BY <2>3, <2>4, <4>1, <4>2 DEF Own
      <4> QED
        BY <2>1, <4>1, <4>2, <4>3 DEF Own
    <3>3. /\ \A d \in IDs : d > clOrdID' => lookup[d] = 0
          /\ \A d \in lost : d <= clOrdID' /\ lookup[d] = 0
          /\ c \notin lost /\ lookup[c] = 0
      BY <2>1, <2>2 DEF IInv, TypeOK, Drawn, IDs
    <3> QED
      BY <2>1, <2>3, <2>4, <3>1, <3>2, <3>3 DEF IInv, Drawn
  <2>9. Sent'
    <3>1. \A m \in wire : m.clOrdID \in Nat /\ m.clOrdID <= clOrdID'
      <4>1. \A m \in wire : m.clOrdID \in Nat /\ m.clOrdID <= clOrdID
        BY DEF IInv, TypeOK, Sent, IDs
      <4> QED
        BY <2>1, <2>2, <4>1
    <3> QED
      BY <2>1, <3>1 DEF IInv, Sent, ClOrdIDsUnique
  <2>10. Reports'
    BY <1>0, <2>1, <2>4 DEF IInv, Reports, Building, Reported
  <2>11. Bounded'
    <3>1. Drawing' \subseteq Drawing \ {t}
      BY <2>4, ThreadsAssumption DEF Drawing
    <3> QED
      BY <1>0, <2>1, <2>2, <3>1, BoundedDraw DEF IInv
  <2> QED
    BY <2>5, <2>6, <2>7, <2>8, <2>9, <2>10, <2>11 DEF IInv
<1> QED
  BY <1>1, <1>2

LEMMA DeleteOrderAssignInv ==
  ASSUME IInv, NEW t \in Threads, DeleteOrderAssign(t)
  PROVE  IInv'
<1> DEFINE c == arg[t].clOrdID
           i == arg[t].id
<1>1. /\ pc[t] = "assign" /\ pc' = [pc EXCEPT ![t] = "cancel"]
      /\ UNCHANGED <<orders, orderID, executions, executionID, clOrdID, lockVars,
                     arg, wire, alive>>
      /\ \/ lookup' = [lookup EXCEPT ![c] = i] /\ lost' = lost
         \/ lookup' = lookup /\ lost' = lost \cup {c}
  BY DEF DeleteOrderAssign, At, Goto
<1>2. (\A u \in Threads \ {t} : pc'[u] = pc[u]) /\ pc'[t] = "cancel" /\ t \in HTTP
  BY <1>1, ThreadsAssumption DEF IInv, TypeOK, Locks
<1>3. /\ Own(t) /\ c \notin lost /\ lookup[c] = 0 /\ i \in 1 .. orderID
      /\ c \in IDs /\ c <= clOrdID
  <2>1. Own(t) /\ c \notin lost /\ lookup[c] = 0 /\ i \in 1 .. orderID
    BY <1>1 DEF IInv, Drawn, Kept
  <2>2. c \in 1 .. clOrdID /\ clOrdID <= MaxClOrdIDs /\ clOrdID \in Int
    BY <2>1, BoundsAssumption DEF Own, IInv, TypeOK
  <2> QED
    BY <2>1, <2>2, BoundsAssumption DEF IDs
<1>4. /\ \A d \in IDs : d # c => lookup'[d] = lookup[d]
      /\ \/ lookup'[c] = i /\ lost' = lost
         \/ lookup'[c] = 0 /\ lost' = lost \cup {c}
  <2>1. lookup \in [IDs -> 0 .. orderID]
    BY DEF IInv, TypeOK
  <2> HIDE DEF c, i
  <2> QED
    BY <1>1, <1>3, <2>1
<1>5. TypeOK'
  <2>1. lookup' \in [IDs -> 0 .. orderID] /\ lost' \subseteq IDs
    <3>1. lookup \in [IDs -> 0 .. orderID] /\ lost \subseteq IDs /\ i \in 0 .. orderID
      BY <1>3 DEF IInv, TypeOK
    <3> HIDE DEF c, i
    <3> QED
      BY <1>1, <1>3, <3>1
  <2> QED
    BY <1>1, <2>1 DEF IInv, TypeOK, LockTypeOK, lockVars
<1>6. Locks'
  BY <1>1, <1>2, ThreadsAssumption DEF IInv, Locks, lockVars
<1>7. \A k \in 1 .. orderID : orders[k].clOrdID \in IDs /\ orders[k].clOrdID # c
  BY <1>3 DEF IInv, TypeOK, Own
<1>8. \A m \in wire : m.clOrdID \in IDs /\ m.clOrdID # c
  BY <1>3 DEF IInv, TypeOK, Own
<1> HIDE DEF c, i
<1>9. Kept'
  <2>1. \A u \in Threads : pc[u] = "leaves" => pc'[u] = "leaves"
    BY <1>1, <1>2
  <2> QED
    BY <1>1, <1>2, <1>3, <1>4, <1>7, <2>1 DEF IInv, Kept, i
<1>10. Drawn'
  <2>1. ASSUME NEW u \in Threads, pc'[u] \in {"assign", "cancel"}
        PROVE  Own(u) /\ Own(u)' /\ (u # t => arg[u].clOrdID # c /\ pc'[u] = pc[u])
               /\ arg[u].clOrdID \in IDs
    <3>1. Own(u) /\ pc[u] \in {"assign", "cancel"}
      BY <1>1, <1>2, <1>3, <2>1 DEF IInv, Drawn
    <3>2. arg[u].clOrdID \in IDs
      BY <3>1, BoundsAssumption DEF Own, IInv, TypeOK, IDs
    <3>3. Own(u)'
      BY <1>1, <1>2, <3>1 DEF Own
    <3>4. u # t => arg[u].clOrdID # c /\ pc'[u] = pc[u]
      BY <1>1, <1>2, <3>1 DEF Own, c
    <3> QED
      BY <3>1, <3>2, <3>3, <3>4
  <2>2. \A d \in lost' : d <= clOrdID /\ lookup'[d] = 0
    <3>1. lost \subseteq IDs /\ \A d \in lost : d <= clOrdID /\ lookup[d] = 0
      BY DEF IInv, Drawn, TypeOK
    <3> QED
      BY <1>3, <1>4, <3>1
  <2>3. \A d \in IDs : d > clOrdID => lookup'[d] = 0
    BY <1>3, <1>4 DEF IInv, Drawn, TypeOK, IDs
  <2>4. c \in lost' \/ lookup'[c] = i
    BY <1>4
  <2>5. lost \subseteq lost' /\ lost' \subseteq lost \cup {c}
    BY <1>4
  <2>6. ASSUME NEW u \in Threads
        PROVE  /\ pc'[u] = "assign" => arg[u].clOrdID \notin lost' /\ lookup'[arg[u].clOrdID] = 0
               /\ pc'[u] = "cancel" =>
                    arg[u].clOrdID \in lost' \/ lookup'[arg[u].clOrdID] = arg[u].id
    <3>1. CASE u = t
      BY <1>2, <2>4, <3>1 DEF c, i
    <3>2. CASE u # t /\ pc'[u] \in {"assign", "cancel"}
      BY <1>4, <2>1, <2>5, <3>2 DEF IInv, Drawn
    <3> QED
      BY <3>1, <3>2
  <2> QED
    BY <1>1, <2>1, <2>2, <2>3, <2>6 DEF Drawn
<1>11. Sent'
  BY <1>1, <1>4, <1>8 DEF IInv, Sent, ClOrdIDsUnique
<1>12. Reports'
  BY <1>1, <1>2 DEF IInv, Reports, Building, Reported
<1>13. Bounded'
  <2>1. Drawing' \subseteq Drawing
    BY <1>2, ThreadsAssumption DEF Drawing
  <2> QED
    BY <1>1, <2>1, BoundedKept DEF IInv
<1> QED
  BY <1>5, <1>6, <1>9, <1>10, <1>11, <1>12, <1>13 DEF IInv

LEMMA DeleteOrderSendInv ==
  ASSUME IInv, NEW t \in Threads, DeleteOrderSend(t)
  PROVE  IInv'
<1> DEFINE i == arg[t].id
           m == [type |-> "F", id |-> i, clOrdID |-> arg[t].clOrdID,
                 orig |-> orders[i].clOrdID]
           p == IF orders[i].beginString \in CancelVersions THEN "closed" ELSE "idle"
           a == IF orders[i].beginString \in CancelVersions THEN arg[t] ELSE Idle
<1>1. /\ pc[t] = "cancel" /\ pc' = [pc EXCEPT ![t] = p] /\ arg' = [arg EXCEPT ![t] = a]
      /\ UNCHANGED <<omVars, lost, alive>>
      /\ IF p = "closed" THEN UNCHANGED lockVars ELSE RUnlock(t)
      /\ wire' = wire \/ wire' = wire \cup {m}
  BY ArgType DEF DeleteOrderSend, Send, At, Goto, Return
<1>2. /\ \A u \in Threads \ {t} : pc'[u] = pc[u] /\ arg'[u] = arg[u]
      /\ pc'[t] = p /\ p \in {"closed", "idle"} /\ arg'[t] = a /\ a \in Arg
      /\ p = "closed" => a = arg[t]
      /\ UNCHANGED <<orders, lookup, orderID, clOrdID, executions, executionID>>
      /\ t \in HTTP /\ t \in readers
  BY <1>1, ArgType, IdleArg, ThreadsAssumption DEF IInv, TypeOK, Locks, omVars
<1>3. /\ i \in 1 .. orderID /\ orders[i].clOrdID \in IDs
      /\ Own(t) /\ arg[t].clOrdID \in IDs /\ arg[t].clOrdID <= clOrdID
      /\ arg[t].clOrdID \in lost \/ lookup[arg[t].clOrdID] = i
  <2>1. i \in 1 .. orderID /\ orders[i].clOrdID \in IDs /\ Own(t)
        /\ (arg[t].clOrdID \in lost \/ lookup[arg[t].clOrdID] = i)
    BY <1>1 DEF IInv, TypeOK, Kept, Drawn
  <2>2. arg[t].clOrdID \in 1 .. clOrdID /\ clOrdID \in Nat /\ clOrdID <= MaxClOrdIDs
    BY <2>1, BoundsAssumption DEF Own, IInv, TypeOK
  <2> QED
    BY <2>1, <2>2, BoundsAssumption DEF IDs
<1>4. /\ m.type = "F" /\ m.id = i /\ m.clOrdID = arg[t].clOrdID /\ m.orig = orders[i].clOrdID
      /\ m \in [type : {"D", "F"}, id : 1 .. orderID, clOrdID : IDs, orig : IDs]
  BY <1>3
<1> HIDE DEF i, m, p, a
<1>5. Locks'
  <2>1. /\ readers' \subseteq readers /\ readers \ {t} \subseteq readers' /\ blocked' = blocked
        /\ writer' = writer /\ (p = "closed" => t \in readers')
    BY <1>1, <1>2 DEF RUnlock, lockVars
  <2> QED
    BY <1>1, <1>2, <2>1, ThreadsAssumption DEF IInv, Locks
<1>6. TypeOK'
  <2>1. LockTypeOK'
    BY <1>1 DEF IInv, TypeOK, LockTypeOK, RUnlock, lockVars
  <2>2. wire' \subseteq [type : {"D", "F"}, id : 1 .. orderID, clOrdID : IDs, orig : IDs]
    BY <1>1, <1>4 DEF IInv, TypeOK
  <2>3. pc' \in [Threads -> PCs] /\ arg' \in [Threads -> Arg]
    BY <1>1, <1>2 DEF IInv, TypeOK, PCs, Arg
  <2> QED
    BY <1>1, <1>2, <2>1, <2>2, <2>3 DEF IInv, TypeOK, PCs, Arg
<1>7. Kept'
  BY <1>1, <1>2, <1>3 DEF IInv, Kept, i
<1>8. Drawn'
  <2>1. ASSUME NEW u \in Threads, pc'[u] \in {"assign", "cancel"}
        PROVE  Own(u)' /\ u # t
    <3>1. u # t /\ Own(u) /\ arg'[u] = arg[u] /\ pc[u] \in {"assign", "cancel"}
      BY <1>2, <2>1 DEF IInv, Drawn
    <3>2. \A k \in wire' : k.clOrdID # arg[u].clOrdID
      BY <1>1, <1>3, <1>4, <3>1 DEF Own
    <3> QED
      BY <1>2, <3>1, <3>2 DEF Own
  <2> QED
    BY <1>1, <1>2, <2>1 DEF IInv, Drawn
<1>9. Sent'
  <2>1. \A k \in wire : k.clOrdID # m.clOrdID
    BY <1>3, <1>4 DEF Own
  <2>2. ClOrdIDsUnique'
    BY <1>1, <2>1 DEF IInv, Sent, ClOrdIDsUnique
  <2>3. \A k \in 1 .. orderID : orders[k].clOrdID # m.clOrdID
    BY <1>3, <1>4 DEF Own
  <2> QED
    BY <1>1, <1>2, <1>3, <1>4, <2>2, <2>3 DEF IInv, Sent
<1>10. Reports'
  <2>1. ASSUME NEW u \in Threads, pc'[u] = "build"
        PROVE  Building(u)'
    <3>1. u # t /\ pc[u] = "build" /\ arg'[u] = arg[u] /\ Building(u)
      BY <1>2, <2>1 DEF IInv, Reports
    <3> QED
      BY <1>1, <1>2, <1>4, <3>1 DEF Building
  <2>2. ASSUME NEW u \in Threads, pc'[u] \in {"lock", "report", "leaves"}
        PROVE  u # t /\ Reported(arg[u].report)'
    <3>1. u # t /\ arg'[u] = arg[u] /\ Reported(arg[u].report)
      BY <1>2, <2>2 DEF IInv, Reports
    <3> QED
      BY <1>1, <3>1 DEF Reported
  <2> QED
    BY <1>1, <1>2, <2>1, <2>2 DEF IInv, Reports
<1>11. Bounded'
  <2>1. Drawing' \subseteq Drawing
    BY <1>2, ThreadsAssumption DEF Drawing
  <2> QED
    BY <1>2, <2>1, BoundedKept DEF IInv
<1> QED
  BY <1>5, <1>6, <1>7, <1>8, <1>9, <1>10, <1>11 DEF IInv

LEMMA ReportClosedInv ==
  ASSUME IInv, NEW f \in Threads, ReportClosed(f)
  PROVE  IInv'
<1> DEFINE r == arg[f].report
           i == lookup[r.clOrdID]
<1>1. /\ pc[f] = "report" /\ writer = f /\ readers = {} /\ f \notin HTTP /\ f \in FIX
      /\ UNCHANGED <<lookup, orderID, executions, executionID, clOrdID, wire, lost, alive>>
  BY ThreadsAssumption DEF ReportClosed, At, HasLock, IInv, Locks
<1>2. /\ Reported(r) /\ r.clOrdID \in IDs /\ r.cum \in 0 .. Qty /\ arg[f] \in Arg
      /\ i \in 0 .. orderID /\ orderID \in Nat /\ orderID <= MaxClOrdIDs
  <2>1. Reported(r) /\ arg[f] \in Arg
    BY <1>1, ArgType DEF IInv, Reports
  <2>2. r.clOrdID \in IDs /\ r.cum \in 0 .. Qty
    BY <2>1 DEF Reported, Report
  <2> QED
    BY <2>1, <2>2, BoundsAssumption DEF IInv, TypeOK
<1>3. \A u \in Threads \ {f} :
        pc[u] \notin {"save", "report", "leaves", "assign", "iterate", "cancel", "closed", "open"}
  BY <1>1 DEF IInv, Locks
<1>4. CASE Unlock(f) /\ Return(f) /\ UNCHANGED orders
  <2>1. /\ UNCHANGED orders /\ Unlock(f)
        /\ pc' = [pc EXCEPT ![f] = "idle"] /\ arg' = [arg EXCEPT ![f] = Idle]
    BY <1>4 DEF Goto, Return
  <2>2. LockTypeOK' /\ Locks'
    <3>1. \A u \in Threads \ {f} : pc'[u] = pc[u]
      BY <2>1 DEF IInv, TypeOK
    <3>2. pc'[f] = "idle"
      BY <2>1 DEF IInv, TypeOK
    <3>3. LockTypeOK'
      BY <2>1 DEF IInv, TypeOK, LockTypeOK, Unlock
    <3> QED
      BY <1>1, <1>3, <2>1, <3>1, <3>2, <3>3 DEF IInv, Locks, Unlock
  <2>3. Drawing' \subseteq Drawing
    BY <2>1 DEF Drawing, IInv, TypeOK
  <2> QED
    BY <1>1, <2>1, <2>2, <2>3, IdleArg, BoundedKept, LocalStep DEF PCs, IInv, omVars
<1> DEFINE a == [arg[f] EXCEPT !.id = i]
<1>5. CASE /\ i # 0
           /\ orders' = [orders EXCEPT ![i].closed = r.cum] /\ UNCHANGED lockVars
           /\ Goto(f, "leaves") /\ arg' = [arg EXCEPT ![f] = a]
  <2>1. /\ orders' = [orders EXCEPT ![i].closed = r.cum] /\ UNCHANGED lockVars
        /\ pc' = [pc EXCEPT ![f] = "leaves"] /\ arg' = [arg EXCEPT ![f] = a]
    BY <1>5 DEF Goto
  <2>2. i \in 1 .. orderID /\ i \in 0 .. MaxClOrdIDs
    BY <1>2, <1>5, BoundsAssumption
  <2>3. a \in Arg /\ a.id = i /\ a.report = r
    BY <1>2, <2>2 DEF Arg
  <2>4. \E d \in wire : d.type = "D" /\ d.id = i
    <3>1. PICK m \in wire, d \in wire :
            d.type = "D" /\ d.clOrdID = m.orig /\ m.clOrdID = r.clOrdID
      BY <1>2 DEF Reported
    <3>2. /\ m.id \in 1 .. orderID /\ d.id \in 1 .. orderID
          /\ m.orig = orders[m.id].clOrdID /\ d.clOrdID = orders[d.id].clOrdID
          /\ m.type \in {"D", "F"}
      BY <3>1 DEF IInv, TypeOK, Sent
    <3>3. d.id = m.id
      BY <3>1, <3>2 DEF IInv, Kept
    <3>4. lookup[m.clOrdID] = m.id
      BY <1>5, <3>1, <3>2 DEF IInv, Sent, Drawn, Kept
    <3> QED
      BY <3>1, <3>3, <3>4
  <2> HIDE DEF a, i, r
  <2>5. /\ \A u \in Threads \ {f} : pc'[u] = pc[u] /\ arg'[u] = arg[u]
        /\ pc'[f] = "leaves" /\ arg'[f] = a
    BY <2>1 DEF IInv, TypeOK
  <2>6. /\ \A j \in 1 .. orderID : /\ orders'[j].clOrdID = orders[j].clOrdID
                                   /\ j # i => orders'[j] = orders[j]
        /\ orders'[i].closed = r.cum
    BY <2>1, <2>2 DEF IInv, TypeOK
  <2>7. TypeOK'
    <3>1. orders' \in [1 .. orderID -> [clOrdID : IDs, beginString : BeginStrings,
                                       closed : 0 .. Qty, open : 0 .. Qty]]
      BY <1>2, <2>1, <2>2 DEF IInv, TypeOK
    <3>2. pc' \in [Threads -> PCs] /\ arg' \in [Threads -> Arg]
      BY <2>1, <2>3 DEF IInv, TypeOK, PCs, Arg
    <3> QED
      BY <1>1, <2>1, <3>1, <3>2 DEF IInv, TypeOK, LockTypeOK, lockVars, PCs, Arg
  <2>8. Locks'
    BY <1>1, <2>1, <2>5 DEF IInv, Locks, lockVars
  <2>9. Kept'
    <3>1. ASSUME NEW j \in 1 .. orderID
          PROVE  \/ orders'[j].closed + orders'[j].open \in {0, Qty}
                 \/ \E g \in Threads : pc'[g] = "leaves" /\ arg'[g].id = j
      <4>1. CASE j = i
        BY <2>3, <2>5, <4>1
      <4>2. CASE j # i
        BY <1>1, <1>3, <2>6, <4>2 DEF IInv, Kept
      <4> QED
        BY <4>1, <4>2
    <3> QED
      BY <1>1, <1>3, <2>2, <2>3, <2>5, <2>6, <3>1 DEF IInv, Kept
  <2>10. Drawn'
    BY <1>1, <1>3, <2>5, <2>6 DEF IInv, Drawn, Own
  <2>11. Sent'
    <3>1. \A m \in wire : m.id \in 1 .. orderID
      BY DEF IInv, TypeOK
    <3> QED
      BY <1>1, <2>6, <3>1 DEF IInv, Sent, ClOrdIDsUnique
  <2>12. Reports'
    <3>1. ASSUME NEW u \in Threads, u # f
          PROVE  /\ pc'[u] = "build" => Building(u)'
                 /\ pc'[u] \in {"lock", "report", "leaves"} => Reported(arg[u].report)'
                 /\ pc'[u] # "leaves"
      BY <1>1, <1>3, <2>5, <3>1 DEF IInv, Reports, Building, Reported
    <3>2. Reported(arg[f].report)'
      BY <1>1, <1>2, <2>3, <2>5 DEF Reported
    <3> QED
      BY <1>1, <2>3, <2>4, <2>5, <2>6, <3>1, <3>2 DEF Reports
  <2>13. Bounded'
    <3>1. Drawing' \subseteq Drawing
      BY <2>5, ThreadsAssumption DEF Drawing
    <3> QED
      BY <1>1, <3>1, BoundedKept DEF IInv
  <2> QED
    BY <2>7, <2>8, <2>9, <2>10, <2>11, <2>12, <2>13 DEF IInv
<1> QED
  BY <1>4, <1>5 DEF ReportClosed

LEMMA ReportOpenInv ==
  ASSUME IInv, NEW f \in Threads, ReportOpen(f)
  PROVE  IInv'
<1> DEFINE r == arg[f].report
           i == arg[f].id
<1>1. /\ pc[f] = "leaves" /\ writer = f /\ readers = {} /\ f \notin HTTP
      /\ UNCHANGED <<lookup, orderID, clOrdID, wire, lost, alive>> /\ Unlock(f)
      /\ orders' = [orders EXCEPT ![i].open = r.leaves]
      /\ pc' = [pc EXCEPT ![f] = "idle"] /\ arg' = [arg EXCEPT ![f] = Idle]
  BY ThreadsAssumption DEF ReportOpen, At, Goto, Return, IInv, Locks
<1>2. /\ Reported(r) /\ i \in 1 .. orderID /\ orders[i].closed = r.cum
      /\ r.leaves \in 0 .. Qty /\ r.cum + r.leaves = Qty
  <2>1. Reported(r) /\ i \in 1 .. orderID /\ orders[i].closed = r.cum
    BY <1>1 DEF IInv, Reports, Kept
  <2> QED
    BY <2>1 DEF Reported, Report
<1>3. \A u \in Threads \ {f} :
        pc[u] \notin {"save", "report", "leaves", "assign", "iterate", "cancel", "closed", "open"}
  BY <1>1 DEF IInv, Locks
<1>4. executions' = 1 .. executionID' /\ executionID' \in 0 .. MaxExecutions
  <2>1. executions = 1 .. executionID /\ executionID \in 0 .. MaxExecutions
    BY DEF IInv, TypeOK
  <2>2. \/ executions' = executions /\ executionID' = executionID
        \/ /\ executionID' = executionID + 1 /\ executionID < MaxExecutions
           /\ executions' = executions \cup {executionID'}
    BY DEF ReportOpen, SaveExecution
  <2>3. executionID \in Nat /\ (executionID < MaxExecutions =>
          executionID + 1 \in 0 .. MaxExecutions)
    BY <2>1, BoundsAssumption
  <2>4. (1 .. executionID) \cup {executionID + 1} = 1 .. executionID + 1
    BY <2>3
  <2> QED
    BY <2>1, <2>2, <2>3, <2>4
<1> HIDE DEF i, r
<1>5. /\ \A u \in Threads \ {f} : pc'[u] = pc[u] /\ arg'[u] = arg[u]
      /\ pc'[f] = "idle" /\ arg'[f] = Idle
  BY <1>1 DEF IInv, TypeOK
<1>6. /\ \A j \in 1 .. orderID : /\ orders'[j].clOrdID = orders[j].clOrdID
                                 /\ j # i => orders'[j] = orders[j]
      /\ orders'[i].closed = r.cum /\ orders'[i].open = r.leaves
  BY <1>1, <1>2 DEF IInv, TypeOK
<1>7. LockTypeOK' /\ Locks'
  <2>1. LockTypeOK'
    BY <1>1 DEF IInv, TypeOK, LockTypeOK, Unlock
  <2> QED
    BY <1>1, <1>3, <1>5, <2>1 DEF IInv, Locks, Unlock
<1>8. TypeOK'
  <2>1. orders' \in [1 .. orderID -> [clOrdID : IDs, beginString : BeginStrings,
                                     closed : 0 .. Qty, open : 0 .. Qty]]
    <3>1. orders \in [1 .. orderID -> [clOrdID : IDs, beginString : BeginStrings,
                                       closed : 0 .. Qty, open : 0 .. Qty]]
      BY DEF IInv, TypeOK
    <3>2. orders' = [orders EXCEPT ![i].open = r.leaves]
      BY <1>1
    <3> QED
      BY <1>2, <3>1, <3>2
  <2>2. pc' \in [Threads -> PCs] /\ arg' \in [Threads -> Arg]
    BY <1>1, IdleArg DEF IInv, TypeOK, PCs, Arg
  <2> QED
    BY <1>1, <1>4, <1>7, <2>1, <2>2 DEF IInv, TypeOK, PCs, Arg
<1>9. Kept'
  <2>1. \A j \in 1 .. orderID : orders'[j].closed + orders'[j].open \in {0, Qty}
    <3>1. ASSUME NEW j \in 1 .. orderID, j # i
          PROVE  orders[j].closed + orders[j].open \in {0, Qty}
      BY <1>1, <1>3, <3>1 DEF IInv, Kept, i
    <3> QED
      BY <1>2, <1>6, <3>1
  <2> QED
    BY <1>1, <1>3, <1>5, <1>6, <2>1 DEF IInv, Kept
<1>10. Drawn'
  BY <1>1, <1>3, <1>5, <1>6 DEF IInv, Drawn, Own
<1>11. Sent'
  <2>1. \A m \in wire : m.id \in 1 .. orderID
    BY DEF IInv, TypeOK
  <2> QED
    BY <1>1, <1>6, <2>1 DEF IInv, Sent, ClOrdIDsUnique
<1>12. Reports'
  BY <1>1, <1>3, <1>5 DEF IInv, Reports, Building, Reported
<1>13. Bounded'
  <2>1. Drawing' \subseteq Drawing
    BY <1>5, ThreadsAssumption DEF Drawing
  <2> QED
    BY <1>1, <2>1, BoundedKept DEF IInv
<1> QED
  BY <1>7, <1>8, <1>9, <1>10, <1>11, <1>12, <1>13 DEF IInv

LEMMA MapFatalInv == IInv /\ (MapFatal \/ UNCHANGED vars) => IInv'
<1> SUFFICES ASSUME IInv, UNCHANGED <<omVars, lockVars, pc, arg, wire, lost>>,
                    alive' \in BOOLEAN
             PROVE  IInv'
  BY DEF MapFatal, vars, IInv, TypeOK
<1>1. TypeOK' /\ Locks' /\ Kept'
  BY DEF IInv, TypeOK, LockTypeOK, Locks, Kept, omVars, lockVars
<1>2. Drawn' /\ Sent' /\ Reports'
  BY DEF IInv, Drawn, Own, Sent, ClOrdIDsUnique, Reports, Building, Reported, omVars
<1>3. Bounded'
  BY DEF IInv, Bounded, Drawing, omVars
<1> QED
  BY <1>1, <1>2, <1>3 DEF IInv

-----------------------------------------------------------------------------
(* The theorems                                                             *)

LEMMA InitIInv == Init => IInv
<1> SUFFICES ASSUME Init
             PROVE  IInv
  OBVIOUS
<1>1. /\ orderID = 0 /\ clOrdID = 0 /\ 1 .. orderID = {} /\ 1 .. executionID = {}
      /\ executionID = 0 /\ Idle \in Arg
  BY IdleArg DEF Init
<1>2. TypeOK
  BY <1>1, BoundsAssumption DEF Init, TypeOK, LockInit, LockTypeOK, Arg, IDs
<1>3. Locks /\ Kept /\ Sent /\ Reports /\ Drawn
  BY <1>1 DEF Init, LockInit, Locks, Kept, Sent, ClOrdIDsUnique, Reports, Drawn, IDs
<1>4. Bounded
  <2>1. Drawing = {}
    BY ThreadsAssumption DEF Init, Drawing
  <2> QED
    BY <1>1, <2>1, FS_EmptySet, BoundsAssumption DEF Bounded
<1> QED
  BY <1>2, <1>3, <1>4 DEF IInv

LEMMA NextIInv == IInv /\ [Next]_vars => IInv'
BY ThreadsAssumption, NewOrderInv, NewOrderLockInv, ReportLockInv, AskInv, ReadersInv,
   FromAppInv, NewOrderSaveInv, NewOrderSendInv, DeleteOrderGetInv, DeleteOrderAssignInv,
   DeleteOrderSendInv, ReportClosedInv, ReportOpenInv, MapFatalInv
DEF Next, Handle, TakeLock

LEMMA Invariance == Spec => []IInv
BY InitIInv, NextIInv, PTL DEF Spec

\* The types of the maps, of every handler's data and of the messages sent.
THEOREM Typing == Spec => []TypeOK
<1>1. IInv => TypeOK
  BY DEF IInv
<1> QED
  BY <1>1, Invariance, PTL

\* clordid_generator.go:17, drawn under the write lock by Save and under the
\* read lock by AssignNextClOrdID: no two messages carry the same ClOrdID.
THEOREM ClOrdIDsNeverReused == Spec => []ClOrdIDsUnique
<1>1. IInv => ClOrdIDsUnique
  BY DEF IInv, Sent
<1> QED
  BY <1>1, Invariance, PTL

\* order_manager.go:80 and :97: whatever was sent leads to the order it is about,
\* but for the entries a race lost.
THEOREM EverySentRegistered == Spec => []Registered
<1>1. IInv => Registered
  <2> SUFFICES ASSUME IInv, NEW m \in wire, m.clOrdID \notin lost
               PROVE  lookup[m.clOrdID] = m.id /\ lookup[m.orig] = m.id
    BY DEF Registered
  <2>1. m.id \in 1 .. orderID /\ m.type \in {"D", "F"} /\ m.orig = orders[m.id].clOrdID
    BY DEF IInv, TypeOK, Sent
  <2>2. lookup[m.orig] = m.id
    BY <2>1 DEF IInv, Kept
  <2> QED
    BY <2>1, <2>2 DEF IInv, Sent
<1> QED
  BY <1>1, Invariance, PTL

\* tradeclient.go:192: a response is read under the read lock, so it never
\* has the Closed of one report and the Open of another.
THEOREM ResponsesNotTorn == Spec => []ResponseNotTorn
<1>1. IInv => ResponseNotTorn
  <2> SUFFICES ASSUME IInv, NEW t \in HTTP, pc[t] = "open"
               PROVE  LET o == orders[arg[t].id] IN
                      arg[t].closed = o.closed /\ o.closed + o.open \in {0, Qty}
    BY DEF ResponseNotTorn
  <2>1. t \in Threads /\ t \in readers
    BY ThreadsAssumption DEF IInv, Locks
  <2>2. \A f \in Threads : pc[f] # "leaves"
    BY <2>1 DEF IInv, Locks
  <2> QED
    BY <2>1, <2>2 DEF IInv, Kept
<1> QED
  BY <1>1, Invariance, PTL

\* tradeclient.go:313: newOrder reads its order without the lock, but no report
\* can be about an order that was not sent.
THEOREM UnlockedReadsSafe == Spec => []UnlockedReadSafe
<1>1. IInv => UnlockedReadSafe
  BY ThreadsAssumption DEF UnlockedReadSafe, IInv, Reports, Building
<1> QED
  BY <1>1, Invariance, PTL

-----------------------------------------------------------------------------
(* Reports change the orders they mean                                      *)

\* A report that is half applied is at the order its ClOrdID leads to. No entry
\* changes under it, as it holds the write lock.
Leads == \A f \in Threads : pc[f] = "leaves" => lookup[arg[f].report.clOrdID] = arg[f].id

\* The entry of a ClOrdID that was sent is that of the order meant, or is lost.
LEMMA EntryMeant ==
  ASSUME IInv, NEW r, Reported(r), lookup[r.clOrdID] # 0
  PROVE  \E m \in wire : m.clOrdID = r.clOrdID /\ m.id = lookup[r.clOrdID]
<1>1. PICK m \in wire : m.clOrdID = r.clOrdID
  BY DEF Reported
<1>2. m.id \in 1 .. orderID /\ m.orig = orders[m.id].clOrdID /\ m.type \in {"D", "F"}
  BY <1>1 DEF IInv, TypeOK, Sent
<1>3. lookup[m.clOrdID] = m.id
  BY <1>1, <1>2 DEF IInv, Sent, Drawn, Kept
<1> QED  BY <1>1, <1>3

\* The orders that are there stay as they are.
OrdersStay == \A i \in 1 .. orderID : orders'[i] = orders[i]

\* Handler t goes on, no other does, and no entry changes under a report.
LEMMA LeadsFrame ==
  ASSUME Leads, NEW t \in Threads, pc'[t] # "leaves",
         \A u \in Threads \ {t} : pc'[u] = pc[u] /\ arg'[u] = arg[u],
         lookup' = lookup \/ \A u \in Threads \ {t} : pc[u] # "leaves"
  PROVE  Leads'
BY DEF Leads

\* A handler that is not a report's, or a report before it has the lock.
LEMMA OthersApply ==
  ASSUME IInv, Leads, NEW t \in Threads, UNCHANGED <<orders, lookup>>,
         NEW p \in PCs \ {"leaves"}, pc' = [pc EXCEPT ![t] = p],
         \/ UNCHANGED arg
         \/ \E a : arg' = [arg EXCEPT ![t] = a]
  PROVE  Leads' /\ OrdersStay
<1>1. pc'[t] = p /\ \A u \in Threads \ {t} : pc'[u] = pc[u] /\ arg'[u] = arg[u]
  BY DEF IInv, TypeOK
<1> QED  BY <1>1, LeadsFrame DEF OrdersStay

LEMMA StartsApply ==
  ASSUME IInv, Leads, NEW t \in Threads,
         \/ \E b \in BeginStrings : NewOrder(t, b)
         \/ \E i \in IDs : DeleteOrder(t, i) \/ GetOrder(t, i)
         \/ GetOrders(t)
         \/ \E r \in Report : FromApp(t, r)
         \/ TakeLock(t)
  PROVE  Leads' /\ OrdersStay
<1>1. /\ UNCHANGED <<orders, lookup>>
      /\ \E p \in PCs \ {"leaves"} : pc' = [pc EXCEPT ![t] = p]
      /\ UNCHANGED arg \/ \E a : arg' = [arg EXCEPT ![t] = a]
  BY DEF NewOrder, DeleteOrder, GetOrder, GetOrders, FromApp, TakeLock, NewOrderLock,
         ReportLock, Goto, omVars, PCs
<1> QED  BY <1>1, OthersApply

LEMMA HandlersApply ==
  ASSUME IInv, Leads, NEW t \in Threads,
         \/ NewOrderSend(t) \/ DeleteOrderGet(t) \/ DeleteOrderSend(t)
         \/ GetOrdersBegin(t) \/ GetOrdersEnd(t) \/ GetOrderFound(t)
         \/ MarshalClosed(t) \/ MarshalOpen(t)
  PROVE  Leads' /\ OrdersStay
<1>1. /\ UNCHANGED <<orders, lookup>>
      /\ \E p \in PCs \ {"leaves"} : pc' = [pc EXCEPT ![t] = p]
      /\ UNCHANGED arg \/ \E a : arg' = [arg EXCEPT ![t] = a]
  BY DEF NewOrderSend, DeleteOrderGet, DeleteOrderSend, GetOrdersBegin, GetOrdersEnd,
         GetOrderFound, MarshalClosed, MarshalOpen, Goto, Return, omVars, PCs
<1> QED  BY <1>1, OthersApply

\* The two that write entries: nobody applies a report meanwhile.
LEMMA WritersApply ==
  ASSUME IInv, Leads, NEW t \in Threads, NewOrderSave(t) \/ DeleteOrderAssign(t)
  PROVE  Leads' /\ OrdersStay
<1>1. /\ pc'[t] # "leaves"
      /\ \A u \in Threads \ {t} : pc'[u] = pc[u] /\ arg'[u] = arg[u]
  BY DEF NewOrderSave, DeleteOrderAssign, Goto, IInv, TypeOK
<1>2. \A u \in Threads \ {t} : pc[u] # "leaves"
  BY DEF NewOrderSave, DeleteOrderAssign, At, IInv, Locks
<1>3. OrdersStay
  <2>1. CASE DeleteOrderAssign(t)
    BY <2>1 DEF DeleteOrderAssign, OrdersStay
  <2>2. CASE NewOrderSave(t)
    <3>1. orderID \in Nat /\ orderID' = orderID + 1
      BY <2>2, BoundsAssumption DEF NewOrderSave, Save, IInv, TypeOK
    <3>2. \A i \in 1 .. orderID : i \in 1 .. orderID' /\ i # orderID'
      BY <3>1
    <3> QED  BY <2>2, <3>2 DEF NewOrderSave, Save, OrdersStay
  <2> QED  BY <2>1, <2>2
<1> QED  BY <1>1, <1>2, <1>3, LeadsFrame

\* What a step may do to the orders that are there.
Applied == \A i \in 1 .. orderID : orders'[i] # orders[i] => Meant(i)

LEMMA ReportClosedApplies ==
  ASSUME IInv, Leads, NEW f \in Threads, ReportClosed(f)
  PROVE  Leads' /\ Applied
<1> DEFINE r == arg[f].report
           i == lookup[r.clOrdID]
<1>1. pc[f] = "report" /\ f \in FIX /\ Reported(r) /\ lookup' = lookup
  BY ThreadsAssumption DEF ReportClosed, At, IInv, Locks, Reports
<1>2. CASE Return(f) /\ UNCHANGED orders
  BY <1>1, <1>2, OthersApply DEF Return, Goto, PCs, OrdersStay, Applied
<1> DEFINE o == [orders[i] EXCEPT !.closed = r.cum]
           a == [arg[f] EXCEPT !.id = i]
<1>3. CASE i # 0 /\ orders' = [orders EXCEPT ![i] = o] /\ Goto(f, "leaves")
           /\ arg' = [arg EXCEPT ![f] = a]
  <2>1. /\ orders' = [orders EXCEPT ![i] = o] /\ arg' = [arg EXCEPT ![f] = a]
        /\ pc' = [pc EXCEPT ![f] = "leaves"]
    BY <1>3 DEF Goto
  <2>2. PICK m \in wire : m.clOrdID = r.clOrdID /\ m.id = i
    BY <1>1, <1>3, EntryMeant
  <2>3. i \in 1 .. orderID
    BY <2>2 DEF IInv, TypeOK
  <2>4. Applied
    <3>1. \A j \in 1 .. orderID : j # i => orders'[j] = orders[j]
      BY <2>1 DEF IInv, TypeOK
    <3>2. orders'[i] = o
      BY <2>1, <2>3 DEF IInv, TypeOK
    <3>3. Meant(i)
      BY <1>1, <2>2, <3>2 DEF Meant
    <3> HIDE DEF i, o
    <3> QED  BY <3>1, <3>3 DEF Applied
  <2>5. a.id = i /\ a.report = r
    BY ArgType DEF Arg
  <2>6. arg'[f] = a /\ \A u \in Threads \ {f} : pc'[u] = pc[u] /\ arg'[u] = arg[u]
    BY <2>1 DEF IInv, TypeOK
  <2>7. Leads'
    BY <1>1, <2>5, <2>6 DEF Leads
  <2> QED  BY <2>4, <2>7
<1> QED  BY <1>2, <1>3 DEF ReportClosed

LEMMA ReportOpenApplies ==
  ASSUME IInv, Leads, NEW f \in Threads, ReportOpen(f)
  PROVE  Leads' /\ Applied
<1> DEFINE r == arg[f].report
           i == arg[f].id
           o == [orders[i] EXCEPT !.open = r.leaves]
<1>1. /\ pc[f] = "leaves" /\ f \in FIX /\ Reported(r) /\ lookup' = lookup
      /\ i = lookup[r.clOrdID] /\ i \in 1 .. orderID
  BY ThreadsAssumption DEF ReportOpen, At, IInv, Locks, Reports, Leads, Kept
<1>2. PICK m \in wire : m.clOrdID = r.clOrdID /\ m.id = i
  <2>1. i # 0
    BY <1>1 DEF IInv, TypeOK
  <2> QED  BY <1>1, <2>1, EntryMeant
<1>3. orders' = [orders EXCEPT ![i] = o]
  BY DEF ReportOpen
<1>4. Applied
  <2>1. \A j \in 1 .. orderID : j # i => orders'[j] = orders[j]
    BY <1>3 DEF IInv, TypeOK
  <2>2. orders'[i] = o
    BY <1>1, <1>3 DEF IInv, TypeOK
  <2>3. Meant(i)
    BY <1>1, <1>2, <2>2 DEF Meant
  <2> HIDE DEF i, o
  <2> QED  BY <2>1, <2>3 DEF Applied
<1>5. pc'[f] = "idle" /\ \A u \in Threads \ {f} : pc'[u] = pc[u] /\ arg'[u] = arg[u]
  BY DEF ReportOpen, Return, Goto, IInv, TypeOK
<1> QED  BY <1>1, <1>4, <1>5, LeadsFrame

LEMMA NextApplied ==
  ASSUME IInv, Leads, [Next]_vars
  PROVE  Leads' /\ Applied
<1>1. OrdersStay => Applied
  BY DEF OrdersStay, Applied
<1>2. CASE MapFatal \/ UNCHANGED vars
  BY <1>2 DEF MapFatal, vars, omVars, Leads, Applied
<1> QED
  BY <1>1, <1>2, ThreadsAssumption, StartsApply, HandlersApply, WritersApply,
     ReportClosedApplies, ReportOpenApplies DEF Next, Handle

\* fix_application.go:67-90: whatever ClOrdIDs were drawn and whatever entries a
\* race lost, an order changes only by a report on what was sent about it.
THEOREM ReportsAsMeant == Spec => ReportsMeant
<1>1. Init => Leads
  BY DEF Init, Leads
<1>2. IInv /\ Leads /\ [Next]_vars
        => Leads' /\ [\A i \in 1 .. orderID : orders'[i] # orders[i] => Meant(i)]_vars
  BY NextApplied DEF Applied
<1> QED  BY <1>1, <1>2, Invariance, PTL DEF Spec, ReportsMeant

-----------------------------------------------------------------------------
(* Somebody runs                                                            *)

Reading == {"delete", "list", "get", "assign", "iterate", "cancel", "closed", "open"}

\* The converse of Locks: whom the mutex has down as holding it, or as kept out,
\* is at a place of that kind; and readers are kept out by a writer only.
Holders ==
  /\ writer # NoThread => pc[writer] \in {"save", "report", "leaves"}
  /\ \A t \in readers : pc[t] \in Reading
  /\ \A t \in blocked : pc[t] \in {"delete", "list", "get"}
  /\ readers \cap blocked = {}
  /\ blocked # {} => writer # NoThread

\* A handler that goes on without the mutex, between places of one kind.
LEMMA HoldersKept ==
  ASSUME IInv, Holders, NEW t \in Threads, NEW p \in PCs,
         pc' = [pc EXCEPT ![t] = p], UNCHANGED lockVars,
         t \in readers => p \in Reading, t \notin blocked,
         writer = t => p \in {"save", "report", "leaves"}
  PROVE  Holders'
<1>1. pc'[t] = p /\ \A u \in Threads \ {t} : pc'[u] = pc[u]
  BY DEF IInv, TypeOK
<1>2. readers \subseteq Threads /\ blocked \subseteq Threads /\ writer \in Threads \cup {NoThread}
  BY DEF IInv, TypeOK, LockTypeOK
<1> QED  BY <1>1, <1>2 DEF Holders, lockVars

\* A handler that asks for the read lock.
LEMMA HoldersRLock ==
  ASSUME IInv, Holders, NEW t \in Threads, NEW p \in {"delete", "list", "get"},
         pc[t] = "idle", pc' = [pc EXCEPT ![t] = p], RLock(t)
  PROVE  Holders'
<1>1. pc'[t] = p /\ \A u \in Threads \ {t} : pc'[u] = pc[u]
  BY DEF IInv, TypeOK
<1>2. readers \subseteq Threads /\ blocked \subseteq Threads /\ writer \in Threads \cup {NoThread}
  BY DEF IInv, TypeOK, LockTypeOK
<1>3. t \notin readers /\ t \notin blocked /\ writer # t
  BY NoThreadAssumption DEF Holders, Reading
<1> QED  BY <1>1, <1>2, <1>3 DEF Holders, RLock, Reading

\* A handler that has the read lock gives it back.
LEMMA HoldersRUnlock ==
  ASSUME IInv, Holders, NEW t \in readers, pc' = [pc EXCEPT ![t] = "idle"], RUnlock(t)
  PROVE  Holders'
<1>1. \A u \in Threads \ {t} : pc'[u] = pc[u]
  BY DEF IInv, TypeOK, LockTypeOK
<1>2. readers \subseteq Threads /\ blocked \subseteq Threads /\ writer \in Threads \cup {NoThread}
  BY DEF IInv, TypeOK, LockTypeOK
<1>3. t \notin blocked /\ writer # t
  BY <1>2, NoThreadAssumption DEF Holders, Reading
<1> QED  BY <1>1, <1>2, <1>3 DEF Holders, RUnlock

\* A handler that has the write lock gives it back; who was kept out comes in.
LEMMA HoldersUnlock ==
  ASSUME IInv, Holders, NEW t \in Threads, writer = t, pc' = [pc EXCEPT ![t] = "idle"]
         \/ pc' = [pc EXCEPT ![t] = "build"], Unlock(t)
  PROVE  Holders'
<1>1. \A u \in Threads \ {t} : pc'[u] = pc[u]
  BY DEF IInv, TypeOK
<1>2. readers \subseteq Threads /\ blocked \subseteq Threads
  BY DEF IInv, TypeOK, LockTypeOK
<1>3. t \notin blocked /\ t \notin readers
  BY NoThreadAssumption DEF Holders, Reading
<1> QED  BY <1>1, <1>2, <1>3 DEF Holders, Unlock, Reading

\* A handler that asks for the write lock becomes the writer.
LEMMA HoldersLock ==
  ASSUME IInv, Holders, NEW t \in Threads, TakeLock(t)
  PROVE  Holders'
<1>1. PICK p \in {"save", "report"} : pc' = [pc EXCEPT ![t] = p] /\ pc[t] \in {"new", "lock"} /\ Lock(t)
  BY DEF TakeLock, NewOrderLock, ReportLock, At, Goto
<1>2. pc'[t] = p /\ \A u \in Threads \ {t} : pc'[u] = pc[u]
  BY <1>1 DEF IInv, TypeOK
<1>3. readers \subseteq Threads /\ blocked \subseteq Threads
  BY DEF IInv, TypeOK, LockTypeOK
<1>4. t \notin readers /\ t \notin blocked
  BY <1>1 DEF Holders, Reading
<1> QED  BY <1>1, <1>2, <1>3, <1>4 DEF Holders, Lock

LEMMA HoldersStarts ==
  ASSUME IInv, Holders, NEW t \in Threads,
         \/ \E b \in BeginStrings : NewOrder(t, b)
         \/ \E i \in IDs : DeleteOrder(t, i) \/ GetOrder(t, i)
         \/ GetOrders(t)
         \/ \E r \in Report : FromApp(t, r)
  PROVE  Holders'
<1>1. pc[t] = "idle"
  BY DEF NewOrder, DeleteOrder, GetOrder, GetOrders, FromApp, At
<1>2. t \notin readers /\ t \notin blocked /\ writer # t
  BY <1>1, NoThreadAssumption DEF Holders, Reading
<1>3. CASE \E p \in {"new", "lock"} : pc' = [pc EXCEPT ![t] = p] /\ UNCHANGED lockVars
  BY <1>2, <1>3, HoldersKept DEF PCs
<1>4. CASE \E p \in {"delete", "list", "get"} : pc' = [pc EXCEPT ![t] = p] /\ RLock(t)
  BY <1>1, <1>4, HoldersRLock
<1> QED  BY <1>3, <1>4 DEF NewOrder, DeleteOrder, GetOrder, GetOrders, FromApp, Goto

\* A handler in a read lock goes on or returns.
LEMMA HoldersReaders ==
  ASSUME IInv, Holders, NEW t \in Threads,
         \/ DeleteOrderGet(t) \/ DeleteOrderAssign(t) \/ DeleteOrderSend(t)
         \/ GetOrdersBegin(t) \/ GetOrdersEnd(t) \/ GetOrderFound(t)
         \/ MarshalClosed(t) \/ MarshalOpen(t)
  PROVE  Holders'
<1>1. t \in readers
  BY DEF DeleteOrderGet, DeleteOrderAssign, DeleteOrderSend, GetOrdersBegin, GetOrdersEnd,
         GetOrderFound, MarshalClosed, MarshalOpen, HasRLock, At, IInv, Locks
<1>2. t \notin blocked /\ writer # t
  BY <1>1, NoThreadAssumption DEF Holders, Reading
<1>3. \/ \E p \in {"assign", "cancel", "iterate", "closed", "open"} :
           pc' = [pc EXCEPT ![t] = p] /\ UNCHANGED lockVars
      \/ pc' = [pc EXCEPT ![t] = "idle"] /\ RUnlock(t)
  BY DEF DeleteOrderGet, DeleteOrderAssign, DeleteOrderSend, GetOrdersBegin, GetOrdersEnd,
         GetOrderFound, MarshalClosed, MarshalOpen, Goto, Return
<1>4. CASE \E p \in {"assign", "cancel", "iterate", "closed", "open"} :
             pc' = [pc EXCEPT ![t] = p] /\ UNCHANGED lockVars
  BY <1>2, <1>4, HoldersKept DEF PCs, Reading
<1> QED  BY <1>1, <1>3, <1>4, HoldersRUnlock

\* A handler that has the write lock, or gave it back.
LEMMA HoldersWriters ==
  ASSUME IInv, Holders, NEW t \in Threads,
         NewOrderSave(t) \/ NewOrderSend(t) \/ ReportClosed(t) \/ ReportOpen(t)
  PROVE  Holders'
<1>1. CASE NewOrderSend(t)
  <2>1. pc[t] = "build" /\ pc' = [pc EXCEPT ![t] = "idle"] /\ UNCHANGED lockVars
    BY <1>1 DEF NewOrderSend, At, Return, Goto
  <2>2. t \notin readers /\ t \notin blocked /\ writer # t
    BY <2>1, NoThreadAssumption DEF Holders, Reading
  <2> QED  BY <2>1, <2>2, HoldersKept DEF PCs
<1>2. CASE ~NewOrderSend(t)
  <2>1. writer = t /\ pc[t] \in {"save", "report", "leaves"}
    BY <1>2 DEF NewOrderSave, ReportClosed, ReportOpen, At, IInv, Locks
  <2>2. t \notin readers /\ t \notin blocked
    BY <2>1 DEF Holders, Reading
  <2>3. \/ pc' = [pc EXCEPT ![t] = "leaves"] /\ UNCHANGED lockVars
        \/ Unlock(t) /\ (pc' = [pc EXCEPT ![t] = "idle"] \/ pc' = [pc EXCEPT ![t] = "build"])
    BY <1>2 DEF NewOrderSave, ReportClosed, ReportOpen, Goto, Return
  <2>4. CASE pc' = [pc EXCEPT ![t] = "leaves"] /\ UNCHANGED lockVars
    BY <2>2, <2>4, HoldersKept DEF PCs
  <2> QED  BY <2>1, <2>3, <2>4, HoldersUnlock
<1> QED  BY <1>1, <1>2

LEMMA NextHolders == IInv /\ Holders /\ [Next]_vars => Holders'
<1> SUFFICES ASSUME IInv, Holders, [Next]_vars PROVE Holders'
  OBVIOUS
<1>1. CASE MapFatal \/ UNCHANGED vars
  BY <1>1 DEF MapFatal, vars, lockVars, Holders
<1> QED
  BY <1>1, ThreadsAssumption, HoldersStarts, HoldersLock, HoldersReaders, HoldersWriters
     DEF Next, Handle

\* Whoever waits waits for the writer; the writer runs or waits for a reader; and
\* a reader runs.
LEMMA SomebodyRuns == IInv /\ Holders => NotAllWait
<1> SUFFICES ASSUME IInv, Holders, NEW t \in Threads, pc[t] # "idle", ~Runs(t)
             PROVE  \E u \in Threads : Runs(u)
  BY DEF NotAllWait
<1>1. /\ readers \subseteq Threads /\ writer \in Threads \cup {NoThread}
      /\ pc[t] \in PCs
  BY DEF IInv, TypeOK, LockTypeOK, PCs
<1>2. \A u \in readers : Runs(u)
  BY DEF Holders, Reading, Runs, HasRLock
<1>3. readers # {} \/ writer # NoThread
  BY <1>1 DEF Runs, HasRLock, HasLock, IInv, Locks, Holders, PCs
<1>4. writer # NoThread /\ readers = {} => Runs(writer)
  BY DEF Holders, Runs, HasLock
<1> QED  BY <1>1, <1>2, <1>3, <1>4

\* tradeclient.go:193, :205, :217, :309 and fix_application.go:59: for any number of
\* requests and sessions, the goroutines never all wait for one another.
THEOREM NeverAllWait == Spec => []NotAllWait
<1>1. Init => Holders
  BY DEF Init, LockInit, Holders
<1> QED  BY <1>1, NextHolders, SomebodyRuns, Invariance, PTL DEF Spec
=============================================================================
