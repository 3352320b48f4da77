--------------------------- MODULE SqlStoreProofs ---------------------------
(* Proofs about SqlStore, for every set of sessions and every bound.        *)
EXTENDS SqlStore, TLAPS

-----------------------------------------------------------------------------
(* The operators                                                           *)

\* A WHERE clause binds every column, so it selects by the whole session.
LEMMA RowKeyIsSession ==
  ASSUME NEW s \in Sessions
  PROVE  RowKey(s) = s
BY SessionsAssumption DEF RowKey, Columns

LEMMA KeysAreSessions == Keys = Sessions
BY RowKeyIsSession DEF Keys

\* A reset cache, and a cache loaded from a row, are caches.
LEMMA ResetCacheType ==
  ASSUME NEW t \in Times
  PROVE  ResetCache(t) \in CacheRecord
BY DEF ResetCache, CacheRecord

LEMMA CacheOfType ==
  ASSUME NEW r \in Row
  PROVE  CacheOf(r) \in CacheRecord
BY DEF CacheOf, CacheRecord, Row

\* The row of a cache is a row, and loading it gives the cache back.
LEMMA RowOfType ==
  ASSUME NEW c \in CacheRecord
  PROVE  RowOf(c) \in Row /\ CacheOf(RowOf(c)) = c
BY DEF RowOf, CacheOf, CacheRecord, Row, NextSenderMsgSeqNum, NextTargetMsgSeqNum

\* An UPDATE of one column leaves a row a row.
LEMMA ColumnSet ==
  ASSUME NEW r \in Row, NEW n \in Nat \ {0}
  PROVE  /\ [r EXCEPT !.outgoing = n] \in Row
         /\ [r EXCEPT !.incoming = n] \in Row
BY DEF Row

\* A change of one number leaves a cache a cache.
LEMMA CacheSet ==
  ASSUME NEW c \in CacheRecord, NEW n \in Nat
  PROVE  /\ [c EXCEPT !.sender = n] \in CacheRecord
         /\ [c EXCEPT !.target = n] \in CacheRecord
BY DEF CacheRecord

-----------------------------------------------------------------------------
(* Type correctness                                                        *)

PCs == {"none", "select", "insert", "idle", "update"}
Results == {"nil", "error", "pending"}

ControlTypeOK == /\ pc \in [Sessions -> PCs]
                 /\ op \in [Sessions -> Calls]
                 /\ result \in [Sessions -> Results]

LEMMA ProgressType ==
  ASSUME TypeOK, NEW s \in Sessions, NEW c \in Calls, NEW p \in PCs,
         NEW r \in Results, Progress(s, c, p, r)
  PROVE  ControlTypeOK'
BY DEF Progress, TypeOK, ControlTypeOK, PCs, Results

LEMMA ConfirmType ==
  ASSUME TypeOK, NEW s \in Sessions, NEW F \in SUBSET CacheFields, NEW r,
         Confirm(s, F, r)
  PROVE  doubt' \in [Sessions -> SUBSET CacheFields]
BY DEF Confirm, TypeOK

\* An UPDATE keeps the type of the table if what it writes over a row is one.
LEMMA UpdateRowType ==
  ASSUME TypeOK, NEW s \in Sessions, NEW o, NEW row, UpdateRow(s, o, row),
         rows[RowKey(s)] # NoRow => row \in Row
  PROVE  rows' \in [Keys -> Row \cup {NoRow}]
BY KeysAreSessions, RowKeyIsSession DEF UpdateRow, TypeOK

LEMMA RowPresentType ==
  ASSUME TypeOK, NEW s \in Sessions, rows[RowKey(s)] # NoRow
  PROVE  rows[RowKey(s)] \in Row
BY KeysAreSessions, RowKeyIsSession DEF TypeOK

LEMMA PopulateFailsType ==
  ASSUME TypeOK, NEW s \in Sessions, PopulateFails(s)
  PROVE  /\ cache' \in [Sessions -> CacheRecord]
         /\ ControlTypeOK'
         /\ doubt' \in [Sessions -> SUBSET CacheFields]
<1>1. cache' \in [Sessions -> CacheRecord]
  BY TimesAssumption, ResetCacheType DEF PopulateFails, TypeOK
<1>2. op[s] \in Calls /\ (IF op[s] = "Create" THEN "none" ELSE "idle") \in PCs
  BY DEF TypeOK, PCs
<1>3. ControlTypeOK'
  BY <1>2, ProgressType DEF PopulateFails, Results
<1>4. doubt' \in [Sessions -> SUBSET CacheFields]
  BY ConfirmType DEF PopulateFails
<1> QED
  BY <1>1, <1>3, <1>4

LEMMA InitTypeOK == Init => TypeOK
BY TimesAssumption, ResetCacheType DEF Init, TypeOK, Calls

\* TypeOK in the parts the actions change.
LEMMA TypeOKParts ==
  ASSUME rows' \in [Keys -> Row \cup {NoRow}],
         messages' \in [Keys -> SUBSET Message],
         cache' \in [Sessions -> CacheRecord],
         ControlTypeOK',
         doubt' \in [Sessions -> SUBSET CacheFields]
  PROVE  TypeOK'
BY DEF TypeOK, ControlTypeOK, PCs, Results

LEMMA NextTypeOK == TypeOK /\ [Next]_vars => TypeOK'
<1> SUFFICES ASSUME TypeOK, [Next]_vars PROVE TypeOK'
  OBVIOUS
<1>0. /\ rows \in [Keys -> Row \cup {NoRow}]
      /\ messages \in [Keys -> SUBSET Message]
      /\ cache \in [Sessions -> CacheRecord]
      /\ op \in [Sessions -> Calls]
      /\ doubt \in [Sessions -> SUBSET CacheFields]
      /\ ControlTypeOK
  BY DEF TypeOK, ControlTypeOK, PCs, Results
<1> USE DEF PCs, Results, Calls
<1>1. ASSUME NEW s \in Sessions, NEW o \in Outcomes, NEW t \in Times, Create(s, t, o)
      PROVE  TypeOK'
  <2>1. ControlTypeOK'
    BY <1>1, ProgressType DEF Create
  <2>2. cache' \in [Sessions -> CacheRecord]
    BY <1>0, <1>1, ResetCacheType DEF Create
  <2> QED
    BY <1>0, <1>1, <2>1, <2>2, TypeOKParts DEF Create
<1>2. ASSUME NEW s \in Sessions, NEW o \in Outcomes, NEW t \in Times, Reset(s, t, o)
      PROVE  TypeOK'
  <2>1. ControlTypeOK'
    BY <1>2, ProgressType DEF Reset
  <2>2. cache' \in [Sessions -> CacheRecord]
    BY <1>0, <1>2, ResetCacheType DEF Reset
  <2>3. messages' \in [Keys -> SUBSET Message]
    BY <1>0, <1>2 DEF Reset
  <2> QED
    BY <1>0, <1>2, <2>1, <2>2, <2>3, TypeOKParts DEF Reset
<1>3. ASSUME NEW s \in Sessions, NEW o \in Outcomes, PopulateSelect(s, o)
      PROVE  TypeOK'
  <2>1. CASE PopulateFails(s)
    BY <1>0, <1>3, <2>1, PopulateFailsType, TypeOKParts DEF PopulateSelect
  <2>2. CASE o = "ok" /\ rows[RowKey(s)] # NoRow
    <3>1. cache' \in [Sessions -> CacheRecord]
      BY <1>0, <1>3, <2>2, RowPresentType, CacheOfType DEF PopulateSelect
    <3>2. ControlTypeOK'
      BY <1>0, <1>3, <2>2, ProgressType DEF PopulateSelect
    <3>3. doubt' \in [Sessions -> SUBSET CacheFields]
      BY <1>3, <2>2, ConfirmType DEF PopulateSelect
    <3> QED
      BY <1>0, <1>3, <3>1, <3>2, <3>3, TypeOKParts DEF PopulateSelect
  <2>3. CASE o = "ok" /\ rows[RowKey(s)] = NoRow
    <3>1. ControlTypeOK'
      BY <1>0, <1>3, <2>3, ProgressType DEF PopulateSelect
    <3> QED
      BY <1>0, <1>3, <2>3, <3>1, TypeOKParts DEF PopulateSelect
  <2> QED
    BY <1>3, <2>1, <2>2, <2>3 DEF PopulateSelect
<1>4. ASSUME NEW s \in Sessions, NEW o \in Outcomes, PopulateInsert(s, o)
      PROVE  TypeOK'
  <2>1. rows' \in [Keys -> Row \cup {NoRow}]
    BY <1>0, <1>4, RowOfType DEF PopulateInsert
  <2>2. CASE PopulateFails(s)
    BY <1>0, <1>4, <2>1, <2>2, PopulateFailsType, TypeOKParts DEF PopulateInsert
  <2>3. CASE o = "ok"
    <3>1. ControlTypeOK'
      BY <1>0, <1>4, <2>3, ProgressType DEF PopulateInsert
    <3>2. doubt' \in [Sessions -> SUBSET CacheFields]
      BY <1>4, <2>3, ConfirmType DEF PopulateInsert
    <3> QED
      BY <1>0, <1>4, <2>1, <2>3, <3>1, <3>2, TypeOKParts DEF PopulateInsert
  <2> QED
    BY <1>4, <2>2, <2>3 DEF PopulateInsert
<1>5. ASSUME NEW s \in Sessions, NEW o \in Outcomes, ResetUpdate(s, o)
      PROVE  TypeOK'
  <2>1. rows' \in [Keys -> Row \cup {NoRow}]
    BY <1>0, <1>5, RowOfType, UpdateRowType DEF ResetUpdate
  <2>2. ControlTypeOK' /\ doubt' \in [Sessions -> SUBSET CacheFields]
    BY <1>5, ProgressType, ConfirmType DEF ResetUpdate, Returned
  <2> QED
    BY <1>0, <1>5, <2>1, <2>2, TypeOKParts DEF ResetUpdate
<1>6. ASSUME NEW s \in Sessions, NEW o \in Outcomes, NEW n \in 1 .. MaxSeq + 1,
             SetNextSender(s, n, o)
      PROVE  TypeOK'
  <2>1. n \in Nat \ {0} /\ n - 1 \in Nat
    BY MaxSeqAssumption
  <2>2. rows' \in [Keys -> Row \cup {NoRow}]
    BY <1>6, <2>1, ColumnSet, UpdateRowType, RowPresentType DEF SetNextSender
  <2>3. cache' \in [Sessions -> CacheRecord]
    BY <1>0, <1>6, <2>1, CacheSet DEF SetNextSender
  <2>4. ControlTypeOK' /\ doubt' \in [Sessions -> SUBSET CacheFields]
    BY <1>6, ProgressType, ConfirmType DEF SetNextSender, Returned, CacheFields
  <2> QED
    BY <1>0, <1>6, <2>2, <2>3, <2>4, TypeOKParts DEF SetNextSender
<1>7. ASSUME NEW s \in Sessions, NEW o \in Outcomes, NEW n \in 1 .. MaxSeq + 1,
             SetNextTarget(s, n, o)
      PROVE  TypeOK'
  <2>1. n \in Nat \ {0} /\ n - 1 \in Nat
    BY MaxSeqAssumption
  <2>2. rows' \in [Keys -> Row \cup {NoRow}]
    BY <1>7, <2>1, ColumnSet, UpdateRowType, RowPresentType DEF SetNextTarget
  <2>3. cache' \in [Sessions -> CacheRecord]
    BY <1>0, <1>7, <2>1, CacheSet DEF SetNextTarget
  <2>4. ControlTypeOK' /\ doubt' \in [Sessions -> SUBSET CacheFields]
    BY <1>7, ProgressType, ConfirmType DEF SetNextTarget, Returned, CacheFields
  <2> QED
    BY <1>0, <1>7, <2>2, <2>3, <2>4, TypeOKParts DEF SetNextTarget
<1>8. ASSUME NEW s \in Sessions, NEW o \in Outcomes, IncrNextSender(s, o)
      PROVE  TypeOK'
  <2> DEFINE n == NextSenderMsgSeqNum(cache[s]) + 1
  <2>1. n \in Nat \ {0} /\ n - 1 \in Nat
    BY <1>0 DEF CacheRecord, NextSenderMsgSeqNum
  <2>2. rows' \in [Keys -> Row \cup {NoRow}]
    BY <1>8, <2>1, ColumnSet, UpdateRowType, RowPresentType DEF IncrNextSender
  <2>3. cache' \in [Sessions -> CacheRecord]
    BY <1>0, <1>8, <2>1, CacheSet DEF IncrNextSender
  <2>4. ControlTypeOK' /\ doubt' \in [Sessions -> SUBSET CacheFields]
    BY <1>8, ProgressType, ConfirmType DEF IncrNextSender, Returned, CacheFields
  <2> QED
    BY <1>0, <1>8, <2>2, <2>3, <2>4, TypeOKParts DEF IncrNextSender
<1>9. ASSUME NEW s \in Sessions, NEW o \in Outcomes, IncrNextTarget(s, o)
      PROVE  TypeOK'
  <2> DEFINE n == NextTargetMsgSeqNum(cache[s]) + 1
  <2>1. n \in Nat \ {0} /\ n - 1 \in Nat
    BY <1>0 DEF CacheRecord, NextTargetMsgSeqNum
  <2>2. rows' \in [Keys -> Row \cup {NoRow}]
    BY <1>9, <2>1, ColumnSet, UpdateRowType, RowPresentType DEF IncrNextTarget
  <2>3. cache' \in [Sessions -> CacheRecord]
    BY <1>0, <1>9, <2>1, CacheSet DEF IncrNextTarget
  <2>4. ControlTypeOK' /\ doubt' \in [Sessions -> SUBSET CacheFields]
    BY <1>9, ProgressType, ConfirmType DEF IncrNextTarget, Returned, CacheFields
  <2> QED
    BY <1>0, <1>9, <2>2, <2>3, <2>4, TypeOKParts DEF IncrNextTarget
<1>10. ASSUME NEW s \in Sessions, NEW o \in Outcomes, NEW n \in 1 .. MaxSeq,
              NEW p \in Payloads, SaveMessage(s, n, p, o)
       PROVE  TypeOK'
  <2>1. ControlTypeOK'
    BY <1>10, ProgressType DEF SaveMessage, Returned
  <2>2. [seq |-> n, msg |-> p] \in Message
    BY MaxSeqAssumption DEF Message
  <2>3. messages' \in [Keys -> SUBSET Message]
    BY <1>0, <1>10, <2>2 DEF SaveMessage
  <2> QED
    BY <1>0, <1>10, <2>1, <2>3, TypeOKParts DEF SaveMessage
<1>11. ASSUME NEW s \in Sessions, Close(s)
       PROVE  TypeOK'
  <2>1. ControlTypeOK'
    BY <1>11, ProgressType DEF Close
  <2>2. cache' \in [Sessions -> CacheRecord]
    BY <1>0, <1>11, ResetCacheType, TimesAssumption DEF Close
  <2> QED
    BY <1>0, <1>11, <2>1, <2>2, TypeOKParts DEF Close
<1>12. ASSUME NEW s \in Sessions, NEW t \in Times, Refresh(s, t)
       PROVE  TypeOK'
  <2>1. ControlTypeOK'
    BY <1>12, ProgressType DEF Refresh
  <2>2. cache' \in [Sessions -> CacheRecord]
    BY <1>0, <1>12, ResetCacheType DEF Refresh
  <2> QED
    BY <1>0, <1>12, <2>1, <2>2, TypeOKParts DEF Refresh
<1>13. CASE Crash
  <2>1. ControlTypeOK'
    BY <1>13 DEF Crash, ControlTypeOK
  <2>2. cache' \in [Sessions -> CacheRecord]
    BY <1>13, ResetCacheType, TimesAssumption DEF Crash
  <2> QED
    BY <1>0, <1>13, <2>1, <2>2, TypeOKParts DEF Crash
<1>14. CASE UNCHANGED vars
  BY <1>14 DEF vars, TypeOK
<1> QED
  BY <1>1, <1>2, <1>3, <1>4, <1>5, <1>6, <1>7, <1>8, <1>9, <1>10, <1>11, <1>12,
     <1>13, <1>14 DEF Next, Call

\* Type correctness: the numbers in the cache never go below zero and those in
\* the row never below one, whatever calls fail and wherever the process dies.
THEOREM Typing == Spec => []TypeOK
<1> QED BY InitTypeOK, NextTypeOK, PTL DEF Spec
-----------------------------------------------------------------------------
(* Agreement of cache and row                                              *)

\* What every writer does to cache and row keeps them in agreement: loading
\* the row, writing it from the cache, writing one number to both, and
\* giving up a field that one of the two writes may have missed.
LEMMA AgreeLoaded ==
  ASSUME NEW r \in Row, NEW D
  PROVE  Agree(CacheOf(r), r, D)
BY DEF Agree, CacheOf, Row, NextSenderMsgSeqNum, NextTargetMsgSeqNum

LEMMA AgreeWritten ==
  ASSUME NEW c \in CacheRecord, NEW D
  PROVE  Agree(c, RowOf(c), D)
BY DEF Agree, RowOf, NextSenderMsgSeqNum, NextTargetMsgSeqNum

LEMMA AgreeSender ==
  ASSUME NEW c \in CacheRecord, NEW r \in Row, NEW D, Agree(c, r, D),
         NEW n \in Nat \ {0}
  PROVE  /\ Agree([c EXCEPT !.sender = n - 1], [r EXCEPT !.outgoing = n], D \ {"sender"})
         /\ Agree(c, [r EXCEPT !.outgoing = n], D \cup {"sender"})
         /\ Agree([c EXCEPT !.sender = n - 1], r, D \cup {"sender"})
         /\ Agree([c EXCEPT !.sender = n - 1], [r EXCEPT !.outgoing = n], D \cup {"sender"})
BY DEF Agree, CacheRecord, Row, NextSenderMsgSeqNum, NextTargetMsgSeqNum

LEMMA AgreeTarget ==
  ASSUME NEW c \in CacheRecord, NEW r \in Row, NEW D, Agree(c, r, D),
         NEW n \in Nat \ {0}
  PROVE  /\ Agree([c EXCEPT !.target = n - 1], [r EXCEPT !.incoming = n], D \ {"target"})
         /\ Agree(c, [r EXCEPT !.incoming = n], D \cup {"target"})
         /\ Agree([c EXCEPT !.target = n - 1], r, D \cup {"target"})
         /\ Agree([c EXCEPT !.target = n - 1], [r EXCEPT !.incoming = n], D \cup {"target"})
BY DEF Agree, CacheRecord, Row, NextSenderMsgSeqNum, NextTargetMsgSeqNum

LEMMA AgreeDoubt ==
  ASSUME NEW c, NEW r, NEW D, NEW E
  PROVE  /\ Agree(c, r, D \cup CacheFields)
         /\ Agree(c, r, D) => Agree(c, r, D \cup E)
BY DEF Agree, CacheFields

\* The inductive invariant, of one session.  Agreement alone is not inductive:
\* a failing Refresh returns to idle, so its row must be known to be there
\* while it runs, and only Create may run without one.
StoreInv(s) ==
  /\ pc[s] \in {"idle", "update"} => rows[RowKey(s)] # NoRow
  /\ pc[s] \in {"select", "insert"} /\ op[s] # "Create" => rows[RowKey(s)] # NoRow
  /\ pc[s] = "idle" => Agree(cache[s], rows[RowKey(s)], doubt[s])

IInv == TypeOK /\ \A s \in Sessions : StoreInv(s)

\* A step that leaves the state of z alone keeps its invariant.
SameFor(z) == /\ pc'[z] = pc[z] /\ op'[z] = op[z] /\ cache'[z] = cache[z]
              /\ doubt'[z] = doubt[z] /\ rows'[RowKey(z)] = rows[RowKey(z)]

LEMMA Frame ==
  ASSUME NEW z \in Sessions, StoreInv(z), SameFor(z)
  PROVE  StoreInv(z)'
BY DEF StoreInv, SameFor, Agree, RowKey

\* A statement of session s changes the state of no other session.
LEMMA OthersSame ==
  ASSUME TypeOK, NEW s \in Sessions, NEW z \in Sessions, s # z,
         \E c, p, r : Progress(s, c, p, r),
         cache' = cache \/ \E v : cache' = [cache EXCEPT ![s] = v],
         doubt' = doubt \/ \E F, r : Confirm(s, F, r),
         rows' = rows \/ \E v : rows' = [rows EXCEPT ![RowKey(s)] = v]
  PROVE  SameFor(z)
BY RowKeyIsSession, KeysAreSessions DEF TypeOK, Progress, Confirm, SameFor

LEMMA InitIInv == Init => IInv
BY InitTypeOK DEF Init, IInv, StoreInv

\* A call or statement of s keeps the invariant of s...
LEMMA CreateInv ==
  ASSUME IInv, NEW s \in Sessions, NEW t, NEW o, Create(s, t, o)
  PROVE  StoreInv(s)'
BY DEF IInv, TypeOK, StoreInv, Create, Progress, RowKey

LEMMA RefreshInv ==
  ASSUME IInv, NEW s \in Sessions, NEW t, Refresh(s, t)
  PROVE  StoreInv(s)'
BY DEF IInv, TypeOK, StoreInv, Refresh, Progress, RowKey

LEMMA PopulateFailsInv ==
  ASSUME IInv, NEW s \in Sessions, PopulateFails(s),
         op[s] # "Create" => rows'[RowKey(s)] # NoRow
  PROVE  StoreInv(s)'
<1>1. pc'[s] = (IF op[s] = "Create" THEN "none" ELSE "idle")
  BY DEF PopulateFails, Progress, IInv, TypeOK
<1>2. doubt'[s] = doubt[s] \cup CacheFields
  BY DEF PopulateFails, Confirm, IInv, TypeOK
<1>3. Agree(cache'[s], rows'[RowKey(s)], doubt'[s])
  BY <1>2, AgreeDoubt
<1> QED
  BY <1>1, <1>3 DEF StoreInv, RowKey, Agree, NextSenderMsgSeqNum, NextTargetMsgSeqNum

LEMMA PopulateSelectInv ==
  ASSUME IInv, NEW s \in Sessions, NEW o, PopulateSelect(s, o)
  PROVE  StoreInv(s)'
<1>1. CASE PopulateFails(s)
  BY <1>1, PopulateFailsInv DEF PopulateSelect, IInv, StoreInv
<1>2. CASE o = "ok" /\ rows[RowKey(s)] # NoRow
  <2>1. cache'[s] = CacheOf(rows[RowKey(s)]) /\ rows[RowKey(s)] \in Row
    BY <1>2, RowPresentType DEF PopulateSelect, IInv, TypeOK
  <2>2. Agree(cache'[s], rows'[RowKey(s)], doubt'[s])
    BY <2>1, AgreeLoaded DEF PopulateSelect
  <2> QED
    BY <1>2, <2>2 DEF PopulateSelect, Progress, IInv, TypeOK, StoreInv, RowKey, Agree,
       NextSenderMsgSeqNum, NextTargetMsgSeqNum
<1>3. CASE o = "ok" /\ rows[RowKey(s)] = NoRow
  BY <1>3 DEF PopulateSelect, Progress, IInv, TypeOK, StoreInv, RowKey
<1> QED
  BY <1>1, <1>2, <1>3 DEF PopulateSelect

LEMMA PopulateInsertInv ==
  ASSUME IInv, NEW s \in Sessions, NEW o \in Outcomes, PopulateInsert(s, o)
  PROVE  StoreInv(s)'
<1>0. RowOf(cache[s]) \in Row
  BY RowOfType DEF IInv, TypeOK
<1>1. rows'[RowKey(s)] = IF Applies(o) THEN RowOf(cache[s]) ELSE rows[RowKey(s)]
  BY RowKeyIsSession, KeysAreSessions DEF PopulateInsert, IInv, TypeOK
<1>2. CASE PopulateFails(s)
  BY <1>0, <1>1, <1>2, PopulateFailsInv, NoRowAssumption
  DEF PopulateInsert, IInv, StoreInv
<1>3. CASE o = "ok"
  <2>1. cache' = cache /\ rows'[RowKey(s)] = RowOf(cache[s])
    BY <1>1, <1>3 DEF PopulateInsert, Applies
  <2>2. Agree(cache'[s], rows'[RowKey(s)], doubt'[s])
    BY <2>1, AgreeWritten DEF IInv, TypeOK
  <2> QED
    BY <1>0, <1>3, <2>1, <2>2, NoRowAssumption
    DEF PopulateInsert, Progress, IInv, TypeOK, StoreInv, RowKey, Agree,
        NextSenderMsgSeqNum, NextTargetMsgSeqNum
<1> QED
  BY <1>2, <1>3 DEF PopulateInsert

LEMMA ResetInv ==
  ASSUME IInv, NEW s \in Sessions, NEW t, NEW o, Reset(s, t, o)
  PROVE  StoreInv(s)'
BY DEF IInv, TypeOK, StoreInv, Reset, Progress, RowKey

LEMMA ResetUpdateInv ==
  ASSUME IInv, NEW s \in Sessions, NEW o \in Outcomes, ResetUpdate(s, o)
  PROVE  StoreInv(s)'
<1>0. RowOf(cache[s]) \in Row /\ rows[RowKey(s)] # NoRow
  BY RowOfType DEF IInv, TypeOK, ResetUpdate, StoreInv
<1>1. rows'[RowKey(s)] = IF Applies(o) THEN RowOf(cache[s]) ELSE rows[RowKey(s)]
  BY <1>0, RowKeyIsSession, KeysAreSessions DEF ResetUpdate, UpdateRow, IInv, TypeOK
<1>2. Agree(cache'[s], rows'[RowKey(s)], doubt'[s])
  <2>1. CASE o = "ok"
    BY <1>1, <2>1, AgreeWritten DEF ResetUpdate, Applies, IInv, TypeOK
  <2>2. CASE o # "ok"
    <3>1. doubt'[s] = doubt[s] \cup CacheFields
      BY <2>2 DEF ResetUpdate, Confirm, Returned, IInv, TypeOK
    <3> QED
      BY <3>1, AgreeDoubt
  <2> QED
    BY <2>1, <2>2
<1>3. pc'[s] = "idle" /\ rows'[RowKey(s)] # NoRow
  BY <1>0, <1>1, NoRowAssumption DEF ResetUpdate, Progress, IInv, TypeOK
<1> QED
  BY <1>2, <1>3 DEF StoreInv, RowKey, Agree, NextSenderMsgSeqNum, NextTargetMsgSeqNum

\* The four calls that write one number, in one lemma: cache and row are
\* either both updated and confirmed, or the field is put in doubt.
LEMMA SenderWrittenInv ==
  ASSUME IInv, NEW s \in Sessions, NEW o \in Outcomes, NEW n \in Nat \ {0}, NEW call,
         pc[s] = "idle",
         UpdateRow(s, o, [rows[RowKey(s)] EXCEPT !.outgoing = n]),
         \/ cache' = [cache EXCEPT ![s].sender = n - 1]
         \/ cache' = cache /\ o # "ok",
         Confirm(s, {"sender"}, Returned(o)),
         Progress(s, call, "idle", Returned(o))
  PROVE  StoreInv(s)'
<1> DEFINE c  == cache[s]
           r  == rows[RowKey(s)]
           D  == doubt[s]
           cn == [c EXCEPT !.sender = n - 1]
           rn == [r EXCEPT !.outgoing = n]
<1>1. c \in CacheRecord /\ r \in Row /\ r # NoRow /\ Agree(c, r, D)
  BY RowPresentType DEF IInv, StoreInv, TypeOK
<1>2. rn \in Row /\ rn # NoRow
  BY <1>1, ColumnSet, NoRowAssumption
<1>3. /\ Agree(cn, rn, D \ {"sender"})
      /\ Agree(cn, rn, D \cup {"sender"}) /\ Agree(cn, r, D \cup {"sender"})
      /\ Agree(c, rn, D \cup {"sender"}) /\ Agree(c, r, D \cup {"sender"})
  BY <1>1, AgreeSender, AgreeDoubt
<1>4. rows'[RowKey(s)] = IF Applies(o) THEN rn ELSE r
  BY <1>1, RowKeyIsSession, KeysAreSessions DEF UpdateRow, IInv, TypeOK
<1>5. cache'[s] = cn \/ (cache'[s] = c /\ o # "ok")
  BY <1>1 DEF IInv, TypeOK
<1>6. doubt'[s] = IF o = "ok" THEN D \ {"sender"} ELSE D \cup {"sender"}
  BY DEF Confirm, Returned, IInv, TypeOK
<1>7. pc'[s] = "idle"
  BY DEF Progress, IInv, TypeOK
<1> HIDE DEF c, r, D, cn, rn
<1>8. Agree(cache'[s], rows'[RowKey(s)], doubt'[s])
  <2>1. CASE o = "ok"
    <3>1. cache'[s] = cn /\ rows'[RowKey(s)] = rn /\ doubt'[s] = D \ {"sender"}
      BY <1>4, <1>5, <1>6, <2>1 DEF Applies
    <3> QED
      BY <1>3, <3>1
  <2>2. CASE o # "ok"
    <3>1. doubt'[s] = D \cup {"sender"}
      BY <1>6, <2>2
    <3>2. rows'[RowKey(s)] = rn \/ rows'[RowKey(s)] = r
      BY <1>4
    <3>3. cache'[s] = cn \/ cache'[s] = c
      BY <1>5
    <3> QED
      BY <1>3, <3>1, <3>2, <3>3
  <2> QED
    BY <2>1, <2>2
<1>9. rows'[RowKey(s)] # NoRow
  BY <1>1, <1>2, <1>4
<1> QED
  BY <1>7, <1>8, <1>9 DEF StoreInv, RowKey, Agree, NextSenderMsgSeqNum, NextTargetMsgSeqNum


LEMMA TargetWrittenInv ==
  ASSUME IInv, NEW s \in Sessions, NEW o \in Outcomes, NEW n \in Nat \ {0}, NEW call,
         pc[s] = "idle",
         UpdateRow(s, o, [rows[RowKey(s)] EXCEPT !.incoming = n]),
         \/ cache' = [cache EXCEPT ![s].target = n - 1]
         \/ cache' = cache /\ o # "ok",
         Confirm(s, {"target"}, Returned(o)),
         Progress(s, call, "idle", Returned(o))
  PROVE  StoreInv(s)'
<1> DEFINE c  == cache[s]
           r  == rows[RowKey(s)]
           D  == doubt[s]
           cn == [c EXCEPT !.target = n - 1]
           rn == [r EXCEPT !.incoming = n]
<1>1. c \in CacheRecord /\ r \in Row /\ r # NoRow /\ Agree(c, r, D)
  BY RowPresentType DEF IInv, StoreInv, TypeOK
<1>2. rn \in Row /\ rn # NoRow
  BY <1>1, ColumnSet, NoRowAssumption
<1>3. /\ Agree(cn, rn, D \ {"target"})
      /\ Agree(cn, rn, D \cup {"target"}) /\ Agree(cn, r, D \cup {"target"})
      /\ Agree(c, rn, D \cup {"target"}) /\ Agree(c, r, D \cup {"target"})
  BY <1>1, AgreeTarget, AgreeDoubt
<1>4. rows'[RowKey(s)] = IF Applies(o) THEN rn ELSE r
  BY <1>1, RowKeyIsSession, KeysAreSessions DEF UpdateRow, IInv, TypeOK
<1>5. cache'[s] = cn \/ (cache'[s] = c /\ o # "ok")
  BY <1>1 DEF IInv, TypeOK
<1>6. doubt'[s] = IF o = "ok" THEN D \ {"target"} ELSE D \cup {"target"}
  BY DEF Confirm, Returned, IInv, TypeOK
<1>7. pc'[s] = "idle"
  BY DEF Progress, IInv, TypeOK
<1> HIDE DEF c, r, D, cn, rn
<1>8. Agree(cache'[s], rows'[RowKey(s)], doubt'[s])
  <2>1. CASE o = "ok"
    <3>1. cache'[s] = cn /\ rows'[RowKey(s)] = rn /\ doubt'[s] = D \ {"target"}
      BY <1>4, <1>5, <1>6, <2>1 DEF Applies
    <3> QED
      BY <1>3, <3>1
  <2>2. CASE o # "ok"
    <3>1. doubt'[s] = D \cup {"target"}
      BY <1>6, <2>2
    <3>2. rows'[RowKey(s)] = rn \/ rows'[RowKey(s)] = r
      BY <1>4
    <3>3. cache'[s] = cn \/ cache'[s] = c
      BY <1>5
    <3> QED
      BY <1>3, <3>1, <3>2, <3>3
  <2> QED
    BY <2>1, <2>2
<1>9. rows'[RowKey(s)] # NoRow
  BY <1>1, <1>2, <1>4
<1> QED
  BY <1>7, <1>8, <1>9 DEF StoreInv, RowKey, Agree, NextSenderMsgSeqNum, NextTargetMsgSeqNum

\* ... and the invariant of every other session.
LEMMA NextIInv == IInv /\ [Next]_vars => IInv'
<1> SUFFICES ASSUME IInv, [Next]_vars, NEW z \in Sessions
             PROVE  StoreInv(z)'
  BY NextTypeOK DEF IInv
<1>0. TypeOK /\ StoreInv(z)
  BY DEF IInv
<1>1. ASSUME NEW s \in Sessions, NEW o \in Outcomes, NEW t \in Times, Create(s, t, o)
      PROVE  StoreInv(z)'
  <2>1. CASE s # z
    BY <1>0, <1>1, <2>1, OthersSame, Frame DEF Create
  <2> QED
    BY <1>1, <2>1, CreateInv
<1>2. ASSUME NEW s \in Sessions, NEW o \in Outcomes, NEW t \in Times, Reset(s, t, o)
      PROVE  StoreInv(z)'
  <2>1. CASE s # z
    BY <1>0, <1>2, <2>1, OthersSame, Frame DEF Reset
  <2> QED
    BY <1>2, <2>1, ResetInv
<1>3. ASSUME NEW s \in Sessions, NEW o \in Outcomes, PopulateSelect(s, o)
      PROVE  StoreInv(z)'
  <2>1. CASE s # z
    BY <1>0, <1>3, <2>1, OthersSame, Frame DEF PopulateSelect, PopulateFails
  <2> QED
    BY <1>3, <2>1, PopulateSelectInv
<1>4. ASSUME NEW s \in Sessions, NEW o \in Outcomes, PopulateInsert(s, o)
      PROVE  StoreInv(z)'
  <2>1. CASE s # z
    BY <1>0, <1>4, <2>1, OthersSame, Frame DEF PopulateInsert, PopulateFails
  <2> QED
    BY <1>4, <2>1, PopulateInsertInv
<1>5. ASSUME NEW s \in Sessions, NEW o \in Outcomes, ResetUpdate(s, o)
      PROVE  StoreInv(z)'
  <2>1. CASE s # z
    BY <1>0, <1>5, <2>1, OthersSame, Frame DEF ResetUpdate, UpdateRow
  <2> QED
    BY <1>5, <2>1, ResetUpdateInv
<1>6. ASSUME NEW s \in Sessions, NEW o \in Outcomes, NEW n \in 1 .. MaxSeq + 1,
             SetNextSender(s, n, o)
      PROVE  StoreInv(z)'
  <2>1. CASE s # z
    BY <1>0, <1>6, <2>1, OthersSame, Frame DEF SetNextSender, UpdateRow
  <2>2. n \in Nat \ {0}
    BY MaxSeqAssumption
  <2> QED
    BY <1>6, <2>1, <2>2, SenderWrittenInv DEF SetNextSender
<1>7. ASSUME NEW s \in Sessions, NEW o \in Outcomes, NEW n \in 1 .. MaxSeq + 1,
             SetNextTarget(s, n, o)
      PROVE  StoreInv(z)'
  <2>1. CASE s # z
    BY <1>0, <1>7, <2>1, OthersSame, Frame DEF SetNextTarget, UpdateRow
  <2>2. n \in Nat \ {0}
    BY MaxSeqAssumption
  <2> QED
    BY <1>7, <2>1, <2>2, TargetWrittenInv DEF SetNextTarget
<1>8. ASSUME NEW s \in Sessions, NEW o \in Outcomes, IncrNextSender(s, o)
      PROVE  StoreInv(z)'
  <2>1. CASE s # z
    BY <1>0, <1>8, <2>1, OthersSame, Frame DEF IncrNextSender, UpdateRow
  <2>2. NextSenderMsgSeqNum(cache[s]) + 1 \in Nat \ {0}
    BY <1>0 DEF TypeOK, CacheRecord, NextSenderMsgSeqNum
  <2> QED
    BY <1>8, <2>1, <2>2, SenderWrittenInv DEF IncrNextSender
<1>9. ASSUME NEW s \in Sessions, NEW o \in Outcomes, IncrNextTarget(s, o)
      PROVE  StoreInv(z)'
  <2>1. CASE s # z
    BY <1>0, <1>9, <2>1, OthersSame, Frame DEF IncrNextTarget, UpdateRow
  <2>2. NextTargetMsgSeqNum(cache[s]) + 1 \in Nat \ {0}
    BY <1>0 DEF TypeOK, CacheRecord, NextTargetMsgSeqNum
  <2> QED
    BY <1>9, <2>1, <2>2, TargetWrittenInv DEF IncrNextTarget
<1>10. ASSUME NEW s \in Sessions, NEW o \in Outcomes, NEW n \in 1 .. MaxSeq,
              NEW p \in Payloads, SaveMessage(s, n, p, o)
       PROVE  StoreInv(z)'
  BY <1>0, <1>10 DEF SaveMessage, Progress, TypeOK, StoreInv, RowKey, Agree
<1>11. ASSUME NEW s \in Sessions, Close(s)
       PROVE  StoreInv(z)'
  <2>1. CASE s # z
    BY <1>0, <1>11, <2>1, OthersSame, Frame DEF Close
  <2>2. CASE s = z
    BY <1>0, <1>11, <2>2 DEF Close, Progress, TypeOK, StoreInv
  <2> QED
    BY <2>1, <2>2
<1>12. ASSUME NEW s \in Sessions, NEW t \in Times, Refresh(s, t)
       PROVE  StoreInv(z)'
  <2>1. CASE s # z
    BY <1>0, <1>12, <2>1, OthersSame, Frame DEF Refresh
  <2> QED
    BY <1>12, <2>1, RefreshInv
<1>13. CASE Crash
  BY <1>13 DEF Crash, StoreInv
<1>14. CASE UNCHANGED vars
  BY <1>0, <1>14, Frame DEF vars, SameFor
<1> QED
  BY <1>1, <1>2, <1>3, <1>4, <1>5, <1>6, <1>7, <1>8, <1>9, <1>10, <1>11, <1>12,
     <1>13, <1>14 DEF Next, Call

LEMMA Invariance == Spec => []IInv
BY InitIInv, NextIInv, PTL DEF Spec

\* A store in use has its row: none of its UPDATEs matches nothing.
THEOREM RowsPresent == Spec => []RowPresent
<1>1. IInv => RowPresent
  BY DEF IInv, StoreInv, RowPresent
<1> QED
  BY <1>1, Invariance, PTL

\* The cache of an idle store agrees with the session's row in every field no
\* failed call has left in doubt, for any number of sessions sharing the
\* tables.  It rests on the eight columns telling sessions apart, on every
\* writer keeping cache and row together, and on the row being there.
THEOREM CacheAgrees == Spec => []Agreement
<1>1. IInv => Agreement
  BY DEF IInv, StoreInv, Agreement
<1> QED
  BY <1>1, Invariance, PTL

-----------------------------------------------------------------------------
(* Reset is complete                                                       *)

\* What the DELETE and the reset of the cache leave for the UPDATE.
Emptied(s) == messages[RowKey(s)] = {} /\ cache[s].sender = 0 /\ cache[s].target = 0

\* The invariant, of one session. ResetComplete alone says nothing of the
\* state between the two statements; and no populateCache ends a Reset.
AfterReset(s) ==
  /\ pc[s] \in {"select", "insert"} => op[s] # "Reset"
  /\ pc[s] = "update" => Emptied(s)
  /\ pc[s] = "idle" /\ op[s] = "Reset" /\ result[s] = "nil" =>
       Emptied(s) /\ rows[RowKey(s)] = RowOf(cache[s])

AfterResets == \A s \in Sessions : AfterReset(s)

\* A step of s leaves what the invariant says of z alone.
LEMMA ResetFrame ==
  ASSUME TypeOK, NEW s \in Sessions, NEW z \in Sessions, s # z, AfterReset(z),
         \E c, p, r : Progress(s, c, p, r),
         cache' = cache \/ \E v : cache' = [cache EXCEPT ![s] = v],
         messages' = messages \/ \E v : messages' = [messages EXCEPT ![RowKey(s)] = v],
         rows' = rows \/ \E v : rows' = [rows EXCEPT ![RowKey(s)] = v]
  PROVE  AfterReset(z)'
<1>1. pc'[z] = pc[z] /\ op'[z] = op[z] /\ result'[z] = result[z]
  BY DEF Progress, TypeOK
<1>2. cache'[z] = cache[z] /\ rows'[RowKey(z)] = rows[RowKey(z)]
      /\ messages'[RowKey(z)] = messages[RowKey(z)]
  BY RowKeyIsSession, KeysAreSessions DEF TypeOK
<1>3. RowKey(z)' = RowKey(z)
  BY DEF RowKey
<1> QED  BY <1>1, <1>2, <1>3 DEF AfterReset, Emptied, RowOf, NextSenderMsgSeqNum, NextTargetMsgSeqNum

\* A call that is not Reset, or a Reset that failed, has nothing to keep.
LEMMA NotReset ==
  ASSUME TypeOK, NEW s \in Sessions, NEW c, NEW p, NEW r, Progress(s, c, p, r),
         p # "update", c # "Reset" \/ (p = "idle" /\ r = "error")
  PROVE  AfterReset(s)'
<1>1. pc'[s] = p /\ op'[s] = c /\ result'[s] = r
  BY DEF Progress, TypeOK
<1> QED  BY <1>1 DEF AfterReset

\* The DELETE of a Reset.
LEMMA ResetDeletes ==
  ASSUME TypeOK, NEW s \in Sessions, NEW t, NEW o, Reset(s, t, o)
  PROVE  AfterReset(s)'
<1>1. CASE o = "ok"
  <2>1. pc'[s] = "update" /\ cache'[s] = ResetCache(t)
    BY <1>1 DEF Reset, Progress, TypeOK
  <2>2. messages'[RowKey(s)] = {}
    BY <1>1, RowKeyIsSession, KeysAreSessions DEF Reset, Applies, TypeOK
  <2>3. RowKey(s)' = RowKey(s)
    BY DEF RowKey
  <2> QED  BY <2>1, <2>2, <2>3 DEF AfterReset, Emptied, ResetCache
<1>2. CASE o # "ok"
  BY <1>2, NotReset DEF Reset
<1> QED  BY <1>1, <1>2

\* The UPDATE of a Reset: the row is there, so it says what the cache says.
LEMMA ResetUpdates ==
  ASSUME IInv, NEW s \in Sessions, NEW o, AfterReset(s), ResetUpdate(s, o)
  PROVE  AfterReset(s)'
<1>1. TypeOK /\ rows[RowKey(s)] # NoRow /\ Emptied(s) /\ pc'[s] = "idle" /\ result'[s] = Returned(o)
  BY DEF IInv, StoreInv, AfterReset, ResetUpdate, Progress, TypeOK
<1>2. RowKey(s)' = RowKey(s) /\ cache' = cache /\ messages' = messages
  BY DEF RowKey, ResetUpdate
<1>3. CASE o = "ok"
  <2>1. rows'[RowKey(s)] = RowOf(cache[s])
    BY <1>1, <1>3, RowKeyIsSession, KeysAreSessions DEF ResetUpdate, UpdateRow, Applies, TypeOK
  <2> QED  BY <1>1, <1>2, <2>1 DEF AfterReset, Emptied, RowOf, NextSenderMsgSeqNum, NextTargetMsgSeqNum
<1>4. CASE o # "ok"
  BY <1>1, <1>4 DEF AfterReset, Returned
<1> QED  BY <1>3, <1>4

\* populateCache ends a Create or a Refresh.
LEMMA PopulateNotReset ==
  ASSUME TypeOK, NEW s \in Sessions, NEW o, AfterReset(s), PopulateSelect(s, o) \/ PopulateInsert(s, o)
  PROVE  AfterReset(s)'
<1>1. op[s] # "Reset"
  BY DEF AfterReset, PopulateSelect, PopulateInsert
<1>2. \E p \in {"none", "idle", "insert"} : \E r : Progress(s, op[s], p, r)
  BY DEF PopulateSelect, PopulateInsert, PopulateFails
<1> QED  BY <1>1, <1>2, NotReset

LEMMA NextAfterResets == IInv /\ AfterResets /\ [Next]_vars => AfterResets'
<1> SUFFICES ASSUME IInv, AfterResets, [Next]_vars, NEW z \in Sessions
             PROVE  AfterReset(z)'
  BY DEF AfterResets
<1>0. TypeOK /\ AfterReset(z)
  BY DEF IInv, AfterResets
<1>1. ASSUME NEW s \in Sessions, NEW o \in Outcomes, NEW t \in Times, Create(s, t, o)
      PROVE  AfterReset(z)'
  <2>1. \E p \in {"none", "select"} : \E r : Progress(s, "Create", p, r)
    BY <1>1 DEF Create
  <2> QED  BY <1>0, <1>1, <2>1, ResetFrame, NotReset DEF Create
<1>2. ASSUME NEW s \in Sessions, NEW o \in Outcomes, NEW t \in Times, Reset(s, t, o)
      PROVE  AfterReset(z)'
  BY <1>0, <1>2, ResetFrame, ResetDeletes DEF Reset
<1>3. ASSUME NEW s \in Sessions, NEW o \in Outcomes, PopulateSelect(s, o)
      PROVE  AfterReset(z)'
  BY <1>0, <1>3, ResetFrame, PopulateNotReset DEF PopulateSelect, PopulateFails
<1>4. ASSUME NEW s \in Sessions, NEW o \in Outcomes, PopulateInsert(s, o)
      PROVE  AfterReset(z)'
  BY <1>0, <1>4, ResetFrame, PopulateNotReset DEF PopulateInsert, PopulateFails
<1>5. ASSUME NEW s \in Sessions, NEW o \in Outcomes, ResetUpdate(s, o)
      PROVE  AfterReset(z)'
  BY <1>0, <1>5, ResetFrame, ResetUpdates DEF ResetUpdate, UpdateRow
<1>6. ASSUME NEW s \in Sessions, NEW o \in Outcomes, NEW n \in 1 .. MaxSeq + 1,
             SetNextSender(s, n, o) \/ SetNextTarget(s, n, o)
      PROVE  AfterReset(z)'
  <2>1. \E c \in {"SetNextSender", "SetNextTarget"} : \E r : Progress(s, c, "idle", r)
    BY <1>6 DEF SetNextSender, SetNextTarget
  <2> QED  BY <1>0, <1>6, <2>1, ResetFrame, NotReset DEF SetNextSender, SetNextTarget, UpdateRow
<1>7. ASSUME NEW s \in Sessions, NEW o \in Outcomes, IncrNextSender(s, o) \/ IncrNextTarget(s, o)
      PROVE  AfterReset(z)'
  <2>1. \E c \in {"IncrNextSender", "IncrNextTarget"} : \E r : Progress(s, c, "idle", r)
    BY <1>7 DEF IncrNextSender, IncrNextTarget
  <2> QED  BY <1>0, <1>7, <2>1, ResetFrame, NotReset DEF IncrNextSender, IncrNextTarget, UpdateRow
<1>8. ASSUME NEW s \in Sessions, NEW o \in Outcomes, NEW n \in 1 .. MaxSeq,
             NEW p \in Payloads, SaveMessage(s, n, p, o)
      PROVE  AfterReset(z)'
  BY <1>0, <1>8, ResetFrame, NotReset DEF SaveMessage
<1>9. ASSUME NEW s \in Sessions, NEW t \in Times, Close(s) \/ Refresh(s, t)
      PROVE  AfterReset(z)'
  <2>1. \E c \in {"Close", "Refresh"}, p \in {"none", "select"} : \E r : Progress(s, c, p, r)
    BY <1>9 DEF Close, Refresh
  <2> QED  BY <1>0, <1>9, <2>1, ResetFrame, NotReset DEF Close, Refresh
<1>10. CASE Crash
  BY <1>10 DEF Crash, AfterReset
<1>11. CASE UNCHANGED vars
  <2>1. RowKey(z)' = RowKey(z)
    BY DEF RowKey
  <2> QED  BY <1>0, <1>11, <2>1 DEF vars, AfterReset, Emptied, RowOf, NextSenderMsgSeqNum, NextTargetMsgSeqNum
<1> QED
  BY TimesAssumption, <1>1, <1>2, <1>3, <1>4, <1>5, <1>6, <1>7, <1>8, <1>9, <1>10, <1>11 DEF Next, Call

\* A Reset that returned nil left no message of the session and 1 in both
\* places a number is kept, whatever the other sessions of the tables do,
\* until the next call on that store.
THEOREM ResetsComplete == Spec => []ResetComplete
<1>1. Init => AfterResets
  BY DEF Init, AfterResets, AfterReset
<1>2. AfterResets => ResetComplete
  <2>1. ASSUME NEW s \in Sessions, Emptied(s), rows[RowKey(s)] = RowOf(cache[s])
        PROVE  rows[RowKey(s)].outgoing = 1 /\ rows[RowKey(s)].incoming = 1
    BY <2>1 DEF Emptied, RowOf, NextSenderMsgSeqNum, NextTargetMsgSeqNum
  <2> QED  BY <2>1 DEF AfterResets, AfterReset, ResetComplete, Emptied
<1> QED  BY <1>1, <1>2, Invariance, NextAfterResets, PTL DEF Spec

-----------------------------------------------------------------------------
(* Numbers move by one                                                     *)

\* An INSERT meets no row: none but the session itself would have written it.
Unwritten(s) == pc[s] = "insert" => rows[RowKey(s)] = NoRow

Insertable == \A s \in Sessions : Unwritten(s)

\* A step that leaves the row of z alone.
LEMMA OtherRow ==
  ASSUME NEW z \in Sessions, SameFor(z), Unwritten(z)
  PROVE  Moves(z) /\ Unwritten(z)'
BY DEF SameFor, Moves, Unwritten, RowKey

\* A call of z that leaves its row alone and does not go on to an INSERT.
LEMMA RowKept ==
  ASSUME TypeOK, NEW s \in Sessions, rows' = rows,
         NEW c, NEW p, NEW r, Progress(s, c, p, r), p # "insert"
  PROVE  Moves(s) /\ Unwritten(s)'
<1>1. pc'[s] = p
  BY DEF Progress, TypeOK
<1> QED  BY <1>1 DEF Moves, Unwritten

\* A call that sets or resets a number.
LEMMA RowGiven ==
  ASSUME TypeOK, NEW s \in Sessions, NEW c \in {"SetNextSender", "SetNextTarget", "Reset"},
         NEW r, Progress(s, c, "idle", r)
  PROVE  Moves(s) /\ Unwritten(s)'
<1>1. pc'[s] = "idle" /\ op'[s] = c
  BY DEF Progress, TypeOK
<1> QED  BY <1>1 DEF Moves, Unwritten

LEMMA SelectMoves ==
  ASSUME TypeOK, NEW s \in Sessions, NEW o, PopulateSelect(s, o)
  PROVE  Moves(s) /\ Unwritten(s)'
<1>1. rows' = rows
  BY DEF PopulateSelect
<1>2. CASE rows[RowKey(s)] = NoRow
  BY <1>1, <1>2 DEF Moves, Unwritten, RowKey
<1>3. CASE rows[RowKey(s)] # NoRow
  <2>1. \E p \in {"none", "idle"} : \E r : Progress(s, op[s], p, r)
    BY <1>3 DEF PopulateSelect, PopulateFails
  <2> QED  BY <1>1, <2>1, RowKept
<1> QED  BY <1>2, <1>3

LEMMA InsertMoves ==
  ASSUME TypeOK, NEW s \in Sessions, NEW o, PopulateInsert(s, o), Unwritten(s)
  PROVE  Moves(s) /\ Unwritten(s)'
<1>1. rows[RowKey(s)] = NoRow
  BY DEF PopulateInsert, Unwritten
<1>2. \E p \in {"none", "idle"} : \E r : Progress(s, op[s], p, r)
  BY DEF PopulateInsert, PopulateFails
<1>3. pc'[s] # "insert"
  BY <1>2 DEF Progress, TypeOK
<1> QED  BY <1>1, <1>3 DEF Moves, Unwritten

\* The number an increment writes is the cached one and one more; where no
\* failed call left it in doubt, that is the stored one and one more.
LEMMA SenderMoves ==
  ASSUME IInv, NEW s \in Sessions, NEW o, IncrNextSender(s, o)
  PROVE  Moves(s) /\ Unwritten(s)'
<1> DEFINE row == rows[RowKey(s)]
           n   == NextSenderMsgSeqNum(cache[s]) + 1
<1>1. row \in Row /\ Agree(cache[s], row, doubt[s])
  BY RowPresentType DEF IncrNextSender, IInv, StoreInv
<1>2. pc'[s] = "idle" /\ op'[s] = "IncrNextSender"
  BY DEF IncrNextSender, Progress, IInv, TypeOK
<1>3. rows'[RowKey(s)] = row \/ rows'[RowKey(s)] = [row EXCEPT !.outgoing = n]
  BY RowKeyIsSession, KeysAreSessions DEF IncrNextSender, UpdateRow, IInv, TypeOK
<1>4. "sender" \notin doubt[s] => n = row.outgoing + 1
  BY <1>1 DEF Agree
<1>5. [row EXCEPT !.outgoing = n].outgoing = n
  BY <1>1 DEF Row
<1> HIDE DEF n
<1>6. Moves(s)
  BY <1>2, <1>3, <1>4, <1>5 DEF Moves
<1> QED  BY <1>2, <1>6 DEF Unwritten

LEMMA TargetMoves ==
  ASSUME IInv, NEW s \in Sessions, NEW o, IncrNextTarget(s, o)
  PROVE  Moves(s) /\ Unwritten(s)'
<1> DEFINE row == rows[RowKey(s)]
           n   == NextTargetMsgSeqNum(cache[s]) + 1
<1>1. row \in Row /\ Agree(cache[s], row, doubt[s])
  BY RowPresentType DEF IncrNextTarget, IInv, StoreInv
<1>2. pc'[s] = "idle" /\ op'[s] = "IncrNextTarget"
  BY DEF IncrNextTarget, Progress, IInv, TypeOK
<1>3. rows'[RowKey(s)] = row \/ rows'[RowKey(s)] = [row EXCEPT !.incoming = n]
  BY RowKeyIsSession, KeysAreSessions DEF IncrNextTarget, UpdateRow, IInv, TypeOK
<1>4. "target" \notin doubt[s] => n = row.incoming + 1
  BY <1>1 DEF Agree
<1>5. [row EXCEPT !.incoming = n].incoming = n
  BY <1>1 DEF Row
<1> HIDE DEF n
<1>6. Moves(s)
  BY <1>2, <1>3, <1>4, <1>5 DEF Moves
<1> QED  BY <1>2, <1>6 DEF Unwritten

LEMMA NextMoves ==
  ASSUME IInv, Insertable, [Next]_vars
  PROVE  (\A s \in Sessions : Moves(s)) /\ Insertable'
<1> SUFFICES ASSUME NEW z \in Sessions PROVE Moves(z) /\ Unwritten(z)'
  BY DEF Insertable
<1>0. TypeOK /\ Unwritten(z)
  BY DEF IInv, Insertable
<1>1. ASSUME NEW s \in Sessions, NEW o \in Outcomes, NEW t \in Times, Create(s, t, o)
      PROVE  Moves(z) /\ Unwritten(z)'
  <2>1. CASE s # z
    BY <1>0, <1>1, <2>1, OthersSame, OtherRow DEF Create
  <2>2. \E c, r : \E p \in {"none", "select"} : Progress(s, c, p, r)
    BY <1>1 DEF Create
  <2> QED  BY <1>0, <1>1, <2>1, <2>2, RowKept DEF Create
<1>2. ASSUME NEW s \in Sessions, NEW o \in Outcomes, NEW t \in Times, Reset(s, t, o)
      PROVE  Moves(z) /\ Unwritten(z)'
  <2>1. CASE s # z
    BY <1>0, <1>2, <2>1, OthersSame, OtherRow DEF Reset
  <2>2. \E c, r : \E p \in {"update", "idle"} : Progress(s, c, p, r)
    BY <1>2 DEF Reset
  <2> QED  BY <1>0, <1>2, <2>1, <2>2, RowKept DEF Reset
<1>3. ASSUME NEW s \in Sessions, NEW o \in Outcomes, PopulateSelect(s, o)
      PROVE  Moves(z) /\ Unwritten(z)'
  <2>1. CASE s # z
    BY <1>0, <1>3, <2>1, OthersSame, OtherRow DEF PopulateSelect, PopulateFails
  <2> QED  BY <1>0, <1>3, <2>1, SelectMoves
<1>4. ASSUME NEW s \in Sessions, NEW o \in Outcomes, PopulateInsert(s, o)
      PROVE  Moves(z) /\ Unwritten(z)'
  <2>1. CASE s # z
    BY <1>0, <1>4, <2>1, OthersSame, OtherRow DEF PopulateInsert, PopulateFails
  <2> QED  BY <1>0, <1>4, <2>1, InsertMoves
<1>5. ASSUME NEW s \in Sessions, NEW o \in Outcomes, ResetUpdate(s, o)
      PROVE  Moves(z) /\ Unwritten(z)'
  <2>1. CASE s # z
    BY <1>0, <1>5, <2>1, OthersSame, OtherRow DEF ResetUpdate, UpdateRow
  <2> QED  BY <1>0, <1>5, <2>1, RowGiven DEF ResetUpdate
<1>6. ASSUME NEW s \in Sessions, NEW o \in Outcomes, NEW n \in 1 .. MaxSeq + 1,
             SetNextSender(s, n, o)
      PROVE  Moves(z) /\ Unwritten(z)'
  <2>1. CASE s # z
    BY <1>0, <1>6, <2>1, OthersSame, OtherRow DEF SetNextSender, UpdateRow
  <2> QED  BY <1>0, <1>6, <2>1, RowGiven DEF SetNextSender
<1>7. ASSUME NEW s \in Sessions, NEW o \in Outcomes, NEW n \in 1 .. MaxSeq + 1,
             SetNextTarget(s, n, o)
      PROVE  Moves(z) /\ Unwritten(z)'
  <2>1. CASE s # z
    BY <1>0, <1>7, <2>1, OthersSame, OtherRow DEF SetNextTarget, UpdateRow
  <2> QED  BY <1>0, <1>7, <2>1, RowGiven DEF SetNextTarget
<1>8. ASSUME NEW s \in Sessions, NEW o \in Outcomes, IncrNextSender(s, o)
      PROVE  Moves(z) /\ Unwritten(z)'
  <2>1. CASE s # z
    BY <1>0, <1>8, <2>1, OthersSame, OtherRow DEF IncrNextSender, UpdateRow
  <2> QED  BY <1>8, <2>1, SenderMoves
<1>9. ASSUME NEW s \in Sessions, NEW o \in Outcomes, IncrNextTarget(s, o)
      PROVE  Moves(z) /\ Unwritten(z)'
  <2>1. CASE s # z
    BY <1>0, <1>9, <2>1, OthersSame, OtherRow DEF IncrNextTarget, UpdateRow
  <2> QED  BY <1>9, <2>1, TargetMoves
<1>10. ASSUME NEW s \in Sessions, NEW o \in Outcomes, NEW n \in 1 .. MaxSeq,
              NEW p \in Payloads, SaveMessage(s, n, p, o)
       PROVE  Moves(z) /\ Unwritten(z)'
  <2>1. CASE s # z
    BY <1>0, <1>10, <2>1, OthersSame, OtherRow DEF SaveMessage
  <2> QED  BY <1>0, <1>10, <2>1, RowKept DEF SaveMessage
<1>11. ASSUME NEW s \in Sessions, NEW t \in Times, Close(s) \/ Refresh(s, t)
       PROVE  Moves(z) /\ Unwritten(z)'
  <2>1. CASE s # z
    BY <1>0, <1>11, <2>1, OthersSame, OtherRow DEF Close, Refresh
  <2>2. \E c, r : \E p \in {"none", "select"} : Progress(s, c, p, r)
    BY <1>11 DEF Close, Refresh
  <2> QED  BY <1>0, <1>11, <2>1, <2>2, RowKept DEF Close, Refresh
<1>12. CASE Crash
  BY <1>12 DEF Crash, Moves, Unwritten
<1>13. CASE UNCHANGED vars
  BY <1>0, <1>13, OtherRow DEF vars, SameFor
<1> QED
  BY TimesAssumption, <1>1, <1>2, <1>3, <1>4, <1>5, <1>6, <1>7, <1>8, <1>9, <1>10, <1>11,
     <1>12, <1>13 DEF Next, Call

\* sqlstore.go:318-332: a session's numbers move as its last call says, an
\* increment by one, for any number of sessions, every outcome and every crash.
THEOREM MovesByOne == Spec => NumbersMoveByOne
<1>1. Init => Insertable
  BY DEF Init, Insertable, Unwritten
<1>2. IInv /\ Insertable /\ [Next]_vars => Insertable' /\ [\A s \in Sessions : Moves(s)]_vars
  BY NextMoves
<1> QED  BY <1>1, <1>2, Invariance, PTL DEF Spec, NumbersMoveByOne
=============================================================================
