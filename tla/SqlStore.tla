------------------------------ MODULE SqlStore ------------------------------
(***************************************************************************)
(* The SQL message store of store/sqlstore.go with its write-through cache *)
(* (store/memorystore.go).  One sqlStore object serves one FIX session; the*)
(* objects of a process share the sessions table and the messages table.   *)
(*                                                                         *)
(* The grain of atomicity is the SQL statement: an action runs one         *)
(* statement and the Go code around it up to the next statement, because   *)
(* the code in between touches only the object's own cache, and a crash    *)
(* there loses that cache anyway.                                          *)
(***************************************************************************)
EXTENDS Integers

CONSTANTS
  Values,     \* contents of the session-identifying columns
  Sessions,   \* the configured sessions, each a function Columns -> Values
  Payloads,   \* message bodies
  Times,      \* readings of time.Now()
  ZeroTime,   \* the zero time.Time
  NoRow,      \* a session with no row in the sessions table
  Outcomes,   \* what a statement may do: see Applies and Returned
  MaxSeq      \* bound: sequence numbers explored

\* The columns of every WHERE clause and INSERT: the fields of
\* quickfix.SessionID the code binds.
Columns == {"beginstring", "session_qualifier",
            "sendercompid", "sendersubid", "senderlocid",
            "targetcompid", "targetsubid", "targetlocid"}

ASSUME SessionsAssumption == Sessions \subseteq [Columns -> Values]
ASSUME TimesAssumption    == ZeroTime \in Times
ASSUME OutcomesAssumption == Outcomes \subseteq {"ok", "error", "lost"}
ASSUME MaxSeqAssumption   == MaxSeq \in Nat

VARIABLES
  rows,       \* the sessions table: key -> row or NoRow
  messages,   \* the messages table: key -> set of stored messages
  cache,      \* store.cache of each session's sqlStore
  pc,         \* where each store object is between two statements
  op,         \* the last call made on each store object
  result,     \* what that call returned
  doubt       \* history: cache fields a failed call left unconfirmed

vars == <<rows, messages, cache, pc, op, result, doubt>>

-----------------------------------------------------------------------------
(* Database                                                                *)

\* Mutant: a WHERE clause that forgets session_qualifier.
RowKeyNoQualifier(s) ==
  [c \in Columns |-> IF c = "session_qualifier" THEN s["beginstring"] ELSE s[c]]

\* What WHERE beginstring=? AND ... AND targetlocid=? selects.
RowKey(s) == [c \in Columns |-> s[c]]
Keys == {RowKey(s) : s \in Sessions}

\* A statement takes effect and returns nil ("ok"), has no effect and
\* returns an error ("error"), or takes effect but the reply is lost and the
\* driver returns an error ("lost").
Applies(o)  == o # "error"
Returned(o) == IF o = "ok" THEN "nil" ELSE "error"

(* The cache: type memoryStore                                             *)

NextSenderMsgSeqNum(c) == c.sender + 1
NextTargetMsgSeqNum(c) == c.target + 1
ResetCache(t) == [sender |-> 0, target |-> 0, created |-> t]
CacheFields == {"sender", "target", "created"}

\* The row an object's cache stands for, and back (populateCache).
RowOf(c) == [outgoing |-> NextSenderMsgSeqNum(c),
             incoming |-> NextTargetMsgSeqNum(c), created |-> c.created]
\* Mutant: the stored numbers are taken one too low when they are loaded.
CacheOfOffByOne(r) == [sender |-> r.outgoing - 2, target |-> r.incoming - 2,
                       created |-> r.created]
CacheOf(r) == [sender |-> r.outgoing - 1, target |-> r.incoming - 1,
               created |-> r.created]

-----------------------------------------------------------------------------
CacheRecord == [sender : Nat, target : Nat, created : Times]
Row == [outgoing : Nat \ {0}, incoming : Nat \ {0}, created : Times]
Message == [seq : Nat, msg : Payloads]
Calls == {"Create", "Refresh", "Reset", "SetNextSender", "SetNextTarget",
          "IncrNextSender", "IncrNextTarget", "SaveMessage", "Close"}

ASSUME NoRowAssumption == NoRow \notin Row

TypeOK ==
  /\ rows \in [Keys -> Row \cup {NoRow}]
  /\ messages \in [Keys -> SUBSET Message]
  /\ cache \in [Sessions -> CacheRecord]
  /\ pc \in [Sessions -> {"none", "select", "insert", "idle", "update"}]
  /\ op \in [Sessions -> Calls]
  /\ result \in [Sessions -> {"nil", "error", "pending"}]
  /\ doubt \in [Sessions -> SUBSET CacheFields]

Init ==
  /\ rows = [k \in Keys |-> NoRow]
  /\ messages = [k \in Keys |-> {}]
  /\ cache = [s \in Sessions |-> ResetCache(ZeroTime)]
  /\ pc = [s \in Sessions |-> "none"]
  /\ op = [s \in Sessions |-> "Close"]
  /\ result = [s \in Sessions |-> "nil"]
  /\ doubt = [s \in Sessions |-> {}]

\* Call c on the store of s is at p with outcome r.
Progress(s, c, p, r) ==
  /\ pc' = [pc EXCEPT ![s] = p]
  /\ op' = [op EXCEPT ![s] = c]
  /\ result' = [result EXCEPT ![s] = r]

\* History: the call confirmed fields F (nil) or left them in doubt (error).
Confirm(s, F, r) ==
  doubt' = [doubt EXCEPT ![s] = IF r = "nil" THEN @ \ F ELSE @ \cup F]

-----------------------------------------------------------------------------
(* sqlStoreFactory.Create, newSQLStore: reset the cache, open and ping the *)
(* database, then populate the cache.                                      *)
Create(s, t, o) ==
  /\ pc[s] = "none"
  /\ IF o = "ok"
     THEN /\ cache' = [cache EXCEPT ![s] = ResetCache(t)]
          /\ Progress(s, "Create", "select", "pending")
     ELSE /\ Progress(s, "Create", "none", "error")
          /\ UNCHANGED cache
  /\ UNCHANGED <<rows, messages, doubt>>

\* Refresh: reset the cache, then reload it.
Refresh(s, t) ==
  /\ pc[s] = "idle"
  /\ cache' = [cache EXCEPT ![s] = ResetCache(t)]
  /\ Progress(s, "Refresh", "select", "pending")
  /\ UNCHANGED <<rows, messages, doubt>>

\* populateCache returns to its caller: an error leaves Create without a
\* store and Refresh with the cache it has just reset.
PopulateFails(s) ==
  /\ Confirm(s, CacheFields, "error")
  /\ Progress(s, op[s], IF op[s] = "Create" THEN "none" ELSE "idle", "error")
  /\ cache' = [cache EXCEPT ![s] = IF op[s] = "Create"
                                   THEN ResetCache(ZeroTime) ELSE @]

\* Mutant: sql.ErrNoRows is not told from a loaded row, nothing is inserted.
PopulateSelectNoInsert(s, o) ==
  /\ pc[s] = "select"
  /\ Progress(s, op[s], "idle", "nil")
  /\ Confirm(s, CacheFields, "nil")
  /\ UNCHANGED <<rows, messages, cache>>

\* populateCache, first half: SELECT the session's row and load it.
PopulateSelect(s, o) ==
  /\ pc[s] = "select"
  /\ UNCHANGED <<rows, messages>>
  /\ \/ /\ o = "ok" /\ rows[RowKey(s)] # NoRow
        /\ cache' = [cache EXCEPT ![s] = CacheOf(rows[RowKey(s)])]
        /\ Confirm(s, CacheFields, "nil")
        /\ Progress(s, op[s], "idle", "nil")
     \/ /\ o = "ok" /\ rows[RowKey(s)] = NoRow
        /\ Progress(s, op[s], "insert", "pending")
        /\ UNCHANGED <<cache, doubt>>
     \/ o # "ok" /\ PopulateFails(s)

\* populateCache, second half: no row was found, INSERT one.
PopulateInsert(s, o) ==
  /\ pc[s] = "insert"
  /\ rows' = IF Applies(o)
             THEN [rows EXCEPT ![RowKey(s)] = RowOf(cache[s])] ELSE rows
  /\ \/ /\ o = "ok"
        /\ Confirm(s, CacheFields, "nil")
        /\ Progress(s, op[s], "idle", "nil")
        /\ UNCHANGED cache
     \/ o # "ok" /\ PopulateFails(s)
  /\ UNCHANGED messages

\* Mutant: the cache is not reset before the UPDATE reads it.
ResetKeepsCache(s, t, o) ==
  /\ pc[s] = "idle"
  /\ messages' = IF Applies(o)
                 THEN [messages EXCEPT ![RowKey(s)] = {}] ELSE messages
  /\ IF o = "ok" THEN Progress(s, "Reset", "update", "pending")
                 ELSE Progress(s, "Reset", "idle", "error")
  /\ UNCHANGED <<rows, cache, doubt>>

\* Mutant: the messages are not deleted.
ResetKeepsMessages(s, t, o) ==
  /\ pc[s] = "idle"
  /\ IF o = "ok"
     THEN /\ cache' = [cache EXCEPT ![s] = ResetCache(t)]
          /\ Progress(s, "Reset", "update", "pending")
     ELSE /\ Progress(s, "Reset", "idle", "error")
          /\ UNCHANGED cache
  /\ UNCHANGED <<rows, messages, doubt>>

(* Reset, first half: DELETE the session's messages, then reset the cache. *)
Reset(s, t, o) ==
  /\ pc[s] = "idle"
  /\ messages' = IF Applies(o)
                 THEN [messages EXCEPT ![RowKey(s)] = {}] ELSE messages
  /\ IF o = "ok"
     THEN /\ cache' = [cache EXCEPT ![s] = ResetCache(t)]
          /\ Progress(s, "Reset", "update", "pending")
     ELSE /\ Progress(s, "Reset", "idle", "error")
          /\ UNCHANGED cache
  /\ UNCHANGED <<rows, doubt>>

\* An UPDATE of the session's row; it matches nothing when there is none.
UpdateRow(s, o, row) ==
  rows' = IF Applies(o) /\ rows[RowKey(s)] # NoRow
          THEN [rows EXCEPT ![RowKey(s)] = row] ELSE rows

\* Reset, second half: UPDATE the row from the reset cache.
ResetUpdate(s, o) ==
  /\ pc[s] = "update"
  /\ UpdateRow(s, o, RowOf(cache[s]))
  /\ Confirm(s, CacheFields, Returned(o))
  /\ Progress(s, "Reset", "idle", Returned(o))
  /\ UNCHANGED <<messages, cache>>

\* Mutant: the cache is not told.
SetNextSenderRowOnly(s, next, o) ==
  /\ pc[s] = "idle"
  /\ UpdateRow(s, o, [rows[RowKey(s)] EXCEPT !.outgoing = next])
  /\ Confirm(s, {"sender"}, Returned(o))
  /\ Progress(s, "SetNextSender", "idle", Returned(o))
  /\ UNCHANGED <<messages, cache>>

\* SetNextSenderMsgSeqNum: the row first, the cache only if that worked.
SetNextSender(s, next, o) ==
  /\ pc[s] = "idle"
  /\ UpdateRow(s, o, [rows[RowKey(s)] EXCEPT !.outgoing = next])
  /\ cache' = IF o = "ok" THEN [cache EXCEPT ![s].sender = next - 1] ELSE cache
  /\ Confirm(s, {"sender"}, Returned(o))
  /\ Progress(s, "SetNextSender", "idle", Returned(o))
  /\ UNCHANGED messages

SetNextTarget(s, next, o) ==
  /\ pc[s] = "idle"
  /\ UpdateRow(s, o, [rows[RowKey(s)] EXCEPT !.incoming = next])
  /\ cache' = IF o = "ok" THEN [cache EXCEPT ![s].target = next - 1] ELSE cache
  /\ Confirm(s, {"target"}, Returned(o))
  /\ Progress(s, "SetNextTarget", "idle", Returned(o))
  /\ UNCHANGED messages

\* Mutant: the number written to the row is read before the increment.
IncrNextSenderReadsEarly(s, o) ==
  LET next == NextSenderMsgSeqNum(cache[s]) + 1 IN
  /\ pc[s] = "idle" /\ next <= MaxSeq + 1
  /\ UpdateRow(s, o, [rows[RowKey(s)] EXCEPT !.outgoing = next - 1])
  /\ cache' = [cache EXCEPT ![s].sender = next - 1]
  /\ Confirm(s, {"sender"}, Returned(o))
  /\ Progress(s, "IncrNextSender", "idle", Returned(o))
  /\ UNCHANGED messages

\* IncrNextSenderMsgSeqNum: the cache first, then SetNextSenderMsgSeqNum of
\* what the cache now says; a failing UPDATE leaves the cache incremented.
IncrNextSender(s, o) ==
  LET next == NextSenderMsgSeqNum(cache[s]) + 1 IN
  /\ pc[s] = "idle" /\ next <= MaxSeq + 1
  /\ UpdateRow(s, o, [rows[RowKey(s)] EXCEPT !.outgoing = next])
  /\ cache' = [cache EXCEPT ![s].sender = next - 1]
  /\ Confirm(s, {"sender"}, Returned(o))
  /\ Progress(s, "IncrNextSender", "idle", Returned(o))
  /\ UNCHANGED messages

IncrNextTarget(s, o) ==
  LET next == NextTargetMsgSeqNum(cache[s]) + 1 IN
  /\ pc[s] = "idle" /\ next <= MaxSeq + 1
  /\ UpdateRow(s, o, [rows[RowKey(s)] EXCEPT !.incoming = next])
  /\ cache' = [cache EXCEPT ![s].target = next - 1]
  /\ Confirm(s, {"target"}, Returned(o))
  /\ Progress(s, "IncrNextTarget", "idle", Returned(o))
  /\ UNCHANGED messages

\* The messages table refuses a second row for a session and number (its
\* primary key in the schema quickfix ships).
Stored(s, n) == \E m \in messages[RowKey(s)] : m.seq = n

\* Mutant: the error of the INSERT is not returned.
SaveMessageNoError(s, n, p, o) ==
  /\ pc[s] = "idle"
  /\ Stored(s, n) => o = "error"
  /\ messages' = IF Applies(o)
                 THEN [messages EXCEPT ![RowKey(s)] =
                                         @ \cup {[seq |-> n, msg |-> p]}]
                 ELSE messages
  /\ Progress(s, "SaveMessage", "idle", "nil")
  /\ UNCHANGED <<rows, cache, doubt>>

SaveMessage(s, n, p, o) ==
  /\ pc[s] = "idle"
  /\ Stored(s, n) => o = "error"
  /\ messages' = IF Applies(o)
                 THEN [messages EXCEPT ![RowKey(s)] =
                                         @ \cup {[seq |-> n, msg |-> p]}]
                 ELSE messages
  /\ Progress(s, "SaveMessage", "idle", Returned(o))
  /\ UNCHANGED <<rows, cache, doubt>>

\* GetMessages: what SELECT ... msgseqnum>=? AND msgseqnum<=? returns.
GetMessages(s, begin, end) ==
  {m \in messages[RowKey(s)] : begin <= m.seq /\ m.seq <= end}

(* Close drops the connection pool; a later store is built by Create.      *)
Close(s) ==
  /\ pc[s] = "idle"
  /\ cache' = [cache EXCEPT ![s] = ResetCache(ZeroTime)]
  /\ Progress(s, "Close", "none", "nil")
  /\ UNCHANGED <<rows, messages, doubt>>

\* The process dies between any two statements: every store object is gone.
Crash ==
  /\ \E s \in Sessions : pc[s] # "none"
  /\ pc' = [s \in Sessions |-> "none"]
  /\ cache' = [s \in Sessions |-> ResetCache(ZeroTime)]
  /\ op' = [s \in Sessions |-> "Close"]
  /\ result' = [s \in Sessions |-> "nil"]
  /\ UNCHANGED <<rows, messages, doubt>>

\* Whatever the caller of the store of s does, the statement having an outcome
\* in O and the clock a reading in T.
Call(s, O, T) ==
  \/ \E o \in O :
       \/ \E t \in T : Create(s, t, o) \/ Reset(s, t, o)
       \/ PopulateSelect(s, o) \/ PopulateInsert(s, o) \/ ResetUpdate(s, o)
       \/ \E n \in 1 .. MaxSeq + 1 :
            SetNextSender(s, n, o) \/ SetNextTarget(s, n, o)
       \/ IncrNextSender(s, o) \/ IncrNextTarget(s, o)
       \/ \E n \in 1 .. MaxSeq, p \in Payloads : SaveMessage(s, n, p, o)
  \/ Close(s) \/ \E t \in T : Refresh(s, t)

Next == (\E s \in Sessions : Call(s, Outcomes, Times)) \/ Crash

Spec == Init /\ [][Next]_vars

-----------------------------------------------------------------------------
(* Properties                                                              *)

\* A store a caller holds has its row, so that none of its UPDATEs silently
\* matches nothing: populateCache never ends in success without one.
RowPresent ==
  \A s \in Sessions : pc[s] \in {"idle", "update"} => rows[RowKey(s)] # NoRow

\* Cache c says what row r says, but for the fields in D.
Agree(c, r, D) ==
  /\ "sender"  \notin D => NextSenderMsgSeqNum(c) = r.outgoing
  /\ "target"  \notin D => NextTargetMsgSeqNum(c) = r.incoming
  /\ "created" \notin D => c.created = r.created

\* Between two calls the cache, which answers every read, says what the
\* session's row says, except in the fields of a call that failed and has
\* not been followed by a call that confirms them.  Every writer must keep
\* cache and row together, and no other session may write the row.
Agreement ==
  \A s \in Sessions : pc[s] = "idle" =>
    rows[RowKey(s)] # NoRow /\ Agree(cache[s], rows[RowKey(s)], doubt[s])

\* "Reset deletes the store records and sets the seqnums back to 1": a Reset
\* that returned nil leaves no message, and 1 in both places a number is kept.
ResetComplete ==
  \A s \in Sessions :
    pc[s] = "idle" /\ op[s] = "Reset" /\ result[s] = "nil" =>
      /\ messages[RowKey(s)] = {}
      /\ rows[RowKey(s)].outgoing = 1 /\ rows[RowKey(s)].incoming = 1
      /\ cache[s].sender = 0 /\ cache[s].target = 0

\* "IncrNextSenderMsgSeqNum increments the next MsgSeqNum that will be sent":
\* a call that returns nil moves the persisted number up by one.
IncrByOne ==
  [][\A s \in Sessions : IncrNextSender(s, "ok") =>
       rows'[RowKey(s)].outgoing = rows[RowKey(s)].outgoing + 1]_vars

\* What may happen to the row of s in a step: a call that sets or resets the
\* numbers may write anything, an increment moves its own number by one and
\* nothing else, unless a failed call had left the cached number in doubt.
Moves(s) ==
  LET row == rows[RowKey(s)]
      new == rows'[RowKey(s)]
  IN  \/ row = NoRow \/ new = row
      \/ op'[s] \in {"SetNextSender", "SetNextTarget", "Reset"}
      \/ /\ op'[s] = "IncrNextSender"
         /\ new = [row EXCEPT !.outgoing = new.outgoing]
         /\ "sender" \in doubt[s] \/ new.outgoing = row.outgoing + 1
      \/ /\ op'[s] = "IncrNextTarget"
         /\ new = [row EXCEPT !.incoming = new.incoming]
         /\ "target" \in doubt[s] \/ new.incoming = row.incoming + 1

\* sqlstore.go:318-332: the numbers of a session that is there move as its last
\* call says, by one if that is an increment, whatever other sessions do and
\* wherever the process died before. Without the exception of a number in doubt
\* the code does not keep it (IncrByOne).
NumbersMoveByOne == [][\A s \in Sessions : Moves(s)]_vars
=============================================================================
