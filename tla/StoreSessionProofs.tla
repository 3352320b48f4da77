------------------------- MODULE StoreSessionProofs -------------------------
(* Proofs about StoreSession: the numbers on the wire, what a resend finds,  *)
(* and the implementation of OutgoingLog, for any sessions that share the    *)
(* tables, any statement outcomes, crashes and settings.                     *)
EXTENDS StoreSession, SqlStoreProofs

-----------------------------------------------------------------------------
(* The inductive invariant.  RowKey(s) is s (RowKeyIsSession).              *)

\* Where a session is between two statements, in its logon and in persist().
ControlInv(s) ==
  /\ pc[s] = "none" => phase[s] = "latent"
  /\ pc[s] \in {"select", "insert"} =>
       /\ cache[s].sender = 0
       /\ \/ op[s] = "Create" /\ phase[s] = "latent"
          \/ op[s] = "Refresh" /\ phase[s] = "refresh" /\ "RefreshOnLogon" \in settings
  /\ pc[s] = "insert" => rows[s] = NoRow
  /\ pc[s] = "update" =>
       phase[s] = "reset" /\ cache[s].sender = 0 /\ messages[s] = {}
  /\ phase[s] = "refresh" => pc[s] \in {"select", "insert"}
  /\ phase[s] = "on" => pc[s] = "idle"
  /\ sending[s] # NotSending =>
       /\ phase[s] = "on"
       /\ sending[s] \in messages[s] /\ sending[s].seq = cache[s].sender + 1

\* What went out is stored, below the row's number and not above the cache's;
\* only a Refresh that failed may leave the cache behind, and then the next
\* logon refreshes again.
WireInv(s) ==
  /\ \A a, b \in messages[s] : a.seq = b.seq => a = b
  /\ wire[s] \subseteq messages[s]
  /\ rows[s] = NoRow => messages[s] = {}
  /\ \A m \in wire[s] : m.seq < rows[s].outgoing
  /\ pc[s] = "idle" /\ ~(phase[s] = "latent" /\ "RefreshOnLogon" \in settings) =>
       \A m \in wire[s] : m.seq <= cache[s].sender

\* No message is stored above n, or one is stored under n, so that a message
\* saved under n is the newest or is refused.
Heads(s, n) == \/ \E m \in messages[s] : m.seq = n
               \/ \A m \in messages[s] : m.seq <= n

\* The order of the log.  The row's number may have been left behind by a
\* failed UPDATE, but then a message is stored under it.
OrderInv(s) ==
  /\ rows[s] # NoRow => Heads(s, rows[s].outgoing)
  /\ phase[s] = "on" =>
       /\ Heads(s, cache[s].sender + 1)
       /\ \/ rows[s].outgoing = cache[s].sender + 1
          \/ \E m \in messages[s] : m.seq = rows[s].outgoing
  /\ sending[s] # NotSending => \A m \in messages[s] : m.seq <= sending[s].seq

\* Without a setting that reloads or resets the store at logon, a failed Reset
\* leaves a session on line whose cache is behind its row.
SessionInv(s) == ControlInv(s) /\ WireInv(s) /\ (settings # {} => OrderInv(s))

SessionIInv == SessionTypeOK /\ IInv /\ \A s \in Sessions : SessionInv(s)

-----------------------------------------------------------------------------
(* The session takes only steps of the store                               *)

LEMMA StoreStep == SessionTypeOK /\ [SessionNext]_allvars => [Next]_vars
<1> SUFFICES ASSUME SessionTypeOK, [SessionNext]_allvars
             PROVE  [Next]_vars
  OBVIOUS
<1>1. ASSUME NEW s \in Sessions, NEW o \in Outcomes, NEW p \in Payloads, Persist(s, p, o)
      PROVE  Next
  <2>1. NextSenderMsgSeqNum(cache[s]) \in 1 .. MaxSeq
    BY <1>1, MaxSeqAssumption
    DEF Persist, SessionTypeOK, TypeOK, CacheRecord, NextSenderMsgSeqNum
  <2> QED
    BY <1>1, <2>1 DEF Persist, Next, Call
<1>2. ASSUME NEW s \in Sessions, NEW o \in Outcomes,
             \/ \E t \in Times : Start(s, t, o) \/ LogonReset(s, t, o)
             \/ Populate(s, o) \/ LogonResetUpdate(s, o)
             \/ PersistIncr(s, o) \/ Receive(s, o)
      PROVE  Next
  BY <1>2 DEF Start, LogonReset, Populate, LogonResetUpdate, PersistIncr, Receive, Next, Call
<1>3. ASSUME NEW s \in Sessions, Disconnect(s) \/ \E t \in Times : Logon(s, t)
      PROVE  [Next]_vars
  BY <1>3 DEF Disconnect, Logon, Next, Call
<1>4. CASE SessionCrash
  BY <1>4 DEF SessionCrash, Next
<1>5. CASE UNCHANGED allvars
  BY <1>5 DEF allvars
<1> QED
  BY <1>1, <1>2, <1>3, <1>4, <1>5 DEF SessionNext

LEMMA SessionTypeStep == SessionTypeOK /\ [SessionNext]_allvars => SessionTypeOK'
<1> SUFFICES ASSUME SessionTypeOK, [SessionNext]_allvars
             PROVE  SessionTypeOK'
  OBVIOUS
<1>0. TypeOK'
  BY StoreStep, NextTypeOK DEF SessionTypeOK
<1> DEFINE Rest == /\ settings \in Settings
                   /\ phase \in [Sessions -> {"latent", "refresh", "reset", "on"}]
                   /\ sending \in [Sessions -> {NotSending} \cup Message]
                   /\ wire \in [Sessions -> SUBSET Message]
<1> SUFFICES Rest'
  BY <1>0 DEF SessionTypeOK
<1>a. Rest
  BY DEF SessionTypeOK
<1>1. ASSUME NEW s \in Sessions, NEW o \in Outcomes, NEW p \in Payloads, Persist(s, p, o)
      PROVE  Rest'
  <2>1. [seq |-> NextSenderMsgSeqNum(cache[s]), msg |-> p] \in Message
    BY DEF SessionTypeOK, TypeOK, CacheRecord, NextSenderMsgSeqNum, Message
  <2> QED
    BY <1>a, <1>1, <2>1 DEF Persist
<1>2. ASSUME NEW s \in Sessions, NEW o \in Outcomes, PersistIncr(s, o)
      PROVE  Rest'
  BY <1>a, <1>2 DEF PersistIncr
<1>3. ASSUME NEW s \in Sessions, NEW o \in Outcomes,
             Populate(s, o) \/ LogonResetUpdate(s, o) \/ \E t \in Times : LogonReset(s, t, o)
      PROVE  Rest'
  BY <1>a, <1>3 DEF Populate, LogonResetUpdate, LogonReset, Goto, AfterRefresh
<1>4. ASSUME NEW s \in Sessions, NEW o \in Outcomes,
             Receive(s, o) \/ \E t \in Times : Start(s, t, o)
      PROVE  Rest'
  BY <1>a, <1>4 DEF Receive, Start, svars
<1>5. ASSUME NEW s \in Sessions, Disconnect(s) \/ \E t \in Times : Logon(s, t)
      PROVE  Rest'
  BY <1>a, <1>5 DEF Disconnect, Logon, Goto, AfterRefresh
<1>6. CASE SessionCrash
  BY <1>a, <1>6 DEF SessionCrash
<1>7. CASE UNCHANGED allvars
  BY <1>a, <1>7 DEF allvars, svars
<1> QED
  BY <1>1, <1>2, <1>3, <1>4, <1>5, <1>6, <1>7 DEF SessionNext

-----------------------------------------------------------------------------
(* A step of a session and its own invariant                               *)

\* The state of z is untouched.
SessionSame(z) ==
  /\ pc'[z] = pc[z] /\ op'[z] = op[z] /\ cache'[z] = cache[z]
  /\ rows'[z] = rows[z] /\ messages'[z] = messages[z]
  /\ phase'[z] = phase[z] /\ sending'[z] = sending[z] /\ wire'[z] = wire[z]
  /\ settings' = settings

LEMMA SessionFrame ==
  ASSUME NEW z \in Sessions, SessionInv(z), SessionSame(z)
  PROVE  SessionInv(z)'
BY DEF SessionInv, SessionSame, ControlInv, WireInv, OrderInv, Heads

\* What is stored has a number, and so does a row and a cache.
LEMMA SessionFacts ==
  ASSUME SessionIInv, NEW s \in Sessions
  PROVE  /\ RowKey(s) = s /\ Keys = Sessions
         /\ cache[s].sender \in Nat
         /\ rows[s] # NoRow => rows[s].outgoing \in Nat \ {0}
         /\ messages[s] \subseteq Message /\ \A m \in messages[s] : m.seq \in Nat
         /\ SessionInv(s) /\ StoreInv(s)
         /\ settings \subseteq {"RefreshOnLogon", "ResetOnLogon"}
BY RowKeyIsSession, KeysAreSessions, SettingsAssumption
DEF SessionIInv, SessionTypeOK, TypeOK, IInv, CacheRecord, Row, Message

LEMMA StartInv ==
  ASSUME SessionIInv, NEW s \in Sessions, NEW t \in Times, NEW o, Start(s, t, o)
  PROVE  SessionInv(s)'
<1>1. /\ phase' = phase /\ sending' = sending /\ wire' = wire /\ settings' = settings
      /\ rows' = rows /\ messages' = messages /\ pc[s] = "none"
  BY DEF Start, svars, Create
<1>2. \/ pc'[s] = "none" /\ cache'[s] = cache[s]
      \/ pc'[s] = "select" /\ op'[s] = "Create" /\ cache'[s].sender = 0
  BY DEF Start, Create, Progress, ResetCache, SessionIInv, SessionTypeOK, TypeOK
<1> QED
  BY <1>1, <1>2, SessionFacts DEF SessionInv, ControlInv, WireInv, OrderInv, Heads

LEMMA LogonInv ==
  ASSUME SessionIInv, NEW s \in Sessions, NEW t \in Times, Logon(s, t)
  PROVE  SessionInv(s)'
<1>1. /\ sending' = sending /\ wire' = wire /\ settings' = settings
      /\ rows' = rows /\ messages' = messages
      /\ pc[s] = "idle" /\ phase[s] = "latent"
  BY DEF Logon, Refresh, vars
<1>2. CASE "RefreshOnLogon" \in settings
  <2>1. /\ pc'[s] = "select" /\ op'[s] = "Refresh" /\ cache'[s].sender = 0
        /\ phase'[s] = "refresh"
    BY <1>2 DEF Logon, Refresh, Goto, Progress, ResetCache, SessionIInv, SessionTypeOK, TypeOK
  <2> QED
    BY <1>1, <1>2, <2>1, SessionFacts DEF SessionInv, ControlInv, WireInv, OrderInv, Heads
<1>3. CASE "RefreshOnLogon" \notin settings
  <2>1. /\ pc' = pc /\ op' = op /\ cache' = cache
        /\ phase'[s] \in {"reset", "on"} /\ (settings # {} => phase'[s] = "reset")
    BY <1>3, SessionFacts DEF Logon, Goto, AfterRefresh, vars, SessionIInv, SessionTypeOK
  <2> QED
    BY <1>1, <1>3, <2>1, SessionFacts DEF SessionInv, ControlInv, WireInv, OrderInv, Heads
<1> QED
  BY <1>2, <1>3

\* A Create or Refresh that failed.
LEMMA PopulateFailsSession ==
  ASSUME SessionIInv, NEW s \in Sessions, PopulateFails(s), pc[s] \in {"select", "insert"},
         messages' = messages, sending' = sending, wire' = wire, settings' = settings,
         rows'[s] = rows[s] \/ (rows[s] = NoRow /\ rows'[s].outgoing = cache[s].sender + 1),
         rows'[s] # NoRow \/ rows'[s] = rows[s],
         phase'[s] = "latent"
  PROVE  SessionInv(s)'
<1>1. CASE op[s] = "Create"
  <2>1. pc'[s] = "none"
    BY <1>1 DEF PopulateFails, Progress, SessionIInv, SessionTypeOK, TypeOK
  <2> QED
    BY <2>1, SessionFacts DEF SessionInv, ControlInv, WireInv, OrderInv, Heads
<1>2. CASE op[s] # "Create"
  <2>1. pc'[s] = "idle"
    BY <1>2 DEF PopulateFails, Progress, SessionIInv, SessionTypeOK, TypeOK
  <2> QED
    BY <1>2, <2>1, SessionFacts DEF SessionInv, ControlInv, WireInv, OrderInv, Heads
<1> QED
  BY <1>1, <1>2

\* One that worked: the cache is the row's.
LEMMA PopulatedSession ==
  ASSUME SessionIInv, NEW s \in Sessions, pc[s] \in {"select", "insert"}, pc'[s] = "idle",
         messages' = messages, sending' = sending, wire' = wire, settings' = settings,
         rows'[s] # NoRow, rows'[s].outgoing = cache'[s].sender + 1,
         cache'[s].sender \in Nat,
         rows'[s] = rows[s] \/ rows[s] = NoRow,
         phase'[s] \in {"latent", "reset", "on"}
  PROVE  SessionInv(s)'
BY SessionFacts DEF SessionInv, ControlInv, WireInv, OrderInv, Heads

LEMMA PopulateInv ==
  ASSUME SessionIInv, NEW s \in Sessions, NEW o \in Outcomes, Populate(s, o)
  PROVE  SessionInv(s)'
<1>1. /\ messages' = messages /\ sending' = sending /\ wire' = wire /\ settings' = settings
      /\ pc[s] \in {"select", "insert"} /\ phase[s] \in {"latent", "refresh"}
      /\ op[s] = "Create" <=> phase[s] = "latent"
  BY SessionFacts DEF Populate, PopulateSelect, PopulateInsert, SessionInv, ControlInv
<1>2. \/ result'[s] = "pending" /\ phase' = phase
      \/ result'[s] = "error" /\ phase'[s] = "latent"
      \/ result'[s] = "nil" /\ phase'[s] \in {"latent", "reset", "on"}
  <2>1. result'[s] \in {"pending", "error", "nil"}
    BY DEF Populate, PopulateSelect, PopulateInsert, PopulateFails, Progress,
           SessionIInv, SessionTypeOK, TypeOK
  <2> QED
    BY <1>1, <2>1 DEF Populate, Goto, AfterRefresh, SessionIInv, SessionTypeOK
<1>3. CASE PopulateFails(s)
  <2>1. result'[s] = "error"
    BY <1>3 DEF PopulateFails, Progress, SessionIInv, SessionTypeOK, TypeOK
  <2>2. \/ rows'[s] = rows[s]
        \/ rows[s] = NoRow /\ rows'[s] = RowOf(cache[s])
    BY SessionFacts DEF Populate, PopulateSelect, PopulateInsert, SessionInv, ControlInv,
       SessionIInv, SessionTypeOK, TypeOK
  <2>3. RowOf(cache[s]) \in Row /\ RowOf(cache[s]).outgoing = cache[s].sender + 1
    BY RowOfType DEF RowOf, NextSenderMsgSeqNum, SessionIInv, SessionTypeOK, TypeOK
  <2> QED
    BY <1>1, <1>2, <1>3, <2>1, <2>2, <2>3, NoRowAssumption, PopulateFailsSession
<1>4. CASE PopulateSelect(s, o) /\ o = "ok" /\ rows[s] # NoRow
  <2>1. /\ pc'[s] = "idle" /\ result'[s] = "nil" /\ rows' = rows
        /\ cache'[s] = CacheOf(rows[s])
    BY <1>4, SessionFacts DEF PopulateSelect, Progress, SessionIInv, SessionTypeOK, TypeOK
  <2>2. cache'[s].sender = rows[s].outgoing - 1
    BY <2>1 DEF CacheOf
  <2> QED
    BY <1>1, <1>2, <1>4, <2>1, <2>2, SessionFacts, PopulatedSession
<1>5. CASE PopulateSelect(s, o) /\ o = "ok" /\ rows[s] = NoRow
  <2>1. /\ pc'[s] = "insert" /\ result'[s] = "pending" /\ op'[s] = op[s]
        /\ rows' = rows /\ cache' = cache
    BY <1>5, SessionFacts DEF PopulateSelect, Progress, SessionIInv, SessionTypeOK, TypeOK
  <2> QED
    BY <1>1, <1>2, <1>5, <2>1, SessionFacts
    DEF SessionInv, ControlInv, WireInv, OrderInv, Heads
<1>6. CASE PopulateInsert(s, o) /\ o = "ok"
  <2>1. /\ pc'[s] = "idle" /\ result'[s] = "nil" /\ cache' = cache /\ rows[s] = NoRow
        /\ rows'[s] = RowOf(cache[s])
    BY <1>6, SessionFacts DEF PopulateInsert, Applies, Progress, SessionIInv, SessionTypeOK,
       TypeOK, SessionInv, ControlInv
  <2>2. RowOf(cache[s]) \in Row /\ RowOf(cache[s]).outgoing = cache[s].sender + 1
    BY RowOfType DEF RowOf, NextSenderMsgSeqNum, SessionIInv, SessionTypeOK, TypeOK
  <2> QED
    BY <1>1, <1>2, <2>1, <2>2, NoRowAssumption, SessionFacts, PopulatedSession
<1> QED
  BY <1>3, <1>4, <1>5, <1>6, SessionFacts DEF Populate, PopulateSelect, PopulateInsert

LEMMA LogonResetInv ==
  ASSUME SessionIInv, NEW s \in Sessions, NEW t \in Times, NEW o \in Outcomes,
         LogonReset(s, t, o)
  PROVE  SessionInv(s)'
<1>1. /\ rows' = rows /\ sending' = sending /\ settings' = settings
      /\ pc[s] = "idle" /\ phase[s] = "reset"
      /\ messages'[s] = IF Applies(o) THEN {} ELSE messages[s]
      /\ wire'[s] = IF Applies(o) THEN {} ELSE wire[s]
  BY SessionFacts DEF LogonReset, Reset, SessionIInv, SessionTypeOK, TypeOK
<1>2. CASE o = "ok"
  <2>1. pc'[s] = "update" /\ phase' = phase /\ cache'[s].sender = 0
    BY <1>2 DEF LogonReset, Reset, Progress, ResetCache, SessionIInv, SessionTypeOK, TypeOK
  <2> QED
    BY <1>1, <1>2, <2>1, SessionFacts
    DEF Applies, SessionInv, ControlInv, WireInv, OrderInv, Heads
<1>3. CASE o # "ok"
  <2>1. pc'[s] = "idle" /\ phase'[s] = "latent" /\ cache' = cache
    BY <1>3 DEF LogonReset, Reset, Progress, Goto, SessionIInv, SessionTypeOK, TypeOK
  <2>2. CASE Applies(o)
    BY <1>1, <2>1, <2>2, SessionFacts DEF SessionInv, ControlInv, WireInv, OrderInv, Heads
  <2>3. CASE ~Applies(o)
    BY <1>1, <2>1, <2>3, SessionFacts DEF SessionInv, ControlInv, WireInv, OrderInv, Heads
  <2> QED
    BY <2>2, <2>3
<1> QED
  BY <1>2, <1>3

LEMMA LogonResetUpdateInv ==
  ASSUME SessionIInv, NEW s \in Sessions, NEW o \in Outcomes, LogonResetUpdate(s, o)
  PROVE  SessionInv(s)'
<1>1. /\ messages' = messages /\ cache' = cache /\ sending' = sending /\ wire' = wire
      /\ settings' = settings
      /\ pc[s] = "update" /\ pc'[s] = "idle"
      /\ phase'[s] = IF o = "ok" THEN "on" ELSE "latent"
  BY DEF LogonResetUpdate, ResetUpdate, Progress, Goto, SessionIInv, SessionTypeOK, TypeOK
<1>2. /\ rows[s] # NoRow /\ cache[s].sender = 0 /\ messages[s] = {} /\ wire[s] = {}
      /\ sending[s] = NotSending
  BY <1>1, SessionFacts DEF StoreInv, SessionInv, ControlInv, WireInv
<1>3. RowOf(cache[s]) \in Row /\ RowOf(cache[s]).outgoing = 1
  BY <1>2, RowOfType DEF RowOf, NextSenderMsgSeqNum, SessionIInv, SessionTypeOK, TypeOK
<1>4. rows'[s] = IF Applies(o) THEN RowOf(cache[s]) ELSE rows[s]
  BY <1>2, SessionFacts
  DEF LogonResetUpdate, ResetUpdate, UpdateRow, SessionIInv, SessionTypeOK, TypeOK
<1> QED
  BY <1>1, <1>2, <1>3, <1>4, NoRowAssumption
  DEF Applies, SessionInv, ControlInv, WireInv, OrderInv, Heads

LEMMA PersistInv ==
  ASSUME SessionIInv, NEW s \in Sessions, NEW o \in Outcomes, NEW p \in Payloads,
         Persist(s, p, o)
  PROVE  SessionInv(s)'
<1> DEFINE n == cache[s].sender + 1
           m == [seq |-> n, msg |-> p]
<1>1. /\ rows' = rows /\ cache' = cache /\ phase' = phase /\ wire' = wire
      /\ settings' = settings
      /\ phase[s] = "on" /\ pc[s] = "idle" /\ pc'[s] = "idle" /\ sending[s] = NotSending
      /\ rows[s] # NoRow
  BY SessionFacts DEF Persist, Free, SaveMessage, Progress, StoreInv,
     SessionIInv, SessionTypeOK, TypeOK
<1>2. /\ messages'[s] = IF Applies(o) THEN messages[s] \cup {m} ELSE messages[s]
      /\ Applies(o) => \A a \in messages[s] : a.seq # n
      /\ sending'[s] = IF o = "ok" THEN m ELSE NotSending
  BY <1>1, SessionFacts DEF Persist, SaveMessage, Stored, Applies, Returned, Progress,
     NextSenderMsgSeqNum, SessionIInv, SessionTypeOK, TypeOK
<1>3. n \in Nat /\ m.seq = n /\ \A a \in messages[s] : a.seq \in Nat
  BY SessionFacts
<1> HIDE DEF n, m
<1>4. ControlInv(s)'
  <2>1. n = cache[s].sender + 1
    BY DEF n
  <2> QED
    BY <1>1, <1>2, <1>3, <2>1, SessionFacts DEF SessionInv, ControlInv, Applies
<1>5. WireInv(s)'
  BY <1>1, <1>2, <1>3, SessionFacts DEF SessionInv, WireInv
<1>6. ASSUME settings # {}
      PROVE  OrderInv(s)'
  <2>1. n = cache[s].sender + 1 /\ OrderInv(s)
    BY <1>6, SessionFacts DEF SessionInv, n
  <2>2. CASE ~Applies(o)
    BY <1>1, <1>2, <2>1, <2>2 DEF Applies, OrderInv, Heads
  <2>3. CASE Applies(o)
    <3>1. \A a \in messages[s] : a.seq <= n
      BY <1>1, <1>2, <2>1, <2>3 DEF OrderInv, Heads
    <3>2. m \in messages'[s] /\ \A a \in messages'[s] : a.seq <= n
      BY <1>2, <1>3, <2>3, <3>1
    <3>3. \E a \in messages'[s] : a.seq = n
      BY <1>3, <3>2
    <3>4. \/ rows[s].outgoing = n
          \/ \E a \in messages'[s] : a.seq = rows[s].outgoing
      BY <1>1, <1>2, <2>1, <2>3 DEF OrderInv
    <3>5. sending'[s] # NotSending => sending'[s].seq = n
      BY <1>2, <1>3
    <3> QED
      BY <1>1, <2>1, <3>2, <3>3, <3>4, <3>5 DEF OrderInv, Heads
  <2> QED
    BY <2>2, <2>3
<1> QED
  BY <1>1, <1>4, <1>5, <1>6 DEF SessionInv

LEMMA PersistIncrInv ==
  ASSUME SessionIInv, NEW s \in Sessions, NEW o \in Outcomes, PersistIncr(s, o)
  PROVE  SessionInv(s)'
<1> DEFINE n == cache[s].sender + 1
<1>1. /\ messages' = messages /\ phase' = phase /\ settings' = settings
      /\ pc[s] = "idle" /\ pc'[s] = "idle" /\ phase[s] = "on"
      /\ sending[s] # NotSending /\ sending'[s] = NotSending
      /\ cache'[s].sender = n
      /\ wire'[s] = IF o = "ok" THEN wire[s] \cup {sending[s]} ELSE wire[s]
  BY SessionFacts DEF PersistIncr, IncrNextSender, Progress, Returned, NextSenderMsgSeqNum,
     SessionIInv, SessionTypeOK, TypeOK, CacheRecord, SessionInv, ControlInv
<1>2. /\ rows[s] # NoRow /\ rows[s].outgoing \in Nat \ {0}
      /\ sending[s] \in messages[s] /\ sending[s].seq = n /\ n \in Nat
      /\ \A m \in messages[s] : m.seq \in Nat
  BY <1>1, SessionFacts DEF StoreInv, SessionInv, ControlInv
<1>3. /\ rows'[s] # NoRow
      /\ IF Applies(o) THEN rows'[s].outgoing = n + 1 ELSE rows'[s] = rows[s]
  <2>1. rows'[s] = IF Applies(o) THEN [rows[s] EXCEPT !.outgoing = n + 1] ELSE rows[s]
    BY <1>2, SessionFacts DEF PersistIncr, IncrNextSender, UpdateRow, NextSenderMsgSeqNum,
       SessionIInv, SessionTypeOK, TypeOK
  <2>a. rows[s] \in Row
    BY <1>2, SessionFacts DEF SessionIInv, SessionTypeOK, TypeOK
  <2>b. n + 1 \in Nat \ {0}
    BY <1>2
  <2>2. [rows[s] EXCEPT !.outgoing = n + 1] \in Row
    BY <2>a, <2>b, ColumnSet
  <2>3. [rows[s] EXCEPT !.outgoing = n + 1].outgoing = n + 1
    BY <2>a DEF Row
  <2> QED
    BY <1>2, <2>1, <2>2, <2>3, NoRowAssumption
<1> HIDE DEF n
<1>4. ControlInv(s)'
  BY <1>1, <1>3, SessionFacts DEF SessionInv, ControlInv
<1>5. WireInv(s)'
  <2>1. \A m \in wire[s] : m.seq < n
    BY <1>1, SessionFacts DEF SessionInv, WireInv, n
  <2> QED
    BY <1>1, <1>2, <1>3, <2>1, SessionFacts DEF SessionInv, WireInv, Applies
<1>6. ASSUME settings # {}
      PROVE  OrderInv(s)'
  <2>1. OrderInv(s) /\ n = cache[s].sender + 1
    BY <1>6, SessionFacts DEF SessionInv, n
  <2>2. \A m \in messages[s] : m.seq <= n
    BY <1>1, <1>2, <2>1 DEF OrderInv
  <2>3. CASE Applies(o)
    BY <1>1, <1>2, <1>3, <2>2, <2>3 DEF OrderInv, Heads
  <2>4. CASE ~Applies(o)
    <3>1. \E m \in messages[s] : m.seq = rows[s].outgoing
      BY <1>1, <1>2, <2>1 DEF OrderInv
    <3> QED
      BY <1>1, <1>2, <1>3, <2>2, <2>4, <3>1 DEF OrderInv, Heads
  <2> QED
    BY <2>3, <2>4
<1> QED
  BY <1>1, <1>4, <1>5, <1>6 DEF SessionInv

LEMMA ReceiveInv ==
  ASSUME SessionIInv, NEW s \in Sessions, NEW o \in Outcomes, Receive(s, o)
  PROVE  SessionInv(s)'
<1>1. /\ messages' = messages /\ phase' = phase /\ settings' = settings
      /\ wire' = wire /\ sending' = sending
      /\ pc[s] = "idle" /\ pc'[s] = "idle" /\ phase[s] = "on" /\ sending[s] = NotSending
      /\ cache'[s].sender = cache[s].sender
  BY DEF Receive, Free, svars, IncrNextTarget, Progress,
     SessionIInv, SessionTypeOK, TypeOK, CacheRecord
<1>2. rows[s] # NoRow /\ rows[s] \in Row
  BY <1>1, SessionFacts DEF StoreInv, SessionIInv, SessionTypeOK, TypeOK
<1>3. rows'[s] # NoRow /\ rows'[s].outgoing = rows[s].outgoing
  <2> DEFINE n == NextTargetMsgSeqNum(cache[s]) + 1
  <2>1. n \in Nat \ {0}
    BY DEF NextTargetMsgSeqNum, SessionIInv, SessionTypeOK, TypeOK, CacheRecord
  <2>2. rows'[s] = IF Applies(o) THEN [rows[s] EXCEPT !.incoming = n] ELSE rows[s]
    BY <1>2, SessionFacts DEF Receive, IncrNextTarget, UpdateRow,
       SessionIInv, SessionTypeOK, TypeOK
  <2>3. [rows[s] EXCEPT !.incoming = n] \in Row
    BY <1>2, <2>1, ColumnSet
  <2> HIDE DEF n
  <2> QED
    BY <1>2, <2>2, <2>3, NoRowAssumption DEF Row
<1> QED
  BY <1>1, <1>2, <1>3, SessionFacts DEF SessionInv, ControlInv, WireInv, OrderInv, Heads

LEMMA DisconnectInv ==
  ASSUME SessionIInv, NEW s \in Sessions, Disconnect(s)
  PROVE  SessionInv(s)'
BY SessionFacts DEF Disconnect, Free, Goto, vars, SessionIInv, SessionTypeOK,
   SessionInv, ControlInv, WireInv, OrderInv, Heads

LEMMA SessionCrashInv ==
  ASSUME SessionIInv, NEW s \in Sessions, SessionCrash
  PROVE  SessionInv(s)'
BY SessionFacts DEF SessionCrash, Crash, SessionIInv, SessionTypeOK,
   SessionInv, ControlInv, WireInv, OrderInv, Heads

-----------------------------------------------------------------------------
(* Every step, and every session                                           *)

\* What the steps of s have in common: they touch no other session.
LEMMA OthersUntouched ==
  ASSUME SessionIInv, NEW s \in Sessions, NEW z \in Sessions, s # z,
         \/ \E o \in Outcomes :
              \/ \E t \in Times : Start(s, t, o) \/ LogonReset(s, t, o)
              \/ Populate(s, o) \/ LogonResetUpdate(s, o)
              \/ \E p \in Payloads : Persist(s, p, o)
              \/ PersistIncr(s, o) \/ Receive(s, o)
         \/ Disconnect(s) \/ \E t \in Times : Logon(s, t)
  PROVE  SessionSame(z)
<1>0. RowKey(s) = s /\ RowKey(z) = z
  BY RowKeyIsSession
<1> DEFINE Kept == /\ pc'[z] = pc[z] /\ op'[z] = op[z] /\ cache'[z] = cache[z]
                   /\ rows'[z] = rows[z] /\ messages'[z] = messages[z]
           Driven == /\ phase'[z] = phase[z] /\ sending'[z] = sending[z]
                     /\ wire'[z] = wire[z] /\ settings' = settings
<1>1. ASSUME NEW o \in Outcomes, NEW t \in Times, Start(s, t, o) \/ LogonReset(s, t, o)
      PROVE  Kept /\ Driven
  <2>1. CASE Start(s, t, o)
    BY <1>0, <2>1 DEF Start, Create, Progress, svars, SessionIInv, SessionTypeOK, TypeOK
  <2>2. CASE LogonReset(s, t, o)
    BY <1>0, <2>2 DEF LogonReset, Reset, Progress, Goto, SessionIInv, SessionTypeOK, TypeOK
  <2> QED
    BY <1>1, <2>1, <2>2
<1>2. ASSUME NEW o \in Outcomes, Populate(s, o)
      PROVE  Kept /\ Driven
  <2>1. Kept
    <3>1. CASE PopulateFails(s)
      <4>1. pc'[z] = pc[z] /\ op'[z] = op[z] /\ cache'[z] = cache[z]
        BY <3>1 DEF PopulateFails, Progress, SessionIInv, SessionTypeOK, TypeOK
      <4>2. /\ messages' = messages
            /\ \/ rows' = rows
               \/ rows' = [rows EXCEPT ![RowKey(s)] = RowOf(cache[s])]
        BY <1>2 DEF Populate, PopulateSelect, PopulateInsert
      <4>3. rows'[z] = rows[z]
        BY <1>0, <4>2, KeysAreSessions DEF SessionIInv, SessionTypeOK, TypeOK
      <4> QED
        BY <4>1, <4>2, <4>3
    <3>2. CASE PopulateSelect(s, o) /\ ~PopulateFails(s)
      BY <1>0, <3>2 DEF PopulateSelect, Progress, SessionIInv, SessionTypeOK, TypeOK
    <3>3. CASE PopulateInsert(s, o) /\ ~PopulateFails(s)
      BY <1>0, <3>3 DEF PopulateInsert, Progress, SessionIInv, SessionTypeOK, TypeOK
    <3> QED
      BY <1>2, <3>1, <3>2, <3>3 DEF Populate
  <2>2. Driven
    BY <1>2 DEF Populate, Goto, SessionIInv, SessionTypeOK, TypeOK
  <2> QED
    BY <2>1, <2>2
<1>3. ASSUME NEW o \in Outcomes, LogonResetUpdate(s, o) \/ PersistIncr(s, o) \/ Receive(s, o)
      PROVE  Kept /\ Driven
  <2>1. CASE LogonResetUpdate(s, o)
    BY <1>0, <2>1 DEF LogonResetUpdate, ResetUpdate, UpdateRow, Progress, Goto,
       SessionIInv, SessionTypeOK, TypeOK
  <2>2. CASE PersistIncr(s, o)
    BY <1>0, <2>2 DEF PersistIncr, IncrNextSender, UpdateRow, Progress,
       SessionIInv, SessionTypeOK, TypeOK
  <2>3. CASE Receive(s, o)
    BY <1>0, <2>3 DEF Receive, IncrNextTarget, UpdateRow, Progress, svars,
       SessionIInv, SessionTypeOK, TypeOK
  <2> QED
    BY <1>3, <2>1, <2>2, <2>3
<1>4. ASSUME NEW o \in Outcomes, NEW p \in Payloads, Persist(s, p, o)
      PROVE  Kept /\ Driven
  BY <1>0, <1>4 DEF Persist, SaveMessage, Progress, SessionIInv, SessionTypeOK, TypeOK
<1>5. ASSUME Disconnect(s) \/ \E t \in Times : Logon(s, t)
      PROVE  Kept /\ Driven
  BY <1>0, <1>5 DEF Disconnect, Logon, Refresh, Progress, Goto, vars,
     SessionIInv, SessionTypeOK, TypeOK
<1> QED
  BY <1>1, <1>2, <1>3, <1>4, <1>5 DEF SessionSame

LEMMA InitSessionIInv == SessionInit => SessionIInv
<1> SUFFICES ASSUME SessionInit
             PROVE  SessionIInv
  OBVIOUS
<1>1. IInv /\ TypeOK
  BY InitIInv DEF SessionInit, IInv
<1>2. SessionTypeOK
  BY <1>1 DEF SessionInit, SessionTypeOK
<1>3. ASSUME NEW s \in Sessions
      PROVE  SessionInv(s)
  BY RowKeyIsSession, KeysAreSessions DEF SessionInit, Init, SessionInv, ControlInv, WireInv,
     OrderInv, Heads
<1> QED
  BY <1>1, <1>2, <1>3 DEF SessionIInv

LEMMA NextSessionIInv == SessionIInv /\ [SessionNext]_allvars => SessionIInv'
<1> SUFFICES ASSUME SessionIInv, [SessionNext]_allvars, NEW z \in Sessions
             PROVE  SessionInv(z)'
  BY SessionTypeStep, StoreStep, NextIInv DEF SessionIInv
<1>0. SessionInv(z)
  BY DEF SessionIInv
<1>1. ASSUME NEW s \in Sessions, NEW o \in Outcomes, NEW t \in Times,
             Start(s, t, o) \/ LogonReset(s, t, o)
      PROVE  SessionInv(z)'
  <2>1. SessionInv(s)'
    BY <1>1, StartInv, LogonResetInv
  <2> QED
    BY <1>0, <1>1, <2>1, OthersUntouched, SessionFrame
<1>2. ASSUME NEW s \in Sessions, NEW o \in Outcomes,
             \/ Populate(s, o) \/ LogonResetUpdate(s, o)
             \/ PersistIncr(s, o) \/ Receive(s, o)
      PROVE  SessionInv(z)'
  <2>1. SessionInv(s)'
    BY <1>2, PopulateInv, LogonResetUpdateInv, PersistIncrInv, ReceiveInv
  <2> QED
    BY <1>0, <1>2, <2>1, OthersUntouched, SessionFrame
<1>3. ASSUME NEW s \in Sessions, NEW o \in Outcomes, NEW p \in Payloads, Persist(s, p, o)
      PROVE  SessionInv(z)'
  <2>1. SessionInv(s)'
    BY <1>3, PersistInv
  <2> QED
    BY <1>0, <1>3, <2>1, OthersUntouched, SessionFrame
<1>4. ASSUME NEW s \in Sessions, Disconnect(s) \/ \E t \in Times : Logon(s, t)
      PROVE  SessionInv(z)'
  <2>1. SessionInv(s)'
    BY <1>4, DisconnectInv, LogonInv
  <2> QED
    BY <1>0, <1>4, <2>1, OthersUntouched, SessionFrame
<1>5. CASE SessionCrash
  BY <1>5, SessionCrashInv
<1>6. CASE UNCHANGED allvars
  BY <1>0, <1>6, SessionFrame DEF allvars, vars, svars, SessionSame
<1> QED
  BY <1>1, <1>2, <1>3, <1>4, <1>5, <1>6 DEF SessionNext

LEMMA SessionInvariance == SessionSpec => []SessionIInv
BY InitSessionIInv, NextSessionIInv, PTL DEF SessionSpec

\* The types of the composition, for any sessions, settings and outcomes.
THEOREM SessionTyping == SessionSpec => []SessionTypeOK
<1>1. SessionIInv => SessionTypeOK
  BY DEF SessionIInv
<1> QED
  BY <1>1, SessionInvariance, PTL

\* sqlstore.go:319 and :339: persist() saves before it increments, so the
\* number a restarted process loads is above every number that went out.
THEOREM NumbersUsedOnce == SessionSpec => []WireBelowNext
<1>1. SessionIInv => WireBelowNext
  <2> SUFFICES ASSUME SessionIInv, NEW s \in Sessions, NEW m \in wire[s]
               PROVE  rows[RowKey(s)].outgoing > m.seq
    BY DEF WireBelowNext
  <2>1. /\ RowKey(s) = s /\ m \in messages[s] /\ m.seq \in Nat /\ m.seq < rows[s].outgoing
        /\ rows[s] # NoRow
    BY SessionFacts DEF SessionInv, WireInv
  <2>2. rows[s].outgoing \in Nat
    BY <2>1, SessionFacts
  <2> QED
    BY <2>1, <2>2
<1> QED
  BY <1>1, SessionInvariance, PTL

\* sqlstore.go:356: a resend request is answered with what was sent.
THEOREM ResendsFaithful == SessionSpec => []ResendFaithful
<1>1. SessionIInv => ResendFaithful
  <2> SUFFICES ASSUME SessionIInv, NEW s \in Sessions, NEW m \in wire[s]
               PROVE  GetMessages(s, m.seq, m.seq) = {m}
    BY DEF ResendFaithful
  <2>1. /\ RowKey(s) = s /\ m \in messages[s]
        /\ \A a \in messages[s] : a.seq \in Nat /\ (a.seq = m.seq => a = m)
    BY SessionFacts DEF SessionInv, WireInv
  <2> QED
    BY <2>1 DEF GetMessages
<1> QED
  BY <1>1, SessionInvariance, PTL

-----------------------------------------------------------------------------
(* The store, driven by a session, is an OutgoingLog                        *)

\* The two tables as the log sees them.
LogOf == [s \in Sessions |-> messages[RowKey(s)]]
NextOf == [s \in Sessions |-> IF rows[RowKey(s)] = NoRow THEN 1
                              ELSE rows[RowKey(s)].outgoing]

\* The steps of the log, in these terms.
LEMMA LogAppends ==
  ASSUME NEW s \in Sessions, NEW n \in 1 .. MaxSeq, NEW p \in Payloads,
         \A m \in LogOf[s] : m.seq < n,
         LogOf' = [LogOf EXCEPT ![s] = @ \cup {[seq |-> n, msg |-> p]}],
         NextOf' = NextOf, wire' = wire
  PROVE  Log!Next
<1>1. Log!Append(s)
  BY DEF Log!Append, LogOf, NextOf
<1> QED
  BY <1>1 DEF Log!Next

LEMMA LogCommits ==
  ASSUME NEW s \in Sessions, NEW m \in LogOf[s], \A a \in LogOf[s] : a.seq <= m.seq,
         NextOf' = [NextOf EXCEPT ![s] = m.seq + 1], LogOf' = LogOf,
         wire' = wire \/ wire' = [wire EXCEPT ![s] = @ \cup {m}]
  PROVE  Log!Next
<1>1. Log!Commit(s)
  BY DEF Log!Commit, Log!Newest, LogOf, NextOf
<1> QED
  BY <1>1 DEF Log!Next

LEMMA LogTruncates ==
  ASSUME NEW s \in Sessions, NextOf' = NextOf,
         LogOf' = [LogOf EXCEPT ![s] = {}], wire' = [wire EXCEPT ![s] = {}]
  PROVE  Log!Next
BY DEF Log!Next, Log!Truncate, LogOf, NextOf

LEMMA LogRewinds ==
  ASSUME NEW s \in Sessions, LogOf[s] = {}, NextOf' = [NextOf EXCEPT ![s] = 1],
         LogOf' = LogOf, wire' = wire
  PROVE  Log!Next
BY DEF Log!Next, Log!Rewind, LogOf, NextOf

\* What the tables say, and how a change of one row or one log shows.
LEMMA Views ==
  ASSUME SessionIInv
  PROVE  /\ LogOf = messages
         /\ NextOf = [s \in Sessions |-> IF rows[s] = NoRow THEN 1 ELSE rows[s].outgoing]
BY RowKeyIsSession, KeysAreSessions DEF LogOf, NextOf, SessionIInv, SessionTypeOK, TypeOK

LEMMA NextViews ==
  ASSUME SessionIInv, SessionIInv', NEW s \in Sessions, NEW n,
         \A z \in Sessions \ {s} : rows'[z] = rows[z],
         n = IF rows'[s] = NoRow THEN 1 ELSE rows'[s].outgoing
  PROVE  NextOf' = [NextOf EXCEPT ![s] = n] /\ (n = NextOf[s] => NextOf' = NextOf)
<1>1. NextOf = [z \in Sessions |-> IF rows[z] = NoRow THEN 1 ELSE rows[z].outgoing]
  BY Views
<1>2. NextOf' = [z \in Sessions |-> IF rows'[z] = NoRow THEN 1 ELSE rows'[z].outgoing]
  BY RowKeyIsSession DEF NextOf, RowKey
<1> QED
  BY <1>1, <1>2

\* Every step is a step of the log, or leaves it alone.
LEMMA LogStep ==
  ASSUME SessionIInv, SessionIInv', [SessionNext]_allvars, settings # {}
  PROVE  [Log!Next]_(Log!logvars)
<1> SUFFICES Log!Next \/ (LogOf' = LogOf /\ NextOf' = NextOf /\ wire' = wire)
  BY DEF Log!logvars, LogOf, NextOf
<1>0. LogOf = messages /\ LogOf' = messages'
  BY Views, RowKeyIsSession, KeysAreSessions
  DEF LogOf, RowKey, SessionIInv, SessionTypeOK, TypeOK
<1>1. ASSUME rows' = rows
      PROVE  NextOf' = NextOf
  BY <1>1 DEF NextOf, RowKey
<1>2. ASSUME NEW s \in Sessions, NEW o \in Outcomes, NEW t \in Times, Start(s, t, o)
      PROVE  LogOf' = LogOf /\ NextOf' = NextOf /\ wire' = wire
  BY <1>0, <1>1, <1>2 DEF Start, Create, svars
<1>3. ASSUME NEW s \in Sessions, NEW o \in Outcomes, NEW t \in Times, LogonReset(s, t, o)
      PROVE  Log!Next \/ (LogOf' = LogOf /\ NextOf' = NextOf /\ wire' = wire)
  <2>1. RowKey(s) = s
    BY RowKeyIsSession
  <2> QED
    BY <1>0, <1>1, <1>3, <2>1, LogTruncates DEF LogonReset, Reset
<1>4. ASSUME NEW s \in Sessions, NEW o \in Outcomes, Populate(s, o)
      PROVE  LogOf' = LogOf /\ NextOf' = NextOf /\ wire' = wire
  <2>1. messages' = messages /\ wire' = wire
    BY <1>4 DEF Populate, PopulateSelect, PopulateInsert
  <2>2. CASE PopulateSelect(s, o)
    BY <1>0, <1>1, <2>1, <2>2 DEF PopulateSelect
  <2>3. CASE PopulateInsert(s, o)
    <3>1. RowKey(s) = s /\ rows[s] = NoRow /\ cache[s].sender = 0
      BY <2>3, SessionFacts DEF PopulateInsert, SessionInv, ControlInv
    <3>2. RowOf(cache[s]) \in Row /\ RowOf(cache[s]).outgoing = 1
      BY <3>1, RowOfType DEF RowOf, NextSenderMsgSeqNum, SessionIInv, SessionTypeOK, TypeOK
    <3>3. rows' = rows \/ rows' = [rows EXCEPT ![s] = RowOf(cache[s])]
      BY <2>3, <3>1 DEF PopulateInsert
    <3>4. /\ \A z \in Sessions \ {s} : rows'[z] = rows[z]
          /\ 1 = IF rows'[s] = NoRow THEN 1 ELSE rows'[s].outgoing
      BY <3>1, <3>2, <3>3, KeysAreSessions DEF SessionIInv, SessionTypeOK, TypeOK
    <3>5. NextOf[s] = 1
      BY <3>1 DEF NextOf
    <3> QED
      BY <1>0, <2>1, <3>4, <3>5, NextViews
  <2> QED
    BY <1>4, <2>2, <2>3 DEF Populate
<1>5. ASSUME NEW s \in Sessions, NEW o \in Outcomes, LogonResetUpdate(s, o)
      PROVE  Log!Next \/ (LogOf' = LogOf /\ NextOf' = NextOf /\ wire' = wire)
  <2>1. /\ RowKey(s) = s /\ messages[s] = {} /\ cache[s].sender = 0
        /\ messages' = messages /\ wire' = wire /\ rows[s] # NoRow
    BY <1>5, SessionFacts DEF LogonResetUpdate, ResetUpdate, StoreInv, SessionInv, ControlInv
  <2>2. RowOf(cache[s]) \in Row /\ RowOf(cache[s]).outgoing = 1
    BY <2>1, RowOfType DEF RowOf, NextSenderMsgSeqNum, SessionIInv, SessionTypeOK, TypeOK
  <2>3. rows' = rows \/ rows' = [rows EXCEPT ![s] = RowOf(cache[s])]
    BY <1>5, <2>1 DEF LogonResetUpdate, ResetUpdate, UpdateRow
  <2>4. CASE rows' = rows
    BY <1>0, <1>1, <2>1, <2>4
  <2>5. CASE rows' = [rows EXCEPT ![s] = RowOf(cache[s])]
    <3>1. /\ \A z \in Sessions \ {s} : rows'[z] = rows[z]
          /\ 1 = IF rows'[s] = NoRow THEN 1 ELSE rows'[s].outgoing
      BY <2>1, <2>2, <2>5, KeysAreSessions DEF SessionIInv, SessionTypeOK, TypeOK
    <3> QED
      BY <1>0, <2>1, <3>1, NextViews, LogRewinds
  <2> QED
    BY <2>3, <2>4, <2>5
<1>6. ASSUME NEW s \in Sessions, NEW o \in Outcomes, NEW p \in Payloads, Persist(s, p, o)
      PROVE  Log!Next \/ (LogOf' = LogOf /\ NextOf' = NextOf /\ wire' = wire)
  <2> DEFINE n == cache[s].sender + 1
  <2>1. /\ RowKey(s) = s /\ n \in 1 .. MaxSeq /\ NextOf' = NextOf /\ wire' = wire
        /\ phase[s] = "on"
    BY <1>1, <1>6, SessionFacts, MaxSeqAssumption
    DEF Persist, Free, SaveMessage, NextSenderMsgSeqNum
  <2>2. CASE Applies(o)
    <3>1. /\ \A m \in messages[s] : m.seq # n /\ m.seq \in Nat
          /\ messages' = [messages EXCEPT ![s] = @ \cup {[seq |-> n, msg |-> p]}]
      BY <1>6, <2>1, <2>2, SessionFacts
      DEF Persist, SaveMessage, Stored, Applies, NextSenderMsgSeqNum
    <3>2. Heads(s, n)
      BY <2>1, SessionFacts DEF SessionInv, OrderInv
    <3>3. \A m \in messages[s] : m.seq < n
      BY <2>1, <3>1, <3>2 DEF Heads
    <3> QED
      BY <1>0, <2>1, <3>1, <3>3, LogAppends
  <2>3. CASE ~Applies(o)
    BY <1>0, <1>6, <2>1, <2>3 DEF Persist, SaveMessage
  <2> QED
    BY <2>2, <2>3
<1>7. ASSUME NEW s \in Sessions, NEW o \in Outcomes, PersistIncr(s, o)
      PROVE  Log!Next \/ (LogOf' = LogOf /\ NextOf' = NextOf /\ wire' = wire)
  <2> DEFINE n == cache[s].sender + 1
             rn == [rows[s] EXCEPT !.outgoing = n + 1]
  <2>1. /\ RowKey(s) = s /\ sending[s] \in messages[s] /\ sending[s].seq = n
        /\ \A m \in messages[s] : m.seq <= sending[s].seq
        /\ messages' = messages /\ rows[s] # NoRow /\ rows[s] \in Row /\ n + 1 \in Nat \ {0}
    BY <1>7, SessionFacts DEF PersistIncr, IncrNextSender, StoreInv, SessionInv, ControlInv,
       OrderInv, SessionIInv, SessionTypeOK, TypeOK
  <2>2. /\ rows' = IF Applies(o) THEN [rows EXCEPT ![s] = rn] ELSE rows
        /\ wire' = wire \/ (o = "ok" /\ wire' = [wire EXCEPT ![s] = @ \cup {sending[s]}])
    BY <1>7, <2>1 DEF PersistIncr, IncrNextSender, UpdateRow, NextSenderMsgSeqNum, Progress,
       Returned, SessionIInv, SessionTypeOK, TypeOK
  <2>3. CASE Applies(o)
    <3>1. rn \in Row /\ rn.outgoing = n + 1
      BY <2>1, ColumnSet DEF Row
    <3> HIDE DEF n, rn
    <3>2. /\ \A z \in Sessions \ {s} : rows'[z] = rows[z]
          /\ n + 1 = IF rows'[s] = NoRow THEN 1 ELSE rows'[s].outgoing
      BY <2>2, <2>3, <3>1, KeysAreSessions, NoRowAssumption DEF SessionIInv, SessionTypeOK, TypeOK
    <3> QED
      BY <1>0, <2>1, <2>2, <3>2, NextViews, LogCommits
  <2>4. CASE ~Applies(o)
    BY <1>0, <1>1, <2>1, <2>2, <2>4 DEF Applies
  <2> QED
    BY <2>3, <2>4
<1>8. ASSUME NEW s \in Sessions, NEW o \in Outcomes, Receive(s, o)
      PROVE  LogOf' = LogOf /\ NextOf' = NextOf /\ wire' = wire
  <2> DEFINE rn == [rows[s] EXCEPT !.incoming = NextTargetMsgSeqNum(cache[s]) + 1]
  <2>1. /\ RowKey(s) = s /\ messages' = messages /\ wire' = wire
        /\ rows[s] # NoRow /\ rows[s] \in Row
        /\ NextTargetMsgSeqNum(cache[s]) + 1 \in Nat \ {0}
    BY <1>8, SessionFacts DEF Receive, IncrNextTarget, svars, StoreInv,
       SessionIInv, SessionTypeOK, TypeOK, CacheRecord, NextTargetMsgSeqNum
  <2>2. rows' = rows \/ rows' = [rows EXCEPT ![s] = rn]
    BY <1>8, <2>1 DEF Receive, IncrNextTarget, UpdateRow
  <2>3. rn \in Row /\ rn.outgoing = rows[s].outgoing
    BY <2>1, ColumnSet DEF Row
  <2> HIDE DEF rn
  <2>4. /\ \A z \in Sessions \ {s} : rows'[z] = rows[z]
        /\ rows'[s] # NoRow /\ rows'[s].outgoing = rows[s].outgoing
    BY <2>1, <2>2, <2>3, KeysAreSessions, NoRowAssumption DEF SessionIInv, SessionTypeOK, TypeOK
  <2>5. NextOf[s] = rows[s].outgoing
    BY <2>1 DEF NextOf
  <2> QED
    BY <1>0, <2>1, <2>4, <2>5, NextViews
<1>9. ASSUME NEW s \in Sessions, Disconnect(s) \/ \E t \in Times : Logon(s, t)
      PROVE  LogOf' = LogOf /\ NextOf' = NextOf /\ wire' = wire
  BY <1>0, <1>1, <1>9 DEF Disconnect, Logon, Refresh, vars
<1>10. CASE SessionCrash
  BY <1>0, <1>1, <1>10 DEF SessionCrash, Crash
<1>11. CASE UNCHANGED allvars
  BY <1>0, <1>1, <1>11 DEF allvars, vars, svars
<1> QED
  BY <1>2, <1>3, <1>4, <1>5, <1>6, <1>7, <1>8, <1>9, <1>10, <1>11 DEF SessionNext

LEMMA LogInit == SessionInit => Log!Init
BY RowKeyIsSession, KeysAreSessions DEF SessionInit, Init, Log!Init

\* Under either setting that reloads or resets the store at logon, whatever
\* fails and whenever the process dies, the tables are a log that grows at its
\* end and a number that goes back only over an empty log.
THEOREM LogImplemented ==
  ASSUME {} \notin Settings
  PROVE  SessionSpec => ImplementsOutgoingLog
<1>1. SessionIInv /\ SessionIInv' /\ [SessionNext]_allvars => [Log!Next]_(Log!logvars)
  BY LogStep DEF SessionIInv, SessionTypeOK
<1> QED
  BY <1>1, LogInit, SessionInvariance, PTL DEF SessionSpec, ImplementsOutgoingLog, Log!Spec
=============================================================================
