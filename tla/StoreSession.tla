---------------------------- MODULE StoreSession ----------------------------
(* The SQL store as a FIX session drives it.  The session is quickfix's; it *)
(* is modelled here from the calls it makes on the store interface that     *)
(* store/sqlstore.go implements and from the settings of                    *)
(* cmd/socket/etc/executor.cfg.  One goroutine runs a session, and the      *)
(* server's applications send only from its callbacks, so the calls on one  *)
(* store never overlap; a crash may fall between any two statements.        *)
EXTENDS SqlStore

CONSTANTS
  Settings,         \* the sets of session settings explored
  NotSending        \* no message is being sent

ASSUME SettingsAssumption ==
  Settings \subseteq SUBSET {"RefreshOnLogon", "ResetOnLogon"}

ASSUME NotSendingAssumption == NotSending \notin Message

VARIABLES
  settings,  \* the settings that are Y, the same for all sessions
  phase,     \* where each session is in its logon
  sending,   \* the message saved and not yet numbered past, or NotSending
  wire       \* history: messages sent since the store was last emptied

svars == <<settings, phase, sending, wire>>
allvars == <<vars, svars>>

SessionTypeOK ==
  /\ TypeOK
  /\ settings \in Settings
  /\ phase \in [Sessions -> {"latent", "refresh", "reset", "on"}]
  /\ sending \in [Sessions -> {NotSending} \cup Message]
  /\ wire \in [Sessions -> SUBSET Message]

SessionInit ==
  /\ Init
  /\ settings \in Settings
  /\ phase = [s \in Sessions |-> "latent"]
  /\ sending = [s \in Sessions |-> NotSending]
  /\ wire = [s \in Sessions |-> {}]

\* The logon goes on from here: reset the store if the setting or the
\* counterparty's ResetSeqNumFlag asks for it.
AfterRefresh == IF "ResetOnLogon" \in settings THEN {"reset"} ELSE {"reset", "on"}

Goto(s, P) == \E p \in P : phase' = [phase EXCEPT ![s] = p]

Start(s, t, o) == Create(s, t, o) /\ UNCHANGED svars

Logon(s, t) ==
  /\ phase[s] = "latent" /\ pc[s] = "idle"
  /\ IF "RefreshOnLogon" \in settings
     THEN Refresh(s, t) /\ Goto(s, {"refresh"})
     ELSE Goto(s, AfterRefresh) /\ UNCHANGED vars
  /\ UNCHANGED <<settings, sending, wire>>

\* A statement of Create or Refresh; an error of Refresh ends the logon.
Populate(s, o) ==
  /\ PopulateSelect(s, o) \/ PopulateInsert(s, o)
  /\ IF op[s] = "Create" \/ result'[s] = "pending" THEN UNCHANGED phase
     ELSE Goto(s, IF result'[s] = "nil" THEN AfterRefresh ELSE {"latent"})
  /\ UNCHANGED <<settings, sending, wire>>

\* The DELETE of Reset starts a new life of the numbers.
LogonReset(s, t, o) ==
  /\ phase[s] = "reset"
  /\ Reset(s, t, o)
  /\ wire' = IF Applies(o) THEN [wire EXCEPT ![s] = {}] ELSE wire
  /\ IF o = "ok" THEN UNCHANGED phase ELSE Goto(s, {"latent"})
  /\ UNCHANGED <<settings, sending>>

LogonResetUpdate(s, o) ==
  /\ ResetUpdate(s, o)
  /\ Goto(s, IF o = "ok" THEN {"on"} ELSE {"latent"})
  /\ UNCHANGED <<settings, sending, wire>>

Free(s) == phase[s] = "on" /\ pc[s] = "idle" /\ sending[s] = NotSending

\* persist(), first call: save the message under the next number; an error
\* gives the message up.
Persist(s, p, o) ==
  LET n == NextSenderMsgSeqNum(cache[s]) IN
  /\ Free(s) /\ n <= MaxSeq
  /\ SaveMessage(s, n, p, o)
  /\ sending' = IF result'[s] = "nil"
                THEN [sending EXCEPT ![s] = [seq |-> n, msg |-> p]] ELSE sending
  /\ UNCHANGED <<settings, phase, wire>>

\* persist(), second call; if it returns nil the message goes out.
PersistIncr(s, o) ==
  /\ sending[s] # NotSending
  /\ IncrNextSender(s, o)
  /\ wire' = IF result'[s] = "nil"
             THEN [wire EXCEPT ![s] = @ \cup {sending[s]}] ELSE wire
  /\ sending' = [sending EXCEPT ![s] = NotSending]
  /\ UNCHANGED <<settings, phase>>

\* An incoming message was handled.
Receive(s, o) ==
  /\ Free(s)
  /\ IncrNextTarget(s, o)
  /\ UNCHANGED svars

\* The counterparty logs out, the connection drops, or a heartbeat cannot be
\* sent.
Disconnect(s) ==
  /\ Free(s)
  /\ Goto(s, {"latent"})
  /\ UNCHANGED <<vars, settings, sending, wire>>

SessionCrash ==
  /\ Crash
  /\ phase' = [s \in Sessions |-> "latent"]
  /\ sending' = [s \in Sessions |-> NotSending]
  /\ UNCHANGED <<settings, wire>>

SessionNext ==
  \/ \E s \in Sessions, o \in Outcomes :
       \/ \E t \in Times : Start(s, t, o) \/ LogonReset(s, t, o)
       \/ Populate(s, o) \/ LogonResetUpdate(s, o)
       \/ \E p \in Payloads : Persist(s, p, o)
       \/ PersistIncr(s, o) \/ Receive(s, o)
  \/ \E s \in Sessions : Disconnect(s) \/ \E t \in Times : Logon(s, t)
  \/ SessionCrash

SessionSpec == SessionInit /\ [][SessionNext]_allvars

\* The process is restarted, the counterparty keeps reconnecting, a session
\* that cannot send is dropped, and a database that is asked again and again
\* answers in the end.
Fairness ==
  \A s \in Sessions :
    /\ SF_allvars(\E t \in Times : Start(s, t, "ok"))
    /\ SF_allvars(Populate(s, "ok"))
    /\ SF_allvars(\E t \in Times : Logon(s, t))
    /\ SF_allvars(\E t \in Times : LogonReset(s, t, "ok"))
    /\ SF_allvars(LogonResetUpdate(s, "ok"))
    /\ SF_allvars(PersistIncr(s, "ok"))
    /\ SF_allvars(Disconnect(s))

FairSpec == SessionSpec /\ Fairness

-----------------------------------------------------------------------------
(* Properties                                                              *)

\* Whatever crashes and errors happened, the number a restarted process will
\* load is above every number the counterparty has seen since the last reset:
\* no number is used twice.
WireBelowNext ==
  \A s \in Sessions : \A m \in wire[s] : rows[RowKey(s)].outgoing > m.seq

\* A resend request for a number that was sent is answered by GetMessages
\* with exactly the message that was sent under it.
ResendFaithful ==
  \A s \in Sessions : \A m \in wire[s] : GetMessages(s, m.seq, m.seq) = {m}

\* The store, driven this way, keeps the promise of OutgoingLog.
Log == INSTANCE OutgoingLog WITH
  log  <- [s \in Sessions |-> messages[RowKey(s)]],
  next <- [s \in Sessions |-> IF rows[RowKey(s)] = NoRow THEN 1
                              ELSE rows[RowKey(s)].outgoing],
  wire <- wire,
  Numbers <- 1 .. MaxSeq

ImplementsOutgoingLog == Log!Spec

\* A crash or a lost reply between SaveMessage and IncrNextSenderMsgSeqNum
\* leaves a message stored under the number the session would use next, and
\* every later SaveMessage fails.
Wedged(s) == rows[RowKey(s)] # NoRow /\ Stored(s, rows[RowKey(s)].outgoing)

\* With ResetOnLogon and without RefreshOnLogon, as in executor.cfg, a wedged
\* session does not stay wedged for ever.
WedgeCleared ==
  \A s \in Sessions : Wedged(s) /\ settings = {"ResetOnLogon"} ~> ~Wedged(s)
=============================================================================
