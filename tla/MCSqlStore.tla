----------------------------- MODULE MCSqlStore -----------------------------
(* Small instances of SqlStore: sessions that differ only in the column a   *)
(* WHERE clause is most likely to forget. One session alone meets every      *)
(* outcome and numbers up to MaxSeq, two sessions reliable statements and    *)
(* numbers up to CalmSeq.                                                    *)
EXTENDS SqlStore

CONSTANTS FIX, EXEC, CLIENT, None, Q1, Q2

MCValues == {FIX, EXEC, CLIENT, None, Q1, Q2}

MCSession(q) ==
  [c \in Columns |->
    CASE c = "beginstring"       -> FIX
      [] c = "session_qualifier" -> q
      [] c = "sendercompid"      -> EXEC
      [] c = "targetcompid"      -> CLIENT
      [] OTHER                   -> None]

MCOneSession  == {MCSession(Q1)}
MCTwoSessions == {MCSession(Q1), MCSession(Q2)}
MCAllOutcomes == {"ok", "error", "lost"}
MCReliable    == {"ok", "error"}

\* Bound: the numbers explored while both sessions are in use.
CalmSeq == 2

Unused(s) ==
  /\ pc[s] = "none" /\ op[s] = "Close" /\ doubt[s] = {}
  /\ rows[RowKey(s)] = NoRow

\* Nothing failed, no other time was read, the numbers are low.
Calm(s) ==
  /\ result[s] # "error" /\ doubt[s] = {}
  /\ cache[s].created = ZeroTime
  /\ cache[s].sender <= CalmSeq /\ cache[s].target <= CalmSeq
  /\ rows[RowKey(s)] # NoRow =>
       /\ rows[RowKey(s)].created = ZeroTime
       /\ rows[RowKey(s)].outgoing <= CalmSeq + 1
       /\ rows[RowKey(s)].incoming <= CalmSeq + 1
  /\ \A m \in messages[RowKey(s)] : m.seq <= CalmSeq

AllCalm == \A s \in Sessions : Calm(s)
Alone   == Unused(MCSession(Q2))

MCNext ==
  \/ Alone /\ Call(MCSession(Q1), Outcomes, Times)
  \/ AllCalm /\ \E s \in Sessions : Call(s, {"ok"}, {ZeroTime})
  \/ Crash

MCSpec == Init /\ [][MCNext]_vars
MCConstraint == Alone \/ AllCalm
=============================================================================
