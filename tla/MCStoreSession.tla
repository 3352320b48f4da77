--------------------------- MODULE MCStoreSession ---------------------------
(* Small instances of StoreSession: one session, every statement outcome,    *)
(* the settings of executor.cfg and those of a session that refreshes.       *)
EXTENDS StoreSession

CONSTANTS FIX, EXEC, CLIENT, None

MCValues == {FIX, EXEC, CLIENT, None}

MCSession ==
  [c \in Columns |->
    CASE c = "beginstring"  -> FIX
      [] c = "sendercompid" -> EXEC
      [] c = "targetcompid" -> CLIENT
      [] OTHER              -> None]

MCSessions    == {MCSession}
MCSettings    == {{"RefreshOnLogon"}, {"ResetOnLogon"}}
MCAllOutcomes == {"ok", "error", "lost"}
=============================================================================
