----------------------------- MODULE OutgoingLog -----------------------------
(* What a message store promises a FIX session about the messages it sends: *)
(* a log of numbered messages that grows only at its end, a message that    *)
(* went on the wire only after it was logged and numbered below next, and a *)
(* next number that is rewound only over an empty log.  Everything here     *)
(* survives a crash of the process.                                         *)
EXTENDS Integers

CONSTANTS Sessions, Payloads,
          Numbers   \* the numbers a message may get, from 1 on

VARIABLES
  log,    \* the messages kept for resending
  next,   \* the persisted number of the next message
  wire    \* the messages the counterparty was sent since the last truncation

logvars == <<log, next, wire>>

Newest(s, n) == /\ \E m \in log[s] : m.seq = n
                /\ \A m \in log[s] : m.seq <= n

Init ==
  /\ log = [s \in Sessions |-> {}]
  /\ next = [s \in Sessions |-> 1]
  /\ wire = [s \in Sessions |-> {}]

\* A message is logged above every number logged so far.
Append(s) ==
  /\ \E n \in Numbers, p \in Payloads :
       /\ \A m \in log[s] : m.seq < n
       /\ log' = [log EXCEPT ![s] = @ \cup {[seq |-> n, msg |-> p]}]
  /\ UNCHANGED <<next, wire>>

\* next moves past the newest message, which may go out by the same step.
Commit(s) ==
  \E m \in log[s] :
    /\ Newest(s, m.seq)
    /\ next' = [next EXCEPT ![s] = m.seq + 1]
    /\ wire' \in {wire, [wire EXCEPT ![s] = @ \cup {m}]}
    /\ UNCHANGED log

\* A reset forgets the messages first and the number afterwards.
Truncate(s) ==
  /\ log' = [log EXCEPT ![s] = {}]
  /\ wire' = [wire EXCEPT ![s] = {}]
  /\ UNCHANGED next

Rewind(s) ==
  /\ log[s] = {}
  /\ next' = [next EXCEPT ![s] = 1]
  /\ UNCHANGED <<log, wire>>

Next == \E s \in Sessions : Append(s) \/ Commit(s) \/ Truncate(s) \/ Rewind(s)

Spec == Init /\ [][Next]_logvars
=============================================================================
