------------------------------- MODULE RWMutex -------------------------------
(* Go's sync.RWMutex as the trade client uses it (OrderManager embeds one). *)
(* A writer that has called Lock keeps later readers out while it waits for *)
(* the readers inside to leave, and an Unlock lets every reader it kept out *)
(* in before the next writer.  It is not reentrant.                         *)
CONSTANTS Threads, NoThread

ASSUME NoThreadAssumption == NoThread \notin Threads

VARIABLES
  writer,    \* the thread that holds the write lock or waits for readers to leave
  readers,   \* the threads inside a read lock
  blocked    \* the threads kept out of RLock by the writer

lockVars == <<writer, readers, blocked>>

LockTypeOK ==
  /\ writer \in Threads \cup {NoThread}
  /\ readers \subseteq Threads
  /\ blocked \subseteq Threads

LockInit == writer = NoThread /\ readers = {} /\ blocked = {}

\* RLock returns at once, or the thread is blocked until the writer's Unlock;
\* either way the thread goes on when it is in readers.
RLock(t) ==
  /\ IF writer = NoThread
     THEN readers' = readers \cup {t} /\ UNCHANGED blocked
     ELSE blocked' = blocked \cup {t} /\ UNCHANGED readers
  /\ UNCHANGED writer

RUnlock(t) ==
  /\ readers' = readers \ {t}
  /\ UNCHANGED <<writer, blocked>>

\* Lock, first half: become the writer, which keeps new readers out.
Lock(t) ==
  /\ writer = NoThread
  /\ writer' = t
  /\ UNCHANGED <<readers, blocked>>

\* Lock returns to the writer when no reader is inside.
HasLock(t)  == writer = t /\ readers = {}
HasRLock(t) == t \in readers

Unlock(t) ==
  /\ writer' = NoThread
  /\ readers' = readers \cup blocked
  /\ blocked' = {}
=============================================================================
