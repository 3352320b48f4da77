------------------------------- MODULE Mirror -------------------------------
(* What a page that polls promises about a server's list: nothing the server *)
(* never said, nothing older than what is known for ever, and in the end the *)
(* news. What is "closed" stays so.                                          *)
EXTENDS Integers

CONSTANT Ids
VARIABLES source, copy

States == {"none", "open", "closed"}
Rank   == [s \in States |-> CASE s = "none" -> 0 [] s = "open" -> 1 [] s = "closed" -> 2]

\* Every entry of m is one the list l had, now or before.
KnownFrom(m, l) == \A i \in Ids : Rank[m[i]] <= Rank[l[i]]

Init == source \in [Ids -> States] /\ copy = source

\* The list moves on.
Change ==
  /\ source' \in [Ids -> States]
  /\ KnownFrom(source, source')
  /\ UNCHANGED copy

\* The copy is replaced, in part or in whole, by an earlier state of the list;
\* or entries are taken out of it.
Refresh ==
  /\ copy' \in [Ids -> States]
  /\ KnownFrom(copy', source)
  /\ UNCHANGED source

Next == Change \/ Refresh

Safe == Init /\ [][Next]_<<source, copy>>

\* The news arrives and stays.
Arrives == \A i \in Ids : (source[i] = "closed") ~> [](copy[i] # "open")

Spec == Safe /\ Arrives
=============================================================================
