------------------------------ MODULE TokenLife ------------------------------
(***************************************************************************)
(* What the token pairs of the session manager promise, whatever requests  *)
(* overlap, stop half-way or are sent again: a pair is issued for one      *)
(* session and keeps it; it becomes usable once, and only when the pair it *)
(* replaces has ended; once ended it is never usable again.                *)
(***************************************************************************)
CONSTANTS Jtis, Sessions, None

VARIABLES
  status,   \* "none", "pending", "live" or "dead"
  owner,    \* the session a pair is for
  parent    \* the pair it replaces, None for the first of a session

vars == <<status, owner, parent>>

TypeOK ==
  /\ status \in [Jtis -> {"none", "pending", "live", "dead"}]
  /\ owner \in [Jtis -> Sessions \cup {None}]
  /\ parent \in [Jtis -> Jtis \cup {None}]

Init ==
  /\ status = [j \in Jtis |-> "none"]
  /\ owner = [j \in Jtis |-> None]
  /\ parent = [j \in Jtis |-> None]

\* The first pair of a session is usable at once.
Issue(j, s) ==
  /\ status[j] = "none"
  /\ status' = [status EXCEPT ![j] = "live"]
  /\ owner' = [owner EXCEPT ![j] = s]
  /\ UNCHANGED parent

\* Only a usable pair can be given a successor, for the same session.
Succeed(j, q) ==
  /\ status[j] = "none"
  /\ status[q] = "live"
  /\ status' = [status EXCEPT ![j] = "pending"]
  /\ owner' = [owner EXCEPT ![j] = owner[q]]
  /\ parent' = [parent EXCEPT ![j] = q]

Activate(j) ==
  /\ status[j] = "pending"
  /\ status[parent[j]] = "dead"
  /\ status' = [status EXCEPT ![j] = "live"]
  /\ UNCHANGED <<owner, parent>>

\* Pairs end when they are revoked or replaced, when their time comes, or
\* when the request that was issuing them stops.
Drop(J) ==
  /\ \A j \in J : status[j] \in {"pending", "live"}
  /\ status' = [j \in Jtis |-> IF j \in J THEN "dead" ELSE status[j]]
  /\ UNCHANGED <<owner, parent>>

Next ==
  \/ \E j \in Jtis, s \in Sessions : Issue(j, s)
  \/ \E j, q \in Jtis : Succeed(j, q)
  \/ \E j \in Jtis : Activate(j)
  \/ \E J \in SUBSET Jtis : Drop(J)

Spec == Init /\ [][Next]_vars

=============================================================================
