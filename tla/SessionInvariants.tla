-------------------------- MODULE SessionInvariants --------------------------
(***************************************************************************)
(* The inductive invariants of the session manager: what makes TypeOK and  *)
(* the life of the token pairs hold step by step.                          *)
(***************************************************************************)
EXTENDS SessionProperties

(* What a request in flight carries, by the command it is about to send.   *)
(* TypeOK alone is not inductive: a handler reads and writes the keys its  *)
(* request names, so the names must be there when they are used.           *)

\* Request r may go on with the command m.
Fits(r, m) ==
  /\ r.gsk \in Sessions
  /\ m \in CreateSteps => r.op = "create"
  /\ m \in RotateSteps => r.op = "refresh"
  /\ m \in MapSteps => r.agent # None
  /\ r.op = "refresh" => /\ m \in TtlSteps \cup RotateSteps \cup {"done"}
                         /\ r.jti \in Jtis
  /\ r.op \in {"create", "refresh"} => r.new \in Jtis

WellFormed(r) == r = Idle \/ (r.pc # "idle" /\ Fits(r, r.pc))

RequestsOK ==
  /\ req \in [Procs -> Request]
  /\ \A p \in Procs : WellFormed(req[p])

\* A jti that is mapped leads to a session key.
MappingsOK == \A j \in Jtis : Mapped(j) => jti[j].gsk \in Sessions

\* The inductive invariant behind TypeOK.
TypeInv == TypeOK /\ RequestsOK /\ MappingsOK

-----------------------------------------------------------------------------
(* Token pairs.  RotateSetex makes a pair usable without looking at        *)
(* anything but its own request, so the request must still tell the truth  *)
(* about the pairs: nobody else issues the new one, it is not mapped yet,  *)
(* and the old one has been deleted and cannot have come back, because only *)
(* the request that drew a jti ever maps it.                               *)

Refreshing(p) == req[p].op = "refresh"

\* A mapping leads to the session its jti was drawn for.
MappingsFollowOwner == \A j \in Jtis : Mapped(j) => jti[j].gsk = owner[j]

\* A jti that was not drawn replaces nothing.
FreshHaveNoParent == \A j \in Jtis : Fresh(j) => parent[j] = None

\* What a refresh in flight knows of its two pairs.
RefreshKnows(p) ==
  /\ owner[req[p].new] = req[p].gsk
  /\ owner[req[p].jti] = req[p].gsk
  /\ parent[req[p].new] = req[p].jti
  /\ ~Mapped(req[p].new)
  /\ req[p].pc = "rotate_setex" => ~Mapped(req[p].jti)

RefreshesKnow == \A p \in Procs : Refreshing(p) => RefreshKnows(p)

\* No two refreshes issue the same pair, and none replaces a pair that is
\* still being issued.
RefreshesAreApart ==
  \A p, q \in Procs :
    Refreshing(p) /\ Refreshing(q) =>
      /\ req[p].jti # req[q].new
      /\ p # q => req[p].new # req[q].new

\* Whatever requests overlap, a refresh that is about to map a new jti (the
\* SETEX of refresh_token) is the only one to do so, and the jti it replaces is
\* unmapped and stays so; every mapping leads to the session the jti was drawn
\* for.
TokenInv ==
  /\ TypeInv
  /\ MappingsFollowOwner
  /\ FreshHaveNoParent
  /\ RefreshesKnow
  /\ RefreshesAreApart

=============================================================================
