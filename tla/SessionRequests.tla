--------------------------- MODULE SessionRequests ---------------------------
(***************************************************************************)
(* The session manager seen between requests, and SessionStore, which it   *)
(* implements when requests do not overlap.                                *)
(***************************************************************************)
EXTENDS SessionInvariants

VARIABLE settled   \* history: the keys and tokens when no handler was in flight

Settled == [now |-> now, session |-> session, turns |-> turns,
            realtime |-> realtime, batch |-> batch, jti |-> jti, tok |-> tok,
            owner |-> owner, parent |-> parent, held |-> held]

SettledInit == Init /\ settled = Settled

SettledNext ==
  /\ Next
  /\ settled' = IF AllIdle' THEN Settled' ELSE settled

SettledSpec == SettledInit /\ [][SettledNext]_<<vars, settled>>

-----------------------------------------------------------------------------

\* A session is there as long as its key; its expiry is the one it shows.
SessionSeen(s) ==
  LET h == settled.session[s].hash
  IN  IF Live(settled.session[s].exp)
      THEN [state      |-> h.session_state,
            turn_ids   |-> h.turn_ids,
            agents     |-> h.agent_mappings,
            cusno      |-> h.cusno,
            expires_at |-> h.expires_at]
      ELSE [state |-> "none", turn_ids |-> <<>>, agents |-> {},
            cusno |-> None, expires_at |-> 0]

PairSeen(j) ==
  [session  |-> settled.owner[j],
   replaces |-> settled.parent[j],
   access   |-> settled.tok[j].access,
   refresh  |-> settled.tok[j].refresh,
   until    |-> settled.jti[j].exp]

Store ==
  INSTANCE SessionStore WITH
    now      <- settled.now,
    sessions <- [s \in Sessions |-> SessionSeen(s)],
    turns    <- settled.turns,
    realtime <- settled.realtime,
    batch    <- settled.batch,
    pairs    <- [j \in Jtis |-> PairSeen(j)],
    held     <- settled.held

\* Requests that neither overlap nor straddle a deadline take effect as a whole:
\* the commands of a handler, among them the renewals of four kinds of keys one
\* after the other, add up to one step of SessionStore, the expiry a session
\* shows is the moment its key goes, and a pair is usable only for a session
\* that is there.
RequestsAreAtomic == Store!Spec

=============================================================================
