-------------------------- MODULE SessionProperties --------------------------
(***************************************************************************)
(* What the session manager guarantees, and what its documents say of it.  *)
(* The properties come in three groups: those that hold however requests   *)
(* overlap, those that hold of requests that do not overlap, or do not     *)
(* straddle a deadline, and those the documents state and the code does    *)
(* not keep.                                                               *)
(***************************************************************************)
EXTENDS SessionManager

AllIdle == \A p \in Procs : req[p] = Idle

\* Some handler has yet to EXPIRE the session key it has just written.
Renewing(s) ==
  \E p \in Procs : req[p].gsk = s /\ req[p].pc \in {"create_expire", "ttl_expire"}

\* Some handler has renewed the session and has yet to renew its turns.
TurnsPending(s) ==
  \E p \in Procs : req[p].gsk = s /\ req[p].pc = "ttl_turns"

Answers(p) == req[p] # Idle /\ req'[p] = Idle /\ failures' = failures

-----------------------------------------------------------------------------
(* However requests overlap.                                               *)

\* Every variable keeps its type.
TypeOK ==
  /\ StoreTypeOK
  /\ AuthTypeOK
  /\ born \in [Sessions -> Nat \cup {Never}]
  /\ failures \in Nat

\* The life of a token pair as TokenLife tells it.
TokenStatus(j) ==
  IF Mapped(j) THEN "live"
  ELSE IF Fresh(j) THEN "none"
  ELSE IF \E p \in Procs : req[p].op = "refresh" /\ req[p].new = j
    THEN "pending" ELSE "dead"

TokenLifeOfJtis ==
  INSTANCE TokenLife WITH status <- [j \in Jtis |-> TokenStatus(j)]

\* The jti mappings written by create_tokens, refresh_token and
\* close_session_by_token implement TokenLife: overlapping refreshes of one
\* token, expiry in the middle of a rotation and a handler that stops between
\* DEL and SETEX never bring a pair back, never move it to another session and
\* never leave it usable beside the pair it replaced.
TokensFollowTokenLife == TokenLifeOfJtis!Spec

\* The expires_at a session shows (verify returns it) is never later than the
\* moment Redis drops the session, unless the EXPIRE of a set_session is still
\* to come: refresh_ttl writes whole hashes back, possibly over a newer
\* expires_at, and this must never promise more time than the key has.
AdvertisedExpiryIsKept ==
  failures = 0 =>
    \A s \in Sessions :
      Exists(s) /\ session[s].exp # Persist /\ ~Renewing(s)
        => session[s].hash.expires_at <= session[s].exp

\* A session key without a deadline that no handler is about to give one is a
\* remnant: an update re-created the key after it expired, and it has no
\* expires_at.  No key that create or refresh_ttl wrote stays without deadline.
ImmortalSessionsAreRemnants ==
  failures = 0 =>
    \A s \in Sessions :
      session[s].exp = Persist /\ ~Renewing(s)
        => session[s].hash.expires_at = 0

\* turn_ids never holds a turn twice, although every PATCH appends to the list
\* it read before its other commands and refresh_ttl writes old lists back.
TurnIdsAreDistinct ==
  \A s \in Sessions :
    LET ids == session[s].hash.turn_ids
    IN  \A i, k \in DOMAIN ids : ids[i] = ids[k] => i = k

\* The turn list of a session is not dropped before the session, unless a
\* refresh_ttl is between renewing the one and the other.  (Claimed when no
\* session key is generated twice.)
TurnsOutliveSession ==
  failures = 0 =>
    \A s \in Sessions :
      session[s].exp > 0 /\ turns[s] > 0 /\ ~TurnsPending(s)
        => turns[s] >= session[s].exp

\* A handler whose commands are answered answers its request: no branch of
\* the nested subroutines leaves it waiting.
RequestsAreAnswered ==
  \A p \in Procs : req[p] # Idle ~> req[p] = Idle

-----------------------------------------------------------------------------
(* Requests that do not overlap, whatever expires between their commands.  *)

\* A session has at most one usable token pair (README: the old token is
\* invalidated by a refresh).
OneTokenPairPerSession ==
  AllIdle => \A j, k \in Jtis :
               Mapped(j) /\ Mapped(k) /\ jti[j].gsk = jti[k].gsk => j = k

\* Only one pair is ever signed in exchange for a refresh token, also when the
\* answer that carried it was lost and the caller sends the old token again.
RefreshTokensAreUsedOnce ==
  \A j, k \in Jtis :
    /\ tok[j].refresh > 0 /\ tok[k].refresh > 0
    /\ parent[j] = parent[k] /\ parent[j] # None
    => j = k

\* Whatever handlers do to a session that lives on, the turns and the agent
\* mappings recorded in it stay.
RecordsAccumulate ==
  [][\A s \in Sessions :
       Exists(s) /\ Live(session'[s].exp) =>
         /\ \A i \in DOMAIN session[s].hash.turn_ids :
              \E k \in DOMAIN session'[s].hash.turn_ids :
                session'[s].hash.turn_ids[k] = session[s].hash.turn_ids[i]
         /\ session[s].hash.agent_mappings
              \subseteq session'[s].hash.agent_mappings]_vars

-----------------------------------------------------------------------------
(* Requests that do not straddle a deadline, however they overlap; the     *)
(* last three suppose as well that no handler stops half-way.              *)

\* A refresh that answers has extended a session that exists.
RefreshExtendsSession ==
  [][\A p \in Procs :
       req[p].op = "refresh" /\ Answers(p) => Exists(req[p].gsk)]_vars

\* When close_session_by_token has answered, the token's mapping is deleted
\* ("jti 매핑 삭제로 토큰 즉시 무효화").
ClosedTokensAreDead ==
  [][\A p \in Procs :
       req[p].op = "close_token" /\ Answers(p) /\ Exists(req[p].gsk)
         => ~Live(jti'[req[p].jti].exp)]_vars

\* A usable token pair leads to a session: verify never answers that a token
\* is good and its session gone.
TokensLeadToSessions ==
  AllIdle => \A j \in Jtis : Mapped(j) => Exists(jti[j].gsk)

\* Everything stored has a deadline (README: TTL of every key).
EverythingExpires ==
  AllIdle =>
    /\ \A s \in Sessions : session[s].exp # Persist /\ turns[s] # Persist
    /\ \A o \in Owners : realtime[o] # Persist
    /\ \A c \in Cusnos : batch[c] # Persist

\* A session that names a customer has that customer's realtime profile for as
\* long as it lives: resolve_session reads the profile by the session's cusno.
ProfileOutlivesSession ==
  AllIdle =>
    \A s \in Sessions :
      Exists(s) /\ session[s].hash.cusno # None
        => /\ Live(realtime[session[s].hash.cusno])
           /\ realtime[session[s].hash.cusno] >= session[s].exp

-----------------------------------------------------------------------------
(* What the documents say and the code does not keep.                      *)

\* policy.py: nothing follows the state END.
EndIsFinal ==
  [][\A s \in Sessions :
       /\ session[s].hash.session_state = "end"
       /\ Live(session'[s].exp)
       => session'[s].hash.session_state = "end"]_vars

=============================================================================
