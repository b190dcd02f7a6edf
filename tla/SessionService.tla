---------------------------- MODULE SessionService ----------------------------
(***************************************************************************)
(* SessionService (app/services/session_service.py): the handlers that     *)
(* address a session by its key, and create_session, which issues tokens   *)
(* through AuthService before it stores the session.                       *)
(***************************************************************************)
EXTENDS AuthService

CONSTANTS
  Patches,     \* the PATCH bodies sent
  Collisions   \* may the 24-bit suffix of a key repeat within a second?

\* A PATCH body as far as control depends on it; None where it is not sent.
Patch == [session_state : States \cup {None},
          turn_id       : Turns \cup {None},
          agent         : Agents \cup {None},
          bad           : BOOLEAN]

ASSUME PatchesAreRequests ==
  /\ Patches \subseteq Patch
  /\ None \notin States
  /\ Collisions \in BOOLEAN

VARIABLES born   \* history: when each key was last generated, Never if not

Never == -1

\* A caller learns a session key from a create that has answered.
Known(gsk) == \E j \in held : owner[j] = gsk

\* _generate_id: a timestamp in seconds and a random suffix.
GenerateId(gsk) ==
  /\ born[gsk] = Never \/ (Collisions /\ born[gsk] = now)
  /\ born' = [born EXCEPT ![gsk] = now]

-----------------------------------------------------------------------------
(* create_session.                                                         *)

CreateSession(p, gsk, j) ==
  /\ GenerateId(gsk)
  /\ CreateTokens(p, gsk, j)

\* The tokens are signed on the way to repo.create, and returned by a create
\* that finds the session there already.
CreateSessionGet(p) ==
  /\ CreateGet(p)
  /\ Sign(req[p].new)
  /\ held' = IF Exists(req[p].gsk) THEN held \cup {req[p].new} ELSE held
  /\ UNCHANGED <<jti, owner, parent>>

CreateSessionAnswer(p) ==
  /\ CreateExpire(p)
  /\ held' = held \cup {req[p].new}
  /\ UNCHANGED <<jti, tok, owner, parent>>

-----------------------------------------------------------------------------
(* patch_session_state.  turn_ids is computed from the hash fetched here   *)
(* and written by the update at the end.  A TALK renews the session before *)
(* reference_information is validated.                                     *)

\* Slip: a turn that is in the list already is appended again.
AppendTurn(ids, t) == IF t = None THEN ids ELSE Append(ids, t)

Accumulate(ids, t) ==
  IF t = None \/ t \in {ids[i] : i \in DOMAIN ids}
  THEN ids ELSE Append(ids, t)

\* turn_ids is written only when a turn_id was sent.
TurnIdsPatched(ids, t) == IF t = None THEN <<>> ELSE Accumulate(ids, t)

\* Slip: a session_state that was not sent is written all the same.
PatchUpdatesUnguarded(h, patch) ==
  [NoHash EXCEPT !.session_state = patch.session_state,
                 !.turn_ids = TurnIdsPatched(h.turn_ids, patch.turn_id)]

PatchUpdates(h, patch) ==
  [NoHash EXCEPT
     !.session_state = IF patch.session_state = None
                         THEN Absent ELSE patch.session_state,
     !.turn_ids = TurnIdsPatched(h.turn_ids, patch.turn_id)]

PatchSessionState(p, gsk, patch) ==
  LET r == [Idle EXCEPT !.op = "patch", !.gsk = gsk,
                        !.upd = PatchUpdates(session[gsk].hash, patch),
                        !.agent = patch.agent, !.bad = patch.bad]
  IN  /\ req[p] = Idle
      /\ Known(gsk)
      /\ Exists(gsk)
      /\ req' = [req EXCEPT ![p] =
                   At(r, IF patch.session_state = "talk"
                         THEN "ttl_get" ELSE AfterRefreshTtl(r))]

-----------------------------------------------------------------------------
(* close_session: the token mappings are not touched.                      *)

CloseSession(p, gsk) ==
  /\ req[p] = Idle
  /\ Known(gsk)
  /\ Exists(gsk)
  /\ req' = [req EXCEPT ![p] =
       At([Idle EXCEPT !.op = "close_key", !.gsk = gsk,
                       !.upd = [NoHash EXCEPT !.session_state = "end"]],
          "update_exists")]

-----------------------------------------------------------------------------
(* save_api_result.                                                        *)

SaveApiResult(p, gsk) ==
  /\ req[p] = Idle
  /\ Known(gsk)
  /\ Exists(gsk)
  /\ req' = [req EXCEPT ![p] = At([Idle EXCEPT !.op = "api_result",
                                               !.gsk = gsk], "turn_push")]

=============================================================================
