----------------------------- MODULE AuthService -----------------------------
(***************************************************************************)
(* AuthService (app/services/auth_service.py) with app/core/jwt.py: tokens *)
(* come in pairs that share a jti, and a pair is honoured as long as Redis *)
(* maps its jti to a session.                                              *)
(*                                                                         *)
(* Requests the code rejects before it has changed anything (401, 404) are *)
(* not started: they would leave every variable as it is.                  *)
(***************************************************************************)
EXTENDS SessionRepository

VARIABLES
  jti,     \* jti:{jti}: the session it maps to and the deadline
  tok,     \* the exp claims of the two tokens of each pair
  held,    \* the pairs whose response has reached the caller
  owner,   \* history: the session each jti was generated for
  parent   \* history: the jti each jti replaces, None for the first

authVars == <<jti, tok, held, owner, parent>>

AuthTypeOK ==
  /\ jti \in [Jtis -> [gsk : Sessions \cup {None}, exp : Deadline]]
  /\ tok \in [Jtis -> [access : Nat, refresh : Nat]]
  /\ held \in SUBSET Jtis
  /\ owner \in [Jtis -> Sessions \cup {None}]
  /\ parent \in [Jtis -> Jtis \cup {None}]

Unmapped == [gsk |-> None, exp |-> Gone]

AuthInit ==
  /\ jti = [j \in Jtis |-> Unmapped]
  /\ tok = [j \in Jtis |-> [access |-> 0, refresh |-> 0]]
  /\ held = {}
  /\ owner = [j \in Jtis |-> None]
  /\ parent = [j \in Jtis |-> None]

Mapped(j) == Live(jti[j].exp)

\* str(uuid4()) never repeats: j has not been drawn before.
Fresh(j) == owner[j] = None

\* The j drawn for session gsk, as a successor of the pair q.
Draw(j, gsk, q) ==
  /\ Fresh(j)
  /\ owner' = [owner EXCEPT ![j] = gsk]
  /\ parent' = [parent EXCEPT ![j] = q]

\* create_access_token and create_refresh_token.
Sign(j) ==
  tok' = [tok EXCEPT ![j] = [access  |-> now + AccessTTL,
                             refresh |-> now + RefreshTTL]]

\* verify_token: the caller has this token and its exp claim is ahead.
Verified(j, kind) ==
  /\ j \in held
  /\ now < IF kind = "access" THEN tok[j].access ELSE tok[j].refresh

\* set_jti_mapping with SESSION_CACHE_TTL.
SetJtiMappingForRefresh(j, gsk) ==     \* slip: the TTL of refresh tokens
  jti' = [jti EXCEPT ![j] = [gsk |-> gsk, exp |-> SetEx(now, RefreshTTL)]]

SetJtiMapping(j, gsk) ==
  jti' = [jti EXCEPT ![j] = [gsk |-> gsk, exp |-> SetEx(now, SessionTTL)]]

\* redis_client.delete(f"jti:{j}").
DeleteForgotten(j) == UNCHANGED jti    \* slip
DeleteJti(j) == jti' = [jti EXCEPT ![j] = Unmapped]

\* What the clock leaves of the mappings at time t.
JtiTick(t) ==
  jti' = [j \in Jtis |->
            IF Surviving(jti[j].exp, t) = Gone THEN Unmapped ELSE jti[j]]

-----------------------------------------------------------------------------
(* create_tokens: the mapping first, the tokens when it is acknowledged.   *)

CreateTokens(p, gsk, j) ==
  /\ req[p] = Idle
  /\ Draw(j, gsk, None)
  /\ SetJtiMapping(j, gsk)
  /\ req' = [req EXCEPT ![p] = At([Idle EXCEPT !.op = "create", !.gsk = gsk,
                                               !.new = j], "create_get")]
  /\ UNCHANGED <<tok, held>>

-----------------------------------------------------------------------------
(* refresh_token: look the refresh token up, refresh_ttl, then replace the *)
(* pair.  new_jti is drawn with the lookup (nothing reads it in between).  *)
(* The result of refresh_ttl is ignored, so a session that is gone does    *)
(* not stop the rotation.                                                  *)

RefreshLookup(p, j, new) ==
  /\ req[p] = Idle
  /\ Verified(j, "refresh")
  /\ Mapped(j)
  /\ Draw(new, jti[j].gsk, j)
  /\ req' = [req EXCEPT ![p] =
               At([Idle EXCEPT !.op = "refresh", !.gsk = jti[j].gsk, !.jti = j,
                               !.kind = "refresh", !.new = new], "ttl_get")]
  /\ UNCHANGED <<jti, tok, held>>

RotateDel(p) ==
  /\ Step(p, "rotate_del", "rotate_setex")
  /\ Sign(req[p].new)
  /\ DeleteJti(req[p].jti)
  /\ UNCHANGED <<held, owner, parent>>

MapOldPair(p) ==     \* slip: the old jti is mapped again
  /\ Step(p, "rotate_setex", "done")
  /\ SetJtiMapping(req[p].jti, req[p].gsk)
  /\ UNCHANGED <<tok, owner, parent>>

MapNewPair(p) ==
  /\ Step(p, "rotate_setex", "done")
  /\ SetJtiMapping(req[p].new, req[p].gsk)
  /\ UNCHANGED <<tok, owner, parent>>

\* The answer carries the new pair to the caller.
RotateSetex(p) == MapNewPair(p) /\ held' = held \cup {req[p].new}

-----------------------------------------------------------------------------
(* close_session_by_token: look the token up (either kind passes), fetch   *)
(* the session, update it to END, then verify the token once more and      *)
(* delete its mapping if the token is still good.                          *)

CloseLookup(p, j, kind) ==
  /\ req[p] = Idle
  /\ Verified(j, kind)
  /\ Mapped(j)
  /\ req' = [req EXCEPT ![p] =
               At([Idle EXCEPT !.op = "close_token", !.gsk = jti[j].gsk,
                               !.jti = j, !.kind = kind], "close_get")]
  /\ UNCHANGED authVars

CloseGet(p) ==
  /\ req[p].pc = "close_get"
  /\ req' = [req EXCEPT ![p] =
       IF Exists(@.gsk)
       THEN At([@ EXCEPT !.upd = [NoHash EXCEPT !.session_state = "end"]],
               "update_exists")
       ELSE At(@, "done")]
  /\ UNCHANGED authVars

Revoke(p) ==
  /\ Step(p, "revoke", "done")
  /\ IF Verified(req[p].jti, req[p].kind)
       THEN DeleteJti(req[p].jti) ELSE UNCHANGED jti
  /\ UNCHANGED <<tok, held, owner, parent>>

=============================================================================
