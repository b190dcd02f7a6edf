-------------------------- MODULE SessionRepository --------------------------
(***************************************************************************)
(* RedisSessionRepository and the RedisHelper methods under it: the        *)
(* session hash, the turn list and the profile keys, and the subroutines   *)
(* that request handlers run on them.                                      *)
(*                                                                         *)
(* A handler is a coroutine: it runs without interruption from the return  *)
(* of one await to the next Redis command, and other handlers (of this pod *)
(* or another) run between its commands.  So one action here is the code   *)
(* from an await up to and including the next command, and req[p].pc names *)
(* that command.  What a handler has read and still intends to use is kept *)
(* in req[p]: snap is a hash it fetched, upd the fields it will write.     *)
(***************************************************************************)
EXTENDS RedisKeys, Sequences, FiniteSets

CONSTANTS
  Procs,       \* handlers in flight at a time
  Sessions,    \* global session keys
  Jtis,        \* JWT ids
  Cusnos,      \* customer numbers
  Agents,      \* agent ids
  Turns,       \* turn ids
  None,        \* an absent value
  SessionTTL,  \* SESSION_CACHE_TTL
  AccessTTL,   \* JWT_ACCESS_TOKEN_EXPIRE_SECONDS
  RefreshTTL   \* JWT_REFRESH_TOKEN_EXPIRE_SECONDS

ASSUME NoneIsNoValue ==
  /\ None \notin Sessions \cup Jtis \cup Cusnos \cup Agents \cup Turns
  /\ Sessions \cap Cusnos = {}

ASSUME TTLsArePositive ==
  /\ SessionTTL \in Nat \ {0}
  /\ AccessTTL \in Nat \ {0}
  /\ RefreshTTL \in Nat \ {0}

VARIABLES
  now,         \* the clock
  session,     \* session:{gsk}: hash and deadline
  turns,       \* turns:{gsk}: deadline (the entries are not told apart)
  realtime,    \* profile:realtime:{cusno or gsk}: deadline
  batch,       \* profile:batch:{cusno}: deadline
  req          \* the handler each process is in

keyVars == <<now, session, turns, realtime, batch>>
storeVars == <<keyVars, req>>

-----------------------------------------------------------------------------
(* The session hash.  A field that was never written is absent.            *)

States == {"start", "talk", "end"}
Absent == "absent"

Hash == [session_state  : States \cup {Absent},
         turn_ids       : Seq(Turns),
         agent_mappings : SUBSET Agents,
         cusno          : Cusnos \cup {None},
         expires_at     : Nat]

NoHash == [session_state |-> Absent, turn_ids |-> <<>>, agent_mappings |-> {},
           cusno |-> None, expires_at |-> 0]

\* HSET key mapping=u: the fields of u replace those of h, the fields u does
\* not have are kept.
HSet(h, u) ==
  [session_state  |-> IF u.session_state = Absent
                        THEN h.session_state ELSE u.session_state,
   turn_ids       |-> IF u.turn_ids = <<>> THEN h.turn_ids ELSE u.turn_ids,
   agent_mappings |-> IF u.agent_mappings = {}
                        THEN h.agent_mappings ELSE u.agent_mappings,
   cusno          |-> IF u.cusno = None THEN h.cusno ELSE u.cusno,
   expires_at     |-> IF u.expires_at = 0 THEN h.expires_at ELSE u.expires_at]

Owners == Sessions \cup Cusnos

\* Slip: the profile is always looked for under the session key.
ProfileKeyOfSession(gsk, cusno) == gsk

\* The key a realtime profile is stored under.
ProfileKey(gsk, cusno) == IF cusno = None THEN gsk ELSE cusno

-----------------------------------------------------------------------------
(* Requests.                                                               *)

Ops == {"create", "refresh", "close_token", "profile",
        "patch", "close_key", "api_result"}

CreateSteps  == {"create_get", "create_hset", "create_expire"}
TtlSteps     == {"ttl_get", "ttl_hset", "ttl_expire",
                 "ttl_turns", "ttl_realtime", "ttl_batch"}
MapSteps     == {"map_get", "map_exists", "map_hset"}
UpdateSteps  == {"update_exists", "update_hset"}
RotateSteps  == {"rotate_del", "rotate_setex"}
CloseSteps   == {"close_get", "revoke"}
TurnSteps    == {"turn_push", "turn_expire"}
ProfileSteps == {"profile_get", "realtime_set", "realtime_expire",
                 "batch_set", "batch_expire"}
Steps == CreateSteps \cup TtlSteps \cup MapSteps \cup UpdateSteps
         \cup RotateSteps \cup CloseSteps \cup TurnSteps \cup ProfileSteps

Request == [op    : Ops \cup {"none"},
            pc    : Steps \cup {"idle"},
            gsk   : Sessions \cup {None},   \* the session addressed
            jti   : Jtis \cup {None},       \* of the token presented
            kind  : {"access", "refresh"},  \* of the token presented
            new   : Jtis \cup {None},       \* of the tokens being issued
            snap  : Hash,
            upd   : Hash,
            agent : Agents \cup {None},     \* state_patch.last_agent_id
            bad   : BOOLEAN]                \* reference_information invalid

Idle == [op |-> "none", pc |-> "idle", gsk |-> None, jti |-> None,
         kind |-> "access", new |-> None, snap |-> NoHash, upd |-> NoHash,
         agent |-> None, bad |-> FALSE]

\* Request r goes on with the command l, or answers.
At(r, l) == IF l = "done" THEN Idle ELSE [r EXCEPT !.pc = l]

\* Process p, in command l, goes on with the command m.
Step(p, l, m) ==
  /\ req[p].pc = l
  /\ req' = [req EXCEPT ![p] = At(@, m)]

\* The same when p returns from a subroutine whose snapshot ends with it.
Return(p, l, m) ==
  /\ req[p].pc = l
  /\ req' = [req EXCEPT ![p] = At([@ EXCEPT !.snap = NoHash], m)]

\* Where refresh_ttl and update return to in the handler that called them.
AfterRefreshTtl(r) ==
  IF r.op = "refresh" THEN "rotate_del"
  ELSE IF r.bad THEN "done"
  ELSE IF r.agent # None THEN "map_get" ELSE "update_exists"

AfterUpdate(r) ==
  CASE r.op = "close_token" -> "revoke"
    [] r.op = "profile"     -> "realtime_set"
    [] OTHER                -> "done"

Exists(gsk) == Live(session[gsk].exp)

HSetSession(gsk, u) ==
  session' = [session EXCEPT ![gsk] = [hash |-> HSet(@.hash, u),
                                       exp  |-> Write(@.exp)]]

\* The expires_at field create and refresh_ttl write.
ExpiresAtOfTokens == now + RefreshTTL    \* slip: the wrong TTL
ExpiresAt == now + SessionTTL

\* Slips: EXPIRE is forgotten; EXPIRE NX, which renews nothing.
ExpireForgotten(gsk) == UNCHANGED session
ExpireOnce(gsk) ==
  session' = [session EXCEPT ![gsk].exp =
                IF @ = Persist THEN Expire(@, now, SessionTTL) ELSE @]

ExpireSession(gsk) ==
  session' = [session EXCEPT ![gsk].exp = Expire(@, now, SessionTTL)]

-----------------------------------------------------------------------------
(* create: return an existing session, else HSET and EXPIRE a new hash.    *)

CreateGet(p) ==
  /\ Step(p, "create_get",
          IF Exists(req[p].gsk) THEN "done" ELSE "create_hset")
  /\ UNCHANGED keyVars

CreateHset(p) ==
  /\ Step(p, "create_hset", "create_expire")
  /\ HSetSession(req[p].gsk,
                 [NoHash EXCEPT !.session_state = "start",
                                !.expires_at = ExpiresAt])
  /\ UNCHANGED <<now, turns, realtime, batch>>

CreateExpire(p) ==
  /\ Step(p, "create_expire", "done")
  /\ ExpireSession(req[p].gsk)
  /\ UNCHANGED <<now, turns, realtime, batch>>

-----------------------------------------------------------------------------
(* refresh_ttl: read the hash, write all of it back with a new expires_at, *)
(* then renew the deadlines of the session, its turns and its profiles.    *)
(* EXISTS followed by EXPIRE is one action: EXPIRE does nothing to an      *)
(* absent key, whatever EXISTS said.                                       *)

\* Slip: a session that is gone is waited for.
TtlGetRetry(p) ==
  LET gsk == req[p].gsk
  IN  /\ req[p].pc = "ttl_get"
      /\ req' = [req EXCEPT ![p] =
                   IF Exists(gsk)
                   THEN At([@ EXCEPT !.snap = session[gsk].hash], "ttl_hset")
                   ELSE @]
      /\ UNCHANGED keyVars

TtlGet(p) ==
  LET gsk == req[p].gsk
  IN  /\ req[p].pc = "ttl_get"
      /\ req' = [req EXCEPT ![p] =
                   IF Exists(gsk)
                   THEN At([@ EXCEPT !.snap = session[gsk].hash], "ttl_hset")
                   ELSE At(@, AfterRefreshTtl(@))]
      /\ UNCHANGED keyVars

\* From here on only cusno is used of the hash that was read.
TtlHset(p) ==
  /\ req[p].pc = "ttl_hset"
  /\ HSetSession(req[p].gsk,
                 [req[p].snap EXCEPT !.expires_at = ExpiresAt])
  /\ req' = [req EXCEPT ![p] =
       At([@ EXCEPT !.snap = [NoHash EXCEPT !.cusno = req[p].snap.cusno]],
          "ttl_expire")]
  /\ UNCHANGED <<now, turns, realtime, batch>>

TtlExpire(p) ==
  /\ Step(p, "ttl_expire", "ttl_turns")
  /\ ExpireSession(req[p].gsk)
  /\ UNCHANGED <<now, turns, realtime, batch>>

TtlTurnsSkipped(p) ==     \* slip: the turns are not renewed
  /\ Step(p, "ttl_turns", "ttl_realtime")
  /\ UNCHANGED keyVars

TtlTurns(p) ==
  /\ Step(p, "ttl_turns", "ttl_realtime")
  /\ turns' = [turns EXCEPT ![req[p].gsk] = Expire(@, now, SessionTTL)]
  /\ UNCHANGED <<now, session, realtime, batch>>

TtlRealtimeSkipped(p) ==     \* slip: the realtime profile is not renewed
  /\ IF req[p].snap.cusno # None
       THEN Step(p, "ttl_realtime", "ttl_batch")
       ELSE Return(p, "ttl_realtime", AfterRefreshTtl(req[p]))
  /\ UNCHANGED keyVars

TtlRealtime(p) ==
  LET cusno == req[p].snap.cusno
  IN  /\ IF cusno # None
           THEN Step(p, "ttl_realtime", "ttl_batch")
           ELSE Return(p, "ttl_realtime", AfterRefreshTtl(req[p]))
      /\ realtime' = [realtime EXCEPT ![ProfileKey(req[p].gsk, cusno)] =
                        Expire(@, now, SessionTTL)]
      /\ UNCHANGED <<now, session, turns, batch>>

TtlBatch(p) ==
  /\ Return(p, "ttl_batch", AfterRefreshTtl(req[p]))
  /\ batch' = [batch EXCEPT ![req[p].snap.cusno] = Expire(@, now, SessionTTL)]
  /\ UNCHANGED <<now, session, turns, realtime>>

RefreshTtl(p) == \/ TtlGet(p) \/ TtlHset(p) \/ TtlExpire(p)
                 \/ TtlTurns(p) \/ TtlRealtime(p) \/ TtlBatch(p)

-----------------------------------------------------------------------------
(* update: EXISTS, then HSET of the fields in upd.  The HSET does not look *)
(* again, and sets no deadline.  updated_at makes the mapping non-empty, so *)
(* the HSET is always sent; the hash fetched afterwards is not used.       *)

UpdateExists(p) ==
  /\ Step(p, "update_exists",
          IF Exists(req[p].gsk) THEN "update_hset" ELSE AfterUpdate(req[p]))
  /\ UNCHANGED keyVars

UpdateHset(p) ==
  /\ Step(p, "update_hset", AfterUpdate(req[p]))
  /\ HSetSession(req[p].gsk, req[p].upd)
  /\ UNCHANGED <<now, turns, realtime, batch>>

Update(p) == UpdateExists(p) \/ UpdateHset(p)

-----------------------------------------------------------------------------
(* set_local_mapping: read agent_mappings, add one, and write them back    *)
(* through update_session.                                                 *)

MapGet(p) ==
  LET gsk == req[p].gsk
  IN  /\ req[p].pc = "map_get"
      /\ req' = [req EXCEPT ![p] =
                   IF Exists(gsk)
                   THEN At([@ EXCEPT !.snap.agent_mappings =
                              session[gsk].hash.agent_mappings], "map_exists")
                   ELSE At(@, "update_exists")]
      /\ UNCHANGED keyVars

MapExists(p) ==
  /\ req[p].pc = "map_exists"
  /\ IF Exists(req[p].gsk)
       THEN Step(p, "map_exists", "map_hset")
       ELSE Return(p, "map_exists", "update_exists")
  /\ UNCHANGED keyVars

MappingsReplaced(r) == {r.agent}    \* slip: what was read is not used
MappingsWith(r) == r.snap.agent_mappings \cup {r.agent}

MapHset(p) ==
  /\ Return(p, "map_hset", "update_exists")
  /\ HSetSession(req[p].gsk,
                 [NoHash EXCEPT !.agent_mappings = MappingsWith(req[p])])
  /\ UNCHANGED <<now, turns, realtime, batch>>

SetLocalMapping(p) == MapGet(p) \/ MapExists(p) \/ MapHset(p)

-----------------------------------------------------------------------------
(* add_turn: RPUSH, then EXPIRE.                                           *)

TurnPush(p) ==
  /\ Step(p, "turn_push", "turn_expire")
  /\ turns' = [turns EXCEPT ![req[p].gsk] = Write(@)]
  /\ UNCHANGED <<now, session, realtime, batch>>

TurnExpireForgotten(p) ==     \* slip: no EXPIRE after RPUSH
  /\ Step(p, "turn_expire", "done")
  /\ UNCHANGED keyVars

TurnExpire(p) ==
  /\ Step(p, "turn_expire", "done")
  /\ turns' = [turns EXCEPT ![req[p].gsk] = Expire(@, now, SessionTTL)]
  /\ UNCHANGED <<now, session, realtime, batch>>

AddTurn(p) == TurnPush(p) \/ TurnExpire(p)

-----------------------------------------------------------------------------

StoreTypeOK ==
  /\ now \in Nat
  /\ session \in [Sessions -> [hash : Hash, exp : Deadline]]
  /\ turns \in [Sessions -> Deadline]
  /\ realtime \in [Owners -> Deadline]
  /\ batch \in [Cusnos -> Deadline]
  /\ req \in [Procs -> Request]

StoreInit ==
  /\ now = 0
  /\ session = [s \in Sessions |-> [hash |-> NoHash, exp |-> Gone]]
  /\ turns = [s \in Sessions |-> Gone]
  /\ realtime = [o \in Owners |-> Gone]
  /\ batch = [c \in Cusnos |-> Gone]
  /\ req = [p \in Procs |-> Idle]

\* The clock advances and Redis drops the keys whose deadline has come.
StoreTick ==
  /\ now' = now + 1
  /\ session' = [s \in Sessions |->
       IF Surviving(session[s].exp, now') = Gone
       THEN [hash |-> NoHash, exp |-> Gone] ELSE session[s]]
  /\ turns' = [s \in Sessions |-> Surviving(turns[s], now')]
  /\ realtime' = [o \in Owners |-> Surviving(realtime[o], now')]
  /\ batch' = [c \in Cusnos |-> Surviving(batch[c], now')]
  /\ UNCHANGED req

=============================================================================
