------------------------------ MODULE TurnProofs ------------------------------
(***************************************************************************)
(* The turns of a session outlive it, as long as no session key is         *)
(* generated twice: session and turns are renewed by separate commands of  *)
(* handlers that overlap.                                                  *)
(***************************************************************************)
EXTENDS PairProofs

\* What is true of the key and its callers: a create that has yet to answer is
\* the only one to know its key, turns are pushed for known keys only.
KeysKnown ==
  /\ \A p \in Procs : req[p].op = "create" =>
       /\ owner[req[p].new] = req[p].gsk
       /\ \A j \in Jtis : owner[j] = req[p].gsk => j = req[p].new
  /\ \A p \in Procs : req[p].pc = "turn_push" => Known(req[p].gsk)
  /\ \A s \in Sessions : turns[s] # Gone => Known(s)
  /\ \A j \in Jtis : ~Fresh(j) => born[owner[j]] # Never

DeadlinesBounded == \A s \in Sessions : session[s].exp <= now + SessionTTL

TurnsKept ==
  failures = 0 =>
    \A s \in Sessions :
      session[s].exp > 0 /\ turns[s] > 0 /\ ~TurnsPending(s)
        => turns[s] >= session[s].exp

TurnInv == KeysKnown /\ DeadlinesBounded /\ TurnsKept

-----------------------------------------------------------------------------
(* One step of a handler.                                                  *)

\* What happens to the turns of the session the handler works on.
TurnsMove(p) ==
  \A s \in Sessions :
    \/ turns'[s] = turns[s] /\ (req[p].pc = "ttl_turns" /\ req[p].gsk = s => turns[s] = Gone)
    \/ req[p].gsk = s /\ turns[s] # Gone /\ turns'[s] = now + SessionTTL
    \/ req[p].gsk = s /\ turns'[s] = Persist /\ req[p].pc = "turn_push"

\* When its deadline moves.
DeadlineMoves(p) ==
  \A s \in Sessions :
    \/ session'[s].exp \in {session[s].exp, Persist}
    \/ /\ req[p].gsk = s
       /\ session'[s].exp = now + SessionTTL
       /\ \/ req[p].pc = "create_expire"
          \/ req'[p].gsk = s /\ req'[p].pc = "ttl_turns"

LEMMA ContinueMoves ==
  ASSUME TypeInv, NEW p \in Procs, Continue(p)
  PROVE  TurnsMove(p) /\ DeadlineMoves(p) /\ UNCHANGED <<failures, born>>
<1>0. /\ turns \in [Sessions -> Deadline]
      /\ session \in [Sessions -> [hash : Hash, exp : Deadline]]
      /\ req \in [Procs -> Request]
  BY DEF TypeInv, TypeOK, StoreTypeOK
<1> SUFFICES TurnsMove(p) /\ DeadlineMoves(p)
  BY DEF Continue, StoreStep, CreateStep, TokenStep
<1>1. CASE TtlTurns(p)
  BY <1>0, <1>1 DEF TtlTurns, Step, Expire, Live, Gone, TurnsMove, DeadlineMoves
<1>2. CASE TurnPush(p)
  BY <1>0, <1>2 DEF TurnPush, Step, Write, Live, Gone, TurnsMove, DeadlineMoves
<1>3. CASE TurnExpire(p)
  BY <1>0, <1>3 DEF TurnExpire, Step, Expire, Live, Gone, TurnsMove, DeadlineMoves
<1>4. ASSUME UNCHANGED turns, req[p].pc # "ttl_turns",
             \E u : HSetSession(req[p].gsk, u)
      PROVE  TurnsMove(p) /\ DeadlineMoves(p)
  BY <1>0, <1>4 DEF HSetSession, Write, TurnsMove, DeadlineMoves
<1>5. CASE CreateHset(p) \/ TtlHset(p) \/ UpdateHset(p) \/ MapHset(p)
  BY <1>4, <1>5 DEF CreateHset, TtlHset, UpdateHset, MapHset, Step, Return
<1>6. CASE TtlExpire(p)
  <2>1. /\ req'[p].pc = "ttl_turns" /\ req'[p].gsk = req[p].gsk
        /\ req[p].pc = "ttl_expire"
    BY <1>0, <1>6 DEF TtlExpire, Step, At, Request
  <2> QED BY <1>0, <1>6, <2>1
          DEF TtlExpire, ExpireSession, Expire, Live, Gone, TurnsMove, DeadlineMoves
<1>7. CASE CreateExpire(p)
  BY <1>0, <1>7
     DEF CreateExpire, Step, ExpireSession, Expire, Live, Gone, TurnsMove, DeadlineMoves
<1>8. ASSUME UNCHANGED <<turns, session>>, req[p].pc # "ttl_turns"
      PROVE  TurnsMove(p) /\ DeadlineMoves(p)
  BY <1>8 DEF TurnsMove, DeadlineMoves
<1>9. CASE \/ TtlGet(p) \/ TtlRealtime(p) \/ TtlBatch(p) \/ UpdateExists(p)
           \/ MapGet(p) \/ MapExists(p) \/ UpdateProfile(p)
  BY <1>8, <1>9
     DEF TtlGet, TtlRealtime, TtlBatch, UpdateExists, MapGet, MapExists,
         UpdateProfile, ProfileGet, RealtimeSet, RealtimeExpire, BatchSet,
         BatchExpire, Step, Return, keyVars
<1>10. CASE CreateGet(p)
  BY <1>8, <1>10 DEF CreateGet, Step, keyVars
<1>11. CASE TokenStep(p)
  BY <1>8, <1>11
     DEF TokenStep, RotateDel, RotateSetex, MapNewPair, CloseGet, Revoke, Step, keyVars
<1>12. CASE StoreStep(p)
  BY <1>1, <1>2, <1>3, <1>5, <1>6, <1>9, <1>12
     DEF StoreStep, RefreshTtl, Update, SetLocalMapping, AddTurn
<1>13. CASE CreateStep(p)
  BY <1>7, <1>10, <1>13 DEF CreateStep, CreateSessionGet, CreateSessionAnswer
<1> QED BY <1>11, <1>12, <1>13 DEF Continue

-----------------------------------------------------------------------------
(* A new request.                                                          *)

\* The three ways in which it touches what is known of keys.
DrawsNothing(p) ==
  /\ UNCHANGED <<owner, born>>
  /\ req'[p].op # "create"
  /\ req'[p].pc = "turn_push" => Known(req'[p].gsk)

DrawsFirst(p) ==
  \E gsk \in Sessions, new \in Jtis :
    /\ GenerateId(gsk)
    /\ Draw(new, gsk, None)
    /\ req'[p].op = "create" /\ req'[p].gsk = gsk /\ req'[p].new = new
    /\ req'[p].pc = "create_get"

DrawsNext(p) ==
  \E old \in held, new \in Jtis :
    /\ owner[old] \in Sessions
    /\ Draw(new, owner[old], old)
    /\ UNCHANGED born
    /\ req'[p].op = "refresh" /\ req'[p].pc = "ttl_get"

LEMMA StartDraws ==
  ASSUME TokenInv, NEW p \in Procs, Start(p)
  PROVE  /\ UNCHANGED <<now, session, turns, failures>>
         /\ req[p] = Idle /\ \A q \in Procs \ {p} : req'[q] = req[q]
         /\ DrawsNothing(p) \/ DrawsFirst(p) \/ DrawsNext(p)
<1>0. TypeInv
  BY DEF TokenInv
<1>1. /\ UNCHANGED <<now, session, turns, failures>>
      /\ req[p] = Idle /\ req \in [Procs -> Request]
      /\ \A q \in Procs \ {p} : req'[q] = req[q]
  <2>1. \A q \in Procs \ {p} : req'[q] = req[q]
    BY <1>0, StartTakes DEF Takes
  <2> QED BY <1>0, <2>1
     DEF Start, create_session, refresh_token, close_session,
         update_realtime_personal_context, update_session_state,
         close_session_by_key, save_api_result, CreateSession, CreateTokens,
         RefreshLookup, CloseLookup, ProfileLookup, PatchSessionState,
         CloseSession, SaveApiResult, keyVars, TypeInv, RequestsOK
<1> SUFFICES DrawsNothing(p) \/ DrawsFirst(p) \/ DrawsNext(p)
  BY <1>1
<1>2. ASSUME NEW r, r.op # "create", r.pc = "idle", UNCHANGED <<owner, born>>,
             NEW m, m # "turn_push", req' = [req EXCEPT ![p] = At(r, m)],
             m = "done" \/ r \in Request
      PROVE  DrawsNothing(p)
  <2>1. req'[p] = At(r, m)
    BY <1>1, <1>2
  <2>2. CASE m = "done"
    BY <1>2, <2>1, <2>2 DEF At, Idle, DrawsNothing
  <2>3. CASE m # "done" /\ r \in Request
    <3> DEFINE s == [r EXCEPT !.pc = m]
    <3>1. s.op = r.op /\ s.pc = m
      BY <2>3 DEF Request
    <3>2. req'[p] = s
      BY <2>1, <2>3 DEF At
    <3> HIDE DEF s
    <3> QED BY <1>2, <3>1, <3>2 DEF DrawsNothing
  <2> QED BY <1>2, <2>2, <2>3
<1>3. CASE create_session(p)
  <2> PICK gsk \in Sessions, new \in Jtis : CreateSession(p, gsk, new)
    BY <1>3 DEF create_session
  <2> DEFINE r == [Idle EXCEPT !.op = "create", !.gsk = gsk, !.new = new]
  <2>1. /\ At(r, "create_get").op = "create" /\ At(r, "create_get").gsk = gsk
        /\ At(r, "create_get").new = new /\ At(r, "create_get").pc = "create_get"
    BY DEF At, Idle
  <2>2. req'[p] = At(r, "create_get") /\ GenerateId(gsk) /\ Draw(new, gsk, None)
    BY <1>1 DEF CreateSession, CreateTokens
  <2> HIDE DEF r
  <2> QED BY <2>1, <2>2 DEF DrawsFirst
<1>4. CASE refresh_token(p)
  <2> PICK old \in Jtis, new \in Jtis : RefreshLookup(p, old, new)
    BY <1>4 DEF refresh_token
  <2> DEFINE r == [Idle EXCEPT !.op = "refresh", !.gsk = jti[old].gsk, !.jti = old,
                               !.kind = "refresh", !.new = new]
  <2>1. At(r, "ttl_get").op = "refresh" /\ At(r, "ttl_get").pc = "ttl_get"
    BY DEF At, Idle
  <2>2. req'[p] = At(r, "ttl_get")
    BY <1>1 DEF RefreshLookup
  <2>3. jti[old].gsk = owner[old] /\ owner[old] \in Sessions /\ old \in held
    BY <1>0 DEF RefreshLookup, Verified, TokenInv, MappingsFollowOwner, TypeInv, MappingsOK
  <2>4. Draw(new, owner[old], old) /\ UNCHANGED born
    BY <1>4, <2>3 DEF RefreshLookup, refresh_token
  <2> HIDE DEF r
  <2> QED BY <2>1, <2>2, <2>3, <2>4 DEF DrawsNext
<1>5. CASE close_session(p)
  <2> PICK j \in Jtis, kind \in {"access", "refresh"} : CloseLookup(p, j, kind)
    BY <1>5 DEF close_session
  <2> DEFINE r == [Idle EXCEPT !.op = "close_token", !.gsk = jti[j].gsk,
                               !.jti = j, !.kind = kind]
  <2>1. r \in Request /\ r.op = "close_token" /\ r.pc = "idle"
    BY <1>0, IdleType DEF CloseLookup, TypeInv, MappingsOK, Request, Ops, Idle
  <2>2. req' = [req EXCEPT ![p] = At(r, "close_get")] /\ UNCHANGED <<owner, born>>
    BY <1>5 DEF CloseLookup, close_session, authVars
  <2> HIDE DEF r
  <2> QED BY <1>2, <2>1, <2>2
<1>6. CASE update_realtime_personal_context(p)
  <2> PICK j \in Jtis, cusno \in Cusnos \cup {None} : ProfileLookup(p, j, cusno)
    BY <1>6 DEF update_realtime_personal_context
  <2> DEFINE u == [NoHash EXCEPT !.cusno = cusno]
             r == [Idle EXCEPT !.op = "profile", !.gsk = jti[j].gsk, !.upd = u]
  <2>1. u \in Hash
    BY IdleType DEF Hash
  <2>2. req' = [req EXCEPT ![p] = At(r, "profile_get")] /\ UNCHANGED <<owner, born>>
    BY <1>6 DEF ProfileLookup, update_realtime_personal_context, authVars
  <2> HIDE DEF u
  <2>3. r \in Request /\ r.op = "profile" /\ r.pc = "idle"
    BY <1>0, <2>1, IdleType DEF ProfileLookup, TypeInv, MappingsOK, Request, Ops, Idle
  <2> HIDE DEF r
  <2> QED BY <1>2, <2>2, <2>3
<1>7. CASE update_session_state(p)
  <2> PICK gsk \in Sessions, patch \in Patches : PatchSessionState(p, gsk, patch)
    BY <1>7 DEF update_session_state
  <2> DEFINE u == PatchUpdates(session[gsk].hash, patch)
             r == [Idle EXCEPT !.op = "patch", !.gsk = gsk, !.upd = u,
                               !.agent = patch.agent, !.bad = patch.bad]
             m == IF patch.session_state = "talk" THEN "ttl_get" ELSE AfterRefreshTtl(r)
  <2>1. patch \in Patch
    BY PatchesAreRequests
  <2>2. u \in Hash
    BY <1>0, <2>1, PatchUpdatesType DEF TypeInv, TypeOK, StoreTypeOK
  <2>3. req' = [req EXCEPT ![p] = At(r, m)] /\ UNCHANGED <<owner, born>>
    BY <1>7 DEF PatchSessionState, update_session_state, authVars
  <2> HIDE DEF u
  <2>4. r \in Request /\ r.op = "patch" /\ r.pc = "idle"
    BY <2>1, <2>2, IdleType DEF Patch, Request, Ops, Idle
  <2>5. m # "turn_push"
    BY AfterRevokes
  <2> HIDE DEF r, m
  <2> QED BY <1>2, <2>3, <2>4, <2>5
<1>8. CASE close_session_by_key(p)
  <2> PICK gsk \in Sessions : CloseSession(p, gsk)
    BY <1>8 DEF close_session_by_key
  <2> DEFINE u == [NoHash EXCEPT !.session_state = "end"]
             r == [Idle EXCEPT !.op = "close_key", !.gsk = gsk, !.upd = u]
  <2>1. u \in Hash
    BY IdleType DEF Hash, States
  <2>2. req' = [req EXCEPT ![p] = At(r, "update_exists")] /\ UNCHANGED <<owner, born>>
    BY <1>8 DEF CloseSession, close_session_by_key, authVars
  <2> HIDE DEF u
  <2>3. r \in Request /\ r.op = "close_key" /\ r.pc = "idle"
    BY <2>1, IdleType DEF Request, Ops, Idle
  <2> HIDE DEF r
  <2> QED BY <1>2, <2>2, <2>3
<1>9. CASE save_api_result(p)
  <2> PICK gsk \in Sessions : SaveApiResult(p, gsk)
    BY <1>9 DEF save_api_result
  <2> DEFINE r == [Idle EXCEPT !.op = "api_result", !.gsk = gsk]
  <2>1. At(r, "turn_push").op = "api_result" /\ At(r, "turn_push").gsk = gsk
    BY DEF At, Idle
  <2>2. req'[p] = At(r, "turn_push") /\ Known(gsk) /\ UNCHANGED <<owner, born>>
    BY <1>1, <1>9 DEF SaveApiResult, save_api_result, authVars
  <2> HIDE DEF r
  <2> QED BY <2>1, <2>2 DEF DrawsNothing
<1> QED BY <1>3, <1>4, <1>5, <1>6, <1>7, <1>8, <1>9 DEF Start

-----------------------------------------------------------------------------
(* Who knows a key.                                                        *)

\* A session key that a caller knows stays known.
LEMMA KnownStays ==
  ASSUME held \subseteq held', \A j \in held : owner'[j] = owner[j],
         NEW s, Known(s)
  PROVE  Known(s)'
BY DEF Known

LEMMA StartKeepsKeys ==
  ASSUME TokenInv, PairsInv, KeysKnown, ~Collisions, NEW p \in Procs, Start(p)
  PROVE  KeysKnown'
<1>0. /\ TypeInv /\ held \subseteq Jtis /\ UNCHANGED <<held, turns>>
      /\ now \in Nat
      /\ born \in [Sessions -> Nat \cup {Never}]
      /\ owner \in [Jtis -> Sessions \cup {None}]
  BY StartKeepsPairs, StartDraws
     DEF TokenInv, TypeInv, TypeOK, AuthTypeOK, StoreTypeOK
<1>1. req[p] = Idle /\ \A q \in Procs \ {p} : req'[q] = req[q]
  BY StartDraws
<1>2. ASSUME \A j \in held : owner'[j] = owner[j],
             req'[p].pc = "turn_push" => Known(req'[p].gsk)
      PROVE  /\ \A q \in Procs : req'[q].pc = "turn_push" => Known(req[q].gsk)'
             /\ \A s \in Sessions : turns'[s] # Gone => Known(s)'
  BY <1>0, <1>1, <1>2, KnownStays DEF KeysKnown
<1>3. CASE DrawsNothing(p)
  <2>1. UNCHANGED <<owner, born>> /\ req'[p].op # "create"
    BY <1>3 DEF DrawsNothing
  <2>2. \A q \in Procs : req'[q].op = "create" => req'[q] = req[q]
    BY <1>1, <2>1
  <2> QED BY <1>2, <1>3, <2>1, <2>2 DEF DrawsNothing, KeysKnown, Fresh
<1>4. ASSUME NEW new \in Jtis, NEW gsk \in Sessions, NEW old, Draw(new, gsk, old)
      PROVE  /\ Fresh(new) /\ owner'[new] = gsk
             /\ \A k \in Jtis : k # new => owner'[k] = owner[k]
             /\ \A j \in held : owner'[j] = owner[j]
  <2>1. Fresh(new) /\ owner'[new] = gsk /\ \A k \in Jtis : k # new => owner'[k] = owner[k]
    BY <1>0, <1>4, DrawnOnce
  <2> QED BY <1>0, <2>1 DEF PairsInv
<1>5. CASE DrawsFirst(p)
  <2> PICK gsk \in Sessions, new \in Jtis :
         /\ GenerateId(gsk)
         /\ Draw(new, gsk, None)
         /\ req'[p].op = "create" /\ req'[p].gsk = gsk /\ req'[p].new = new
         /\ req'[p].pc = "create_get"
    BY <1>5 DEF DrawsFirst
  <2>1. /\ Fresh(new) /\ owner'[new] = gsk
        /\ \A k \in Jtis : k # new => owner'[k] = owner[k]
        /\ \A j \in held : owner'[j] = owner[j]
    BY <1>4
  <2>2. /\ born[gsk] = Never /\ born'[gsk] # Never
        /\ \A s \in Sessions : s # gsk => born'[s] = born[s]
    BY <1>0 DEF GenerateId, Never
  <2>3. \A j \in Jtis : owner[j] # gsk
    BY <2>2, NoneIsNoValue DEF KeysKnown, Fresh
  <2>4. \A q \in Procs \ {p} : req[q].op = "create" =>
             req[q].new # new /\ req[q].new \in Jtis /\ req[q].gsk # gsk
    BY <2>1, <2>3 DEF PairsInv, KeysKnown, Issuing
  <2>5. \A q \in Procs : req'[q].op = "create" =>
             /\ owner'[req'[q].new] = req'[q].gsk
             /\ \A j \in Jtis : owner'[j] = req'[q].gsk => j = req'[q].new
    <3> SUFFICES ASSUME NEW q \in Procs, req'[q].op = "create"
                 PROVE  /\ owner'[req'[q].new] = req'[q].gsk
                        /\ \A j \in Jtis : owner'[j] = req'[q].gsk => j = req'[q].new
      OBVIOUS
    <3>1. CASE q = p
      BY <2>1, <2>3, <3>1
    <3>2. CASE q # p
      BY <1>1, <2>1, <2>4, <3>2 DEF KeysKnown
    <3> QED BY <3>1, <3>2
  <2>6. \A j \in Jtis : ~Fresh(j)' => born'[owner'[j]] # Never
    <3> SUFFICES ASSUME NEW j \in Jtis, ~Fresh(j)' PROVE born'[owner'[j]] # Never
      OBVIOUS
    <3>1. CASE j = new
      BY <2>1, <2>2, <3>1
    <3>2. CASE j # new
      BY <1>0, <2>1, <2>2, <3>2 DEF KeysKnown, Fresh
    <3> QED BY <3>1, <3>2
  <2>7. /\ \A q \in Procs : req'[q].pc = "turn_push" => Known(req[q].gsk)'
        /\ \A s \in Sessions : turns'[s] # Gone => Known(s)'
    BY <1>2, <2>1
  <2> QED BY <2>5, <2>6, <2>7 DEF KeysKnown
<1>6. CASE DrawsNext(p)
  <2> PICK old \in held, new \in Jtis :
         /\ owner[old] \in Sessions
         /\ Draw(new, owner[old], old)
         /\ UNCHANGED born
         /\ req'[p].op = "refresh" /\ req'[p].pc = "ttl_get"
    BY <1>6 DEF DrawsNext
  <2>1. /\ Fresh(new) /\ owner'[new] = owner[old]
        /\ \A k \in Jtis : k # new => owner'[k] = owner[k]
        /\ \A j \in held : owner'[j] = owner[j]
    BY <1>4
  <2>2. ~Fresh(old) /\ old \in Jtis
    BY <1>0 DEF PairsInv
  <2>3. \A q \in Procs : req[q].op = "create" =>
             req[q].new # new /\ req[q].new \in Jtis /\ req[q].gsk # owner[old]
    BY <2>1, <2>2 DEF PairsInv, KeysKnown, Issuing
  <2>4. \A q \in Procs : req'[q].op = "create" => req'[q] = req[q]
    BY <1>1
  <2>5. \A q \in Procs : req'[q].op = "create" =>
             /\ owner'[req'[q].new] = req'[q].gsk
             /\ \A j \in Jtis : owner'[j] = req'[q].gsk => j = req'[q].new
    BY <2>1, <2>3, <2>4 DEF KeysKnown
  <2>6. \A j \in Jtis : ~Fresh(j)' => born'[owner'[j]] # Never
    BY <2>1, <2>2 DEF KeysKnown, Fresh
  <2>7. /\ \A q \in Procs : req'[q].pc = "turn_push" => Known(req[q].gsk)'
        /\ \A s \in Sessions : turns'[s] # Gone => Known(s)'
    BY <1>2, <2>1
  <2> QED BY <2>5, <2>6, <2>7 DEF KeysKnown
<1> QED BY <1>3, <1>5, <1>6, StartDraws

LEMMA HandlerKeepsKeys ==
  ASSUME TypeInv, PairsInv, KeysKnown, NEW p \in Procs, Carries(p), Touches(p),
         UNCHANGED born,
         \A s \in Sessions : \/ turns[s] = Gone => turns'[s] = Gone
                             \/ req[p].gsk = s /\ req[p].pc = "turn_push"
  PROVE  KeysKnown'
<1>1. UNCHANGED <<owner, born>> /\ held \subseteq held'
  BY DEF Touches
<1>2. \A s : Known(s) => Known(s)'
  BY <1>1, KnownStays
<1>3. \A q \in Procs : req'[q].op = "create" =>
        req[q].op = "create" /\ req'[q].new = req[q].new /\ req'[q].gsk = req[q].gsk
  BY DEF Carries, Idle
<1>4. \A q \in Procs : req'[q].pc = "turn_push" => req'[q] = req[q]
  BY DEF Carries, Idle
<1>5. \A s \in Sessions : turns'[s] # Gone => Known(s)'
  BY <1>2 DEF KeysKnown
<1>6. \A q \in Procs : req'[q].pc = "turn_push" => Known(req[q].gsk)'
  BY <1>2, <1>4 DEF KeysKnown
<1> QED BY <1>1, <1>3, <1>5, <1>6 DEF KeysKnown, Fresh

-----------------------------------------------------------------------------
(* The turns.                                                              *)

\* The session a create gives its deadline to has no turns yet: nobody knows
\* its key.
LEMMA CreatedHasNoTurns ==
  ASSUME TypeInv, PairsInv, KeysKnown, held \subseteq Jtis,
         NEW p \in Procs, req[p].pc = "create_expire",
         NEW s \in Sessions, req[p].gsk = s
  PROVE  turns[s] = Gone
<1>1. req[p].op = "create"
  <2>1. "create_expire" \in Steps /\ "create_expire" \in CreateSteps
    BY DEF Steps, CreateSteps
  <2> QED BY <2>1, InFlight DEF Fits, TypeInv
<1>2. req[p].new \notin held
  BY <1>1 DEF PairsInv, Issuing
<1>3. ~Known(s)
  BY <1>1, <1>2 DEF Known, KeysKnown
<1> QED BY <1>3 DEF KeysKnown

LEMMA ContinueKeepsTurns ==
  ASSUME TypeInv, PairsInv, TurnInv, held \subseteq Jtis, NEW p \in Procs, Continue(p)
  PROVE  TurnInv'
<1>0. /\ now \in Nat /\ SessionTTL \in Nat /\ now' = now
      /\ session \in [Sessions -> [hash : Hash, exp : Deadline]]
      /\ turns \in [Sessions -> Deadline]
  BY TTLsArePositive, HandlersTakeNoTime DEF TypeInv, TypeOK, StoreTypeOK
<1>1. TurnsMove(p) /\ DeadlineMoves(p) /\ UNCHANGED <<failures, born>>
  BY ContinueMoves
<1>2. Carries(p) /\ Touches(p)
  BY HandlerCarries, HandlerTouches
<1>3. \A s \in Sessions : session[s].exp \in Int /\ turns[s] \in Int
  BY <1>0 DEF Deadline, Persist
<1>4. KeysKnown'
  <2>1. \A s \in Sessions : \/ turns[s] = Gone => turns'[s] = Gone
                            \/ req[p].gsk = s /\ req[p].pc = "turn_push"
    BY <1>1 DEF TurnsMove
  <2> QED BY <1>1, <1>2, <2>1, HandlerKeepsKeys DEF TurnInv
<1>5. DeadlinesBounded'
  BY <1>0, <1>1, <1>3 DEF TurnInv, DeadlinesBounded, DeadlineMoves, Persist
<1>6. TurnsKept'
  <2> SUFFICES ASSUME failures' = 0, NEW s \in Sessions,
                      session'[s].exp > 0, turns'[s] > 0, ~TurnsPending(s)'
               PROVE  turns'[s] >= session'[s].exp
    BY DEF TurnsKept
  <2>1. \A q \in Procs \ {p} : ~(req[q].gsk = s /\ req[q].pc = "ttl_turns")
    BY <1>2 DEF Carries, TurnsPending
  <2>2. \/ turns[s] # Gone /\ turns'[s] = now + SessionTTL
        \/ turns[s] # Gone /\ turns'[s] = turns[s] /\ ~TurnsPending(s)
    BY <1>1, <2>1 DEF TurnsMove, TurnsPending, Gone, Persist
  <2>3. session[s].exp <= now + SessionTTL
    BY DEF TurnInv, DeadlinesBounded
  <2>4. CASE session'[s].exp = session[s].exp
    BY <1>0, <1>1, <1>3, <2>2, <2>3, <2>4 DEF TurnInv, TurnsKept
  <2>5. CASE req[p].gsk = s /\ req[p].pc = "create_expire"
    BY <2>2, <2>5, CreatedHasNoTurns DEF TurnInv
  <2>6. CASE req'[p].gsk = s /\ req'[p].pc = "ttl_turns"
    BY <2>6 DEF TurnsPending
  <2> QED BY <1>1, <2>4, <2>5, <2>6 DEF DeadlineMoves, Persist
<1> QED BY <1>4, <1>5, <1>6 DEF TurnInv

\* A failure leaves what is known of keys; of turns it promises nothing.
LEMMA FailureKeepsTurns ==
  ASSUME TypeInv, PairsInv, TurnInv, NEW p \in Procs, Fail(p) \/ LoseAnswer(p)
  PROVE  TurnInv'
<1>0. /\ now \in Nat /\ SessionTTL \in Nat /\ now' = now
      /\ session \in [Sessions -> [hash : Hash, exp : Deadline]]
      /\ failures \in Nat
  BY TTLsArePositive, HandlersTakeNoTime DEF TypeInv, TypeOK, StoreTypeOK
<1>1. failures' # 0 /\ UNCHANGED <<turns, born>>
  BY <1>0 DEF Fail, LoseAnswer, Fault, CreateGet, CreateExpire, MapNewPair, keyVars
<1>2. \A s \in Sessions : session'[s].exp \in {session[s].exp, now + SessionTTL}
  BY <1>0 DEF Fail, LoseAnswer, CreateGet, CreateExpire, ExpireSession, Expire,
              Live, Gone, keyVars
<1>3. DeadlinesBounded'
  BY <1>0, <1>2 DEF TurnInv, DeadlinesBounded
<1>4. KeysKnown'
  BY <1>1, HandlerCarries, HandlerTouches, HandlerKeepsKeys DEF TurnInv
<1> QED BY <1>1, <1>3, <1>4 DEF TurnInv, TurnsKept

LEMMA StartKeepsTurns ==
  ASSUME TokenInv, PairsInv, TurnInv, ~Collisions, NEW p \in Procs, Start(p)
  PROVE  TurnInv'
<1>1. /\ UNCHANGED <<now, session, turns, failures>>
      /\ req[p] = Idle /\ \A q \in Procs \ {p} : req'[q] = req[q]
  BY StartDraws
<1>2. \A s \in Sessions : TurnsPending(s) => TurnsPending(s)'
  BY <1>1 DEF TurnsPending, Idle
<1>3. KeysKnown'
  BY StartKeepsKeys DEF TurnInv
<1> QED BY <1>1, <1>2, <1>3 DEF TurnInv, TurnsKept, DeadlinesBounded

\* A deadline that has not come by the next instant is kept.
LEMMA TickKeepsTurns ==
  ASSUME TypeInv, TurnInv, Tick
  PROVE  TurnInv'
<1>0. /\ now \in Nat /\ SessionTTL \in Nat /\ now' = now + 1
      /\ session \in [Sessions -> [hash : Hash, exp : Deadline]]
      /\ turns \in [Sessions -> Deadline]
      /\ UNCHANGED <<req, held, owner, born, failures>>
  BY TTLsArePositive DEF TypeInv, TypeOK, StoreTypeOK, Tick, StoreTick
<1>1. \A s \in Sessions :
        /\ session[s].exp \in Int /\ turns[s] \in Int
        /\ session'[s].exp \in {session[s].exp, Gone}
        /\ turns'[s] = turns[s] \/ (turns'[s] = Gone /\ turns[s] <= now')
  BY <1>0 DEF Tick, StoreTick, Surviving, Deadline, Persist, Gone
<1>2. KeysKnown'
  BY <1>0, <1>1 DEF TurnInv, KeysKnown, Known, Fresh
<1>3. DeadlinesBounded'
  BY <1>0, <1>1 DEF TurnInv, DeadlinesBounded, Gone
<1>4. TurnsKept'
  BY <1>0, <1>1 DEF TurnInv, TurnsKept, TurnsPending, Gone
<1> QED BY <1>2, <1>3, <1>4 DEF TurnInv

LEMMA TurnNext ==
  ASSUME ~Collisions
  PROVE  TokenInv /\ PairsInv /\ TurnInv /\ [Next]_vars => TurnInv'
<1> SUFFICES ASSUME TokenInv, PairsInv, TurnInv, [Next]_vars PROVE TurnInv'
  OBVIOUS
<1>0. TypeInv /\ held \subseteq Jtis
  BY DEF TokenInv, TypeInv, TypeOK, AuthTypeOK
<1>1. ASSUME NEW p \in Procs, Start(p) \/ Continue(p) \/ Fail(p) \/ LoseAnswer(p)
      PROVE  TurnInv'
  BY <1>0, <1>1, StartKeepsTurns, ContinueKeepsTurns, FailureKeepsTurns
<1>2. CASE Tick
  BY <1>0, <1>2, TickKeepsTurns
<1>3. CASE UNCHANGED vars
  BY <1>3 DEF vars, storeVars, keyVars, authVars, TurnInv, KeysKnown, Known, Fresh,
              DeadlinesBounded, TurnsKept, TurnsPending
<1> QED BY <1>1, <1>2, <1>3 DEF Next, Horizon

LEMMA TurnInit == Init => TurnInv
<1> SUFFICES ASSUME Init PROVE TurnInv
  OBVIOUS
<1>1. KeysKnown
  BY DEF Init, StoreInit, AuthInit, KeysKnown, Fresh, Idle
<1>2. DeadlinesBounded
  BY TTLsArePositive DEF Init, StoreInit, DeadlinesBounded, Gone
<1>3. TurnsKept
  BY DEF Init, StoreInit, TurnsKept, Gone
<1> QED BY <1>1, <1>2, <1>3 DEF TurnInv

\* TurnsOutliveSession for every number of overlapping requests, as long as
\* _generate_id makes no session key twice: refresh_ttl renews the turns after
\* the session, add_turn gives a list a deadline no earlier than any the session
\* has, and the EXPIRE of create comes before anyone knows the key.  (A key made
\* twice breaks it: the second create renews a session that has turns.)
THEOREM TurnsStayWithSession ==
  ASSUME ~Collisions
  PROVE  Spec => []TurnsOutliveSession
<1>1. TurnInv => TurnsOutliveSession
  BY DEF TurnInv, TurnsKept, TurnsOutliveSession
<1>2. TokenInv => TypeInv
  BY DEF TokenInv
<1>3. TokenInv /\ PairsInv /\ TurnInv /\ [Next]_vars => TokenInv' /\ PairsInv' /\ TurnInv'
  BY <1>2, TokenNext, PairsNext, TurnNext
<1> QED BY <1>1, <1>3, TokenInit, PairsInit, TurnInit, PTL DEF Spec

=============================================================================
