------------------------------ MODULE HashProofs ------------------------------
(***************************************************************************)
(* What whole hashes written back over each other cannot break: the turns  *)
(* of a session stay distinct, the expiry it shows is kept, and only a     *)
(* remnant lives without a deadline.  Proved for any number of overlapping *)
(* handlers and any times to live.                                         *)
(***************************************************************************)
EXTENDS SessionProofs

-----------------------------------------------------------------------------
(* Distinct turns.                                                         *)

Distinct(ids) == \A i, k \in DOMAIN ids : ids[i] = ids[k] => i = k

\* The lists in Redis, those that handlers have read and those they will write.
\* TurnIdsAreDistinct speaks of the first only, but any of the others may be
\* written over them.
ListsDistinct ==
  /\ \A s \in Sessions : Distinct(session[s].hash.turn_ids)
  /\ \A p \in Procs : /\ Distinct(req[p].snap.turn_ids)
                      /\ Distinct(req[p].upd.turn_ids)

LEMMA NoTurnsDistinct == Distinct(NoHash.turn_ids) /\ Distinct(<<>>)
BY DEF Distinct, NoHash

LEMMA HSetDistinct ==
  ASSUME NEW h \in Hash, NEW u \in Hash,
         Distinct(h.turn_ids), Distinct(u.turn_ids)
  PROVE  Distinct(HSet(h, u).turn_ids)
BY DEF HSet

LEMMA AccumulateDistinct ==
  ASSUME NEW ids \in Seq(Turns), NEW t, Distinct(ids), t \in Turns \cup {None}
  PROVE  Distinct(Accumulate(ids, t))
<1>1. CASE t = None \/ t \in {ids[i] : i \in DOMAIN ids}
  BY <1>1 DEF Accumulate
<1>2. CASE t # None /\ t \notin {ids[i] : i \in DOMAIN ids}
  <2> DEFINE new == Append(ids, t)
  <2>1. Accumulate(ids, t) = new
    BY <1>2 DEF Accumulate
  <2>2. DOMAIN ids = 1 .. Len(ids) /\ Len(ids) \in Nat
    OBVIOUS
  <2>3. /\ DOMAIN new = 1 .. (Len(ids) + 1)
        /\ \A i \in 1 .. Len(ids) : new[i] = ids[i]
        /\ new[Len(ids) + 1] = t
    BY <1>2
  <2> HIDE DEF new
  <2>4. ASSUME NEW i \in DOMAIN new, NEW k \in DOMAIN new, new[i] = new[k]
        PROVE  i = k
    <3>1. CASE i \in 1 .. Len(ids) /\ k \in 1 .. Len(ids)
      BY <2>2, <2>3, <2>4, <3>1 DEF Distinct
    <3>2. CASE i \in 1 .. Len(ids) /\ k \notin 1 .. Len(ids)
      <4>1. k = Len(ids) + 1 /\ ids[i] = t
        BY <2>2, <2>3, <2>4, <3>2
      <4> QED BY <1>2, <2>2, <3>2, <4>1
    <3>3. CASE i \notin 1 .. Len(ids) /\ k \in 1 .. Len(ids)
      <4>1. i = Len(ids) + 1 /\ ids[k] = t
        BY <2>2, <2>3, <2>4, <3>3
      <4> QED BY <1>2, <2>2, <3>3, <4>1
    <3>4. CASE i \notin 1 .. Len(ids) /\ k \notin 1 .. Len(ids)
      BY <2>2, <2>3, <3>4
    <3> QED BY <3>1, <3>2, <3>3, <3>4
  <2> QED BY <2>1, <2>4 DEF Distinct
<1> QED BY <1>1, <1>2

LEMMA PatchUpdatesDistinct ==
  ASSUME NEW h \in Hash, NEW patch \in Patch, Distinct(h.turn_ids)
  PROVE  Distinct(PatchUpdates(h, patch).turn_ids)
<1>1. PatchUpdates(h, patch).turn_ids = TurnIdsPatched(h.turn_ids, patch.turn_id)
  BY DEF PatchUpdates, NoHash
<1>2. h.turn_ids \in Seq(Turns) /\ patch.turn_id \in Turns \cup {None}
  BY DEF Hash, Patch
<1> QED BY <1>1, <1>2, AccumulateDistinct, NoTurnsDistinct DEF TurnIdsPatched

-----------------------------------------------------------------------------
(* What one step of a handler takes up, and what it leaves in its session. *)

TurnsRead == {session[s].hash.turn_ids : s \in Sessions}

TurnsPatched ==
  {PatchUpdates(session[s].hash, patch).turn_ids : s \in Sessions, patch \in Patch}

\* The lists and the expiry that handler p holds after the step.
Takes(p) ==
  /\ \A q \in Procs \ {p} : req'[q] = req[q]
  /\ req'[p].snap.turn_ids \in {<<>>, req[p].snap.turn_ids} \cup TurnsRead
  /\ req'[p].upd.turn_ids \in {<<>>, req[p].upd.turn_ids} \cup TurnsPatched
  /\ req'[p].upd.expires_at \in {0, req[p].upd.expires_at}

Expiring == {"create_expire", "ttl_expire"}

\* What the step does to the hashes: an HSET with a new expires_at leads to the
\* EXPIRE that makes it true, and only a failure skips that EXPIRE.
Leaves(p) ==
  \/ UNCHANGED session /\ (req[p].pc \in Expiring => failures' > 0)
  \/ ExpireSession(req[p].gsk)
  \/ \E u \in Hash :
       /\ HSetSession(req[p].gsk, u)
       /\ u.turn_ids \in {<<>>, req[p].snap.turn_ids, req[p].upd.turn_ids}
       /\ req[p].pc \notin Expiring
       /\ \/ u.expires_at \in {0, req[p].upd.expires_at}
          \/ /\ u.expires_at = now + SessionTTL
             /\ req'[p].gsk = req[p].gsk
             /\ req'[p].pc \in Expiring

LEMMA IdleTakes ==
  ASSUME TypeInv, NEW p \in Procs, req' = [req EXCEPT ![p] = Idle]
  PROVE  Takes(p)
BY DEF TypeInv, RequestsOK, Takes, Idle, NoHash

LEMMA StepTakes ==
  ASSUME TypeInv, NEW p \in Procs, NEW l, NEW m, Step(p, l, m) \/ Return(p, l, m)
  PROVE  /\ Takes(p)
         /\ m # "done" => req'[p].gsk = req[p].gsk /\ req'[p].pc = m
<1>1. req \in [Procs -> Request]
  BY DEF TypeInv, RequestsOK
<1>2. CASE m = "done"
  <2>1. req' = [req EXCEPT ![p] = Idle]
    BY <1>2 DEF Step, Return, At
  <2> QED BY <1>2, <2>1, IdleTakes
<1>3. CASE m # "done" /\ Step(p, l, m)
  <2>1. req' = [req EXCEPT ![p] = [req[p] EXCEPT !.pc = m]]
    BY <1>3 DEF Step, At
  <2> QED BY <1>1, <2>1 DEF Takes, Request
<1>4. CASE m # "done" /\ Return(p, l, m)
  <2>1. req' = [req EXCEPT ![p] = [req[p] EXCEPT !.snap = NoHash, !.pc = m]]
    BY <1>1, <1>4 DEF Return, At
  <2>2. NoHash.turn_ids = <<>>
    BY DEF NoHash
  <2> QED BY <1>1, <2>1, <2>2 DEF Takes, Request
<1> QED BY <1>2, <1>3, <1>4

\* A new request takes up what it is given.
LEMMA NewTakes ==
  ASSUME TypeInv, NEW p \in Procs, NEW r \in Request, NEW m,
         req' = [req EXCEPT ![p] = At(r, m)],
         r.snap.turn_ids \in {<<>>, req[p].snap.turn_ids} \cup TurnsRead,
         r.upd.turn_ids \in {<<>>, req[p].upd.turn_ids} \cup TurnsPatched,
         r.upd.expires_at \in {0, req[p].upd.expires_at}
  PROVE  Takes(p)
<1>1. req \in [Procs -> Request]
  BY DEF TypeInv, RequestsOK
<1>2. CASE m = "done"
  BY <1>2, IdleTakes DEF At
<1>3. CASE m # "done"
  <2>1. req' = [req EXCEPT ![p] = [r EXCEPT !.pc = m]]
    BY <1>3 DEF At
  <2> QED BY <1>1, <2>1 DEF Takes, Request
<1> QED BY <1>2, <1>3

LEMMA StartTakes ==
  ASSUME TypeInv, NEW p \in Procs, Start(p)
  PROVE  Takes(p) /\ Leaves(p)
<1> USE IdleType
<1>0. /\ req \in [Procs -> Request]
      /\ req[p] = Idle /\ UNCHANGED session
  BY DEF TypeInv, RequestsOK, Start, create_session, refresh_token, close_session,
         update_realtime_personal_context, update_session_state,
         close_session_by_key, save_api_result, CreateSession, CreateTokens,
         RefreshLookup, CloseLookup, ProfileLookup, PatchSessionState,
         CloseSession, SaveApiResult, keyVars
<1>1. SUFFICES Takes(p)
  BY <1>0 DEF Leaves, Idle, Expiring
<1>2. /\ NoHash.turn_ids = <<>> /\ NoHash.expires_at = 0
      /\ Idle.snap = NoHash /\ Idle.upd = NoHash
  BY DEF Idle, NoHash
<1>3. ASSUME NEW r \in Request, NEW m, req' = [req EXCEPT ![p] = At(r, m)],
             r.snap = NoHash, r.upd.expires_at = 0,
             r.upd.turn_ids \in {<<>>} \cup TurnsPatched
      PROVE  Takes(p)
  <2>1. r.snap.turn_ids = <<>>
    BY <1>2, <1>3
  <2>2. req[p].upd.turn_ids = <<>> /\ req[p].upd.expires_at = 0
    BY <1>0, <1>2
  <2>3. /\ r.snap.turn_ids \in {<<>>, req[p].snap.turn_ids} \cup TurnsRead
        /\ r.upd.turn_ids \in {<<>>, req[p].upd.turn_ids} \cup TurnsPatched
        /\ r.upd.expires_at \in {0, req[p].upd.expires_at}
    BY <1>3, <2>1, <2>2
  <2> QED BY <1>3, <2>3, NewTakes
<1>4. CASE create_session(p)
  <2>1. PICK gsk \in Sessions, j \in Jtis : CreateSession(p, gsk, j)
    BY <1>4 DEF create_session
  <2> DEFINE r == [Idle EXCEPT !.op = "create", !.gsk = gsk, !.new = j]
  <2>2. r \in Request /\ r.snap = NoHash /\ r.upd = NoHash
    BY DEF Request, Ops, Idle
  <2>3. req' = [req EXCEPT ![p] = At(r, "create_get")]
    BY <2>1 DEF CreateSession, CreateTokens
  <2> HIDE DEF r
  <2> QED BY <1>2, <1>3, <2>2, <2>3
<1>5. CASE refresh_token(p)
  <2>1. PICK j \in Jtis, new \in Jtis : RefreshLookup(p, j, new)
    BY <1>5 DEF refresh_token
  <2> DEFINE r == [Idle EXCEPT !.op = "refresh", !.gsk = jti[j].gsk, !.jti = j,
                               !.kind = "refresh", !.new = new]
  <2>2. r \in Request /\ r.snap = NoHash /\ r.upd = NoHash
    BY <2>1 DEF RefreshLookup, TypeInv, MappingsOK, Request, Ops, Idle
  <2>3. req' = [req EXCEPT ![p] = At(r, "ttl_get")]
    BY <2>1 DEF RefreshLookup
  <2> HIDE DEF r
  <2> QED BY <1>2, <1>3, <2>2, <2>3
<1>6. CASE close_session(p)
  <2>1. PICK j \in Jtis, kind \in {"access", "refresh"} : CloseLookup(p, j, kind)
    BY <1>6 DEF close_session
  <2> DEFINE r == [Idle EXCEPT !.op = "close_token", !.gsk = jti[j].gsk,
                               !.jti = j, !.kind = kind]
  <2>2. r \in Request /\ r.snap = NoHash /\ r.upd = NoHash
    BY <2>1 DEF CloseLookup, TypeInv, MappingsOK, Request, Ops, Idle
  <2>3. req' = [req EXCEPT ![p] = At(r, "close_get")]
    BY <2>1 DEF CloseLookup
  <2> HIDE DEF r
  <2> QED BY <1>2, <1>3, <2>2, <2>3
<1>7. CASE update_realtime_personal_context(p)
  <2>1. PICK j \in Jtis, cusno \in Cusnos \cup {None} : ProfileLookup(p, j, cusno)
    BY <1>7 DEF update_realtime_personal_context
  <2> DEFINE u == [NoHash EXCEPT !.cusno = cusno]
             r == [Idle EXCEPT !.op = "profile", !.gsk = jti[j].gsk, !.upd = u]
  <2>2. u \in Hash /\ u.turn_ids = <<>> /\ u.expires_at = 0
    BY DEF Hash, NoHash
  <2> HIDE DEF u
  <2>3. r \in Request /\ r.snap = NoHash /\ r.upd = u
    BY <2>1, <2>2 DEF ProfileLookup, TypeInv, MappingsOK, Request, Ops, Idle
  <2>4. req' = [req EXCEPT ![p] = At(r, "profile_get")]
    BY <2>1 DEF ProfileLookup, u
  <2> HIDE DEF r
  <2> QED BY <1>3, <2>2, <2>3, <2>4
<1>8. CASE update_session_state(p)
  <2>1. PICK gsk \in Sessions, patch \in Patches : PatchSessionState(p, gsk, patch)
    BY <1>8 DEF update_session_state
  <2> DEFINE u == PatchUpdates(session[gsk].hash, patch)
             r == [Idle EXCEPT !.op = "patch", !.gsk = gsk, !.upd = u,
                               !.agent = patch.agent, !.bad = patch.bad]
  <2>2. patch \in Patch
    BY PatchesAreRequests
  <2>3. u \in Hash
    BY <2>2, PatchUpdatesType DEF TypeInv, TypeOK, StoreTypeOK
  <2>4. u.turn_ids \in TurnsPatched
    BY <2>2 DEF TurnsPatched
  <2>5. u.expires_at = 0
    BY DEF PatchUpdates, NoHash
  <2>6. \E m : req' = [req EXCEPT ![p] = At(r, m)]
    BY <2>1 DEF PatchSessionState
  <2> HIDE DEF u
  <2>7. r \in Request /\ r.snap = NoHash /\ r.upd = u
    BY <2>2, <2>3 DEF Request, Ops, Idle, Patch
  <2> HIDE DEF r
  <2> QED BY <1>3, <2>4, <2>5, <2>6, <2>7
<1>9. CASE close_session_by_key(p)
  <2>1. PICK gsk \in Sessions : CloseSession(p, gsk)
    BY <1>9 DEF close_session_by_key
  <2> DEFINE u == [NoHash EXCEPT !.session_state = "end"]
             r == [Idle EXCEPT !.op = "close_key", !.gsk = gsk, !.upd = u]
  <2>2. u \in Hash /\ u.turn_ids = <<>> /\ u.expires_at = 0
    BY DEF Hash, NoHash, States
  <2> HIDE DEF u
  <2>3. r \in Request /\ r.snap = NoHash /\ r.upd = u
    BY <2>2 DEF Request, Ops, Idle
  <2>4. req' = [req EXCEPT ![p] = At(r, "update_exists")]
    BY <2>1 DEF CloseSession, u
  <2> HIDE DEF r
  <2> QED BY <1>3, <2>2, <2>3, <2>4
<1>10. CASE save_api_result(p)
  <2>1. PICK gsk \in Sessions : SaveApiResult(p, gsk)
    BY <1>10 DEF save_api_result
  <2> DEFINE r == [Idle EXCEPT !.op = "api_result", !.gsk = gsk]
  <2>2. r \in Request /\ r.snap = NoHash /\ r.upd = NoHash
    BY DEF Request, Ops, Idle
  <2>3. req' = [req EXCEPT ![p] = At(r, "turn_push")]
    BY <2>1 DEF SaveApiResult
  <2> HIDE DEF r
  <2> QED BY <1>2, <1>3, <2>2, <2>3
<1> QED BY <1>4, <1>5, <1>6, <1>7, <1>8, <1>9, <1>10 DEF Start

\* The commands that leave every hash as it is.
LEMMA QuietTakes ==
  ASSUME TypeInv, NEW p \in Procs, UNCHANGED session,
         NEW l, NEW m, Step(p, l, m) \/ Return(p, l, m), l \notin Expiring
  PROVE  Takes(p) /\ Leaves(p)
<1>1. req[p].pc = l
  BY DEF Step, Return
<1> QED BY <1>1, StepTakes DEF Leaves

LEMMA ExpireTakes ==
  ASSUME TypeInv, NEW p \in Procs, CreateExpire(p) \/ TtlExpire(p)
  PROVE  Takes(p) /\ Leaves(p)
BY StepTakes DEF CreateExpire, TtlExpire, Leaves

LEMMA CreateTakes ==
  ASSUME TypeInv, NEW p \in Procs, CreateGet(p) \/ CreateHset(p)
  PROVE  Takes(p) /\ Leaves(p)
<1>1. CASE CreateGet(p)
  BY <1>1, QuietTakes DEF CreateGet, keyVars, Expiring
<1>2. CASE CreateHset(p)
  <2> DEFINE u == [NoHash EXCEPT !.session_state = "start",
                                 !.expires_at = ExpiresAt]
  <2>1. u \in Hash
    BY HashUpdatesType DEF StoreOK, TypeInv, TypeOK
  <2>2. u.turn_ids = <<>> /\ u.expires_at = now + SessionTTL
    BY DEF NoHash, ExpiresAt
  <2>3. HSetSession(req[p].gsk, u) /\ Step(p, "create_hset", "create_expire")
    BY <1>2 DEF CreateHset
  <2> HIDE DEF u
  <2>4. /\ Takes(p)
        /\ req'[p].gsk = req[p].gsk /\ req'[p].pc = "create_expire"
    BY <2>3, StepTakes
  <2> QED BY <2>1, <2>2, <2>3, <2>4 DEF Leaves, Expiring, Step
<1> QED BY <1>1, <1>2

LEMMA TtlGetTakes ==
  ASSUME TypeInv, NEW p \in Procs, TtlGet(p)
  PROVE  Takes(p) /\ Leaves(p)
<1>1. req \in [Procs -> Request] /\ req[p] \in Request
  BY DEF TypeInv, RequestsOK
<1>2. Leaves(p)
  BY DEF TtlGet, keyVars, Leaves, Expiring
<1>3. CASE Exists(req[p].gsk)
  <2> DEFINE h == session[req[p].gsk].hash
             r == [req[p] EXCEPT !.snap = h]
  <2>1. req[p].gsk \in Sessions
    <3>1. "ttl_get" \in Steps
      BY DEF Steps, TtlSteps
    <3> QED BY <3>1, InFlight DEF TtlGet, TypeInv, Fits
  <2>2. h \in Hash /\ h.turn_ids \in TurnsRead
    BY <2>1 DEF TypeInv, TypeOK, StoreTypeOK, TurnsRead
  <2>3. req' = [req EXCEPT ![p] = At(r, "ttl_hset")]
    BY <1>1, <1>3 DEF TtlGet
  <2> HIDE DEF h
  <2>4. r \in Request /\ r.snap = h /\ r.upd = req[p].upd
    BY <1>1, <2>2 DEF Request
  <2> HIDE DEF r
  <2> QED BY <1>2, <2>2, <2>3, <2>4, NewTakes
<1>4. CASE ~Exists(req[p].gsk)
  <2>1. req' = [req EXCEPT ![p] = At(req[p], AfterRefreshTtl(req[p]))]
    BY <1>1, <1>4 DEF TtlGet
  <2> QED BY <1>1, <1>2, <2>1, NewTakes
<1> QED BY <1>3, <1>4

LEMMA TtlHsetTakes ==
  ASSUME TypeInv, NEW p \in Procs, TtlHset(p)
  PROVE  Takes(p) /\ Leaves(p)
<1> DEFINE u == [req[p].snap EXCEPT !.expires_at = ExpiresAt]
           h == [NoHash EXCEPT !.cusno = req[p].snap.cusno]
           r == [req[p] EXCEPT !.snap = h]
<1>1. req \in [Procs -> Request] /\ req[p] \in Request
  BY DEF TypeInv, RequestsOK
<1>2. u \in Hash /\ h \in Hash
  BY HashUpdatesType DEF StoreOK, TypeInv, TypeOK
<1>3. u.turn_ids = req[p].snap.turn_ids /\ u.expires_at = now + SessionTTL
  BY <1>1 DEF Request, Hash, ExpiresAt
<1>4. h.turn_ids = <<>>
  BY DEF NoHash
<1>5. HSetSession(req[p].gsk, u) /\ req[p].pc = "ttl_hset"
  BY DEF TtlHset
<1>6. req' = [req EXCEPT ![p] = At(r, "ttl_expire")]
  BY <1>1 DEF TtlHset
<1> HIDE DEF u, h
<1>7. r \in Request /\ r.snap = h /\ r.upd = req[p].upd /\ r.gsk = req[p].gsk
  BY <1>1, <1>2 DEF Request
<1> HIDE DEF r
<1>8. Takes(p)
  BY <1>4, <1>6, <1>7, NewTakes
<1>9. req'[p].gsk = req[p].gsk /\ req'[p].pc = "ttl_expire"
  BY <1>1, <1>6, <1>7 DEF At, Request
<1> QED BY <1>2, <1>3, <1>5, <1>8, <1>9 DEF Leaves, Expiring

LEMMA RefreshTtlTakes ==
  ASSUME TypeInv, NEW p \in Procs, RefreshTtl(p)
  PROVE  Takes(p) /\ Leaves(p)
<1>1. CASE TtlTurns(p) \/ TtlRealtime(p) \/ TtlBatch(p)
  BY <1>1, QuietTakes DEF TtlTurns, TtlRealtime, TtlBatch, Expiring
<1> QED BY <1>1, TtlGetTakes, TtlHsetTakes, ExpireTakes DEF RefreshTtl

LEMMA UpdateTakes ==
  ASSUME TypeInv, NEW p \in Procs, Update(p)
  PROVE  Takes(p) /\ Leaves(p)
<1>1. CASE UpdateExists(p)
  BY <1>1, QuietTakes DEF UpdateExists, keyVars, Expiring
<1>2. CASE UpdateHset(p)
  <2>1. req[p].upd \in Hash
    BY DEF TypeInv, RequestsOK, Request
  <2>2. Takes(p)
    BY <1>2, StepTakes DEF UpdateHset
  <2> QED BY <1>2, <2>1, <2>2 DEF UpdateHset, Step, Leaves, Expiring
<1> QED BY <1>1, <1>2 DEF Update

LEMMA MappingTakes ==
  ASSUME TypeInv, NEW p \in Procs, SetLocalMapping(p)
  PROVE  Takes(p) /\ Leaves(p)
<1>0. req \in [Procs -> Request] /\ req[p] \in Request
  BY DEF TypeInv, RequestsOK
<1>1. CASE MapGet(p)
  <2>0. Leaves(p)
    BY <1>1 DEF MapGet, keyVars, Leaves, Expiring
  <2>1. CASE Exists(req[p].gsk)
    <3> DEFINE a == session[req[p].gsk].hash.agent_mappings
               h == [req[p].snap EXCEPT !.agent_mappings = a]
               r == [req[p] EXCEPT !.snap = h]
    <3>1. req[p].gsk \in Sessions
      <4>1. "map_get" \in Steps
        BY DEF Steps, MapSteps
      <4> QED BY <1>1, <4>1, InFlight DEF MapGet, TypeInv, Fits
    <3>2. a \in SUBSET Agents
      BY <3>1 DEF TypeInv, TypeOK, StoreTypeOK, Hash
    <3>3. req' = [req EXCEPT ![p] = At(r, "map_exists")]
      BY <1>0, <1>1, <2>1 DEF MapGet
    <3> HIDE DEF a
    <3>4. h \in Hash /\ h.turn_ids = req[p].snap.turn_ids
      BY <1>0, <3>2 DEF Request, Hash
    <3> HIDE DEF h
    <3>5. r \in Request /\ r.snap = h /\ r.upd = req[p].upd
      BY <1>0, <3>4 DEF Request
    <3> HIDE DEF r
    <3> QED BY <2>0, <3>3, <3>4, <3>5, NewTakes
  <2>2. CASE ~Exists(req[p].gsk)
    <3>1. req' = [req EXCEPT ![p] = At(req[p], "update_exists")]
      BY <1>0, <1>1, <2>2 DEF MapGet
    <3> QED BY <1>0, <2>0, <3>1, NewTakes
  <2> QED BY <2>1, <2>2
<1>2. CASE MapExists(p)
  BY <1>2, QuietTakes DEF MapExists, keyVars, Expiring
<1>3. CASE MapHset(p)
  <2> DEFINE u == [NoHash EXCEPT !.agent_mappings = MappingsWith(req[p])]
  <2>1. Takes(p) /\ req[p].pc = "map_hset" /\ HSetSession(req[p].gsk, u)
    BY <1>3, StepTakes DEF MapHset, Return
  <2>2. u \in Hash
    BY <2>1, HashUpdatesType DEF StoreOK, TypeInv, TypeOK, MapSteps
  <2>3. u.turn_ids = <<>> /\ u.expires_at = 0
    BY DEF NoHash
  <2> HIDE DEF u
  <2> QED BY <2>1, <2>2, <2>3 DEF Leaves, Expiring
<1> QED BY <1>1, <1>2, <1>3 DEF SetLocalMapping

LEMMA StoreStepTakes ==
  ASSUME TypeInv, NEW p \in Procs, StoreStep(p)
  PROVE  Takes(p) /\ Leaves(p)
<1>1. CASE AddTurn(p)
  BY <1>1, QuietTakes DEF AddTurn, TurnPush, TurnExpire, Expiring
<1>2. CASE UpdateProfile(p)
  BY <1>2, QuietTakes DEF UpdateProfile, ProfileGet, RealtimeSet, RealtimeExpire,
                          BatchSet, BatchExpire, keyVars, Expiring
<1> QED BY <1>1, <1>2, CreateTakes, RefreshTtlTakes, UpdateTakes, MappingTakes
        DEF StoreStep

LEMMA TokenStepTakes ==
  ASSUME TypeInv, NEW p \in Procs, TokenStep(p)
  PROVE  Takes(p) /\ Leaves(p)
<1>0. /\ UNCHANGED session
      /\ req \in [Procs -> Request] /\ req[p] \in Request
  BY DEF TokenStep, keyVars, TypeInv, RequestsOK
<1>1. CASE RotateDel(p) \/ RotateSetex(p) \/ Revoke(p)
  BY <1>0, <1>1, QuietTakes DEF RotateDel, RotateSetex, MapNewPair, Revoke, Expiring
<1>2. CASE CloseGet(p)
  <2>0. Leaves(p)
    BY <1>0, <1>2 DEF CloseGet, Leaves, Expiring
  <2>1. CASE Exists(req[p].gsk)
    <3> DEFINE u == [NoHash EXCEPT !.session_state = "end"]
               r == [req[p] EXCEPT !.upd = u]
    <3>1. u \in Hash /\ u.turn_ids = <<>> /\ u.expires_at = 0
      BY IdleType DEF Hash, NoHash, States
    <3>2. req' = [req EXCEPT ![p] = At(r, "update_exists")]
      BY <1>0, <1>2, <2>1 DEF CloseGet
    <3> HIDE DEF u
    <3>3. r \in Request /\ r.snap = req[p].snap /\ r.upd = u
      BY <1>0, <3>1 DEF Request
    <3> HIDE DEF r
    <3> QED BY <2>0, <3>1, <3>2, <3>3, NewTakes
  <2>2. CASE ~Exists(req[p].gsk)
    <3>1. req' = [req EXCEPT ![p] = At(req[p], "done")]
      BY <1>0, <1>2, <2>2 DEF CloseGet
    <3> QED BY <1>0, <2>0, <3>1, NewTakes
  <2> QED BY <2>1, <2>2
<1> QED BY <1>1, <1>2 DEF TokenStep

LEMMA FaultTakes ==
  ASSUME TypeInv, NEW p \in Procs, Fail(p) \/ LoseAnswer(p)
  PROVE  Takes(p) /\ Leaves(p)
<1>1. CASE Fail(p)
  <2>1. failures' > 0
    BY <1>1 DEF Fail, Fault, TypeInv, TypeOK
  <2> QED BY <1>1, <2>1, IdleTakes DEF Fail, keyVars, Leaves
<1>2. CASE LoseAnswer(p)
  <2>1. CASE MapNewPair(p) /\ UNCHANGED keyVars
    BY <2>1, QuietTakes DEF MapNewPair, keyVars, Expiring
  <2> QED BY <1>2, <2>1, CreateTakes, ExpireTakes DEF LoseAnswer
<1> QED BY <1>1, <1>2

\* Every step of a handler, as far as hashes are concerned.
LEMMA HandlerMoves ==
  ASSUME TypeInv, NEW p \in Procs,
         Start(p) \/ Continue(p) \/ Fail(p) \/ LoseAnswer(p)
  PROVE  Takes(p) /\ Leaves(p)
<1>1. CASE Continue(p)
  BY <1>1, StoreStepTakes, TokenStepTakes, CreateTakes, ExpireTakes
     DEF Continue, CreateStep, CreateSessionGet, CreateSessionAnswer
<1> QED BY <1>1, StartTakes, FaultTakes

-----------------------------------------------------------------------------
(* Every list is distinct, in Redis and in the hands of every handler.     *)

LEMMA HandlerListsDistinct ==
  ASSUME TypeInv, ListsDistinct, NEW p \in Procs, Takes(p), Leaves(p)
  PROVE  ListsDistinct'
<1>0. /\ session \in [Sessions -> [hash : Hash, exp : Deadline]]
      /\ \A q \in Procs : req[q].snap \in Hash /\ req[q].upd \in Hash
  BY DEF TypeInv, TypeOK, StoreTypeOK, RequestsOK, Request
<1>1. /\ Distinct(<<>>)
      /\ Distinct(req[p].snap.turn_ids)
      /\ Distinct(req[p].upd.turn_ids)
  BY NoTurnsDistinct DEF ListsDistinct
<1>2. \A ids \in TurnsRead \cup TurnsPatched : Distinct(ids)
  <2>1. \A s \in Sessions : /\ session[s].hash \in Hash
                            /\ Distinct(session[s].hash.turn_ids)
    BY <1>0 DEF ListsDistinct
  <2> QED BY <2>1, PatchUpdatesDistinct DEF TurnsRead, TurnsPatched
<1>3. \A q \in Procs : /\ Distinct(req'[q].snap.turn_ids)
                       /\ Distinct(req'[q].upd.turn_ids)
  <2> SUFFICES ASSUME NEW q \in Procs
               PROVE  /\ Distinct(req'[q].snap.turn_ids)
                      /\ Distinct(req'[q].upd.turn_ids)
    OBVIOUS
  <2>1. CASE q = p
    BY <1>1, <1>2, <2>1 DEF Takes
  <2>2. CASE q # p
    BY <2>2 DEF Takes, ListsDistinct
  <2> QED BY <2>1, <2>2
<1>4. ASSUME NEW s \in Sessions PROVE Distinct(session'[s].hash.turn_ids)
  <2>0. session[s].hash \in Hash /\ Distinct(session[s].hash.turn_ids)
    BY <1>0 DEF ListsDistinct
  <2>1. CASE UNCHANGED session
    BY <2>0, <2>1
  <2>2. CASE ExpireSession(req[p].gsk)
    <3>1. session'[s].hash = session[s].hash
      BY <1>0, <2>2 DEF ExpireSession
    <3> QED BY <2>0, <3>1
  <2>3. ASSUME NEW u \in Hash, HSetSession(req[p].gsk, u),
               u.turn_ids \in {<<>>, req[p].snap.turn_ids, req[p].upd.turn_ids}
        PROVE  Distinct(session'[s].hash.turn_ids)
    <3>1. \/ session'[s].hash = session[s].hash
          \/ session'[s].hash = HSet(session[s].hash, u)
      BY <1>0, <2>3 DEF HSetSession
    <3>2. Distinct(u.turn_ids)
      BY <1>1, <2>3
    <3> QED BY <2>0, <3>1, <3>2, HSetDistinct
  <2> QED BY <2>1, <2>2, <2>3 DEF Leaves
<1> QED BY <1>3, <1>4 DEF ListsDistinct

LEMMA TickListsDistinct ==
  ASSUME ListsDistinct, Tick
  PROVE  ListsDistinct'
<1>1. \A s \in Sessions : \/ session'[s].hash = session[s].hash
                          \/ session'[s].hash = NoHash
  BY DEF Tick, StoreTick
<1>2. UNCHANGED req
  BY DEF Tick, StoreTick
<1> QED BY <1>1, <1>2, NoTurnsDistinct DEF ListsDistinct

\* TurnIdsAreDistinct for every run: however PATCHes overlap with each other
\* and with the refresh_ttl that writes a list it read earlier, no list that
\* any of them reads, computes or writes holds a turn twice.
THEOREM TurnsStayDistinct == Spec => []TurnIdsAreDistinct
<1>1. Init => ListsDistinct
  <2>1. Idle.snap = NoHash /\ Idle.upd = NoHash
    BY DEF Idle
  <2> QED BY <2>1, NoTurnsDistinct DEF Init, StoreInit, ListsDistinct
<1>2. TypeInv /\ ListsDistinct /\ [Next]_vars => ListsDistinct'
  <2> SUFFICES ASSUME TypeInv, ListsDistinct, [Next]_vars PROVE ListsDistinct'
    OBVIOUS
  <2>1. ASSUME NEW p \in Procs,
               Start(p) \/ Continue(p) \/ Fail(p) \/ LoseAnswer(p)
        PROVE  ListsDistinct'
    BY <2>1, HandlerMoves, HandlerListsDistinct
  <2>2. CASE Tick
    BY <2>2, TickListsDistinct
  <2>3. CASE UNCHANGED vars
    BY <2>3 DEF vars, storeVars, keyVars, ListsDistinct
  <2> QED BY <2>1, <2>2, <2>3 DEF Next, Horizon
<1>3. ListsDistinct => TurnIdsAreDistinct
  BY DEF ListsDistinct, TurnIdsAreDistinct, Distinct
<1> QED BY <1>1, <1>2, <1>3, InitOK, NextOK, PTL DEF Spec

-----------------------------------------------------------------------------
(* The expiry a session shows.                                             *)

\* A handler takes no time, and what went wrong stays counted.
LEMMA HandlersTakeNoTime ==
  ASSUME TypeInv, NEW p \in Procs,
         Start(p) \/ Continue(p) \/ Fail(p) \/ LoseAnswer(p)
  PROVE  now' = now /\ failures' \in Nat /\ failures' >= failures
<1>0. failures \in Nat
  BY DEF TypeInv, TypeOK
<1>1. CASE Start(p)
  BY <1>0, <1>1
     DEF Start, create_session, refresh_token, close_session,
         update_realtime_personal_context, update_session_state,
         close_session_by_key, save_api_result, keyVars
<1>2. CASE StoreStep(p)
  <2>1. failures' = failures
    BY <1>2 DEF StoreStep
  <2>2. now' = now
    BY <1>2
       DEF StoreStep, CreateHset, RefreshTtl, TtlGet, TtlHset, TtlExpire, TtlTurns,
           TtlRealtime, TtlBatch, Update, UpdateExists, UpdateHset,
           SetLocalMapping, MapGet, MapExists, MapHset, AddTurn, TurnPush,
           TurnExpire, UpdateProfile, ProfileGet, RealtimeSet, RealtimeExpire,
           BatchSet, BatchExpire, keyVars
  <2> QED BY <1>0, <2>1, <2>2
<1>3. CASE CreateStep(p) \/ TokenStep(p)
  BY <1>0, <1>3
     DEF CreateStep, CreateSessionGet, CreateSessionAnswer, CreateGet,
         CreateExpire, TokenStep, keyVars
<1>4. CASE Fail(p) \/ LoseAnswer(p)
  BY <1>0, <1>4
     DEF Fail, LoseAnswer, Fault, CreateGet, CreateExpire, keyVars
<1> QED BY <1>1, <1>2, <1>3, <1>4 DEF Continue

\* The expiry shown is at most a full time to live away, no update that is
\* planned ahead carries one, and a key that is gone shows none.
ExpiryBounded ==
  /\ \A s \in Sessions : session[s].hash.expires_at <= now + SessionTTL
  /\ \A p \in Procs : req[p].upd.expires_at = 0
  /\ \A s \in Sessions : ~Exists(s) => session[s].hash.expires_at = 0

\* The two properties as a whole: while no handler is about to EXPIRE the key.
ExpiryKept ==
  failures = 0 =>
    \A s \in Sessions : ~Renewing(s) =>
      /\ Exists(s) /\ session[s].exp # Persist
           => session[s].hash.expires_at <= session[s].exp
      /\ session[s].exp = Persist => session[s].hash.expires_at = 0

ExpiryInv == ExpiryBounded /\ ExpiryKept

\* Only the handler that EXPIREs a key, or one that fails, stops renewing it.
LEMMA RenewingStays ==
  ASSUME TypeInv, NEW p \in Procs, NEW s \in Sessions, Takes(p),
         req[p].pc \notin Expiring \/ req[p].gsk # s, Renewing(s)
  PROVE  Renewing(s)'
<1>1. PICK q \in Procs : req[q].gsk = s /\ req[q].pc \in Expiring
  BY DEF Renewing, Expiring
<1>2. req'[q] = req[q]
  BY <1>1 DEF Takes
<1> QED BY <1>1, <1>2 DEF Renewing, Expiring

LEMMA HandlerKeepsExpiry ==
  ASSUME TypeInv, ExpiryInv, NEW p \in Procs, Takes(p), Leaves(p),
         now' = now, failures' \in Nat, failures' >= failures
  PROVE  ExpiryInv'
<1>0. /\ session \in [Sessions -> [hash : Hash, exp : Deadline]]
      /\ now \in Nat /\ SessionTTL \in Nat /\ SessionTTL > 0
      /\ failures \in Nat
  BY TTLsArePositive DEF TypeInv, TypeOK, StoreTypeOK
<1>1. \A q \in Procs : req'[q].upd.expires_at = 0
  <2> SUFFICES ASSUME NEW q \in Procs PROVE req'[q].upd.expires_at = 0
    OBVIOUS
  <2>1. req[p].upd.expires_at = 0 /\ req[q].upd.expires_at = 0
    BY DEF ExpiryInv, ExpiryBounded
  <2> QED BY <2>1 DEF Takes
<1> SUFFICES ASSUME NEW s \in Sessions
             PROVE  /\ session'[s].hash.expires_at <= now + SessionTTL
                    /\ ~Exists(s)' => session'[s].hash.expires_at = 0
                    /\ failures' = 0 /\ ~Renewing(s)' =>
                         /\ Exists(s)' /\ session'[s].exp # Persist
                              => session'[s].hash.expires_at <= session'[s].exp
                         /\ session'[s].exp = Persist
                              => session'[s].hash.expires_at = 0
  BY <1>1 DEF ExpiryInv, ExpiryBounded, ExpiryKept
<1> DEFINE e == session[s].hash.expires_at
           d == session[s].exp
<1>2. /\ e \in Nat /\ d \in Nat \cup {Persist}
      /\ e <= now + SessionTTL
      /\ d = Gone => e = 0
      /\ failures = 0 /\ ~Renewing(s) =>
           /\ d # Gone /\ d # Persist => e <= d
           /\ d = Persist => e = 0
  BY <1>0 DEF ExpiryInv, ExpiryBounded, ExpiryKept, Exists, Live, Deadline, Hash
<1>3. failures' = 0 => failures = 0
  BY <1>0
<1>4. CASE session'[s] = session[s]
           /\ (failures' = 0 => req[p].pc \notin Expiring \/ req[p].gsk # s)
  BY <1>2, <1>3, <1>4, RenewingStays DEF Exists, Live
<1>5. CASE ExpireSession(req[p].gsk) /\ req[p].gsk = s
  <2>1. session'[s].hash = session[s].hash /\ session'[s].exp = Expire(d, now, SessionTTL)
    BY <1>0, <1>5 DEF ExpireSession
  <2>2. now + SessionTTL # Persist /\ now + SessionTTL # Gone
    BY <1>0 DEF Persist, Gone
  <2> QED BY <1>2, <2>1, <2>2 DEF Expire, Exists, Live, Gone, Persist
<1>6. ASSUME NEW u \in Hash, HSetSession(req[p].gsk, u), req[p].gsk = s,
             req[p].pc \notin Expiring,
             \/ u.expires_at \in {0, req[p].upd.expires_at}
             \/ /\ u.expires_at = now + SessionTTL
                /\ req'[p].gsk = req[p].gsk
                /\ req'[p].pc \in Expiring
      PROVE  /\ session'[s].hash.expires_at <= now + SessionTTL
             /\ ~Exists(s)' => session'[s].hash.expires_at = 0
             /\ failures' = 0 /\ ~Renewing(s)' =>
                  /\ Exists(s)' /\ session'[s].exp # Persist
                       => session'[s].hash.expires_at <= session'[s].exp
                  /\ session'[s].exp = Persist
                       => session'[s].hash.expires_at = 0
  <2>1. /\ session'[s].hash = HSet(session[s].hash, u)
        /\ session'[s].exp = Write(d)
    BY <1>0, <1>6 DEF HSetSession
  <2>2. Write(d) # Gone /\ Exists(s)'
    BY <1>2, <2>1 DEF Write, Live, Gone, Persist, Exists
  <2>3. CASE u.expires_at \in {0, req[p].upd.expires_at}
    <3>1. u.expires_at = 0
      BY <2>3 DEF ExpiryInv, ExpiryBounded
    <3>2. session'[s].hash.expires_at = e
      BY <2>1, <3>1 DEF HSet
    <3>3. ~Renewing(s)' => ~Renewing(s)
      BY <1>6, RenewingStays
    <3> QED BY <1>2, <1>3, <2>1, <2>2, <3>2, <3>3 DEF Write, Live, Gone, Persist
  <2>4. CASE /\ u.expires_at = now + SessionTTL
             /\ req'[p].gsk = req[p].gsk
             /\ req'[p].pc \in Expiring
    <3>1. Renewing(s)'
      BY <1>6, <2>4 DEF Renewing, Expiring
    <3>2. session'[s].hash.expires_at = now + SessionTTL
      BY <1>0, <2>1, <2>4 DEF HSet
    <3> QED BY <1>0, <2>2, <3>1, <3>2
  <2> QED BY <1>6, <2>3, <2>4
<1>7. CASE req[p].gsk # s
  <2>1. session'[s] = session[s]
    BY <1>0, <1>7 DEF Leaves, ExpireSession, HSetSession
  <2> QED BY <1>4, <1>7, <2>1
<1>8. CASE req[p].gsk = s
  <2>1. CASE UNCHANGED session /\ (req[p].pc \in Expiring => failures' > 0)
    BY <1>0, <1>4, <2>1
  <2> QED BY <1>5, <1>6, <1>8, <2>1 DEF Leaves
<1> QED BY <1>7, <1>8

LEMMA TickKeepsExpiry ==
  ASSUME TypeInv, ExpiryInv, Tick
  PROVE  ExpiryInv'
<1>0. /\ session \in [Sessions -> [hash : Hash, exp : Deadline]]
      /\ now \in Nat /\ SessionTTL \in Nat /\ now' = now + 1
      /\ UNCHANGED <<req, failures>>
  BY TTLsArePositive DEF TypeInv, TypeOK, StoreTypeOK, Tick, StoreTick
<1>1. ASSUME NEW s \in Sessions
      PROVE  \/ session'[s] = session[s]
             \/ session'[s].hash.expires_at = 0 /\ session'[s].exp = Gone
  BY DEF Tick, StoreTick, NoHash
<1>2. \A s \in Sessions : session[s].hash.expires_at \in Nat
  BY <1>0 DEF Hash
<1>3. ExpiryBounded'
  BY <1>0, <1>1, <1>2 DEF ExpiryInv, ExpiryBounded, Exists, Live
<1>4. ExpiryKept'
  BY <1>0, <1>1 DEF ExpiryInv, ExpiryKept, Renewing, Exists, Live, Gone, Persist
<1> QED BY <1>3, <1>4 DEF ExpiryInv

LEMMA ExpiryInvariant == Spec => []ExpiryInv
<1>1. Init => ExpiryInv
  <2>1. Idle.upd = NoHash /\ NoHash.expires_at = 0
    BY DEF Idle, NoHash
  <2> QED BY <2>1, TTLsArePositive
          DEF Init, StoreInit, ExpiryInv, ExpiryBounded, ExpiryKept, Exists, Live,
              Gone, Persist
<1>2. TypeInv /\ ExpiryInv /\ [Next]_vars => ExpiryInv'
  <2> SUFFICES ASSUME TypeInv, ExpiryInv, [Next]_vars PROVE ExpiryInv'
    OBVIOUS
  <2>1. ASSUME NEW p \in Procs,
               Start(p) \/ Continue(p) \/ Fail(p) \/ LoseAnswer(p)
        PROVE  ExpiryInv'
    BY <2>1, HandlerMoves, HandlersTakeNoTime, HandlerKeepsExpiry
  <2>2. CASE Tick
    BY <2>2, TickKeepsExpiry
  <2>3. CASE UNCHANGED vars
    BY <2>3 DEF vars, storeVars, keyVars, ExpiryInv, ExpiryBounded, ExpiryKept,
                Renewing, Exists
  <2> QED BY <2>1, <2>2, <2>3 DEF Next, Horizon
<1> QED BY <1>1, <1>2, InitOK, NextOK, PTL DEF Spec

\* AdvertisedExpiryIsKept for every run: a whole hash may be written back over
\* a newer one, but never without the EXPIRE that makes its expires_at true.
THEOREM ShownExpiryIsKept == Spec => []AdvertisedExpiryIsKept
<1>1. ExpiryInv => AdvertisedExpiryIsKept
  BY DEF ExpiryInv, ExpiryKept, AdvertisedExpiryIsKept
<1> QED BY <1>1, ExpiryInvariant, PTL

\* ImmortalSessionsAreRemnants for every run: a key that create or refresh_ttl
\* wrote has a deadline or is about to get one, unless something failed.
THEOREM OnlyRemnantsStay == Spec => []ImmortalSessionsAreRemnants
<1>1. ExpiryInv => ImmortalSessionsAreRemnants
  BY DEF ExpiryInv, ExpiryKept, ImmortalSessionsAreRemnants
<1> QED BY <1>1, ExpiryInvariant, PTL

=============================================================================
