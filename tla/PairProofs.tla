------------------------------ MODULE PairProofs ------------------------------
(***************************************************************************)
(* What becomes of token pairs that were closed or refreshed, whatever the *)
(* readers see and whichever answers are lost.                             *)
(***************************************************************************)
EXTENDS SessionReads, TokenProofs, HashProofs

(* The pairs a request carries stay with it until it has been answered.    *)

Carries(p) ==
  /\ \A q \in Procs \ {p} : req'[q] = req[q]
  /\ \/ req'[p] = Idle
     \/ /\ req'[p].op = req[p].op
        /\ req'[p].gsk = req[p].gsk
        /\ req'[p].jti = req[p].jti
        /\ req'[p].new = req[p].new
        /\ req'[p].pc # "turn_push"
        /\ req'[p].pc = "revoke" => req[p].op = "close_token"
        /\ req[p].pc # "rotate_setex"

LEMMA AtCarries ==
  ASSUME TypeInv, NEW p \in Procs, NEW r \in Request, NEW m,
         r.op = req[p].op, r.gsk = req[p].gsk, r.jti = req[p].jti, r.new = req[p].new,
         m # "turn_push",
         m = "revoke" => req[p].op = "close_token",
         m = "done" \/ req[p].pc # "rotate_setex",
         req' = [req EXCEPT ![p] = At(r, m)]
  PROVE  Carries(p)
<1>1. req'[p] = At(r, m) /\ \A q \in Procs \ {p} : req'[q] = req[q]
  BY DEF TypeInv, RequestsOK
<1>2. CASE m = "done"
  BY <1>1, <1>2 DEF At, Carries
<1>3. CASE m # "done"
  <2> DEFINE s == [r EXCEPT !.pc = m]
  <2>1. /\ s.op = r.op /\ s.gsk = r.gsk /\ s.jti = r.jti /\ s.new = r.new
        /\ s.pc = m
    BY DEF Request
  <2>2. req'[p] = s
    BY <1>1, <1>3 DEF At
  <2> HIDE DEF s
  <2> QED BY <1>1, <1>3, <2>1, <2>2 DEF Carries
<1> QED BY <1>2, <1>3

LEMMA StepCarries ==
  ASSUME TypeInv, NEW p \in Procs, NEW l, NEW m,
         Step(p, l, m) \/ Return(p, l, m),
         m # "turn_push",
         m = "revoke" => req[p].op = "close_token",
         m = "done" \/ l # "rotate_setex"
  PROVE  Carries(p)
<1>0. req[p] \in Request /\ req[p].pc = l
  BY DEF Step, Return, TypeInv, RequestsOK
<1>1. CASE Step(p, l, m)
  <2>1. req' = [req EXCEPT ![p] = At(req[p], m)]
    BY <1>1 DEF Step
  <2> QED BY <1>0, <2>1, AtCarries
<1>2. CASE Return(p, l, m)
  <2> DEFINE r == [req[p] EXCEPT !.snap = NoHash]
  <2>1. /\ r \in Request /\ r.op = req[p].op /\ r.gsk = req[p].gsk
       /\ r.jti = req[p].jti /\ r.new = req[p].new
    BY <1>0, IdleType DEF Request
  <2>2. req' = [req EXCEPT ![p] = At(r, m)]
    BY <1>2 DEF Return
  <2> HIDE DEF r
  <2> QED BY <1>0, <2>1, <2>2, AtCarries
<1> QED BY <1>1, <1>2

LEMMA AfterRevokes ==
  ASSUME NEW r
  PROVE  /\ AfterRefreshTtl(r) \notin {"revoke", "turn_push"}
         /\ AfterUpdate(r) # "turn_push"
         /\ AfterUpdate(r) = "revoke" => r.op = "close_token"
BY DEF AfterRefreshTtl, AfterUpdate

LEMMA RefreshTtlCarries ==
  ASSUME TypeInv, NEW p \in Procs, RefreshTtl(p)
  PROVE  Carries(p)
<1>0. req[p] \in Request
  BY DEF TypeInv, RequestsOK
<1>1. CASE TtlGet(p)
  <2> DEFINE r == [req[p] EXCEPT !.snap = session[req[p].gsk].hash]
  <2>1. CASE Exists(req[p].gsk)
    <3>1. req[p].gsk \in Sessions
      <4>1. "ttl_get" \in Steps
        BY DEF Steps, TtlSteps
      <4> QED BY <1>1, <4>1, InFlight DEF TtlGet, TypeInv, Fits
    <3>2. session[req[p].gsk].hash \in Hash
      BY <3>1 DEF TypeInv, TypeOK, StoreTypeOK
    <3>3. /\ r \in Request /\ r.op = req[p].op /\ r.gsk = req[p].gsk
         /\ r.jti = req[p].jti /\ r.new = req[p].new
      BY <1>0, <3>2 DEF Request
    <3>4. req' = [req EXCEPT ![p] = At(r, "ttl_hset")] /\ req[p].pc # "rotate_setex"
      BY <1>1, <2>1 DEF TtlGet
    <3> HIDE DEF r
    <3> QED BY <3>3, <3>4, AtCarries
  <2>2. CASE ~Exists(req[p].gsk)
    <3>1. req' = [req EXCEPT ![p] = At(req[p], AfterRefreshTtl(req[p]))]
          /\ req[p].pc # "rotate_setex"
      BY <1>1, <2>2 DEF TtlGet
    <3> QED BY <1>0, <3>1, AtCarries, AfterRevokes
  <2> QED BY <2>1, <2>2
<1>2. CASE TtlHset(p)
  <2> DEFINE r == [req[p] EXCEPT !.snap = [NoHash EXCEPT !.cusno = req[p].snap.cusno]]
  <2>1. [NoHash EXCEPT !.cusno = req[p].snap.cusno] \in Hash
    BY HashUpdatesType DEF StoreOK, TypeInv, TypeOK
  <2>2. /\ r \in Request /\ r.op = req[p].op /\ r.gsk = req[p].gsk
       /\ r.jti = req[p].jti /\ r.new = req[p].new
    BY <1>0, <2>1 DEF Request
  <2>3. req' = [req EXCEPT ![p] = At(r, "ttl_expire")] /\ req[p].pc # "rotate_setex"
    BY <1>2 DEF TtlHset
  <2> HIDE DEF r
  <2> QED BY <2>2, <2>3, AtCarries
<1>3. CASE TtlExpire(p) \/ TtlTurns(p) \/ TtlBatch(p)
  BY <1>3, StepCarries, AfterRevokes DEF TtlExpire, TtlTurns, TtlBatch
<1>4. CASE TtlRealtime(p)
  <2>1. \/ Step(p, "ttl_realtime", "ttl_batch")
        \/ Return(p, "ttl_realtime", AfterRefreshTtl(req[p]))
    BY <1>4 DEF TtlRealtime
  <2> QED BY <2>1, StepCarries, AfterRevokes
<1> QED BY <1>1, <1>2, <1>3, <1>4 DEF RefreshTtl

LEMMA StoreStepCarries ==
  ASSUME TypeInv, NEW p \in Procs, StoreStep(p)
  PROVE  Carries(p)
<1>0. req[p] \in Request
  BY DEF TypeInv, RequestsOK
<1>1. CASE CreateHset(p) \/ Update(p) \/ AddTurn(p)
  BY <1>1, StepCarries, AfterRevokes
     DEF CreateHset, Update, UpdateExists, UpdateHset, AddTurn, TurnPush, TurnExpire
<1>2. CASE MapGet(p)
  <2> DEFINE a == session[req[p].gsk].hash.agent_mappings
             r == [req[p] EXCEPT !.snap.agent_mappings = a]
  <2>1. CASE Exists(req[p].gsk)
    <3>1. req[p].gsk \in Sessions
      <4>1. "map_get" \in Steps
        BY DEF Steps, MapSteps
      <4> QED BY <1>2, <4>1, InFlight DEF MapGet, TypeInv, Fits
    <3>2. a \in SUBSET Agents
      BY <3>1 DEF TypeInv, TypeOK, StoreTypeOK, Hash
    <3>3. [req[p].snap EXCEPT !.agent_mappings = a] \in Hash
      BY <1>0, <3>2 DEF Request, Hash
    <3>4. /\ r \in Request /\ r.op = req[p].op /\ r.gsk = req[p].gsk
         /\ r.jti = req[p].jti /\ r.new = req[p].new
      BY <1>0, <3>3 DEF Request
    <3>5. req' = [req EXCEPT ![p] = At(r, "map_exists")] /\ req[p].pc # "rotate_setex"
      BY <1>2, <2>1 DEF MapGet
    <3> HIDE DEF r
    <3> QED BY <3>4, <3>5, AtCarries
  <2>2. CASE ~Exists(req[p].gsk)
    <3>1. req' = [req EXCEPT ![p] = At(req[p], "update_exists")]
          /\ req[p].pc # "rotate_setex"
      BY <1>2, <2>2 DEF MapGet
    <3> QED BY <1>0, <3>1, AtCarries
  <2> QED BY <2>1, <2>2
<1>3. CASE MapExists(p) \/ MapHset(p)
  BY <1>3, StepCarries DEF MapExists, MapHset
<1>4. CASE UpdateProfile(p)
  <2>1. CASE ProfileGet(p)
    <3>1. \E m \in {"done", "update_exists", "realtime_set"} : Step(p, "profile_get", m)
      BY <2>1 DEF ProfileGet
    <3> QED BY <3>1, StepCarries
  <2>2. CASE RealtimeSet(p) \/ RealtimeExpire(p) \/ BatchSet(p) \/ BatchExpire(p)
    BY <2>2, StepCarries DEF RealtimeSet, RealtimeExpire, BatchSet, BatchExpire
  <2> QED BY <1>4, <2>1, <2>2 DEF UpdateProfile
<1> QED BY <1>1, <1>2, <1>3, <1>4, RefreshTtlCarries DEF StoreStep, SetLocalMapping

\* Every command a handler sends, answered or not.
LEMMA HandlerCarries ==
  ASSUME TypeInv, NEW p \in Procs, Continue(p) \/ Fail(p) \/ LoseAnswer(p)
  PROVE  Carries(p)
<1>0. req[p] \in Request
  BY DEF TypeInv, RequestsOK
<1>1. CASE CreateGet(p) \/ CreateExpire(p) \/ RotateDel(p) \/ MapNewPair(p) \/ Revoke(p)
  BY <1>1, StepCarries DEF CreateGet, CreateExpire, RotateDel, MapNewPair, Revoke
<1>2. CASE CloseGet(p)
  <2> DEFINE u == [NoHash EXCEPT !.session_state = "end"]
             r == [req[p] EXCEPT !.upd = u]
  <2>1. u \in Hash
    BY IdleType DEF Hash, States
  <2>2. /\ r \in Request /\ r.op = req[p].op /\ r.gsk = req[p].gsk
       /\ r.jti = req[p].jti /\ r.new = req[p].new
    BY <1>0, <2>1 DEF Request
  <2>3. /\ \/ req' = [req EXCEPT ![p] = At(r, "update_exists")]
           \/ req' = [req EXCEPT ![p] = At(req[p], "done")]
        /\ req[p].pc # "rotate_setex"
    BY <1>2 DEF CloseGet
  <2> HIDE DEF r
  <2> QED BY <1>0, <2>2, <2>3, AtCarries
<1>3. CASE Fail(p)
  BY <1>3 DEF Fail, Carries, TypeInv, RequestsOK
<1> QED BY <1>1, <1>2, <1>3, StoreStepCarries
        DEF Continue, CreateStep, CreateSessionGet, CreateSessionAnswer, TokenStep,
            RotateSetex, LoseAnswer

-----------------------------------------------------------------------------
(* A pair that is being issued has not reached anyone.                     *)

Issuing(p) == req[p].op \in {"create", "refresh"}

PairsInv ==
  /\ \A p \in Procs : Issuing(p) => req[p].new \in Jtis \ held /\ ~Fresh(req[p].new)
  /\ \A p, q \in Procs : Issuing(p) /\ Issuing(q) /\ p # q => req[p].new # req[q].new
  /\ \A p \in Procs : req[p].op = "close_token" => req[p].jti \in held
  /\ \A p \in Procs : req[p].pc = "revoke" => req[p].op = "close_token"
  /\ \A j \in held : ~Fresh(j)
  /\ \A j \in Jtis : tok[j].access <= tok[j].refresh

\* What a command may do to pairs: deleting mappings aside, it touches only the
\* pair that its own handler issues.
Touches(p) ==
  /\ UNCHANGED <<now, owner>>
  /\ \/ held' = held
     \/ held' = held \cup {req[p].new} /\ Issuing(p) /\ req'[p] = Idle
  /\ \A j \in Jtis : \/ tok'[j] = tok[j]
                     \/ /\ Issuing(p) /\ j = req[p].new
                        /\ tok'[j].access <= tok'[j].refresh
  /\ \A j \in Jtis : \/ jti'[j] = jti[j]
                     \/ ~Live(jti'[j].exp)
                     \/ Issuing(p) /\ j = req[p].new

LEMMA PairEffects ==
  ASSUME TypeInv, NEW j \in Jtis
  PROVE  /\ Sign(j) => \A k \in Jtis : \/ tok'[k] = tok[k]
                                       \/ k = j /\ tok'[k].access <= tok'[k].refresh
         /\ DeleteJti(j) => \A k \in Jtis : jti'[k] = jti[k] \/ ~Live(jti'[k].exp)
         /\ \A gsk : SetJtiMapping(j, gsk) =>
              \A k \in Jtis : jti'[k] = jti[k] \/ k = j
<1>1. /\ now \in Nat /\ AccessTTL \in Nat /\ RefreshTTL \in Nat
      /\ tok \in [Jtis -> [access : Nat, refresh : Nat]]
      /\ jti \in [Jtis -> [gsk : Sessions \cup {None}, exp : Deadline]]
  BY TTLsArePositive DEF TypeInv, TypeOK, StoreTypeOK, AuthTypeOK
<1>2. now + AccessTTL <= now + RefreshTTL
  BY <1>1, RefreshOutlasts
<1> QED BY <1>1, <1>2 DEF Sign, DeleteJti, SetJtiMapping, Unmapped, Live

\* A handler in a create or a rotate command issues the pair it carries.
LEMMA IssuersIssue ==
  ASSUME TypeInv, NEW p \in Procs,
         req[p].pc \in {"create_get", "create_expire", "rotate_del", "rotate_setex"}
  PROVE  Issuing(p) /\ req[p].new \in Jtis
<1>1. {"create_get", "create_expire"} \subseteq CreateSteps \cap Steps
  BY DEF CreateSteps, Steps
<1>2. {"rotate_del", "rotate_setex"} \subseteq RotateSteps \cap Steps
  BY DEF RotateSteps, Steps
<1>3. PICK l \in {"create_get", "create_expire", "rotate_del", "rotate_setex"} :
        req[p].pc = l
  OBVIOUS
<1>4. Fits(req[p], l)
  BY <1>1, <1>2, <1>3, InFlight DEF TypeInv
<1> QED BY <1>1, <1>2, <1>4 DEF Fits, Issuing

\* A handler that sends its last command is idle afterwards.
LEMMA LastCommand ==
  ASSUME TypeInv, NEW p \in Procs, NEW l, Step(p, l, "done")
  PROVE  req'[p] = Idle
BY DEF Step, At, TypeInv, RequestsOK

LEMMA HandlerTouches ==
  ASSUME TypeInv, NEW p \in Procs, Continue(p) \/ Fail(p) \/ LoseAnswer(p)
  PROVE  Touches(p)
<1>0. now' = now
  BY HandlersTakeNoTime
<1>1. CASE StoreStep(p) \/ CloseGet(p) \/ Fail(p)
  BY <1>0, <1>1 DEF StoreStep, CloseGet, Fail, authVars, Touches
<1>2. CASE CreateGet(p) /\ Sign(req[p].new) /\ UNCHANGED <<jti, owner>>
           /\ held' \in {held, IF Exists(req[p].gsk) THEN held \cup {req[p].new} ELSE held}
  <2>1. Issuing(p) /\ req[p].new \in Jtis
    BY <1>2, IssuersIssue DEF CreateGet, Step
  <2>2. Exists(req[p].gsk) => req'[p] = Idle
    BY <1>2, LastCommand DEF CreateGet
  <2> QED BY <1>0, <1>2, <2>1, <2>2, PairEffects DEF Touches
<1>3. CASE CreateExpire(p) /\ UNCHANGED <<jti, tok, owner>>
           /\ held' \in {held, held \cup {req[p].new}}
  <2>1. Issuing(p) /\ req'[p] = Idle
    BY <1>3, IssuersIssue, LastCommand DEF CreateExpire, Step
  <2> QED BY <1>0, <1>3, <2>1 DEF Touches
<1>4. CASE RotateDel(p)
  <2>1. Issuing(p) /\ req[p].new \in Jtis
    BY <1>4, IssuersIssue DEF RotateDel, Step
  <2>2. req[p].jti \in Jtis
    <3>1. "rotate_del" \in Steps /\ "rotate_del" \in RotateSteps
      BY DEF Steps, RotateSteps
    <3> QED BY <1>4, <3>1, InFlight DEF RotateDel, Step, Fits, TypeInv
  <2> QED BY <1>0, <1>4, <2>1, <2>2, PairEffects DEF RotateDel, Touches
<1>5. CASE MapNewPair(p) /\ held' \in {held, held \cup {req[p].new}}
  <2>1. Issuing(p) /\ req[p].new \in Jtis /\ req'[p] = Idle
    BY <1>5, IssuersIssue, LastCommand DEF MapNewPair, Step
  <2> QED BY <1>0, <1>5, <2>1, PairEffects DEF MapNewPair, Touches
<1>6. CASE Revoke(p)
  <2>1. Verified(req[p].jti, req[p].kind) => req[p].jti \in Jtis
    BY DEF Verified, TypeInv, TypeOK, AuthTypeOK
  <2> QED BY <1>0, <1>6, <2>1, PairEffects DEF Revoke, Touches
<1>7. CASE Continue(p)
  BY <1>1, <1>2, <1>3, <1>4, <1>5, <1>6, <1>7
     DEF Continue, CreateStep, CreateSessionGet, CreateSessionAnswer, TokenStep,
         RotateSetex
<1>8. CASE LoseAnswer(p)
  BY <1>2, <1>3, <1>5, <1>8 DEF LoseAnswer
<1> QED BY <1>1, <1>7, <1>8

LEMMA HandlerKeepsPairs ==
  ASSUME TypeInv, PairsInv, NEW p \in Procs, Carries(p), Touches(p)
  PROVE  PairsInv'
<1>1. ASSUME NEW q \in Procs, Issuing(q)'
      PROVE  /\ Issuing(q) /\ req'[q].new = req[q].new /\ req[q].new \in Jtis \ held'
             /\ ~Fresh(req[q].new)'
  <2>1. Issuing(q) /\ req'[q].new = req[q].new
    BY <1>1 DEF Carries, Issuing, Idle
  <2>2. req[q].new \in Jtis \ held /\ ~Fresh(req[q].new)
    BY <2>1 DEF PairsInv
  <2>3. held' = held \/ (held' = held \cup {req[p].new} /\ Issuing(p) /\ q # p)
    BY <1>1 DEF Touches, Issuing, Idle
  <2>4. req[q].new \notin held'
    BY <2>1, <2>2, <2>3 DEF PairsInv
  <2> QED BY <2>1, <2>2, <2>4 DEF Touches, Fresh
<1>2. \A q, r \in Procs : Issuing(q)' /\ Issuing(r)' /\ q # r => req'[q].new # req'[r].new
  BY <1>1 DEF PairsInv
<1>3. \A q \in Procs : req'[q].op = "close_token" => req'[q].jti \in held'
  <2>1. held \subseteq held'
    BY DEF Touches
  <2> QED BY <2>1 DEF Carries, PairsInv, Idle
<1>4. \A q \in Procs : req'[q].pc = "revoke" => req'[q].op = "close_token"
  BY DEF Carries, PairsInv, Idle
<1>5. \A j \in held' : ~Fresh(j)'
  BY DEF Touches, PairsInv, Fresh
<1>6. \A j \in Jtis : tok'[j].access <= tok'[j].refresh
  BY DEF Touches, PairsInv
<1> QED BY <1>1, <1>2, <1>3, <1>4, <1>5, <1>6 DEF PairsInv

\* A new request carries a pair that was just drawn, or one that is held.
LEMMA StartKeepsPairs ==
  ASSUME TypeInv, PairsInv, NEW p \in Procs, Start(p)
  PROVE  PairsInv' /\ UNCHANGED <<now, tok, held>>
<1>0. /\ UNCHANGED <<now, tok, held>> /\ req[p] = Idle
      /\ req \in [Procs -> Request]
  BY DEF Start, create_session, refresh_token, close_session,
         update_realtime_personal_context, update_session_state,
         close_session_by_key, save_api_result, CreateSession, CreateTokens,
         RefreshLookup, CloseLookup, ProfileLookup, PatchSessionState,
         CloseSession, SaveApiResult, keyVars, authVars, TypeInv, RequestsOK
<1> SUFFICES PairsInv'
  BY <1>0
<1>1. ASSUME NEW r \in Request, NEW m \in Steps, m # "revoke", UNCHANGED owner,
             req' = [req EXCEPT ![p] = At(r, m)],
             r.op \notin {"create", "refresh"},
             r.op = "close_token" => r.jti \in held
      PROVE  PairsInv'
  <2>1. m # "done"
    BY <1>1 DEF Steps, CreateSteps, TtlSteps, MapSteps, UpdateSteps, RotateSteps,
                CloseSteps, TurnSteps, ProfileSteps
  <2> DEFINE s == [r EXCEPT !.pc = m]
  <2>2. s.op = r.op /\ s.jti = r.jti /\ s.pc = m
    BY DEF Request
  <2>3. req'[p] = s /\ \A q \in Procs \ {p} : req'[q] = req[q]
    BY <1>0, <1>1, <2>1 DEF At
  <2> HIDE DEF s
  <2> QED BY <1>0, <1>1, <2>2, <2>3 DEF PairsInv, Issuing, Fresh
<1>2. ASSUME NEW r \in Request, NEW m \in Steps, m # "revoke",
             NEW new \in Jtis, NEW gsk \in Sessions, NEW q, Draw(new, gsk, q),
             req' = [req EXCEPT ![p] = At(r, m)],
             r.op \in {"create", "refresh"}, r.new = new
      PROVE  PairsInv'
  <2>1. m # "done"
    BY <1>2 DEF Steps, CreateSteps, TtlSteps, MapSteps, UpdateSteps, RotateSteps,
                CloseSteps, TurnSteps, ProfileSteps
  <2> DEFINE s == [r EXCEPT !.pc = m]
  <2>2. s.op = r.op /\ s.new = r.new /\ s.pc = m
    BY DEF Request
  <2>3. req'[p] = s /\ \A k \in Procs \ {p} : req'[k] = req[k]
    BY <1>0, <1>2, <2>1 DEF At
  <2> HIDE DEF s
  <2>4. /\ Fresh(new) /\ ~Fresh(new)'
        /\ \A k \in Jtis : Fresh(k)' => Fresh(k)
    BY <1>2, DrawnOnce
  <2>5. held \subseteq Jtis
    BY DEF TypeInv, TypeOK, AuthTypeOK
  <2>6. /\ new \notin held
        /\ \A k \in Procs : Issuing(k) => req[k].new # new
    BY <2>4 DEF PairsInv
  <2>7. \A k \in Procs : Issuing(k)' =>
             req'[k].new \in Jtis \ held' /\ ~Fresh(req[k].new)'
    <3> SUFFICES ASSUME NEW k \in Procs, Issuing(k)'
                 PROVE  req'[k].new \in Jtis \ held' /\ ~Fresh(req[k].new)'
      OBVIOUS
    <3>1. CASE k = p
      BY <1>0, <1>2, <2>2, <2>3, <2>4, <2>6, <3>1
    <3>2. CASE k # p
      <4>1. req'[k] = req[k] /\ Issuing(k)
        BY <2>3, <3>2 DEF Issuing
      <4>2. req[k].new \in Jtis \ held /\ ~Fresh(req[k].new)
        BY <4>1 DEF PairsInv
      <4> QED BY <1>0, <2>4, <4>1, <4>2
    <3> QED BY <3>1, <3>2
  <2>8. \A k, l \in Procs : Issuing(k)' /\ Issuing(l)' /\ k # l
                              => req'[k].new # req'[l].new
    <3>1. \A k \in Procs : k # p /\ Issuing(k)' => Issuing(k) /\ req'[k].new # new
      BY <2>3, <2>6 DEF Issuing
    <3>2. req'[p].new = new
      BY <1>2, <2>2, <2>3
    <3> QED BY <2>3, <3>1, <3>2 DEF PairsInv
  <2>9. \A k \in Procs : /\ req'[k].op = "close_token" => req'[k].jti \in held'
                         /\ req'[k].pc = "revoke" => req'[k].op = "close_token"
    BY <1>0, <1>2, <2>2, <2>3 DEF PairsInv
  <2>10. /\ \A j \in held' : ~Fresh(j)'
         /\ \A j \in Jtis : tok'[j].access <= tok'[j].refresh
    BY <1>0, <2>4, <2>5 DEF PairsInv
  <2> QED BY <2>7, <2>8, <2>9, <2>10 DEF PairsInv
<1>3. {"create_get", "ttl_get", "close_get", "profile_get", "update_exists",
       "map_get", "turn_push"} \subseteq Steps
  BY DEF Steps, CreateSteps, TtlSteps, MapSteps, UpdateSteps, CloseSteps, TurnSteps,
         ProfileSteps
<1>4. CASE create_session(p)
  <2>1. PICK gsk \in Sessions, j \in Jtis : CreateSession(p, gsk, j)
    BY <1>4 DEF create_session
  <2> DEFINE r == [Idle EXCEPT !.op = "create", !.gsk = gsk, !.new = j]
  <2>2. r \in Request /\ r.op = "create" /\ r.new = j
    BY IdleType DEF Request, Ops, Idle
  <2>3. req' = [req EXCEPT ![p] = At(r, "create_get")] /\ Draw(j, gsk, None)
    BY <2>1 DEF CreateSession, CreateTokens
  <2> HIDE DEF r
  <2> QED BY <1>2, <1>3, <2>2, <2>3
<1>5. CASE refresh_token(p)
  <2>1. PICK j \in Jtis, new \in Jtis : RefreshLookup(p, j, new)
    BY <1>5 DEF refresh_token
  <2> DEFINE gsk == jti[j].gsk
             r == [Idle EXCEPT !.op = "refresh", !.gsk = gsk, !.jti = j,
                               !.kind = "refresh", !.new = new]
  <2>2. gsk \in Sessions
    BY <2>1 DEF RefreshLookup, TypeInv, MappingsOK
  <2>3. req' = [req EXCEPT ![p] = At(r, "ttl_get")] /\ Draw(new, gsk, j)
    BY <2>1 DEF RefreshLookup
  <2> HIDE DEF gsk
  <2>4. r \in Request /\ r.op = "refresh" /\ r.new = new
    BY <2>2, IdleType DEF Request, Ops, Idle
  <2> HIDE DEF r
  <2> QED BY <1>2, <1>3, <2>2, <2>3, <2>4
<1>6. CASE close_session(p)
  <2>1. PICK j \in Jtis, kind \in {"access", "refresh"} : CloseLookup(p, j, kind)
    BY <1>6 DEF close_session
  <2> DEFINE r == [Idle EXCEPT !.op = "close_token", !.gsk = jti[j].gsk,
                               !.jti = j, !.kind = kind]
  <2>2. r \in Request /\ r.op = "close_token" /\ r.jti = j /\ j \in held
    BY <2>1, IdleType DEF CloseLookup, Verified, TypeInv, MappingsOK, Request, Ops, Idle
  <2>3. req' = [req EXCEPT ![p] = At(r, "close_get")] /\ UNCHANGED owner
    BY <2>1 DEF CloseLookup, authVars
  <2> HIDE DEF r
  <2> QED BY <1>1, <1>3, <2>2, <2>3
<1>7. CASE update_realtime_personal_context(p)
  <2>1. PICK j \in Jtis, cusno \in Cusnos \cup {None} : ProfileLookup(p, j, cusno)
    BY <1>7 DEF update_realtime_personal_context
  <2> DEFINE u == [NoHash EXCEPT !.cusno = cusno]
             r == [Idle EXCEPT !.op = "profile", !.gsk = jti[j].gsk, !.upd = u]
  <2>2. u \in Hash
    BY IdleType DEF Hash
  <2>3. req' = [req EXCEPT ![p] = At(r, "profile_get")] /\ UNCHANGED owner
    BY <2>1 DEF ProfileLookup, authVars
  <2> HIDE DEF u
  <2>4. r \in Request /\ r.op = "profile"
    BY <2>1, <2>2, IdleType DEF ProfileLookup, TypeInv, MappingsOK, Request, Ops, Idle
  <2> HIDE DEF r
  <2> QED BY <1>1, <1>3, <2>3, <2>4
<1>8. CASE update_session_state(p)
  <2>1. PICK gsk \in Sessions, patch \in Patches : PatchSessionState(p, gsk, patch)
    BY <1>8 DEF update_session_state
  <2> DEFINE u == PatchUpdates(session[gsk].hash, patch)
             r == [Idle EXCEPT !.op = "patch", !.gsk = gsk, !.upd = u,
                               !.agent = patch.agent, !.bad = patch.bad]
             m == IF patch.session_state = "talk" THEN "ttl_get" ELSE AfterRefreshTtl(r)
  <2>2. u \in Hash
    BY <2>1, PatchesAreRequests, PatchUpdatesType DEF TypeInv, TypeOK, StoreTypeOK
  <2>3. req' = [req EXCEPT ![p] = At(r, m)] /\ UNCHANGED owner
    BY <1>8, <2>1 DEF PatchSessionState, update_session_state, authVars
  <2> HIDE DEF u
  <2>4. patch.agent \in Agents \cup {None} /\ patch.bad \in BOOLEAN
    BY PatchesAreRequests DEF Patch
  <2>5. r \in Request /\ r.op = "patch"
    BY <2>2, <2>4, IdleType DEF Request, Ops, Idle
  <2>6. m \in Steps \cup {"done"} /\ m # "revoke"
    BY <1>3, AfterRevokes, AfterNotSetex
  <2> HIDE DEF r, m
  <2>7. CASE m = "done"
    <3>1. req'[p] = Idle /\ \A q \in Procs \ {p} : req'[q] = req[q]
      BY <1>0, <2>3, <2>7 DEF At
    <3> QED BY <1>0, <2>3, <3>1 DEF PairsInv, Issuing, Fresh, Idle
  <2> QED BY <1>1, <2>3, <2>5, <2>6, <2>7
<1>9. CASE close_session_by_key(p)
  <2>1. PICK gsk \in Sessions : CloseSession(p, gsk)
    BY <1>9 DEF close_session_by_key
  <2> DEFINE u == [NoHash EXCEPT !.session_state = "end"]
             r == [Idle EXCEPT !.op = "close_key", !.gsk = gsk, !.upd = u]
  <2>2. u \in Hash
    BY IdleType DEF Hash, States
  <2>3. req' = [req EXCEPT ![p] = At(r, "update_exists")] /\ UNCHANGED owner
    BY <1>9, <2>1 DEF CloseSession, close_session_by_key, authVars
  <2> HIDE DEF u
  <2>4. r \in Request /\ r.op = "close_key"
    BY <2>2, IdleType DEF Request, Ops, Idle
  <2> HIDE DEF r
  <2> QED BY <1>1, <1>3, <2>3, <2>4
<1>10. CASE save_api_result(p)
  <2>1. PICK gsk \in Sessions : SaveApiResult(p, gsk)
    BY <1>10 DEF save_api_result
  <2> DEFINE r == [Idle EXCEPT !.op = "api_result", !.gsk = gsk]
  <2>2. req' = [req EXCEPT ![p] = At(r, "turn_push")] /\ UNCHANGED owner
    BY <1>10, <2>1 DEF SaveApiResult, save_api_result, authVars
  <2>3. r \in Request /\ r.op = "api_result"
    BY IdleType DEF Request, Ops, Idle
  <2> HIDE DEF r
  <2> QED BY <1>1, <1>3, <2>2, <2>3
<1> QED BY <1>0, <1>4, <1>5, <1>6, <1>7, <1>8, <1>9, <1>10 DEF Start

-----------------------------------------------------------------------------
(* Closed pairs.                                                           *)

ClosedInv ==
  /\ TypeInv
  /\ PairsInv
  /\ closed \subseteq held
  /\ ClosedTokensVerifyNoMore

\* A handler about to delete the mapping sends that command or fails.
LEMMA RevokeNext ==
  ASSUME TypeInv, NEW p \in Procs, req[p].pc = "revoke", Continue(p)
  PROVE  Revoke(p)
<1>1. ~StoreStep(p)
  BY DEF StoreStep, CreateHset, RefreshTtl, TtlGet, TtlHset, TtlExpire, TtlTurns,
         TtlRealtime, TtlBatch, Update, UpdateExists, UpdateHset, SetLocalMapping,
         MapGet, MapExists, MapHset, AddTurn, TurnPush, TurnExpire, UpdateProfile,
         ProfileGet, RealtimeSet, RealtimeExpire, BatchSet, BatchExpire, Step, Return
<1>2. ~CreateStep(p)
  BY DEF CreateStep, CreateSessionGet, CreateSessionAnswer, CreateGet, CreateExpire, Step
<1>3. ~(RotateDel(p) \/ RotateSetex(p) \/ CloseGet(p))
  BY DEF RotateDel, RotateSetex, MapNewPair, CloseGet, Step
<1> QED BY <1>1, <1>2, <1>3 DEF Continue, TokenStep

\* A pair whose close answers was held, and is unmapped or out of date.
LEMMA CloseAnswers ==
  ASSUME TypeInv, PairsInv, Next, NEW j \in Closing
  PROVE  j \in held /\ j \in held' /\ ~(Verified(j, "access") /\ Mapped(j))'
<1>1. PICK p \in Procs : req[p].pc = "revoke" /\ Answers(p) /\ req[p].jti = j
  BY DEF Closing
<1>2. j \in held /\ j \in Jtis
  BY <1>1 DEF PairsInv, TypeInv, TypeOK, AuthTypeOK
<1>3. Revoke(p) /\ now' = now
  <2>1. req[p] # Idle /\ req'[p] = Idle /\ failures' = failures
    BY <1>1 DEF Answers
  <2>2. ASSUME NEW q \in Procs, Start(q) \/ Continue(q) \/ Fail(q) \/ LoseAnswer(q)
        PROVE  q = p /\ Continue(p)
    <3>1. failures \in Nat
      BY DEF TypeInv, TypeOK
    <3>2. ~(Fail(q) \/ LoseAnswer(q))
      BY <2>1, <3>1 DEF Fail, LoseAnswer, Fault
    <3>3. req'[p] # req[p]
      BY <2>1
    <3>4. CASE Continue(q)
      BY <3>3, <3>4, HandlerCarries DEF Carries
    <3>5. CASE Start(q)
      <4>1. req[q] = Idle /\ \A s \in Procs \ {q} : req'[s] = req[s]
        BY <3>5, StartTakes DEF Takes, Start, create_session, refresh_token,
           close_session, update_realtime_personal_context, update_session_state,
           close_session_by_key, save_api_result, CreateSession, CreateTokens,
           RefreshLookup, CloseLookup, ProfileLookup, PatchSessionState,
           CloseSession, SaveApiResult
      <4> QED BY <2>1, <3>3, <4>1
    <3> QED BY <2>2, <3>2, <3>4, <3>5
  <2>3. ~Tick /\ ~Horizon
    BY <2>1 DEF Tick, StoreTick, Horizon, vars, storeVars
  <2> PICK q \in Procs : Start(q) \/ Continue(q) \/ Fail(q) \/ LoseAnswer(q)
    BY <2>3 DEF Next
  <2>4. Continue(p)
    BY <2>2
  <2> QED BY <1>1, <2>4, RevokeNext, HandlersTakeNoTime
<1>4. UNCHANGED <<held, tok>>
  BY <1>3 DEF Revoke
<1>5. CASE Verified(j, req[p].kind)
  BY <1>1, <1>2, <1>3, <1>5
     DEF Revoke, DeleteJti, Mapped, Unmapped, Live, TypeInv, TypeOK, AuthTypeOK
<1>6. CASE ~Verified(j, req[p].kind)
  <2>1. /\ req[p].kind \in {"access", "refresh"}
        /\ tok[j].access \in Nat /\ tok[j].refresh \in Nat /\ now \in Nat
    BY <1>2 DEF TypeInv, TypeOK, RequestsOK, Request, StoreTypeOK, AuthTypeOK
  <2>2. tok[j].access <= tok[j].refresh
    BY <1>2 DEF PairsInv
  <2>3. ~Verified(j, "access")
    BY <1>2, <1>6, <2>1, <2>2 DEF Verified
  <2> QED BY <1>2, <1>3, <1>4, <2>3 DEF Verified
<1> QED BY <1>2, <1>4, <1>5, <1>6

\* What verify refuses of a pair that is held it goes on refusing.
LEMMA RefusedStay ==
  ASSUME TypeInv, PairsInv, [Next]_vars, NEW j \in held,
         ~(Verified(j, "access") /\ Mapped(j))
  PROVE  j \in held' /\ ~(Verified(j, "access") /\ Mapped(j))'
<1>0. j \in Jtis /\ now \in Nat /\ tok[j].access \in Nat
  BY DEF TypeInv, TypeOK, AuthTypeOK, StoreTypeOK
<1>1. ASSUME NEW p \in Procs, Start(p)
      PROVE  j \in held' /\ ~(Verified(j, "access") /\ Mapped(j))'
  <2>1. UNCHANGED <<now, tok, held>>
    BY <1>1, StartKeepsPairs
  <2>2. Mapped(j)' => Mapped(j)
    <3>1. CASE create_session(p)
      <4>1. PICK gsk \in Sessions, new \in Jtis : CreateSession(p, gsk, new)
        BY <3>1 DEF create_session
      <4>2. Draw(new, gsk, None) /\ SetJtiMapping(new, gsk)
        BY <4>1 DEF CreateSession, CreateTokens
      <4>3. new # j
        BY <4>2, DrawnOnce DEF PairsInv
      <4> QED BY <1>0, <4>2, <4>3, PairEffects DEF Mapped
    <3>2. CASE ~create_session(p)
      BY <1>1, <3>2
         DEF Start, refresh_token, close_session, update_realtime_personal_context,
             update_session_state, close_session_by_key, save_api_result,
             RefreshLookup, CloseLookup, ProfileLookup, authVars, Mapped
    <3> QED BY <3>1, <3>2
  <2> QED BY <2>1, <2>2 DEF Verified
<1>2. ASSUME NEW p \in Procs, Continue(p) \/ Fail(p) \/ LoseAnswer(p)
      PROVE  j \in held' /\ ~(Verified(j, "access") /\ Mapped(j))'
  <2>1. Touches(p)
    BY <1>2, HandlerTouches
  <2>2. Issuing(p) => req[p].new # j
    BY DEF PairsInv
  <2> QED BY <1>0, <2>1, <2>2 DEF Touches, Verified, Mapped
<1>3. CASE Tick
  <2>1. now' = now + 1 /\ UNCHANGED <<tok, held>>
    BY <1>3 DEF Tick, StoreTick
  <2>2. Mapped(j)' => Mapped(j)
    BY <1>0, <1>3 DEF Tick, JtiTick, Mapped, Unmapped, Live
  <2> QED BY <1>0, <2>1, <2>2 DEF Verified
<1>4. CASE UNCHANGED vars
  BY <1>4 DEF vars, storeVars, keyVars, authVars, Verified, Mapped
<1> QED BY <1>1, <1>2, <1>3, <1>4 DEF Next, Horizon

LEMMA PairsNext == TypeInv /\ PairsInv /\ [Next]_vars => PairsInv'
<1> SUFFICES ASSUME TypeInv, PairsInv, [Next]_vars PROVE PairsInv'
  OBVIOUS
<1>1. ASSUME NEW p \in Procs, Start(p) PROVE PairsInv'
  BY <1>1, StartKeepsPairs
<1>2. ASSUME NEW p \in Procs, Continue(p) \/ Fail(p) \/ LoseAnswer(p)
      PROVE  PairsInv'
  BY <1>2, HandlerCarries, HandlerTouches, HandlerKeepsPairs
<1>3. CASE Tick
  BY <1>3 DEF Tick, StoreTick, PairsInv, Issuing, Fresh
<1>4. CASE UNCHANGED vars
  BY <1>4 DEF vars, storeVars, keyVars, authVars, PairsInv, Issuing, Fresh
<1> QED BY <1>1, <1>2, <1>3, <1>4 DEF Next, Horizon

LEMMA PairsInit == Init => PairsInv
BY DEF Init, StoreInit, AuthInit, PairsInv, Issuing, Idle

LEMMA ClosedInit == ReadInit => ClosedInv
BY InitOK, PairsInit DEF ReadInit, ClosedInv, ClosedTokensVerifyNoMore

LEMMA ClosedNext == ClosedInv /\ [ReadNext]_readVars => ClosedInv'
<1> SUFFICES ASSUME ClosedInv, [ReadNext]_readVars PROVE ClosedInv'
  OBVIOUS
<1>1. [Next]_vars /\ (closed' = closed \/ (Next /\ closed' = closed \cup Closing))
  BY DEF ReadNext, Serve, readVars
<1>2. TypeInv' /\ PairsInv'
  BY <1>1, NextOK, PairsNext DEF ClosedInv
<1>3. \A j \in closed : j \in held' /\ ~(Verified(j, "access") /\ Mapped(j))'
  BY <1>1, RefusedStay DEF ClosedInv, ClosedTokensVerifyNoMore
<1>4. CASE closed' = closed
  BY <1>2, <1>3, <1>4 DEF ClosedInv, ClosedTokensVerifyNoMore
<1>5. CASE Next /\ closed' = closed \cup Closing
  <2>1. \A j \in Closing : j \in held' /\ ~(Verified(j, "access") /\ Mapped(j))'
    BY <1>5, CloseAnswers DEF ClosedInv
  <2> QED BY <1>2, <1>3, <1>5, <2>1 DEF ClosedInv, ClosedTokensVerifyNoMore
<1> QED BY <1>1, <1>4, <1>5

\* ClosedTokensVerifyNoMore for every run with readers: no refresh in flight and
\* no create in flight carries a pair that has reached its caller, so nothing
\* signs or maps a closed pair again.
THEOREM ClosedStayClosed == ReadSpec => []ClosedTokensVerifyNoMore
<1>1. ClosedInv => ClosedTokensVerifyNoMore
  BY DEF ClosedInv
<1> QED BY <1>1, ClosedInit, ClosedNext, PTL DEF ReadSpec

\* verify and resolve_session run beside the session manager and change nothing
\* of it: what is proved of Spec holds with any number of readers.
THEOREM ReadersOnlyRead == ReadSpec => Spec
<1>1. ReadInit => Init
  BY DEF ReadInit
<1>2. [ReadNext]_readVars => [Next]_vars
  BY DEF ReadNext, Serve, readVars
<1> QED BY <1>1, <1>2, PTL DEF ReadSpec, Spec

-----------------------------------------------------------------------------
(* Refresh tokens, when one handler runs at a time.                        *)

Alone == \A p, q \in Procs : p = q

Signed(j) == tok[j].refresh > 0

\* A pair that was exchanged is not mapped any more, so it cannot be exchanged
\* again; until RotateDel signs the new pair, no pair was signed in exchange for
\* the one in hand.
OnceInv ==
  /\ RefreshTokensAreUsedOnce
  /\ \A j \in Jtis : Signed(j) /\ parent[j] # None => ~Mapped(parent[j])
  /\ \A p \in Procs : Refreshing(p) /\ req[p].pc # "rotate_setex" =>
       \A j \in Jtis : parent[j] = req[p].jti => ~Signed(j)
  /\ \A j \in Jtis : Fresh(j) => ~Signed(j)
  /\ \A p \in Procs : Refreshing(p) => \A j \in Jtis : parent[j] # req[p].new
  /\ \A j \in Jtis : parent[j] # None => ~Fresh(parent[j])
  /\ \A p \in Procs : req[p].op = "create" => parent[req[p].new] = None

LEMMA OnceInit == Init => OnceInv
BY DEF Init, StoreInit, AuthInit, OnceInv, RefreshTokensAreUsedOnce, Signed,
       Refreshing, Fresh, Idle

LEMMA CreateKeepsOnce ==
  ASSUME TokenInv, OnceInv, Alone, NEW p \in Procs, create_session(p)
  PROVE  OnceInv'
<1> PICK gsk \in Sessions, new \in Jtis : CreateSession(p, gsk, new)
  BY DEF create_session
<1>0. TypeInv
  BY DEF TokenInv
<1>1. Draw(new, gsk, None) /\ SetJtiMapping(new, gsk) /\ UNCHANGED tok
  BY DEF CreateSession, CreateTokens
<1>2. /\ Fresh(new) /\ UNCHANGED parent
      /\ \A k \in Jtis : Fresh(k)' => Fresh(k)
      /\ \A k \in Jtis : k # new => jti'[k] = jti[k]
  BY <1>0, <1>1, DrawnOnce, PairEffects
     DEF Draw, TokenInv, FreshHaveNoParent, TypeInv, TypeOK, AuthTypeOK
<1>3. req'[p].op = "create" /\ req'[p].new = new /\ \A q \in Procs : q = p
  BY <1>0 DEF CreateSession, CreateTokens, At, Idle, TypeInv, RequestsOK, Alone
<1>4. \A j \in Jtis : Signed(j) /\ parent[j] # None => ~Mapped(parent[j])'
  <2> SUFFICES ASSUME NEW j \in Jtis, Signed(j), parent[j] # None
               PROVE  ~Mapped(parent[j])'
    OBVIOUS
  <2>1. parent[j] # new /\ ~Mapped(parent[j]) /\ parent[j] \in Jtis
    BY <1>0, <1>2 DEF OnceInv, TypeInv, TypeOK, AuthTypeOK
  <2> QED BY <1>2, <2>1 DEF Mapped
<1>5. parent[new] = None
  BY <1>2 DEF TokenInv, FreshHaveNoParent
<1>6. \A j \in Jtis : parent[j] # None => ~Fresh(parent[j])'
  BY <1>0, <1>2 DEF OnceInv, TypeInv, TypeOK, AuthTypeOK
<1> QED BY <1>1, <1>2, <1>3, <1>4, <1>5, <1>6
        DEF OnceInv, RefreshTokensAreUsedOnce, Signed, Refreshing

LEMMA RefreshKeepsOnce ==
  ASSUME TokenInv, OnceInv, Alone, NEW p \in Procs, refresh_token(p)
  PROVE  OnceInv'
<1> PICK old \in Jtis, new \in Jtis : RefreshLookup(p, old, new)
  BY DEF refresh_token
<1>0. TypeInv
  BY DEF TokenInv
<1>1. /\ Mapped(old) /\ jti[old].gsk \in Sessions
      /\ Draw(new, jti[old].gsk, old) /\ UNCHANGED <<jti, tok>>
  BY <1>0 DEF RefreshLookup, TypeInv, MappingsOK
<1>2. /\ Fresh(new) /\ parent'[new] = old
      /\ \A k \in Jtis : /\ k # new => parent'[k] = parent[k]
                         /\ Fresh(k)' => Fresh(k)
  BY <1>0, <1>1, DrawnOnce
<1>3. /\ req'[p].op = "refresh" /\ req'[p].jti = old /\ req'[p].new = new
      /\ \A q \in Procs : q = p
  BY <1>0 DEF RefreshLookup, At, Idle, TypeInv, RequestsOK, Alone
<1>4. ~Signed(new) /\ ~Fresh(old) /\ old # new /\ UNCHANGED <<jti, tok>>
  BY <1>1, <1>2, OwnedIsDrawn DEF OnceInv
<1>5. RefreshTokensAreUsedOnce'
  BY <1>2, <1>4 DEF OnceInv, RefreshTokensAreUsedOnce, Signed
<1>6. \A j \in Jtis : Signed(j)' /\ parent'[j] # None => ~Mapped(parent[j])'
  BY <1>2, <1>4 DEF OnceInv, Signed, Mapped
<1>7. \A j \in Jtis : parent'[j] = old => ~Signed(j)'
  <2>1. old # None
    BY NoneIsNoValue
  <2> QED BY <1>1, <1>2, <1>4, <2>1 DEF OnceInv, Signed
<1>8. \A j \in Jtis : parent'[j] # new
  <2>1. \A j \in Jtis : parent[j] # new
    BY <1>2, NoneIsNoValue DEF OnceInv
  <2> QED BY <1>2, <1>4, <2>1
<1>9. \A j \in Jtis : parent'[j] # None => ~Fresh(parent[j])'
  <2> SUFFICES ASSUME NEW j \in Jtis, parent'[j] # None
               PROVE  ~Fresh(parent[j])'
    OBVIOUS
  <2>1. parent'[j] \in Jtis /\ ~Fresh(parent'[j])
    BY <1>0, <1>2, <1>4 DEF OnceInv, TypeInv, TypeOK, AuthTypeOK
  <2> QED BY <1>2, <2>1 DEF Fresh
<1>10. \A j \in Jtis : Fresh(j)' => ~Signed(j)'
  BY <1>2, <1>4 DEF OnceInv, Signed
<1> QED BY <1>3, <1>5, <1>6, <1>7, <1>8, <1>9, <1>10 DEF OnceInv, Refreshing

\* Steps that draw nothing, sign nothing and map nothing.
LEMMA QuietKeepsOnce ==
  ASSUME TypeInv, OnceInv, UNCHANGED <<tok, owner, parent>>,
         \A j \in Jtis : jti'[j] = jti[j] \/ ~Live(jti'[j].exp),
         \A q \in Procs : \/ req'[q].op \notin {"create", "refresh"}
                          \/ /\ req'[q].op = req[q].op
                             /\ req'[q].jti = req[q].jti
                             /\ req'[q].new = req[q].new
                             /\ \/ req'[q].pc = req[q].pc
                                \/ req[q].pc # "rotate_setex"
  PROVE  OnceInv'
<1>1. \A j \in Jtis : Signed(j)' /\ parent'[j] # None => ~Mapped(parent[j])'
  BY DEF OnceInv, Signed, Mapped, TypeInv, TypeOK, AuthTypeOK
<1>2. \A q \in Procs :
        /\ Refreshing(q)' => /\ Refreshing(q)
                             /\ req'[q].jti = req[q].jti
                             /\ req'[q].new = req[q].new
                             /\ req'[q].pc # "rotate_setex"
                                  => req[q].pc # "rotate_setex"
        /\ req'[q].op = "create" => req[q].op = "create" /\ req'[q].new = req[q].new
  BY DEF Refreshing
<1> QED BY <1>1, <1>2
        DEF OnceInv, RefreshTokensAreUsedOnce, Signed, Fresh

\* The steps that sign or map the pair of their handler.
LEMMA IssuerKeepsOnce ==
  ASSUME TokenInv, PairsInv, OnceInv, Alone, NEW p \in Procs, Carries(p),
         UNCHANGED <<owner, parent>>,
         \/ CreateGet(p) /\ Sign(req[p].new) /\ UNCHANGED jti
         \/ RotateDel(p)
         \/ MapNewPair(p)
  PROVE  OnceInv'
<1>0. TypeInv /\ \A q \in Procs : q = p
  BY DEF TokenInv, Alone
<1> DEFINE new == req[p].new
<1>1. new \in Jtis /\ ~Fresh(new)
  BY <1>0, IssuersIssue DEF PairsInv, CreateGet, RotateDel, MapNewPair, Step
<1>2. CASE CreateGet(p) /\ Sign(new) /\ UNCHANGED jti
  <2>1. req[p].op = "create"
    <3>1. "create_get" \in Steps /\ "create_get" \in CreateSteps
      BY DEF Steps, CreateSteps
    <3> QED BY <1>0, <1>2, <3>1, InFlight DEF CreateGet, Step, Fits, TypeInv
  <2>2. parent[new] = None
    BY <2>1 DEF OnceInv
  <2>3. \A k \in Jtis : k # new => tok'[k] = tok[k]
    BY <1>0, <1>2 DEF Sign, TypeInv, TypeOK, AuthTypeOK
  <2>4. ~Refreshing(p)' /\ (req'[p].op = "create" => req'[p].new = new)
    BY <2>1 DEF Carries, Refreshing, Idle
  <2> HIDE DEF new
  <2>5. RefreshTokensAreUsedOnce'
    BY <2>2, <2>3 DEF OnceInv, RefreshTokensAreUsedOnce, Signed
  <2>6. \A j \in Jtis : Signed(j)' /\ parent'[j] # None => ~Mapped(parent[j])'
    BY <1>2, <2>2, <2>3 DEF OnceInv, Signed, Mapped
  <2> QED BY <1>0, <1>1, <2>2, <2>3, <2>4, <2>5, <2>6
          DEF OnceInv, Signed, Fresh, Refreshing
<1>3. CASE RotateDel(p)
  <2> DEFINE old == req[p].jti
  <2>1. Refreshing(p) /\ old \in Jtis /\ parent[new] = old /\ req[p].pc = "rotate_del"
    <3>1. "rotate_del" \in Steps /\ "rotate_del" \in RotateSteps
      BY DEF Steps, RotateSteps
    <3>2. Fits(req[p], "rotate_del") /\ req[p].pc = "rotate_del"
      BY <1>0, <1>3, <3>1, InFlight DEF RotateDel, Step, TypeInv
    <3> QED BY <3>1, <3>2 DEF Fits, Refreshing, TokenInv, RefreshesKnow, RefreshKnows
  <2>2. /\ \A k \in Jtis : k # new => tok'[k] = tok[k]
        /\ \A k \in Jtis : k # old => jti'[k] = jti[k]
        /\ ~Live(jti'[old].exp)
    BY <1>0, <1>3, <2>1
       DEF RotateDel, Sign, DeleteJti, Unmapped, Live, TypeInv, TypeOK, AuthTypeOK
  <2>3. \A k \in Jtis : k # new /\ parent[k] = old => ~Signed(k)
    BY <2>1 DEF OnceInv
  <2>4. req'[p].new = new /\ req'[p].pc = "rotate_setex" /\ req'[p].op = "refresh"
    BY <1>0, <1>3, <2>1
       DEF RotateDel, Step, At, TypeInv, RequestsOK, Request, Refreshing
  <2> HIDE DEF new, old
  <2>5. RefreshTokensAreUsedOnce'
    BY <1>1, <2>1, <2>2, <2>3 DEF OnceInv, RefreshTokensAreUsedOnce, Signed
  <2>6. \A j \in Jtis : Signed(j)' /\ parent'[j] # None => ~Mapped(parent[j])'
    <3> SUFFICES ASSUME NEW j \in Jtis, Signed(j)', parent[j] # None
                 PROVE  ~Mapped(parent[j])'
      OBVIOUS
    <3>1. parent[j] \in Jtis
      BY <1>0 DEF TypeInv, TypeOK, AuthTypeOK
    <3>2. CASE parent[j] = old
      BY <2>2, <3>2 DEF Mapped
    <3>3. CASE parent[j] # old
      BY <2>1, <2>2, <3>1, <3>3 DEF OnceInv, Signed, Mapped
    <3> QED BY <3>2, <3>3
  <2>7. \A j \in Jtis : parent[j] # new
    BY <2>1 DEF OnceInv, new
  <2> QED BY <1>0, <1>1, <2>2, <2>4, <2>5, <2>6, <2>7
          DEF OnceInv, Signed, Fresh, Refreshing
<1>4. CASE MapNewPair(p)
  <2>1. Refreshing(p)
    <3>1. "rotate_setex" \in Steps /\ "rotate_setex" \in RotateSteps
      BY DEF Steps, RotateSteps
    <3> QED BY <1>0, <1>4, <3>1, InFlight DEF MapNewPair, Step, Fits, TypeInv, Refreshing
  <2>2. \A j \in Jtis : parent[j] # new
    BY <2>1 DEF OnceInv
  <2>3. req'[p] = Idle /\ UNCHANGED tok
    BY <1>0, <1>4, LastCommand DEF MapNewPair
  <2>4. \A k \in Jtis : k # new => jti'[k] = jti[k]
    BY <1>0, <1>1, <1>4, PairEffects DEF MapNewPair
  <2> HIDE DEF new
  <2>5. \A j \in Jtis : Signed(j)' /\ parent'[j] # None => ~Mapped(parent[j])'
    BY <1>0, <2>2, <2>3, <2>4 DEF OnceInv, Signed, Mapped, TypeInv, TypeOK, AuthTypeOK
  <2>6. ~Refreshing(p)' /\ req'[p].op # "create"
    BY <2>3 DEF Refreshing, Idle
  <2> QED BY <1>0, <2>3, <2>5, <2>6
          DEF OnceInv, RefreshTokensAreUsedOnce, Signed, Fresh
<1> QED BY <1>2, <1>3, <1>4

LEMMA OnceNext ==
  ASSUME Alone
  PROVE  TokenInv /\ PairsInv /\ OnceInv /\ [Next]_vars => OnceInv'
<1> SUFFICES ASSUME TokenInv, PairsInv, OnceInv, [Next]_vars PROVE OnceInv'
  OBVIOUS
<1>0. TypeInv
  BY DEF TokenInv
<1>1. ASSUME NEW p \in Procs, Start(p) PROVE OnceInv'
  <2>1. CASE create_session(p)
    BY <2>1, CreateKeepsOnce
  <2>2. CASE refresh_token(p)
    BY <2>2, RefreshKeepsOnce
  <2>3. ASSUME NEW r, r.op # "create", r.op # "refresh", UNCHANGED authVars,
               NEW m, req' = [req EXCEPT ![p] = At(r, m)]
        PROVE  OnceInv'
    <3>1. At(r, m).op \notin {"create", "refresh"}
      BY <2>3 DEF At, Idle
    <3>2. req'[p].op \notin {"create", "refresh"} /\ \A q \in Procs : q = p
      BY <1>0, <2>3, <3>1 DEF TypeInv, RequestsOK, Alone
    <3> QED BY <1>0, <2>3, <3>2, QuietKeepsOnce DEF authVars
  <2>4. CASE close_session(p)
    <3> PICK j \in Jtis, kind \in {"access", "refresh"} : CloseLookup(p, j, kind)
      BY <2>4 DEF close_session
    <3> QED BY <2>3 DEF CloseLookup, Idle
  <2>5. CASE update_realtime_personal_context(p)
    <3> PICK j \in Jtis, cusno \in Cusnos \cup {None} : ProfileLookup(p, j, cusno)
      BY <2>5 DEF update_realtime_personal_context
    <3> QED BY <2>3 DEF ProfileLookup, Idle
  <2>6. CASE update_session_state(p)
    <3> PICK gsk \in Sessions, patch \in Patches : PatchSessionState(p, gsk, patch)
      BY <2>6 DEF update_session_state
    <3> QED BY <2>3, <2>6 DEF PatchSessionState, Idle, update_session_state
  <2>7. CASE close_session_by_key(p)
    <3> PICK gsk \in Sessions : CloseSession(p, gsk)
      BY <2>7 DEF close_session_by_key
    <3> QED BY <2>3, <2>7 DEF CloseSession, Idle, close_session_by_key
  <2>8. CASE save_api_result(p)
    <3> PICK gsk \in Sessions : SaveApiResult(p, gsk)
      BY <2>8 DEF save_api_result
    <3> QED BY <2>3, <2>8 DEF SaveApiResult, Idle, save_api_result
  <2> QED BY <1>1, <2>1, <2>2, <2>4, <2>5, <2>6, <2>7, <2>8 DEF Start
<1>2. ASSUME NEW p \in Procs, Continue(p) \/ Fail(p) \/ LoseAnswer(p)
      PROVE  OnceInv'
  <2>1. Carries(p) /\ \A q \in Procs : q = p
    BY <1>0, <1>2, HandlerCarries DEF Alone
  <2>2. CASE /\ UNCHANGED <<tok, owner, parent>>
             /\ \A j \in Jtis : jti'[j] = jti[j] \/ ~Live(jti'[j].exp)
    BY <1>0, <2>1, <2>2, QuietKeepsOnce DEF Carries, Idle
  <2>3. CASE StoreStep(p) \/ CloseGet(p) \/ Fail(p)
    BY <2>2, <2>3 DEF StoreStep, CloseGet, Fail, authVars
  <2>4. CASE Revoke(p)
    <3>1. Verified(req[p].jti, req[p].kind) => req[p].jti \in Jtis
      BY <1>0 DEF Verified, TypeInv, TypeOK, AuthTypeOK
    <3> QED BY <1>0, <2>2, <2>4, <3>1, PairEffects DEF Revoke
  <2>5. CASE CreateExpire(p) /\ UNCHANGED <<jti, tok, owner, parent>>
    BY <2>2, <2>5
  <2>6. CASE UNCHANGED <<owner, parent>>
             /\ \/ CreateGet(p) /\ Sign(req[p].new) /\ UNCHANGED jti
                \/ RotateDel(p)
                \/ MapNewPair(p)
    BY <2>1, <2>6, IssuerKeepsOnce
  <2> QED BY <1>2, <2>3, <2>4, <2>5, <2>6
          DEF Continue, CreateStep, CreateSessionGet, CreateSessionAnswer, TokenStep,
              RotateDel, RotateSetex, MapNewPair, LoseAnswer
<1>3. CASE Tick
  <2>1. \A j \in Jtis : jti'[j] = jti[j] \/ ~Live(jti'[j].exp)
    BY <1>3 DEF Tick, JtiTick, Unmapped, Live
  <2> QED BY <1>0, <1>3, <2>1, QuietKeepsOnce DEF Tick, StoreTick
<1>4. CASE UNCHANGED vars
  BY <1>0, <1>4, QuietKeepsOnce DEF vars, storeVars, keyVars, authVars
<1> QED BY <1>1, <1>2, <1>3, <1>4 DEF Next, Horizon

\* RefreshTokensAreUsedOnce for every run in which one handler is in flight at a
\* time, however many answers are lost and handlers stop: the mapping of the old
\* jti is deleted before the new pair is signed for the caller, and no retry
\* finds it again.  (Two refreshes that overlap break it.)
THEOREM RetriesGetNoSecondPair ==
  ASSUME Alone
  PROVE  Spec => []RefreshTokensAreUsedOnce
<1>1. OnceInv => RefreshTokensAreUsedOnce
  BY DEF OnceInv
<1>2. TokenInv => TypeInv
  BY DEF TokenInv
<1>3. TokenInv /\ PairsInv /\ OnceInv /\ [Next]_vars => TokenInv' /\ PairsInv' /\ OnceInv'
  BY <1>2, TokenNext, PairsNext, OnceNext
<1> QED BY <1>1, <1>3, TokenInit, PairsInit, OnceInit, PTL DEF Spec

=============================================================================
