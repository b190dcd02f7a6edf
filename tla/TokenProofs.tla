----------------------------- MODULE TokenProofs -----------------------------
(***************************************************************************)
(* The token pairs of the session manager implement TokenLife.             *)
(***************************************************************************)
EXTENDS SessionProofs

(* Most steps are quiet: they draw no jti and map none, and no request     *)
(* becomes a refresh or changes what it refreshes.                         *)

Kept(q) ==
  req'[q].op = "refresh" =>
    /\ Refreshing(q)
    /\ req'[q].gsk = req[q].gsk
    /\ req'[q].jti = req[q].jti
    /\ req'[q].new = req[q].new
    /\ \/ req'[q].pc # "rotate_setex"
       \/ req[q].pc = "rotate_setex"
       \/ ~Live(jti'[req[q].jti].exp)

Quiet ==
  /\ UNCHANGED <<owner, parent>>
  /\ \A j \in Jtis : jti'[j] = jti[j] \/ ~Live(jti'[j].exp)
  /\ \A q \in Procs : Kept(q)

\* What a refresh in flight carries.
LEMMA RefreshTyped ==
  ASSUME RequestsOK, NEW p \in Procs, Refreshing(p)
  PROVE  req[p].gsk \in Sessions /\ req[p].jti \in Jtis /\ req[p].new \in Jtis
BY DEF RequestsOK, WellFormed, Refreshing, Fits, Idle

LEMMA OwnedIsDrawn ==
  ASSUME TokenInv, NEW j \in Jtis, Mapped(j)
  PROVE  ~Fresh(j)
BY NoneIsNoValue DEF TokenInv, TypeInv, MappingsOK, MappingsFollowOwner, Fresh

LEMMA QuietInv ==
  ASSUME TokenInv, TypeInv', Quiet
  PROVE  TokenInv'
<1>1. MappingsFollowOwner'
  BY DEF TokenInv, MappingsFollowOwner, Quiet, Mapped
<1>2. FreshHaveNoParent'
  BY DEF TokenInv, FreshHaveNoParent, Quiet, Fresh
<1>3. ASSUME NEW p \in Procs, Refreshing(p)' PROVE RefreshKnows(p)'
  <2>1. Refreshing(p) /\ Kept(p)
    BY <1>3 DEF Quiet, Kept, Refreshing
  <2>2. RefreshKnows(p) /\ req[p].new \in Jtis /\ req[p].jti \in Jtis
    BY <2>1, RefreshTyped DEF TokenInv, TypeInv, RefreshesKnow
  <2> QED BY <1>3, <2>1, <2>2 DEF Quiet, Kept, Refreshing, RefreshKnows, Mapped
<1>4. RefreshesAreApart'
  BY DEF TokenInv, RefreshesAreApart, Quiet, Kept, Refreshing
<1> QED BY <1>1, <1>2, <1>3, <1>4 DEF TokenInv, RefreshesKnow

\* A quiet step at most ends pairs.
LEMMA QuietDrops ==
  ASSUME TokenInv, Quiet
  PROVE  TokenLifeOfJtis!Next
<1> DEFINE st == [j \in Jtis |-> TokenStatus(j)]
           J == {j \in Jtis : TokenStatus(j) # TokenStatus(j)'}
<1>1. ASSUME NEW j \in Jtis
      PROVE  \/ TokenStatus(j)' = TokenStatus(j)
             \/ /\ TokenStatus(j) \in {"pending", "live"}
                /\ TokenStatus(j)' = "dead"
  <2>1. Fresh(j)' <=> Fresh(j)
    BY DEF Quiet, Fresh
  <2>2. Mapped(j)' => Mapped(j)
    BY DEF Quiet, Mapped
  <2>3. ASSUME NEW q \in Procs, Refreshing(q)', req'[q].new = j
        PROVE  Refreshing(q) /\ req[q].new = j /\ ~Mapped(j)
    BY <2>3 DEF Quiet, Kept, Refreshing, TokenInv, RefreshesKnow, RefreshKnows
  <2>4. Mapped(j) => ~Fresh(j)
    BY OwnedIsDrawn
  <2> QED BY <2>1, <2>2, <2>3, <2>4 DEF TokenStatus, Refreshing
<1>2. TokenLifeOfJtis!Drop(J)
  BY <1>1 DEF TokenLifeOfJtis!Drop, Quiet
<1> QED BY <1>2 DEF TokenLifeOfJtis!Next

-----------------------------------------------------------------------------
(* The quiet steps.                                                        *)

LEMMA UntouchedKept ==
  ASSUME TypeInv, NEW p \in Procs, NEW x, req' = [req EXCEPT ![p] = x],
         NEW q \in Procs, q # p
  PROVE  Kept(q)
BY DEF TypeInv, RequestsOK, Kept, Refreshing

\* A request that goes on with a command other than the SETEX of a rotation,
\* or with that one after its DEL, keeps what it refreshes.
LEMMA AtKept ==
  ASSUME TypeInv, NEW p \in Procs, NEW r \in Request, NEW m \in Steps \cup {"done"},
         r.op = req[p].op, r.gsk = req[p].gsk, r.jti = req[p].jti, r.new = req[p].new,
         m = "rotate_setex" => ~Live(jti'[req[p].jti].exp),
         req' = [req EXCEPT ![p] = At(r, m)]
  PROVE  \A q \in Procs : Kept(q)
<1>1. req'[p] = At(r, m)
  BY DEF TypeInv, RequestsOK
<1>2. Kept(p)
  <2>1. CASE m = "done"
    BY <1>1, <2>1 DEF At, Idle, Kept
  <2>2. CASE m # "done"
    <3> DEFINE s == [r EXCEPT !.pc = m]
    <3>1. /\ s.pc = m /\ s.op = r.op /\ s.gsk = r.gsk
          /\ s.jti = r.jti /\ s.new = r.new
      BY DEF Request
    <3>2. req'[p] = s
      BY <1>1, <2>2 DEF At
    <3> HIDE DEF s
    <3> QED BY <3>1, <3>2 DEF Kept, Refreshing
  <2> QED BY <2>1, <2>2
<1> QED BY <1>2, UntouchedKept

LEMMA StepKept ==
  ASSUME TypeInv, NEW p \in Procs, NEW l, NEW m \in Steps \cup {"done"},
         Step(p, l, m) \/ Return(p, l, m),
         m = "rotate_setex" => ~Live(jti'[req[p].jti].exp)
  PROVE  \A q \in Procs : Kept(q)
<1>1. CASE Step(p, l, m)
  BY <1>1, AtKept DEF Step, TypeInv, RequestsOK
<1>2. CASE Return(p, l, m)
  <2> DEFINE r == [req[p] EXCEPT !.snap = NoHash]
  <2>1. /\ r \in Request
        /\ r.op = req[p].op /\ r.gsk = req[p].gsk
        /\ r.jti = req[p].jti /\ r.new = req[p].new
    BY IdleType DEF Request, TypeInv, RequestsOK
  <2>2. req' = [req EXCEPT ![p] = At(r, m)]
    BY <1>2 DEF Return
  <2> HIDE DEF r
  <2> QED BY <2>1, <2>2, AtKept
<1> QED BY <1>1, <1>2

LEMMA AfterNotSetex ==
  ASSUME NEW r
  PROVE  /\ AfterRefreshTtl(r) \in Steps \cup {"done"} /\ AfterRefreshTtl(r) # "rotate_setex"
         /\ AfterUpdate(r) \in Steps \cup {"done"} /\ AfterUpdate(r) # "rotate_setex"
BY DEF AfterRefreshTtl, AfterUpdate, Steps, MapSteps, UpdateSteps, RotateSteps,
       CloseSteps, ProfileSteps

LEMMA RefreshTtlKept ==
  ASSUME TypeInv, NEW p \in Procs, RefreshTtl(p)
  PROVE  \A q \in Procs : Kept(q)
<1>0. TtlSteps \subseteq Steps /\ "rotate_setex" \notin TtlSteps
  BY DEF Steps, TtlSteps
<1>1. CASE TtlGet(p)
  <2> DEFINE s == [req[p] EXCEPT !.snap = session[req[p].gsk].hash]
  <2>1. req[p] \in Request /\ Fits(req[p], "ttl_get")
    BY <1>0, <1>1, InFlight DEF TtlGet, TtlSteps, TypeInv
  <2>2. CASE Exists(req[p].gsk)
    <3>1. session[req[p].gsk].hash \in Hash
      BY <2>1 DEF Fits, TypeInv, TypeOK, StoreTypeOK
    <3>2. /\ s \in Request
          /\ s.op = req[p].op /\ s.gsk = req[p].gsk
          /\ s.jti = req[p].jti /\ s.new = req[p].new
      BY <2>1, <3>1 DEF Request
    <3>3. req' = [req EXCEPT ![p] = At(s, "ttl_hset")]
      BY <1>1, <2>2 DEF TtlGet, TypeInv, RequestsOK
    <3> HIDE DEF s
    <3> QED BY <1>0, <3>2, <3>3, AtKept DEF TtlSteps
  <2>3. CASE ~Exists(req[p].gsk)
    <3>1. req' = [req EXCEPT ![p] = At(req[p], AfterRefreshTtl(req[p]))]
      BY <1>1, <2>3 DEF TtlGet, TypeInv, RequestsOK
    <3> QED BY <2>1, <3>1, AtKept, AfterNotSetex
  <2> QED BY <2>2, <2>3
<1>2. CASE TtlHset(p)
  <2> DEFINE s == [req[p] EXCEPT !.snap = [NoHash EXCEPT !.cusno = req[p].snap.cusno]]
  <2>1. [NoHash EXCEPT !.cusno = req[p].snap.cusno] \in Hash
    BY HashUpdatesType DEF StoreOK, TypeInv, TypeOK
  <2>2. /\ s \in Request
        /\ s.op = req[p].op /\ s.gsk = req[p].gsk
        /\ s.jti = req[p].jti /\ s.new = req[p].new
    BY <2>1 DEF Request, TypeInv, RequestsOK
  <2>3. req' = [req EXCEPT ![p] = At(s, "ttl_expire")]
    BY <1>2 DEF TtlHset, TypeInv, RequestsOK
  <2> HIDE DEF s
  <2> QED BY <1>0, <2>2, <2>3, AtKept DEF TtlSteps
<1>3. CASE TtlExpire(p)
  BY <1>0, <1>3, StepKept DEF TtlExpire, TtlSteps
<1>4. CASE TtlTurns(p)
  BY <1>0, <1>4, StepKept DEF TtlTurns, TtlSteps
<1>5. CASE TtlRealtime(p)
  <2>1. Step(p, "ttl_realtime", "ttl_batch") \/
        Return(p, "ttl_realtime", AfterRefreshTtl(req[p]))
    BY <1>5 DEF TtlRealtime
  <2> QED BY <1>0, <2>1, StepKept, AfterNotSetex DEF TtlSteps
<1>6. CASE TtlBatch(p)
  BY <1>6, StepKept, AfterNotSetex DEF TtlBatch
<1> QED BY <1>1, <1>2, <1>3, <1>4, <1>5, <1>6 DEF RefreshTtl

LEMMA StoreStepKept ==
  ASSUME TypeInv, NEW p \in Procs, StoreStep(p)
  PROVE  \A q \in Procs : Kept(q)
<1>0. /\ CreateSteps \cup MapSteps \cup UpdateSteps \cup TurnSteps \cup ProfileSteps
           \subseteq Steps
      /\ "rotate_setex" \notin CreateSteps \cup MapSteps \cup UpdateSteps
                               \cup TurnSteps \cup ProfileSteps
  BY DEF Steps, CreateSteps, MapSteps, UpdateSteps, TurnSteps, ProfileSteps
<1>1. CASE CreateHset(p)
  BY <1>0, <1>1, StepKept DEF CreateHset, CreateSteps
<1>2. CASE RefreshTtl(p)
  BY <1>2, RefreshTtlKept
<1>3. CASE Update(p)
  BY <1>0, <1>3, StepKept, AfterNotSetex
     DEF Update, UpdateExists, UpdateHset, UpdateSteps
<1>4. CASE MapGet(p)
  <2> DEFINE s == [req[p] EXCEPT !.snap.agent_mappings =
                     session[req[p].gsk].hash.agent_mappings]
  <2>1. req[p] \in Request /\ Fits(req[p], "map_get")
    BY <1>0, <1>4, InFlight DEF MapGet, MapSteps, TypeInv
  <2>2. CASE Exists(req[p].gsk)
    <3>1. session[req[p].gsk].hash \in Hash
      BY <2>1 DEF Fits, TypeInv, TypeOK, StoreTypeOK
    <3>2. [req[p].snap EXCEPT !.agent_mappings =
             session[req[p].gsk].hash.agent_mappings] \in Hash
      BY <2>1, <3>1 DEF Request, Hash
    <3>3. /\ s \in Request
          /\ s.op = req[p].op /\ s.gsk = req[p].gsk
          /\ s.jti = req[p].jti /\ s.new = req[p].new
      BY <2>1, <3>2 DEF Request
    <3>4. req' = [req EXCEPT ![p] = At(s, "map_exists")]
      BY <1>4, <2>2 DEF MapGet, TypeInv, RequestsOK
    <3> HIDE DEF s
    <3> QED BY <1>0, <3>3, <3>4, AtKept DEF MapSteps
  <2>3. CASE ~Exists(req[p].gsk)
    <3>1. req' = [req EXCEPT ![p] = At(req[p], "update_exists")]
      BY <1>4, <2>3 DEF MapGet, TypeInv, RequestsOK
    <3> QED BY <1>0, <2>1, <3>1, AtKept DEF UpdateSteps
  <2> QED BY <2>2, <2>3
<1>5. CASE MapExists(p) \/ MapHset(p)
  BY <1>0, <1>5, StepKept DEF MapExists, MapHset, MapSteps, UpdateSteps
<1>6. CASE AddTurn(p)
  BY <1>0, <1>6, StepKept DEF AddTurn, TurnPush, TurnExpire, TurnSteps
<1>7. CASE UpdateProfile(p)
  <2>1. \E l, m \in Steps \cup {"done"} : Step(p, l, m) /\ m # "rotate_setex"
    BY <1>0, <1>7 DEF UpdateProfile, ProfileGet, RealtimeSet, RealtimeExpire,
                      BatchSet, BatchExpire, ProfileSteps, UpdateSteps
  <2> QED BY <2>1, StepKept
<1> QED BY <1>1, <1>2, <1>3, <1>4, <1>5, <1>6, <1>7 DEF StoreStep, SetLocalMapping

LEMMA StoreStepQuiet ==
  ASSUME TypeInv, NEW p \in Procs, StoreStep(p)
  PROVE  Quiet
BY StoreStepKept DEF StoreStep, Quiet, authVars

LEMMA HandlerQuiet ==
  ASSUME TypeInv, NEW p \in Procs,
         CreateStep(p) \/ RotateDel(p) \/ CloseGet(p) \/ Revoke(p)
  PROVE  Quiet
<1>0. /\ CreateSteps \cup UpdateSteps \cup RotateSteps \cup CloseSteps \subseteq Steps
      /\ "rotate_setex" \notin CreateSteps \cup UpdateSteps \cup CloseSteps
  BY DEF Steps, CreateSteps, UpdateSteps, RotateSteps, CloseSteps
<1>1. CASE CreateStep(p)
  BY <1>0, <1>1, StepKept
     DEF CreateStep, CreateSessionGet, CreateGet, CreateSessionAnswer, CreateExpire,
         CreateSteps, Quiet
<1>2. \A j \in Jtis : DeleteJti(j) => /\ jti'[j] = Unmapped
                                      /\ \A k \in Jtis : k # j => jti'[k] = jti[k]
  BY DEF DeleteJti, TypeInv, TypeOK, AuthTypeOK
<1>3. ~Live(Unmapped.exp)
  BY DEF Unmapped, Live
<1>4. CASE RotateDel(p)
  <2>1. req[p].jti \in Jtis
    BY <1>0, <1>4, InFlight DEF RotateDel, Step, RotateSteps, Fits, TypeInv
  <2>2. ~Live(jti'[req[p].jti].exp)
    BY <1>2, <1>3, <1>4, <2>1 DEF RotateDel
  <2>3. \A q \in Procs : Kept(q)
    BY <1>0, <1>4, <2>2, StepKept DEF RotateDel, RotateSteps
  <2> QED BY <1>2, <1>3, <1>4, <2>1, <2>3 DEF RotateDel, Quiet
<1>5. CASE CloseGet(p)
  <2> DEFINE s == [req[p] EXCEPT !.upd = [NoHash EXCEPT !.session_state = "end"]]
  <2>1. [NoHash EXCEPT !.session_state = "end"] \in Hash
    BY IdleType DEF Hash, States
  <2>2. /\ s \in Request
        /\ s.op = req[p].op /\ s.gsk = req[p].gsk
        /\ s.jti = req[p].jti /\ s.new = req[p].new
    BY <2>1 DEF Request, TypeInv, RequestsOK
  <2>3. \/ req' = [req EXCEPT ![p] = At(s, "update_exists")]
        \/ req' = [req EXCEPT ![p] = At(req[p], "done")]
    BY <1>5 DEF CloseGet, TypeInv, RequestsOK
  <2>4. req[p] \in Request
    BY DEF TypeInv, RequestsOK
  <2> HIDE DEF s
  <2>5. \A q \in Procs : Kept(q)
    BY <1>0, <2>2, <2>3, <2>4, AtKept DEF UpdateSteps
  <2> QED BY <1>5, <2>5 DEF CloseGet, authVars, Quiet
<1>6. CASE Revoke(p)
  <2>1. \A q \in Procs : Kept(q)
    BY <1>6, StepKept DEF Revoke
  <2>2. Verified(req[p].jti, req[p].kind) => req[p].jti \in Jtis
    BY DEF Verified, TypeInv, TypeOK, AuthTypeOK
  <2> QED BY <1>2, <1>3, <1>6, <2>1, <2>2 DEF Revoke, Quiet
<1> QED BY <1>1, <1>4, <1>5, <1>6

\* A create whose answer is lost.
LEMMA UnansweredQuiet ==
  ASSUME TypeInv, NEW p \in Procs, CreateGet(p) \/ CreateExpire(p),
         UNCHANGED <<jti, owner, parent>>
  PROVE  Quiet
<1>1. /\ "create_hset" \in Steps /\ "create_hset" # "rotate_setex"
      /\ "done" # "rotate_setex"
  BY DEF Steps, CreateSteps
<1>2. \A q \in Procs : Kept(q)
  BY <1>1, StepKept DEF CreateGet, CreateExpire
<1> QED BY <1>2 DEF Quiet

\* The routes that issue no tokens, failures, the clock and stuttering.
LEMMA OthersQuiet ==
  ASSUME TypeInv,
         \/ \E p \in Procs : \/ close_session(p)
                             \/ update_realtime_personal_context(p)
                             \/ update_session_state(p)
                             \/ close_session_by_key(p)
                             \/ save_api_result(p)
                             \/ Fail(p)
         \/ Tick
         \/ UNCHANGED vars
  PROVE  Quiet
<1>1. ASSUME NEW p \in Procs, NEW r, r.op # "refresh", UNCHANGED authVars,
             NEW m, req' = [req EXCEPT ![p] = At(r, m)] \/ req' = [req EXCEPT ![p] = r]
      PROVE  Quiet
  <2>1. At(r, m).op # "refresh"
    BY <1>1 DEF At, Idle
  <2>2. Kept(p)
    BY <1>1, <2>1 DEF Kept, TypeInv, RequestsOK
  <2> QED BY <1>1, <2>2, UntouchedKept DEF Quiet, authVars
<1>2. CASE Tick
  <2>1. \A j \in Jtis : jti'[j] = jti[j] \/ ~Live(jti'[j].exp)
    BY <1>2 DEF Tick, JtiTick, Unmapped, Live
  <2> QED BY <1>2, <2>1 DEF Tick, StoreTick, Quiet, Kept, Refreshing
<1>3. CASE UNCHANGED vars
  BY <1>3 DEF vars, authVars, storeVars, Quiet, Kept, Refreshing
<1>4. ASSUME NEW p \in Procs, close_session(p) PROVE Quiet
  <2> PICK j \in Jtis, kind \in {"access", "refresh"} : CloseLookup(p, j, kind)
    BY <1>4 DEF close_session
  <2> QED BY <1>1 DEF CloseLookup, Idle
<1>5. ASSUME NEW p \in Procs, update_realtime_personal_context(p) PROVE Quiet
  <2> PICK j \in Jtis, cusno \in Cusnos \cup {None} : ProfileLookup(p, j, cusno)
    BY <1>5 DEF update_realtime_personal_context
  <2> QED BY <1>1 DEF ProfileLookup, Idle
<1>6. ASSUME NEW p \in Procs, update_session_state(p) PROVE Quiet
  <2> PICK gsk \in Sessions, patch \in Patches : PatchSessionState(p, gsk, patch)
    BY <1>6 DEF update_session_state
  <2> QED BY <1>1, <1>6 DEF PatchSessionState, Idle, update_session_state
<1>7. ASSUME NEW p \in Procs, close_session_by_key(p) PROVE Quiet
  BY <1>1, <1>7 DEF close_session_by_key, CloseSession, Idle
<1>8. ASSUME NEW p \in Procs, save_api_result(p) PROVE Quiet
  BY <1>1, <1>8 DEF save_api_result, SaveApiResult, Idle
<1>9. ASSUME NEW p \in Procs, Fail(p) PROVE Quiet
  BY <1>1, <1>9 DEF Fail, Fault, Idle
<1> QED BY <1>2, <1>3, <1>4, <1>5, <1>6, <1>7, <1>8, <1>9

-----------------------------------------------------------------------------
(* The three steps that draw or map a jti.                                 *)

\* A jti drawn for a session is drawn from then on.
LEMMA DrawnOnce ==
  ASSUME TypeInv, NEW j \in Jtis, NEW gsk \in Sessions, NEW q, Draw(j, gsk, q)
  PROVE  /\ Fresh(j) /\ ~Fresh(j)'
         /\ owner'[j] = gsk /\ parent'[j] = q
         /\ \A k \in Jtis : k # j => /\ owner'[k] = owner[k]
                                     /\ parent'[k] = parent[k]
                                     /\ Fresh(k)' <=> Fresh(k)
BY NoneIsNoValue DEF Draw, Fresh, TypeInv, TypeOK, AuthTypeOK

\* A jti that was not drawn is not mapped, and no refresh knows of it.
LEMMA FreshIsUnknown ==
  ASSUME TokenInv, NEW j \in Jtis, Fresh(j)
  PROVE  /\ ~Mapped(j)
         /\ \A p \in Procs : Refreshing(p) => req[p].new # j /\ req[p].jti # j
<1>1. ~Mapped(j)
  BY OwnedIsDrawn
<1>2. ASSUME NEW p \in Procs, Refreshing(p)
      PROVE  req[p].new # j /\ req[p].jti # j
  BY <1>2, RefreshTyped, NoneIsNoValue
     DEF TokenInv, TypeInv, RefreshesKnow, RefreshKnows, Fresh
<1> QED BY <1>1, <1>2

LEMMA CreateIssues ==
  ASSUME TokenInv, NEW p \in Procs, create_session(p)
  PROVE  TokenInv' /\ TokenLifeOfJtis!Next
<1> PICK gsk \in Sessions, j \in Jtis : CreateSession(p, gsk, j)
  BY DEF create_session
<1>0. TypeInv /\ TypeInv'
  BY CreateOK DEF TokenInv
<1>1. Draw(j, gsk, None) /\ SetJtiMapping(j, gsk)
  BY DEF CreateSession, CreateTokens
<1>2. /\ jti'[j].gsk = gsk /\ Live(jti'[j].exp)
      /\ \A k \in Jtis : k # j => jti'[k] = jti[k]
  BY <1>0, <1>1, TTLsArePositive
     DEF SetJtiMapping, SetEx, Live, Gone, TypeInv, TypeOK, AuthTypeOK, StoreTypeOK
<1>3. /\ ~Refreshing(p) /\ ~Refreshing(p)'
      /\ \A q \in Procs : q # p => req'[q] = req[q]
  BY <1>0 DEF CreateSession, CreateTokens, Refreshing, Idle, At, TypeInv, RequestsOK
<1>4. /\ ~Mapped(j)
      /\ \A q \in Procs : Refreshing(q) => req[q].new # j /\ req[q].jti # j
  BY <1>0, <1>1, DrawnOnce, FreshIsUnknown
<1>5. MappingsFollowOwner' /\ FreshHaveNoParent'
  BY <1>0, <1>1, <1>2, DrawnOnce
     DEF TokenInv, MappingsFollowOwner, FreshHaveNoParent, Mapped
<1>6. ASSUME NEW q \in Procs, Refreshing(q)' PROVE RefreshKnows(q)'
  <2>1. q # p /\ Refreshing(q) /\ req'[q] = req[q]
    BY <1>3, <1>6 DEF Refreshing
  <2>2. req[q].jti \in Jtis /\ req[q].new \in Jtis /\ RefreshKnows(q)
    BY <1>0, <2>1, RefreshTyped DEF TokenInv, TypeInv, RefreshesKnow
  <2> QED BY <1>0, <1>1, <1>2, <1>4, <2>1, <2>2, DrawnOnce DEF RefreshKnows, Mapped
<1>7. RefreshesAreApart'
  BY <1>3 DEF TokenInv, RefreshesAreApart, Refreshing
<1>8. TokenStatus(j) = "none" /\ TokenStatus(j)' = "live"
  BY <1>0, <1>1, <1>2, <1>4, DrawnOnce DEF TokenStatus, Mapped
<1>9. ASSUME NEW k \in Jtis, k # j PROVE TokenStatus(k)' = TokenStatus(k)
  <2>1. Mapped(k)' <=> Mapped(k)
    BY <1>2, <1>9 DEF Mapped
  <2>2. Fresh(k)' <=> Fresh(k)
    BY <1>0, <1>1, <1>9, DrawnOnce
  <2>3. \A q \in Procs : (Refreshing(q) /\ req[q].new = k)'
                           <=> Refreshing(q) /\ req[q].new = k
    BY <1>3 DEF Refreshing
  <2> QED BY <2>1, <2>2, <2>3 DEF TokenStatus, Refreshing
<1>10. UNCHANGED parent
  BY <1>0, <1>1, DrawnOnce
     DEF Draw, TokenInv, FreshHaveNoParent, TypeInv, TypeOK, AuthTypeOK
<1>11. TokenLifeOfJtis!Issue(j, gsk)
  BY <1>1, <1>8, <1>9, <1>10 DEF TokenLifeOfJtis!Issue, Draw
<1> QED BY <1>0, <1>5, <1>6, <1>7, <1>11
        DEF TokenInv, RefreshesKnow, TokenLifeOfJtis!Next

LEMMA RefreshSucceeds ==
  ASSUME TokenInv, NEW p \in Procs, refresh_token(p)
  PROVE  TokenInv' /\ TokenLifeOfJtis!Next
<1> PICK j \in Jtis, new \in Jtis : RefreshLookup(p, j, new)
  BY DEF refresh_token
<1> DEFINE gsk == jti[j].gsk
<1>0. TypeInv /\ TypeInv'
  BY RefreshOK DEF TokenInv
<1>1. /\ Mapped(j) /\ gsk \in Sessions /\ owner[j] = gsk
      /\ UNCHANGED jti /\ Draw(new, gsk, j)
  BY DEF RefreshLookup, TokenInv, TypeInv, MappingsOK, MappingsFollowOwner
<1>2. ~Fresh(j) /\ new # j
  BY <1>1, OwnedIsDrawn DEF Draw
<1>3. /\ ~Refreshing(p)
      /\ Refreshing(p)' /\ req'[p].gsk = gsk /\ req'[p].jti = j
      /\ req'[p].new = new /\ req'[p].pc = "ttl_get"
      /\ \A q \in Procs : q # p => req'[q] = req[q]
  BY <1>0 DEF RefreshLookup, Refreshing, Idle, At, TypeInv, RequestsOK
<1> HIDE DEF gsk
<1>4. /\ ~Mapped(new)
      /\ \A q \in Procs : Refreshing(q) => req[q].new # new /\ req[q].jti # new
  BY <1>0, <1>1, DrawnOnce, FreshIsUnknown
<1>5. MappingsFollowOwner' /\ FreshHaveNoParent'
  BY <1>0, <1>1, <1>4, DrawnOnce
     DEF TokenInv, MappingsFollowOwner, FreshHaveNoParent, Mapped
<1>6. ASSUME NEW q \in Procs, Refreshing(q)' PROVE RefreshKnows(q)'
  <2>1. CASE q = p
    BY <1>0, <1>1, <1>2, <1>3, <1>4, <2>1, DrawnOnce DEF RefreshKnows, Mapped
  <2>2. CASE q # p
    <3>1. Refreshing(q) /\ req'[q] = req[q]
      BY <1>3, <1>6, <2>2 DEF Refreshing
    <3>2. req[q].jti \in Jtis /\ req[q].new \in Jtis /\ RefreshKnows(q)
      BY <1>0, <3>1, RefreshTyped DEF TokenInv, TypeInv, RefreshesKnow
    <3> QED BY <1>0, <1>1, <1>4, <3>1, <3>2, DrawnOnce DEF RefreshKnows, Mapped
  <2> QED BY <2>1, <2>2
\* The pair being replaced is mapped, so no other refresh is issuing it.
<1>7. \A q \in Procs : Refreshing(q) => req[q].new # j
  BY <1>1 DEF TokenInv, RefreshesKnow, RefreshKnows
<1>8. RefreshesAreApart'
  BY <1>2, <1>3, <1>4, <1>7 DEF TokenInv, RefreshesAreApart, Refreshing
<1>9. /\ TokenStatus(j) = "live" /\ TokenStatus(new) = "none"
      /\ TokenStatus(new)' = "pending"
  BY <1>0, <1>1, <1>3, <1>4, DrawnOnce DEF TokenStatus, Mapped, Refreshing
<1>10. ASSUME NEW k \in Jtis, k # new PROVE TokenStatus(k)' = TokenStatus(k)
  <2>1. Mapped(k)' <=> Mapped(k)
    BY <1>1 DEF Mapped
  <2>2. Fresh(k)' <=> Fresh(k)
    BY <1>0, <1>1, <1>10, DrawnOnce
  <2>3. \A q \in Procs : (Refreshing(q) /\ req[q].new = k)'
                           <=> Refreshing(q) /\ req[q].new = k
    BY <1>3, <1>10 DEF Refreshing
  <2> QED BY <2>1, <2>2, <2>3 DEF TokenStatus, Refreshing
<1>11. TokenLifeOfJtis!Succeed(new, j)
  BY <1>1, <1>9, <1>10 DEF TokenLifeOfJtis!Succeed, Draw
<1> QED BY <1>0, <1>5, <1>6, <1>8, <1>11
        DEF TokenInv, RefreshesKnow, TokenLifeOfJtis!Next

LEMMA SetexActivates ==
  ASSUME TokenInv, TypeInv', NEW p \in Procs, MapNewPair(p)
  PROVE  TokenInv' /\ TokenLifeOfJtis!Next
<1>0. TypeInv /\ TypeInv'
  BY DEF TokenInv
<1>1. req[p].pc = "rotate_setex" /\ SetJtiMapping(req[p].new, req[p].gsk)
      /\ UNCHANGED <<owner, parent>>
  BY DEF MapNewPair, Step
<1>2. Refreshing(p)
  <2>1. "rotate_setex" \in Steps /\ "rotate_setex" \in RotateSteps
    BY DEF Steps, RotateSteps
  <2> QED BY <1>0, <1>1, <2>1, InFlight DEF TypeInv, Fits, Refreshing
<1> PICK new \in Jtis, old \in Jtis : new = req[p].new /\ old = req[p].jti
  BY <1>0, <1>2, RefreshTyped DEF TypeInv
<1>3. req[p].gsk \in Sessions /\ RefreshKnows(p)
  BY <1>0, <1>2, RefreshTyped DEF TokenInv, TypeInv, RefreshesKnow
<1>4. /\ jti'[new].gsk = req[p].gsk /\ Live(jti'[new].exp)
      /\ \A k \in Jtis : k # new => jti'[k] = jti[k]
  BY <1>0, <1>1, <1>3, TTLsArePositive
     DEF SetJtiMapping, SetEx, Live, Gone, TypeInv, TypeOK, AuthTypeOK, StoreTypeOK
<1>5. /\ ~Refreshing(p)'
      /\ \A q \in Procs : q # p => req'[q] = req[q]
  BY <1>0 DEF MapNewPair, Step, At, Idle, Refreshing, TypeInv, RequestsOK
<1>6. MappingsFollowOwner' /\ FreshHaveNoParent'
  BY <1>1, <1>3, <1>4
     DEF TokenInv, MappingsFollowOwner, FreshHaveNoParent, RefreshKnows, Mapped, Fresh
<1>7. ASSUME NEW q \in Procs, Refreshing(q)' PROVE RefreshKnows(q)'
  <2>1. q # p /\ Refreshing(q) /\ req'[q] = req[q]
    BY <1>5, <1>7 DEF Refreshing
  <2>2. req[q].jti \in Jtis /\ req[q].new \in Jtis /\ RefreshKnows(q)
    BY <1>0, <2>1, RefreshTyped DEF TokenInv, TypeInv, RefreshesKnow
  <2>3. req[q].new # new /\ req[q].jti # new
    BY <1>2, <2>1 DEF TokenInv, RefreshesAreApart
  <2> QED BY <1>1, <1>4, <2>1, <2>2, <2>3 DEF RefreshKnows, Mapped
<1>8. RefreshesAreApart'
  BY <1>5 DEF TokenInv, RefreshesAreApart, Refreshing
<1>9. ~Fresh(new) /\ ~Fresh(old)
  BY <1>3, NoneIsNoValue DEF RefreshKnows, Fresh
<1>10. TokenStatus(new) = "pending" /\ TokenStatus(new)' = "live"
  BY <1>2, <1>3, <1>4, <1>9 DEF TokenStatus, RefreshKnows, Refreshing, Mapped
<1>11. TokenStatus(old) = "dead"
  <2>1. ~Mapped(old)
    BY <1>1, <1>3 DEF RefreshKnows
  <2>2. \A q \in Procs : Refreshing(q) => req[q].new # old
    BY <1>2 DEF TokenInv, RefreshesAreApart
  <2> QED BY <1>9, <2>1, <2>2 DEF TokenStatus, Refreshing
<1>12. ASSUME NEW k \in Jtis, k # new PROVE TokenStatus(k)' = TokenStatus(k)
  <2>1. Mapped(k)' <=> Mapped(k)
    BY <1>4, <1>12 DEF Mapped
  <2>2. Fresh(k)' <=> Fresh(k)
    BY <1>1 DEF Fresh
  <2>3. \A q \in Procs : (Refreshing(q) /\ req[q].new = k)'
                           <=> Refreshing(q) /\ req[q].new = k
    BY <1>5, <1>12 DEF Refreshing
  <2> QED BY <2>1, <2>2, <2>3 DEF TokenStatus, Refreshing
<1>13. TokenLifeOfJtis!Activate(new)
  <2>1. parent[new] = old
    BY <1>3 DEF RefreshKnows
  <2> QED BY <1>1, <1>3, <1>10, <1>11, <1>12, <2>1 DEF TokenLifeOfJtis!Activate
<1> QED BY <1>0, <1>3, <1>6, <1>7, <1>8, <1>13
        DEF TokenInv, RefreshesKnow, TokenLifeOfJtis!Next

-----------------------------------------------------------------------------
(* The theorems.                                                           *)

LEMMA TokenInit == Init => TokenInv /\ TokenLifeOfJtis!Init
<1> SUFFICES ASSUME Init PROVE TokenInv /\ TokenLifeOfJtis!Init
  OBVIOUS
<1>1. TypeInv
  BY InitOK
<1>2. /\ \A j \in Jtis : ~Mapped(j) /\ Fresh(j) /\ parent[j] = None
      /\ \A p \in Procs : ~Refreshing(p)
  BY DEF Init, AuthInit, StoreInit, Mapped, Unmapped, Live, Fresh, Refreshing, Idle
<1>3. TokenInv
  BY <1>1, <1>2 DEF TokenInv, MappingsFollowOwner, FreshHaveNoParent,
                    RefreshesKnow, RefreshesAreApart
<1>4. TokenLifeOfJtis!Init
  BY <1>2 DEF TokenLifeOfJtis!Init, TokenStatus, Init, AuthInit
<1> QED BY <1>3, <1>4

LEMMA TokenNext ==
  TokenInv /\ [Next]_vars => TokenInv' /\ [TokenLifeOfJtis!Next]_(TokenLifeOfJtis!vars)
<1> SUFFICES ASSUME TokenInv, [Next]_vars PROVE TokenInv' /\ TokenLifeOfJtis!Next
  OBVIOUS
<1>1. TypeInv /\ TypeInv'
  BY NextOK DEF TokenInv
<1>2. CASE Quiet
  BY <1>1, <1>2, QuietInv, QuietDrops
<1>3. ASSUME NEW p \in Procs, Start(p)
      PROVE  TokenInv' /\ TokenLifeOfJtis!Next
  <2>1. CASE create_session(p)
    BY <2>1, CreateIssues
  <2>2. CASE refresh_token(p)
    BY <2>2, RefreshSucceeds
  <2> QED BY <1>1, <1>2, <1>3, <2>1, <2>2, OthersQuiet DEF Start
<1>4. ASSUME NEW p \in Procs, Continue(p)
      PROVE  TokenInv' /\ TokenLifeOfJtis!Next
  <2>1. CASE StoreStep(p) \/ CreateStep(p)
    BY <1>1, <1>2, <2>1, StoreStepQuiet, HandlerQuiet
  <2>2. CASE TokenStep(p)
    BY <1>1, <1>2, <2>2, SetexActivates, HandlerQuiet DEF TokenStep, RotateSetex
  <2> QED BY <1>4, <2>1, <2>2 DEF Continue
<1>5. ASSUME NEW p \in Procs, LoseAnswer(p)
      PROVE  TokenInv' /\ TokenLifeOfJtis!Next
  <2>1. CASE MapNewPair(p)
    BY <1>1, <2>1, SetexActivates
  <2>2. CASE ~MapNewPair(p)
    BY <1>1, <1>2, <1>5, <2>2, UnansweredQuiet DEF LoseAnswer
  <2> QED BY <2>1, <2>2
<1>6. CASE \/ \E p \in Procs : Fail(p)
           \/ Tick
           \/ UNCHANGED vars
  BY <1>1, <1>2, <1>6, OthersQuiet
<1> QED BY <1>3, <1>4, <1>5, <1>6 DEF Next, Horizon

\* What refresh_token and close_session_by_token know of the pairs they are
\* about to map or delete stays true while other requests run.
THEOREM TokenInvariant == Spec => []TokenInv
BY TokenInit, TokenNext, PTL DEF Spec

\* The jti mappings implement TokenLife: a pair never becomes usable again once
\* it has ended, never moves to another session, and replaces only a pair that
\* has ended.
THEOREM TokensImplementTokenLife == Spec => TokensFollowTokenLife
<1>1. TokenInv /\ [Next]_vars => [TokenLifeOfJtis!Next]_(TokenLifeOfJtis!vars)
  BY TokenNext
<1>2. Init => TokenLifeOfJtis!Init
  BY TokenInit
<1> QED
  BY <1>1, <1>2, TokenInvariant, PTL DEF Spec, TokensFollowTokenLife, TokenLifeOfJtis!Spec

=============================================================================
