---------------------------- MODULE SessionProofs ----------------------------
(***************************************************************************)
(* Theorems about the session manager, for any number of handlers, keys    *)
(* and tokens, any TTLs and any bound on time and failures.                *)
(***************************************************************************)
EXTENDS SessionInvariants, TLAPS

-----------------------------------------------------------------------------
(* Operators.                                                              *)

LEMMA IdleType == Idle \in Request /\ NoHash \in Hash
BY DEF Idle, Request, NoHash, Hash

\* A request that fits the command it goes on with is well formed.
LEMMA AtFits ==
  ASSUME NEW r \in Request, NEW m \in Steps \cup {"done"}, Fits(r, m)
  PROVE  At(r, m) \in Request /\ WellFormed(At(r, m))
<1>1. CASE m = "done"
  BY <1>1, IdleType DEF At, WellFormed
<1>2. CASE m # "done"
  <2> DEFINE s == [r EXCEPT !.pc = m]
  <2>1. m \in Steps /\ m # "idle"
    BY <1>2 DEF Steps, CreateSteps, TtlSteps, MapSteps, UpdateSteps, RotateSteps,
                CloseSteps, TurnSteps, ProfileSteps
  <2>2. s \in Request
    BY <2>1 DEF Request
  <2>3. /\ s.pc = m /\ s.gsk = r.gsk /\ s.op = r.op
        /\ s.agent = r.agent /\ s.jti = r.jti /\ s.new = r.new
    BY DEF Request
  <2>4. Fits(s, s.pc)
    BY <2>3 DEF Fits
  <2> HIDE DEF s
  <2>5. WellFormed(s)
    BY <2>1, <2>3, <2>4 DEF WellFormed
  <2> QED BY <1>2, <2>2, <2>5 DEF At, s
<1> QED BY <1>1, <1>2

\* When one process goes on with a request that fits, all stay well formed.
LEMMA GoesOn ==
  ASSUME NEW p \in Procs, NEW r \in Request, NEW m \in Steps \cup {"done"},
         RequestsOK, Fits(r, m), req' = [req EXCEPT ![p] = At(r, m)]
  PROVE  RequestsOK'
BY AtFits DEF RequestsOK

LEMMA HSetType ==
  ASSUME NEW h \in Hash, NEW u \in Hash
  PROVE  HSet(h, u) \in Hash
BY DEF HSet, Hash

LEMMA DeadlineType ==
  ASSUME NEW d \in Deadline, now \in Nat, NEW ttl \in Nat
  PROVE  /\ Expire(d, now, ttl) \in Deadline
         /\ SetEx(now, ttl) \in Deadline
         /\ Write(d) \in Deadline
         /\ Overwrite(d) \in Deadline
         /\ \A t : Surviving(d, t) \in Deadline
         /\ Gone \in Deadline
BY DEF Deadline, Gone, Persist, Live, Expire, SetEx, Write, Overwrite, Surviving

LEMMA HSetSessionType ==
  ASSUME StoreTypeOK, NEW gsk, NEW u \in Hash, HSetSession(gsk, u)
  PROVE  session' \in [Sessions -> [hash : Hash, exp : Deadline]]
<1>1. \A s \in Sessions :
        [hash |-> HSet(session[s].hash, u), exp |-> Write(session[s].exp)]
          \in [hash : Hash, exp : Deadline]
  BY HSetType, DeadlineType, TTLsArePositive DEF StoreTypeOK
<1> QED BY <1>1 DEF StoreTypeOK, HSetSession

LEMMA ExpireSessionType ==
  ASSUME StoreTypeOK, NEW gsk, ExpireSession(gsk)
  PROVE  session' \in [Sessions -> [hash : Hash, exp : Deadline]]
<1>1. \A s \in Sessions :
        Expire(session[s].exp, now, SessionTTL) \in Deadline
  BY DeadlineType, TTLsArePositive DEF StoreTypeOK
<1> QED BY <1>1 DEF StoreTypeOK, ExpireSession

-----------------------------------------------------------------------------
(* Control: which commands may follow which.                               *)

LEMMA AfterRefreshTtlFits ==
  ASSUME NEW r \in Request, NEW l \in TtlSteps, Fits(r, l)
  PROVE  /\ AfterRefreshTtl(r) \in Steps \cup {"done"}
         /\ Fits(r, AfterRefreshTtl(r))
BY DEF Fits, AfterRefreshTtl, Steps, CreateSteps, TtlSteps, MapSteps, UpdateSteps,
       RotateSteps, CloseSteps, TurnSteps, ProfileSteps

LEMMA AfterUpdateFits ==
  ASSUME NEW r \in Request, NEW l \in UpdateSteps, Fits(r, l)
  PROVE  /\ AfterUpdate(r) \in Steps \cup {"done"}
         /\ Fits(r, AfterUpdate(r))
BY DEF Fits, AfterUpdate, Steps, CreateSteps, TtlSteps, MapSteps, UpdateSteps,
       RotateSteps, CloseSteps, TurnSteps, ProfileSteps

\* The subroutines and handlers, as sets of commands, are closed.
LEMMA Stays ==
  ASSUME NEW r, NEW l, NEW m, Fits(r, l),
         \/ l \in CreateSteps /\ m \in CreateSteps \cup {"done"}
         \/ l \in TtlSteps /\ m \in TtlSteps
         \/ l \in MapSteps /\ m \in MapSteps \cup UpdateSteps
         \/ l \in UpdateSteps /\ m \in UpdateSteps
         \/ l \in RotateSteps /\ m \in RotateSteps \cup {"done"}
         \/ l \in CloseSteps /\ m \in CloseSteps \cup UpdateSteps \cup {"done"}
         \/ l \in TurnSteps /\ m \in TurnSteps \cup {"done"}
         \/ l \in ProfileSteps /\ m \in ProfileSteps \cup UpdateSteps \cup {"done"}
  PROVE  Fits(r, m)
BY DEF Fits, CreateSteps, TtlSteps, MapSteps, UpdateSteps,
       RotateSteps, CloseSteps, TurnSteps, ProfileSteps

LEMMA InFlight ==
  ASSUME RequestsOK, NEW p \in Procs, NEW l \in Steps, req[p].pc = l
  PROVE  req[p] \in Request /\ Fits(req[p], l)
<1>1. l # "idle"
  BY DEF Steps, CreateSteps, TtlSteps, MapSteps, UpdateSteps, RotateSteps,
         CloseSteps, TurnSteps, ProfileSteps
<1> QED BY <1>1 DEF RequestsOK, WellFormed, Idle

LEMMA StepGoesOn ==
  ASSUME RequestsOK, NEW p \in Procs, NEW l \in Steps,
         NEW m \in Steps \cup {"done"},
         Step(p, l, m) \/ Return(p, l, m),
         Fits(req[p], l) => Fits(req[p], m)
  PROVE  RequestsOK'
<1>1. req[p] \in Request /\ Fits(req[p], m)
  BY InFlight DEF Step, Return
<1>2. CASE Step(p, l, m)
  BY <1>1, <1>2, GoesOn DEF Step
<1>3. CASE Return(p, l, m)
  <2> DEFINE r == [req[p] EXCEPT !.snap = NoHash]
  <2>1. r \in Request /\ Fits(r, m)
    BY <1>1, IdleType DEF Request, Fits
  <2>2. req' = [req EXCEPT ![p] = At(r, m)]
    BY <1>3 DEF Return
  <2> HIDE DEF r
  <2> QED BY <2>1, <2>2, GoesOn
<1> QED BY <1>2, <1>3

-----------------------------------------------------------------------------
(* The store: each command keeps the types and fits.                       *)

StoreOK == StoreTypeOK /\ RequestsOK

LEMMA HashUpdatesType ==
  ASSUME StoreOK, NEW p \in Procs
  PROVE  /\ [NoHash EXCEPT !.session_state = "start", !.expires_at = ExpiresAt] \in Hash
         /\ [req[p].snap EXCEPT !.expires_at = ExpiresAt] \in Hash
         /\ [NoHash EXCEPT !.cusno = req[p].snap.cusno] \in Hash
         /\ req[p].pc \in MapSteps =>
              [NoHash EXCEPT !.agent_mappings = MappingsWith(req[p])] \in Hash
         /\ [NoHash EXCEPT !.session_state = "end"] \in Hash
<1>1. ExpiresAt \in Nat
  BY TTLsArePositive DEF StoreOK, StoreTypeOK, ExpiresAt
<1>2. req[p] \in Request /\ req[p].snap \in Hash
  BY DEF StoreOK, RequestsOK, Request
<1>3. [NoHash EXCEPT !.session_state = "start", !.expires_at = ExpiresAt] \in Hash
  BY <1>1, IdleType DEF Hash, States
<1>4. [req[p].snap EXCEPT !.expires_at = ExpiresAt] \in Hash
  BY <1>1, <1>2 DEF Hash
<1>5. [NoHash EXCEPT !.cusno = req[p].snap.cusno] \in Hash
  BY <1>2, IdleType DEF Hash
<1>6. ASSUME req[p].pc \in MapSteps
      PROVE  [NoHash EXCEPT !.agent_mappings = MappingsWith(req[p])] \in Hash
  <2>1. req[p].agent # None
    BY <1>6, InFlight DEF StoreOK, Fits, Steps
  <2>2. MappingsWith(req[p]) \in SUBSET Agents
    BY <1>2, <2>1 DEF MappingsWith, Request, Hash
  <2> QED BY <2>2, IdleType DEF Hash
<1>7. [NoHash EXCEPT !.session_state = "end"] \in Hash
  BY IdleType DEF Hash, States
<1> QED BY <1>3, <1>4, <1>5, <1>6, <1>7

LEMMA CreateStepsOK ==
  ASSUME StoreOK, NEW p \in Procs, CreateGet(p) \/ CreateHset(p) \/ CreateExpire(p)
  PROVE  StoreOK'
<1> USE DEF StoreOK
<1>0. {"create_get", "create_hset", "create_expire"} \subseteq Steps
  BY DEF Steps, CreateSteps
<1>1. CASE CreateGet(p)
  <2>1. RequestsOK'
    BY <1>0, <1>1, StepGoesOn, Stays DEF CreateGet, CreateSteps
  <2> QED BY <1>1, <2>1 DEF CreateGet, keyVars, StoreTypeOK, RequestsOK
<1>2. CASE CreateHset(p)
  <2>1. RequestsOK'
    BY <1>0, <1>2, StepGoesOn, Stays DEF CreateHset, CreateSteps
  <2>2. session' \in [Sessions -> [hash : Hash, exp : Deadline]]
    BY <1>2, HSetSessionType, HashUpdatesType DEF CreateHset
  <2> QED BY <1>2, <2>1, <2>2 DEF CreateHset, StoreTypeOK, RequestsOK
<1>3. CASE CreateExpire(p)
  <2>1. RequestsOK'
    BY <1>0, <1>3, StepGoesOn, Stays DEF CreateExpire, CreateSteps
  <2>2. session' \in [Sessions -> [hash : Hash, exp : Deadline]]
    BY <1>3, ExpireSessionType DEF CreateExpire
  <2> QED BY <1>3, <2>1, <2>2 DEF CreateExpire, StoreTypeOK, RequestsOK
<1> QED BY <1>1, <1>2, <1>3

-----------------------------------------------------------------------------
LEMMA TtlGetOK ==
  ASSUME StoreOK, NEW p \in Procs, TtlGet(p)
  PROVE  StoreOK'
<1> DEFINE r == req[p]
           s == [req[p] EXCEPT !.snap = session[req[p].gsk].hash]
<1>0. "ttl_get" \in Steps /\ "ttl_get" \in TtlSteps
  BY DEF Steps, TtlSteps
<1>1. r \in Request /\ Fits(r, "ttl_get")
  BY <1>0, InFlight DEF TtlGet, StoreOK
<1>2. s \in Request /\ Fits(s, "ttl_hset")
  <2>1. session[r.gsk].hash \in Hash
    BY <1>1 DEF Fits, StoreOK, StoreTypeOK
  <2> QED BY <1>1, <2>1 DEF Request, Fits, CreateSteps, TtlSteps, MapSteps, RotateSteps
<1>3. CASE Exists(r.gsk)
  <2>1. req' = [req EXCEPT ![p] = At(s, "ttl_hset")]
    BY <1>3 DEF TtlGet, StoreOK, StoreTypeOK
  <2>2. "ttl_hset" \in Steps \cup {"done"}
    BY DEF Steps, TtlSteps
  <2> HIDE DEF s
  <2>3. RequestsOK'
    BY <1>2, <2>1, <2>2, GoesOn DEF StoreOK
  <2> QED BY <2>3 DEF TtlGet, keyVars, StoreOK, StoreTypeOK, RequestsOK
<1>4. CASE ~Exists(r.gsk)
  <2>1. req' = [req EXCEPT ![p] = At(r, AfterRefreshTtl(r))]
    BY <1>4 DEF TtlGet, StoreOK, StoreTypeOK
  <2>2. RequestsOK'
    BY <1>0, <1>1, <2>1, AfterRefreshTtlFits, GoesOn DEF StoreOK
  <2> QED BY <2>2 DEF TtlGet, keyVars, StoreOK, StoreTypeOK, RequestsOK
<1> QED BY <1>3, <1>4

LEMMA TtlHsetOK ==
  ASSUME StoreOK, NEW p \in Procs, TtlHset(p)
  PROVE  StoreOK'
<1> DEFINE s == [req[p] EXCEPT !.snap = [NoHash EXCEPT !.cusno = req[p].snap.cusno]]
<1>0. "ttl_hset" \in Steps /\ "ttl_expire" \in Steps
  BY DEF Steps, TtlSteps
<1>1. req[p] \in Request /\ Fits(req[p], "ttl_hset")
  BY <1>0, InFlight DEF TtlHset, StoreOK
<1>2. s \in Request /\ Fits(s, "ttl_expire")
  BY <1>1, HashUpdatesType
     DEF Request, Fits, CreateSteps, TtlSteps, MapSteps, RotateSteps
<1>3. req' = [req EXCEPT ![p] = At(s, "ttl_expire")]
  BY DEF TtlHset, StoreOK, StoreTypeOK
<1> HIDE DEF s
<1>4. RequestsOK'
  BY <1>0, <1>2, <1>3, GoesOn DEF StoreOK
<1>5. session' \in [Sessions -> [hash : Hash, exp : Deadline]]
  BY HSetSessionType, HashUpdatesType DEF TtlHset, StoreOK
<1> QED BY <1>4, <1>5 DEF TtlHset, StoreOK, StoreTypeOK, RequestsOK

LEMMA RefreshTtlOK ==
  ASSUME StoreOK, NEW p \in Procs, RefreshTtl(p)
  PROVE  StoreOK'
<1> USE DEF StoreOK
<1>0. TtlSteps \subseteq Steps /\ SessionTTL \in Nat
  BY TTLsArePositive DEF Steps
<1>1. CASE TtlExpire(p)
  <2>1. RequestsOK'
    BY <1>0, <1>1, StepGoesOn, Stays DEF TtlExpire, TtlSteps
  <2>2. session' \in [Sessions -> [hash : Hash, exp : Deadline]]
    BY <1>1, ExpireSessionType DEF TtlExpire
  <2> QED BY <1>1, <2>1, <2>2 DEF TtlExpire, StoreTypeOK, RequestsOK
<1>2. CASE TtlTurns(p)
  <2>1. RequestsOK'
    BY <1>0, <1>2, StepGoesOn, Stays DEF TtlTurns, TtlSteps
  <2>2. turns' \in [Sessions -> Deadline]
    BY <1>0, <1>2, DeadlineType DEF TtlTurns, StoreTypeOK
  <2> QED BY <1>2, <2>1, <2>2 DEF TtlTurns, StoreTypeOK, RequestsOK
<1>3. CASE TtlRealtime(p)
  <2>1. RequestsOK'
    <3>1. Fits(req[p], "ttl_realtime") =>
            /\ AfterRefreshTtl(req[p]) \in Steps \cup {"done"}
            /\ Fits(req[p], AfterRefreshTtl(req[p]))
      BY AfterRefreshTtlFits DEF RequestsOK, TtlSteps
    <3>2. Step(p, "ttl_realtime", "ttl_batch") \/
          Return(p, "ttl_realtime", AfterRefreshTtl(req[p]))
      BY <1>3 DEF TtlRealtime
    <3>3. Fits(req[p], "ttl_realtime")
      BY <1>0, <3>2, InFlight DEF Step, Return, TtlSteps
    <3>4. Fits(req[p], "ttl_batch")
      BY <3>3, Stays DEF TtlSteps
    <3> QED BY <1>0, <3>1, <3>2, <3>3, <3>4, StepGoesOn DEF TtlSteps
  <2>2. realtime' \in [Owners -> Deadline]
    BY <1>0, <1>3, DeadlineType DEF TtlRealtime, StoreTypeOK
  <2> QED BY <1>3, <2>1, <2>2 DEF TtlRealtime, StoreTypeOK, RequestsOK
<1>4. CASE TtlBatch(p)
  <2>1. RequestsOK'
    <3>1. Fits(req[p], "ttl_batch")
      BY <1>0, <1>4, InFlight DEF TtlBatch, Return, TtlSteps
    <3>2. /\ AfterRefreshTtl(req[p]) \in Steps \cup {"done"}
          /\ Fits(req[p], AfterRefreshTtl(req[p]))
      BY <3>1, AfterRefreshTtlFits DEF RequestsOK, TtlSteps
    <3> QED BY <1>0, <1>4, <3>2, StepGoesOn DEF TtlBatch, TtlSteps
  <2>2. batch' \in [Cusnos -> Deadline]
    BY <1>0, <1>4, DeadlineType DEF TtlBatch, StoreTypeOK
  <2> QED BY <1>4, <2>1, <2>2 DEF TtlBatch, StoreTypeOK, RequestsOK
<1> QED BY <1>1, <1>2, <1>3, <1>4, TtlGetOK, TtlHsetOK DEF RefreshTtl

LEMMA UpdateOK ==
  ASSUME StoreOK, NEW p \in Procs, Update(p)
  PROVE  StoreOK'
<1> USE DEF StoreOK
<1>0. UpdateSteps \subseteq Steps
  BY DEF Steps
<1>1. ASSUME NEW l \in UpdateSteps, req[p].pc = l
      PROVE  /\ req[p] \in Request
             /\ Fits(req[p], "update_hset")
             /\ AfterUpdate(req[p]) \in Steps \cup {"done"}
             /\ Fits(req[p], AfterUpdate(req[p]))
  BY <1>0, <1>1, InFlight, Stays, AfterUpdateFits DEF UpdateSteps
<1>2. CASE UpdateExists(p)
  <2>1. RequestsOK'
    BY <1>0, <1>1, <1>2, StepGoesOn DEF UpdateExists, UpdateSteps, Step
  <2> QED BY <1>2, <2>1 DEF UpdateExists, keyVars, StoreTypeOK, RequestsOK
<1>3. CASE UpdateHset(p)
  <2>1. RequestsOK'
    BY <1>0, <1>1, <1>3, StepGoesOn DEF UpdateHset, UpdateSteps, Step
  <2>2. req[p].upd \in Hash
    BY DEF StoreTypeOK, Request
  <2>3. session' \in [Sessions -> [hash : Hash, exp : Deadline]]
    BY <1>3, <2>2, HSetSessionType DEF UpdateHset
  <2> QED BY <1>3, <2>1, <2>3 DEF UpdateHset, StoreTypeOK, RequestsOK
<1> QED BY <1>2, <1>3 DEF Update

LEMMA MapGetOK ==
  ASSUME StoreOK, NEW p \in Procs, MapGet(p)
  PROVE  StoreOK'
<1> DEFINE r == req[p]
           s == [req[p] EXCEPT !.snap.agent_mappings =
                   session[req[p].gsk].hash.agent_mappings]
<1>0. "map_get" \in Steps /\ "map_exists" \in Steps /\ "update_exists" \in Steps
  BY DEF Steps, MapSteps, UpdateSteps
<1>1. r \in Request /\ Fits(r, "map_get")
  BY <1>0, InFlight DEF MapGet, StoreOK
<1>2. s \in Request /\ Fits(s, "map_exists")
  <2>1. session[r.gsk].hash \in Hash
    BY <1>1 DEF Fits, StoreOK, StoreTypeOK
  <2>2. [r.snap EXCEPT !.agent_mappings = session[r.gsk].hash.agent_mappings] \in Hash
    BY <1>1, <2>1 DEF Request, Hash
  <2>3. Fits(r, "map_exists")
    BY <1>1, Stays DEF MapSteps
  <2> QED BY <1>1, <2>2, <2>3 DEF Request, Fits
<1>3. CASE Exists(r.gsk)
  <2>1. req' = [req EXCEPT ![p] = At(s, "map_exists")]
    BY <1>3 DEF MapGet, StoreOK, StoreTypeOK
  <2> HIDE DEF s
  <2>2. RequestsOK'
    BY <1>0, <1>2, <2>1, GoesOn DEF StoreOK
  <2> QED BY <2>2 DEF MapGet, keyVars, StoreOK, StoreTypeOK, RequestsOK
<1>4. CASE ~Exists(r.gsk)
  <2>1. req' = [req EXCEPT ![p] = At(r, "update_exists")]
    BY <1>4 DEF MapGet, StoreOK, StoreTypeOK
  <2>2. Fits(r, "update_exists")
    BY <1>1, Stays DEF MapSteps, UpdateSteps
  <2>3. RequestsOK'
    BY <1>0, <1>1, <2>1, <2>2, GoesOn DEF StoreOK
  <2> QED BY <2>3 DEF MapGet, keyVars, StoreOK, StoreTypeOK, RequestsOK
<1> QED BY <1>3, <1>4

LEMMA SetLocalMappingOK ==
  ASSUME StoreOK, NEW p \in Procs, SetLocalMapping(p)
  PROVE  StoreOK'
<1> USE DEF StoreOK
<1>0. /\ {"map_exists", "map_hset"} \subseteq MapSteps
      /\ "update_exists" \in UpdateSteps
      /\ MapSteps \cup UpdateSteps \subseteq Steps
  BY DEF Steps, MapSteps, UpdateSteps
<1>1. CASE MapExists(p)
  <2>1. RequestsOK'
    BY <1>0, <1>1, StepGoesOn, Stays DEF MapExists
  <2> QED BY <1>1, <2>1 DEF MapExists, keyVars, StoreTypeOK, RequestsOK
<1>2. CASE MapHset(p)
  <2>1. RequestsOK'
    BY <1>0, <1>2, StepGoesOn, Stays DEF MapHset
  <2>2. req[p].pc = "map_hset"
    BY <1>2 DEF MapHset, Return
  <2>3. session' \in [Sessions -> [hash : Hash, exp : Deadline]]
    BY <1>0, <1>2, <2>2, HSetSessionType, HashUpdatesType DEF MapHset
  <2> QED BY <1>2, <2>1, <2>3 DEF MapHset, StoreTypeOK, RequestsOK
<1> QED BY <1>1, <1>2, MapGetOK DEF SetLocalMapping

LEMMA AddTurnOK ==
  ASSUME StoreOK, NEW p \in Procs, AddTurn(p)
  PROVE  StoreOK'
<1> USE DEF StoreOK
<1>0. TurnSteps \subseteq Steps /\ SessionTTL \in Nat
  BY TTLsArePositive DEF Steps
<1>1. CASE TurnPush(p)
  <2>1. RequestsOK'
    BY <1>0, <1>1, StepGoesOn, Stays DEF TurnPush, TurnSteps
  <2>2. turns' \in [Sessions -> Deadline]
    BY <1>0, <1>1, DeadlineType DEF TurnPush, StoreTypeOK
  <2> QED BY <1>1, <2>1, <2>2 DEF TurnPush, StoreTypeOK, RequestsOK
<1>2. CASE TurnExpire(p)
  <2>1. RequestsOK'
    BY <1>0, <1>2, StepGoesOn, Stays DEF TurnExpire, TurnSteps
  <2>2. turns' \in [Sessions -> Deadline]
    BY <1>0, <1>2, DeadlineType DEF TurnExpire, StoreTypeOK
  <2> QED BY <1>2, <2>1, <2>2 DEF TurnExpire, StoreTypeOK, RequestsOK
<1> QED BY <1>1, <1>2 DEF AddTurn

LEMMA UpdateProfileOK ==
  ASSUME StoreOK, NEW p \in Procs, UpdateProfile(p)
  PROVE  StoreOK'
<1> USE DEF StoreOK
<1>0. /\ ProfileSteps \cup UpdateSteps \subseteq Steps
      /\ SessionTTL \in Nat
      /\ "update_exists" \in UpdateSteps
  BY TTLsArePositive DEF Steps, UpdateSteps
<1>1. CASE ProfileGet(p)
  <2>1. RequestsOK'
    BY <1>0, <1>1, StepGoesOn, Stays DEF ProfileGet, ProfileSteps
  <2> QED BY <1>1, <2>1 DEF ProfileGet, keyVars, StoreTypeOK, RequestsOK
<1>2. CASE RealtimeSet(p)
  <2>1. RequestsOK'
    BY <1>0, <1>2, StepGoesOn, Stays DEF RealtimeSet, ProfileSteps
  <2>2. realtime' \in [Owners -> Deadline]
    BY <1>0, <1>2, DeadlineType DEF RealtimeSet, StoreTypeOK
  <2> QED BY <1>2, <2>1, <2>2 DEF RealtimeSet, StoreTypeOK, RequestsOK
<1>3. CASE RealtimeExpire(p)
  <2>1. RequestsOK'
    BY <1>0, <1>3, StepGoesOn, Stays DEF RealtimeExpire, ProfileSteps
  <2>2. realtime' \in [Owners -> Deadline]
    BY <1>0, <1>3, DeadlineType DEF RealtimeExpire, StoreTypeOK
  <2> QED BY <1>3, <2>1, <2>2 DEF RealtimeExpire, StoreTypeOK, RequestsOK
<1>4. CASE BatchSet(p)
  <2>1. RequestsOK'
    BY <1>0, <1>4, StepGoesOn, Stays DEF BatchSet, ProfileSteps
  <2>2. batch' \in [Cusnos -> Deadline]
    BY <1>0, <1>4, DeadlineType DEF BatchSet, StoreTypeOK
  <2> QED BY <1>4, <2>1, <2>2 DEF BatchSet, StoreTypeOK, RequestsOK
<1>5. CASE BatchExpire(p)
  <2>1. RequestsOK'
    BY <1>0, <1>5, StepGoesOn, Stays DEF BatchExpire, ProfileSteps
  <2>2. batch' \in [Cusnos -> Deadline]
    BY <1>0, <1>5, DeadlineType DEF BatchExpire, StoreTypeOK
  <2> QED BY <1>5, <2>1, <2>2 DEF BatchExpire, StoreTypeOK, RequestsOK
<1> QED BY <1>1, <1>2, <1>3, <1>4, <1>5 DEF UpdateProfile

-----------------------------------------------------------------------------
(* Type correctness.                                                       *)

LEMMA InitOK == Init => TypeInv
<1> SUFFICES ASSUME Init PROVE TypeInv
  OBVIOUS
<1>1. StoreTypeOK /\ RequestsOK
  BY IdleType DEF Init, StoreInit, StoreTypeOK, RequestsOK, WellFormed, Deadline,
                  Gone, Persist
<1>2. AuthTypeOK /\ MappingsOK
  BY DEF Init, AuthInit, AuthTypeOK, MappingsOK, Mapped, Unmapped, Live, Gone,
         Deadline, Persist
<1>3. born \in [Sessions -> Nat \cup {Never}] /\ failures \in Nat
  BY DEF Init
<1> QED BY <1>1, <1>2, <1>3 DEF TypeInv, TypeOK

\* What the token helpers do to the types.
LEMMA TokenHelpers ==
  ASSUME TypeInv, NEW j \in Jtis, NEW gsk
  PROVE  /\ Sign(j) => tok' \in [Jtis -> [access : Nat, refresh : Nat]]
         /\ SetJtiMapping(j, gsk) /\ gsk \in Sessions =>
              /\ jti' \in [Jtis -> [gsk : Sessions \cup {None}, exp : Deadline]]
              /\ MappingsOK'
         /\ DeleteJti(j) =>
              /\ jti' \in [Jtis -> [gsk : Sessions \cup {None}, exp : Deadline]]
              /\ MappingsOK'
         /\ \A q \in Jtis \cup {None} : Draw(j, gsk, q) /\ gsk \in Sessions =>
              /\ owner' \in [Jtis -> Sessions \cup {None}]
              /\ parent' \in [Jtis -> Jtis \cup {None}]
<1>0. /\ AuthTypeOK
      /\ now \in Nat
      /\ now + AccessTTL \in Nat /\ now + RefreshTTL \in Nat
      /\ SetEx(now, SessionTTL) \in Deadline
      /\ Gone \in Deadline
      /\ ~Live(Gone)
  BY TTLsArePositive, DeadlineType
     DEF TypeInv, TypeOK, StoreTypeOK, SetEx, Deadline, Gone, Live
<1>1. Sign(j) => tok' \in [Jtis -> [access : Nat, refresh : Nat]]
  BY <1>0 DEF Sign, AuthTypeOK
<1>2. ASSUME SetJtiMapping(j, gsk), gsk \in Sessions
      PROVE  /\ jti' \in [Jtis -> [gsk : Sessions \cup {None}, exp : Deadline]]
             /\ MappingsOK'
  BY <1>0, <1>2 DEF SetJtiMapping, AuthTypeOK, TypeInv, MappingsOK, Mapped
<1>3. ASSUME DeleteJti(j)
      PROVE  /\ jti' \in [Jtis -> [gsk : Sessions \cup {None}, exp : Deadline]]
             /\ MappingsOK'
  BY <1>0, <1>3 DEF DeleteJti, Unmapped, AuthTypeOK, TypeInv, MappingsOK, Mapped
<1>4. ASSUME NEW q \in Jtis \cup {None}, Draw(j, gsk, q), gsk \in Sessions
      PROVE  /\ owner' \in [Jtis -> Sessions \cup {None}]
             /\ parent' \in [Jtis -> Jtis \cup {None}]
  BY <1>0, <1>4 DEF Draw, AuthTypeOK
<1> QED BY <1>1, <1>2, <1>3, <1>4

\* A new request that fits its first command.
LEMMA NewRequest ==
  ASSUME TypeInv, NEW p \in Procs, NEW r \in Request, NEW m \in Steps \cup {"done"},
         Fits(r, m), req' = [req EXCEPT ![p] = At(r, m)], UNCHANGED keyVars
  PROVE  StoreTypeOK' /\ RequestsOK'
<1>1. RequestsOK'
  BY GoesOn DEF TypeInv
<1> QED BY <1>1 DEF TypeInv, TypeOK, StoreTypeOK, RequestsOK, keyVars

LEMMA CreateOK ==
  ASSUME TypeInv, NEW p \in Procs, create_session(p)
  PROVE  TypeInv'
<1> PICK gsk \in Sessions, j \in Jtis : CreateSession(p, gsk, j)
  BY DEF create_session
<1> DEFINE r == [Idle EXCEPT !.op = "create", !.gsk = gsk, !.new = j]
<1>1. r \in Request /\ Fits(r, "create_get")
  BY IdleType DEF Request, Ops, Fits, CreateSteps, RotateSteps, MapSteps, TtlSteps, Idle
<1>2. "create_get" \in Steps
  BY DEF Steps, CreateSteps
<1>3. req' = [req EXCEPT ![p] = At(r, "create_get")] /\ UNCHANGED keyVars
  BY DEF CreateSession, CreateTokens, create_session
<1> HIDE DEF r
<1>4. StoreTypeOK' /\ RequestsOK'
  BY <1>1, <1>2, <1>3, NewRequest
<1>5. AuthTypeOK' /\ MappingsOK'
  BY TokenHelpers DEF CreateSession, CreateTokens, TypeInv, TypeOK, AuthTypeOK
<1>6. born' \in [Sessions -> Nat \cup {Never}] /\ failures' \in Nat
  BY DEF CreateSession, GenerateId, create_session, TypeInv, TypeOK, StoreTypeOK
<1> QED BY <1>4, <1>5, <1>6 DEF TypeInv, TypeOK

LEMMA RefreshOK ==
  ASSUME TypeInv, NEW p \in Procs, refresh_token(p)
  PROVE  TypeInv'
<1> PICK j \in Jtis, new \in Jtis : RefreshLookup(p, j, new)
  BY DEF refresh_token
<1> DEFINE r == [Idle EXCEPT !.op = "refresh", !.gsk = jti[j].gsk, !.jti = j,
                             !.kind = "refresh", !.new = new]
<1>0. jti[j].gsk \in Sessions
  BY DEF RefreshLookup, TypeInv, MappingsOK
<1>1. r \in Request /\ Fits(r, "ttl_get")
  BY <1>0, IdleType
     DEF Request, Ops, Fits, CreateSteps, RotateSteps, MapSteps, TtlSteps, Idle
<1>2. "ttl_get" \in Steps
  BY DEF Steps, TtlSteps
<1>3. req' = [req EXCEPT ![p] = At(r, "ttl_get")] /\ UNCHANGED keyVars
  BY DEF RefreshLookup, refresh_token
<1> HIDE DEF r
<1>4. StoreTypeOK' /\ RequestsOK'
  BY <1>1, <1>2, <1>3, NewRequest
<1>5. AuthTypeOK' /\ MappingsOK'
  BY <1>0, TokenHelpers DEF RefreshLookup, TypeInv, TypeOK, AuthTypeOK, MappingsOK, Mapped
<1> QED BY <1>4, <1>5 DEF TypeInv, TypeOK, refresh_token

\* The routes that draw no token.
LEMMA CloseProfileOK ==
  ASSUME TypeInv, NEW p \in Procs,
         close_session(p) \/ update_realtime_personal_context(p)
  PROVE  TypeInv'
<1>0. UNCHANGED <<keyVars, authVars, born, failures>>
  BY DEF close_session, update_realtime_personal_context, CloseLookup, ProfileLookup
<1>1. "close_get" \in Steps /\ "profile_get" \in Steps
  BY DEF Steps, CloseSteps, ProfileSteps
<1>2. CASE close_session(p)
  <2> PICK j \in Jtis, kind \in {"access", "refresh"} : CloseLookup(p, j, kind)
    BY <1>2 DEF close_session
  <2> DEFINE r == [Idle EXCEPT !.op = "close_token", !.gsk = jti[j].gsk,
                               !.jti = j, !.kind = kind]
  <2>1. jti[j].gsk \in Sessions
    BY DEF CloseLookup, TypeInv, MappingsOK
  <2>2. r \in Request /\ Fits(r, "close_get")
    BY <2>1, IdleType
       DEF Request, Ops, Fits, CreateSteps, RotateSteps, MapSteps, TtlSteps, Idle
  <2>3. req' = [req EXCEPT ![p] = At(r, "close_get")]
    BY DEF CloseLookup
  <2> HIDE DEF r
  <2>4. StoreTypeOK' /\ RequestsOK'
    BY <1>0, <1>1, <2>2, <2>3, NewRequest
  <2> QED BY <1>0, <2>4
          DEF TypeInv, TypeOK, AuthTypeOK, MappingsOK, Mapped, authVars
<1>3. CASE update_realtime_personal_context(p)
  <2> PICK j \in Jtis, cusno \in Cusnos \cup {None} : ProfileLookup(p, j, cusno)
    BY <1>3 DEF update_realtime_personal_context
  <2> DEFINE u == [NoHash EXCEPT !.cusno = cusno]
             r == [Idle EXCEPT !.op = "profile", !.gsk = jti[j].gsk, !.upd = u]
  <2>1. jti[j].gsk \in Sessions
    BY DEF ProfileLookup, TypeInv, MappingsOK
  <2>2. u \in Hash
    BY IdleType DEF Hash
  <2>3. req' = [req EXCEPT ![p] = At(r, "profile_get")]
    BY DEF ProfileLookup
  <2> HIDE DEF u
  <2>4. r \in Request /\ Fits(r, "profile_get")
    BY <2>1, <2>2, IdleType
       DEF Request, Ops, Fits, CreateSteps, RotateSteps, MapSteps, TtlSteps, Idle
  <2> HIDE DEF r
  <2>5. StoreTypeOK' /\ RequestsOK'
    BY <1>0, <1>1, <2>3, <2>4, NewRequest
  <2> QED BY <1>0, <2>5
          DEF TypeInv, TypeOK, AuthTypeOK, MappingsOK, Mapped, authVars
<1> QED BY <1>2, <1>3

\* The hash fields a PATCH writes.
LEMMA PatchUpdatesType ==
  ASSUME NEW h \in Hash, NEW patch \in Patch
  PROVE  PatchUpdates(h, patch) \in Hash
<1>1. TurnIdsPatched(h.turn_ids, patch.turn_id) \in Seq(Turns)
  BY DEF TurnIdsPatched, Accumulate, Hash, Patch
<1>2. (IF patch.session_state = None THEN Absent ELSE patch.session_state)
        \in States \cup {Absent}
  BY DEF Patch
<1> QED BY <1>1, <1>2, IdleType DEF PatchUpdates, Hash

LEMMA ByKeyOK ==
  ASSUME TypeInv, NEW p \in Procs,
         \/ update_session_state(p)
         \/ close_session_by_key(p)
         \/ save_api_result(p)
  PROVE  TypeInv'
<1>0. UNCHANGED <<keyVars, authVars, born, failures>>
  BY DEF update_session_state, close_session_by_key, save_api_result
<1>1. /\ {"ttl_get", "map_get", "update_exists", "turn_push"} \subseteq Steps
      /\ "ttl_get" \in TtlSteps
  BY DEF Steps, TtlSteps, MapSteps, UpdateSteps, TurnSteps
<1>2. ASSUME NEW r \in Request, NEW m \in Steps \cup {"done"}, Fits(r, m),
             req' = [req EXCEPT ![p] = At(r, m)]
      PROVE  TypeInv'
  <2>1. StoreTypeOK' /\ RequestsOK'
    BY <1>0, <1>2, NewRequest
  <2> QED BY <1>0, <2>1 DEF TypeInv, TypeOK, AuthTypeOK, MappingsOK, Mapped, authVars
<1>3. CASE update_session_state(p)
  <2> PICK gsk \in Sessions, patch \in Patches : PatchSessionState(p, gsk, patch)
    BY <1>3 DEF update_session_state
  <2> DEFINE u == PatchUpdates(session[gsk].hash, patch)
             r == [Idle EXCEPT !.op = "patch", !.gsk = gsk, !.upd = u,
                               !.agent = patch.agent, !.bad = patch.bad]
             m == IF patch.session_state = "talk"
                    THEN "ttl_get" ELSE AfterRefreshTtl(r)
  <2>1. patch \in Patch
    BY PatchesAreRequests
  <2>2. u \in Hash
    BY <2>1, PatchUpdatesType DEF TypeInv, TypeOK, StoreTypeOK
  <2>3. req' = [req EXCEPT ![p] = At(r, m)]
    BY DEF PatchSessionState
  <2> HIDE DEF u
  <2>4. r \in Request /\ Fits(r, "ttl_get")
    BY <2>1, <2>2, IdleType
       DEF Request, Patch, Ops, Fits, CreateSteps, RotateSteps, MapSteps, TtlSteps, Idle
  <2> HIDE DEF r
  <2>5. m \in Steps \cup {"done"} /\ Fits(r, m)
    BY <1>1, <2>4, AfterRefreshTtlFits
  <2> HIDE DEF m
  <2> QED BY <1>2, <2>3, <2>4, <2>5
<1>4. CASE close_session_by_key(p)
  <2> PICK gsk \in Sessions : CloseSession(p, gsk)
    BY <1>4 DEF close_session_by_key
  <2> DEFINE u == [NoHash EXCEPT !.session_state = "end"]
             r == [Idle EXCEPT !.op = "close_key", !.gsk = gsk, !.upd = u]
  <2>1. u \in Hash
    BY IdleType DEF Hash, States
  <2>2. req' = [req EXCEPT ![p] = At(r, "update_exists")]
    BY DEF CloseSession
  <2> HIDE DEF u
  <2>3. r \in Request /\ Fits(r, "update_exists")
    BY <2>1, IdleType
       DEF Request, Ops, Fits, CreateSteps, RotateSteps, MapSteps, TtlSteps, Idle
  <2> HIDE DEF r
  <2> QED BY <1>1, <1>2, <2>2, <2>3
<1>5. CASE save_api_result(p)
  <2> PICK gsk \in Sessions : SaveApiResult(p, gsk)
    BY <1>5 DEF save_api_result
  <2> DEFINE r == [Idle EXCEPT !.op = "api_result", !.gsk = gsk]
  <2>1. req' = [req EXCEPT ![p] = At(r, "turn_push")]
    BY DEF SaveApiResult
  <2>2. r \in Request /\ Fits(r, "turn_push")
    BY IdleType
       DEF Request, Ops, Fits, CreateSteps, RotateSteps, MapSteps, TtlSteps, Idle
  <2> HIDE DEF r
  <2> QED BY <1>1, <1>2, <2>1, <2>2
<1> QED BY <1>3, <1>4, <1>5

LEMMA StoreStepOK ==
  ASSUME TypeInv, NEW p \in Procs, StoreStep(p)
  PROVE  TypeInv'
<1>1. CASE CreateHset(p)
  BY <1>1, CreateStepsOK
     DEF StoreStep, StoreOK, TypeInv, TypeOK, AuthTypeOK, MappingsOK, Mapped, authVars
<1>2. CASE RefreshTtl(p) \/ Update(p) \/ SetLocalMapping(p) \/ AddTurn(p) \/ UpdateProfile(p)
  <2>1. StoreOK'
    BY <1>2, RefreshTtlOK, UpdateOK, SetLocalMappingOK, AddTurnOK, UpdateProfileOK
       DEF StoreOK, TypeInv, TypeOK
  <2> QED BY <2>1
          DEF StoreStep, StoreOK, TypeInv, TypeOK, AuthTypeOK, MappingsOK, Mapped, authVars
<1> QED BY <1>1, <1>2 DEF StoreStep

LEMMA CreateStepOK ==
  ASSUME TypeInv, NEW p \in Procs, CreateStep(p)
  PROVE  TypeInv'
<1>1. CASE CreateSessionGet(p)
  <2>1. StoreOK'
    BY <1>1, CreateStepsOK DEF CreateSessionGet, StoreOK, TypeInv, TypeOK
  <2>2. req[p].new \in Jtis
    <3>1. "create_get" \in Steps /\ "create_get" \in CreateSteps
      BY DEF Steps, CreateSteps
    <3> QED BY <1>1, <3>1, InFlight DEF CreateSessionGet, CreateGet, Step, TypeInv, Fits
  <2>3. tok' \in [Jtis -> [access : Nat, refresh : Nat]]
    BY <1>1, <2>2, TokenHelpers DEF CreateSessionGet
  <2> QED BY <1>1, <2>1, <2>2, <2>3
          DEF CreateSessionGet, CreateStep, StoreOK, TypeInv, TypeOK, AuthTypeOK,
              MappingsOK, Mapped
<1>2. CASE CreateSessionAnswer(p)
  <2>1. StoreOK'
    BY <1>2, CreateStepsOK DEF CreateSessionAnswer, StoreOK, TypeInv, TypeOK
  <2>2. req[p].new \in Jtis
    <3>1. "create_expire" \in Steps /\ "create_expire" \in CreateSteps
      BY DEF Steps, CreateSteps
    <3> QED BY <1>2, <3>1, InFlight DEF CreateSessionAnswer, CreateExpire, Step, TypeInv, Fits
  <2> QED BY <1>2, <2>1, <2>2
          DEF CreateSessionAnswer, CreateStep, StoreOK, TypeInv, TypeOK, AuthTypeOK,
              MappingsOK, Mapped
<1> QED BY <1>1, <1>2 DEF CreateStep

LEMMA TokenStepOK ==
  ASSUME TypeInv, NEW p \in Procs, TokenStep(p)
  PROVE  TypeInv'
<1>0. /\ RotateSteps \cup CloseSteps \cup UpdateSteps \subseteq Steps
      /\ {"rotate_del", "rotate_setex"} \subseteq RotateSteps
      /\ {"close_get", "revoke"} \subseteq CloseSteps
      /\ "update_exists" \in UpdateSteps
  BY DEF Steps, RotateSteps, CloseSteps, UpdateSteps
<1>1. UNCHANGED <<keyVars, born, failures>> /\ RequestsOK /\ AuthTypeOK /\ MappingsOK
  BY DEF TokenStep, TypeInv, TypeOK
<1>2. ASSUME RequestsOK', AuthTypeOK', MappingsOK'
      PROVE  TypeInv'
  BY <1>1, <1>2 DEF TypeInv, TypeOK, StoreTypeOK, RequestsOK, keyVars
<1>3. ASSUME NEW l \in RotateSteps, req[p].pc = l
      PROVE  req[p].jti \in Jtis /\ req[p].new \in Jtis /\ req[p].gsk \in Sessions
  BY <1>0, <1>1, <1>3, InFlight DEF Fits
<1>4. CASE RotateDel(p)
  <2>1. RequestsOK'
    BY <1>0, <1>1, <1>4, StepGoesOn, Stays DEF RotateDel
  <2>2. req[p].jti \in Jtis /\ req[p].new \in Jtis
    BY <1>0, <1>3, <1>4 DEF RotateDel, Step
  <2>3. AuthTypeOK' /\ MappingsOK'
    BY <1>1, <1>4, <2>2, TokenHelpers DEF RotateDel, AuthTypeOK
  <2> QED BY <1>2, <2>1, <2>3
<1>5. CASE RotateSetex(p)
  <2>1. RequestsOK'
    BY <1>0, <1>1, <1>5, StepGoesOn, Stays DEF RotateSetex, MapNewPair
  <2>2. req[p].new \in Jtis /\ req[p].gsk \in Sessions
    BY <1>0, <1>3, <1>5 DEF RotateSetex, MapNewPair, Step
  <2>3. AuthTypeOK' /\ MappingsOK'
    BY <1>1, <1>5, <2>2, TokenHelpers DEF RotateSetex, MapNewPair, AuthTypeOK
  <2> QED BY <1>2, <2>1, <2>3
<1>6. CASE CloseGet(p)
  <2> DEFINE s == [req[p] EXCEPT !.upd = [NoHash EXCEPT !.session_state = "end"]]
  <2>1. req[p] \in Request /\ Fits(req[p], "close_get")
    BY <1>0, <1>1, <1>6, InFlight DEF CloseGet
  <2>2. s \in Request /\ Fits(s, "update_exists")
    <3>1. Fits(req[p], "update_exists")
      BY <1>0, <2>1, Stays
    <3>2. [NoHash EXCEPT !.session_state = "end"] \in Hash
      BY IdleType DEF Hash, States
    <3> QED BY <2>1, <3>1, <3>2 DEF Request, Fits
  <2>3. CASE Exists(req[p].gsk)
    <3>1. req' = [req EXCEPT ![p] = At(s, "update_exists")]
      BY <1>6, <2>3 DEF CloseGet, TypeInv, TypeOK, StoreTypeOK
    <3> HIDE DEF s
    <3>2. RequestsOK'
      BY <1>0, <1>1, <2>2, <3>1, GoesOn
    <3> QED BY <1>1, <1>2, <1>6, <3>2
            DEF CloseGet, authVars, AuthTypeOK, MappingsOK, Mapped
  <2>4. CASE ~Exists(req[p].gsk)
    <3>1. req' = [req EXCEPT ![p] = At(req[p], "done")]
      BY <1>6, <2>4 DEF CloseGet, TypeInv, TypeOK, StoreTypeOK
    <3>2. Fits(req[p], "done")
      BY <1>0, <2>1, Stays
    <3>3. RequestsOK'
      BY <1>1, <2>1, <3>1, <3>2, GoesOn
    <3> QED BY <1>1, <1>2, <1>6, <3>3
            DEF CloseGet, authVars, AuthTypeOK, MappingsOK, Mapped
  <2> QED BY <2>3, <2>4
<1>7. CASE Revoke(p)
  <2>1. RequestsOK'
    BY <1>0, <1>1, <1>7, StepGoesOn, Stays DEF Revoke
  <2>2. Verified(req[p].jti, req[p].kind) => req[p].jti \in Jtis
    BY <1>1 DEF Verified, AuthTypeOK
  <2>3. AuthTypeOK' /\ MappingsOK'
    BY <1>1, <1>7, <2>2, TokenHelpers DEF Revoke, AuthTypeOK, MappingsOK, Mapped
  <2> QED BY <1>2, <2>1, <2>3
<1> QED BY <1>4, <1>5, <1>6, <1>7 DEF TokenStep

LEMMA FailOK ==
  ASSUME TypeInv, NEW p \in Procs, Fail(p)
  PROVE  TypeInv'
BY IdleType
   DEF Fail, Fault, TypeInv, TypeOK, StoreTypeOK, AuthTypeOK, RequestsOK, WellFormed,
       MappingsOK, Mapped, keyVars, authVars

\* The steps a lost answer may follow carry the pair they issue.
LEMMA IssuingPair ==
  ASSUME StoreOK, NEW p \in Procs,
         CreateGet(p) \/ CreateExpire(p) \/ MapNewPair(p)
  PROVE  req[p].new \in Jtis /\ req[p].gsk \in Sessions
<1>1. /\ {"create_get", "create_expire", "rotate_setex"} \subseteq Steps
      /\ {"create_get", "create_expire"} \subseteq CreateSteps
      /\ "rotate_setex" \in RotateSteps
  BY DEF Steps, CreateSteps, RotateSteps
<1>2. PICK l \in {"create_get", "create_expire", "rotate_setex"} : req[p].pc = l
  BY DEF CreateGet, CreateExpire, MapNewPair, Step
<1>3. Fits(req[p], l)
  BY <1>1, <1>2, InFlight DEF StoreOK
<1> QED BY <1>1, <1>2, <1>3 DEF Fits

LEMMA LoseAnswerOK ==
  ASSUME TypeInv, NEW p \in Procs, LoseAnswer(p)
  PROVE  TypeInv'
<1>0. StoreOK /\ failures' \in Nat /\ UNCHANGED <<held, born>>
  BY DEF LoseAnswer, Fault, TypeInv, TypeOK, StoreOK
<1>1. CASE /\ CreateGet(p)
           /\ Exists(req[p].gsk)
           /\ Sign(req[p].new)
           /\ UNCHANGED <<jti, owner, parent>>
  <2>1. StoreOK'
    BY <1>0, <1>1, CreateStepsOK
  <2>2. tok' \in [Jtis -> [access : Nat, refresh : Nat]]
    BY <1>0, <1>1, IssuingPair, TokenHelpers DEF TypeInv
  <2> QED BY <1>0, <1>1, <2>1, <2>2
          DEF StoreOK, TypeInv, TypeOK, AuthTypeOK, MappingsOK, Mapped
<1>2. CASE CreateExpire(p) /\ UNCHANGED <<jti, tok, owner, parent>>
  <2>1. StoreOK'
    BY <1>0, <1>2, CreateStepsOK
  <2> QED BY <1>0, <1>2, <2>1
          DEF StoreOK, TypeInv, TypeOK, AuthTypeOK, MappingsOK, Mapped
<1>3. CASE MapNewPair(p) /\ UNCHANGED keyVars
  <2>1. RequestsOK'
    <3>1. "rotate_setex" \in RotateSteps /\ RotateSteps \subseteq Steps
      BY DEF RotateSteps, Steps
    <3> QED BY <1>0, <1>3, <3>1, StepGoesOn, Stays DEF StoreOK, MapNewPair
  <2>2. AuthTypeOK' /\ MappingsOK'
    BY <1>0, <1>3, IssuingPair, TokenHelpers
       DEF MapNewPair, AuthTypeOK, TypeInv, TypeOK
  <2> QED BY <1>0, <1>3, <2>1, <2>2
          DEF StoreOK, TypeInv, TypeOK, StoreTypeOK, RequestsOK, keyVars
<1> QED BY <1>1, <1>2, <1>3 DEF LoseAnswer

LEMMA TickOK ==
  ASSUME TypeInv, Tick
  PROVE  TypeInv'
<1>1. now' \in Nat
  BY DEF Tick, StoreTick, TypeInv, TypeOK, StoreTypeOK
<1>2. /\ \A d \in Deadline : Surviving(d, now') \in Deadline
      /\ Gone \in Deadline
      /\ ~Live(Gone)
  BY DeadlineType, TTLsArePositive DEF Deadline, Surviving, Gone, Persist, Live
<1>3. session' \in [Sessions -> [hash : Hash, exp : Deadline]]
  BY <1>2, IdleType DEF Tick, StoreTick, TypeInv, TypeOK, StoreTypeOK
<1>4. StoreTypeOK' /\ RequestsOK'
  BY <1>1, <1>2, <1>3
     DEF Tick, StoreTick, TypeInv, TypeOK, StoreTypeOK, RequestsOK
<1>5. AuthTypeOK' /\ MappingsOK'
  BY <1>2 DEF Tick, JtiTick, TypeInv, TypeOK, AuthTypeOK, MappingsOK, Mapped, Unmapped
<1> QED BY <1>4, <1>5 DEF Tick, TypeInv, TypeOK

LEMMA NextOK == TypeInv /\ [Next]_vars => TypeInv'
<1> SUFFICES ASSUME TypeInv, [Next]_vars PROVE TypeInv'
  OBVIOUS
<1>1. ASSUME NEW p \in Procs, Start(p) PROVE TypeInv'
  BY <1>1, CreateOK, RefreshOK, CloseProfileOK, ByKeyOK DEF Start
<1>2. ASSUME NEW p \in Procs, Continue(p) PROVE TypeInv'
  BY <1>2, StoreStepOK, CreateStepOK, TokenStepOK DEF Continue
<1>3. ASSUME NEW p \in Procs, Fail(p) PROVE TypeInv'
  BY <1>3, FailOK
<1>4. ASSUME NEW p \in Procs, LoseAnswer(p) PROVE TypeInv'
  BY <1>4, LoseAnswerOK
<1>5. CASE Tick
  BY <1>5, TickOK
<1>6. CASE UNCHANGED vars
  BY <1>6 DEF vars, storeVars, keyVars, authVars, TypeInv, TypeOK, StoreTypeOK,
              AuthTypeOK, RequestsOK, MappingsOK, Mapped
<1> QED BY <1>1, <1>2, <1>3, <1>4, <1>5, <1>6 DEF Next, Horizon

\* Every variable keeps its type, whatever requests overlap and wherever they
\* stop: no handler uses a session key, a jti, an agent or a customer number
\* that its request does not have.
THEOREM TypeCorrect == Spec => []TypeOK
<1>1. TypeInv => TypeOK
  BY DEF TypeInv
<1> QED BY InitOK, NextOK, <1>1, PTL DEF Spec

=============================================================================
