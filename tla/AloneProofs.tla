------------------------------ MODULE AloneProofs ------------------------------
(***************************************************************************)
(* What holds when one handler is in flight at a time (Alone), whatever    *)
(* expires in the middle of it, is lost or stops: the pairs of a session   *)
(* replace each other, and nothing a session has recorded is forgotten.    *)
(***************************************************************************)
EXTENDS PromptProofs

-----------------------------------------------------------------------------
(* One pair per session.                                                   *)

\* A refresh in flight has found the only pair of its session, and once it has
\* deleted that one the session has none.
OnePairInv ==
  /\ \A j, k \in Jtis : Mapped(j) /\ Mapped(k) /\ owner[j] = owner[k] => j = k
  /\ \A p \in Procs : Refreshing(p) =>
       \A j \in Jtis : Mapped(j) /\ owner[j] = req[p].gsk => j = req[p].jti

\* Steps that only drop mappings and start no refresh.
LEMMA DropsKeepOnePair ==
  ASSUME OnePairInv, UNCHANGED owner,
         \A j \in Jtis : jti'[j] = jti[j] \/ ~Live(jti'[j].exp),
         \A q \in Procs : Refreshing(q)' =>
           Refreshing(q) /\ req'[q].gsk = req[q].gsk /\ req'[q].jti = req[q].jti
  PROVE  OnePairInv'
<1>1. \A j \in Jtis : Mapped(j)' => Mapped(j)
  BY DEF Mapped
<1> QED BY <1>1 DEF OnePairInv

\* A new request: only a create maps a pair, for a key nobody has a pair of.
LEMMA StartKeepsOnePair ==
  ASSUME Alone, ~Collisions, TokenInv, KeysKnown, OnePairInv, NEW p \in Procs, Start(p)
  PROVE  OnePairInv'
<1>0. TypeInv /\ Begins(p) /\ \A q \in Procs : q = p
  BY StartBegins DEF TokenInv, Alone
<1>1. CASE Creates(req'[p])
  <2> DEFINE new == req'[p].new
             gsk == req'[p].gsk
  <2>1. /\ new \in Jtis /\ gsk \in Sessions /\ born[gsk] = Never
        /\ Draw(new, gsk, None) /\ SetJtiMapping(new, gsk) /\ req'[p].op = "create"
    BY <1>1 DEF Creates, GenerateId
  <2> HIDE DEF new, gsk
  <2>2. /\ Fresh(new) /\ owner'[new] = gsk
        /\ \A k \in Jtis : k # new => owner'[k] = owner[k]
    BY <1>0, <2>1, DrawnOnce
  <2>3. \A k \in Jtis : k # new => jti'[k] = jti[k]
    BY <1>0, <2>1, PairEffects
  <2>4. \A k \in Jtis : owner[k] # gsk
    BY <2>1, NoneIsNoValue DEF KeysKnown, Fresh
  <2>5. \A q \in Procs : ~Refreshing(q)'
    BY <1>0, <2>1 DEF Refreshing
  <2> QED BY <2>2, <2>3, <2>4, <2>5 DEF OnePairInv, Mapped
<1>2. CASE Refreshes(req'[p])
  <2> DEFINE new == req'[p].new
             old == req'[p].jti
  <2>1. /\ new \in Jtis /\ old \in Jtis /\ Mapped(old) /\ req'[p].gsk = jti[old].gsk
        /\ Draw(new, jti[old].gsk, old) /\ UNCHANGED jti
    BY <1>2 DEF Refreshes, ByToken
  <2> HIDE DEF new, old
  <2>2. jti[old].gsk = owner[old] /\ jti[old].gsk \in Sessions /\ ~Fresh(old)
    BY <1>0, <2>1, OwnedIsDrawn DEF TokenInv, TypeInv, MappingsOK, MappingsFollowOwner
  <2>3. /\ Fresh(new)
        /\ \A k \in Jtis : k # new => owner'[k] = owner[k]
    BY <1>0, <2>1, <2>2, DrawnOnce
  <2>4. \A k \in Jtis : Mapped(k)' => Mapped(k) /\ owner'[k] = owner[k]
    BY <2>1, <2>3, OwnedIsDrawn DEF Mapped
  <2>5. \A k \in Jtis : Mapped(k) /\ owner[k] = owner[old] => k = old
    BY <2>1 DEF OnePairInv
  <2>6. \A q \in Procs : req'[q].gsk = owner[old] /\ req'[q].jti = old
    BY <1>0, <2>1, <2>2 DEF old
  <2> QED BY <2>4, <2>5, <2>6 DEF OnePairInv
<1>3. CASE UNCHANGED <<jti, owner>> /\ req'[p].op # "refresh"
  BY <1>0, <1>3, DropsKeepOnePair DEF Refreshing
<1> QED BY <1>0, <1>1, <1>2, <1>3 DEF Begins, Idle, ByKey

LEMMA HandlerKeepsOnePair ==
  ASSUME Alone, TokenInv, OnRoutes, OnePairInv, NEW p \in Procs,
         Continue(p) \/ LoseAnswer(p)
  PROVE  OnePairInv'
<1>0. /\ TypeInv /\ Onward(p) /\ PairsMove(req[p]) /\ \A q \in Procs : q = p
  BY HandlerIsMove, HandlerPairsMove DEF TokenInv, Alone, Moves
<1>1. \A q \in Procs : Refreshing(q)' =>
        Refreshing(q) /\ req'[q].gsk = req[q].gsk /\ req'[q].jti = req[q].jti
  BY <1>0, GoesOnFrom DEF Refreshing
<1>2. CASE \A j \in Jtis : jti'[j] = jti[j] \/ ~Live(jti'[j].exp)
  BY <1>0, <1>1, <1>2, DropsKeepOnePair DEF PairsMove
<1>3. CASE req[p].pc = "rotate_setex"
  <2>1. Refreshing(p) /\ RefreshKnows(p)
    <3>1. "rotate_setex" \in Steps /\ "rotate_setex" \in RotateSteps
      BY DEF Steps, RotateSteps
    <3>2. Refreshing(p)
      BY <1>0, <1>3, <3>1, InFlight DEF Fits, TypeInv, Refreshing
    <3> QED BY <3>2 DEF TokenInv, RefreshesKnow
  <2>2. ~Mapped(req[p].jti) /\ owner[req[p].new] = req[p].gsk
    BY <1>3, <2>1 DEF RefreshKnows
  <2>3. \A j \in Jtis : ~(Mapped(j) /\ owner[j] = req[p].gsk)
    BY <2>1, <2>2 DEF OnePairInv
  <2>4. \A j \in Jtis : Mapped(j)' => Mapped(j) \/ j = req[p].new
    BY <1>0 DEF PairsMove, Mapped
  <2>5. req'[p].op # "refresh"
    BY <1>0, <1>3 DEF Onward, Leads, Idle, Steps, CreateSteps, TtlSteps, MapSteps,
                      UpdateSteps, RotateSteps, CloseSteps, TurnSteps, ProfileSteps
  <2>6. UNCHANGED owner
    BY <1>0 DEF PairsMove
  <2> QED BY <1>0, <2>2, <2>3, <2>4, <2>5, <2>6 DEF OnePairInv, Refreshing
<1> QED BY <1>0, <1>2, <1>3 DEF PairsMove

LEMMA OnePairNext ==
  ASSUME Alone, ~Collisions
  PROVE  TokenInv /\ OnRoutes /\ TurnInv /\ OnePairInv /\ [Next]_vars => OnePairInv'
<1> SUFFICES ASSUME TokenInv, OnRoutes, TurnInv, OnePairInv, [Next]_vars
             PROVE  OnePairInv'
  OBVIOUS
<1>1. ASSUME NEW p \in Procs, Start(p)  PROVE OnePairInv'
  BY <1>1, StartKeepsOnePair DEF TurnInv
<1>2. ASSUME NEW p \in Procs, Continue(p) \/ LoseAnswer(p)  PROVE OnePairInv'
  BY <1>2, HandlerKeepsOnePair
<1>3. ASSUME NEW p \in Procs, Fail(p)  PROVE OnePairInv'
  <2>1. \A q \in Procs : req'[q] = Idle
    BY <1>3 DEF Fail, Alone, TokenInv, TypeInv, RequestsOK
  <2> QED BY <1>3, <2>1, DropsKeepOnePair DEF Fail, authVars, Idle, Refreshing
<1>4. CASE Tick
  <2>1. \A j \in Jtis : jti'[j] = jti[j] \/ ~Live(jti'[j].exp)
    BY <1>4 DEF Tick, JtiTick, Unmapped, Live
  <2> QED BY <1>4, <2>1, DropsKeepOnePair DEF Tick, StoreTick, Refreshing
<1>5. CASE UNCHANGED vars
  BY <1>5, DropsKeepOnePair DEF vars, storeVars, authVars, Refreshing
<1> QED BY <1>1, <1>2, <1>3, <1>4, <1>5 DEF Next, Horizon

LEMMA OnePairInit == Init => OnePairInv
BY DEF Init, StoreInit, AuthInit, OnePairInv, Mapped, Unmapped, Live, Gone, Refreshing, Idle

\* OneTokenPairPerSession for every run in which one handler is in flight at a
\* time and _generate_id makes no session key twice, whichever handlers stop and
\* whatever expires between two of their commands: DEL of the old mapping comes
\* before SETEX of the new one, and a handler that stops in between leaves the
\* session with no pair, never with two.  (Two refreshes that overlap break it.)
THEOREM PairsReplaceEachOther ==
  ASSUME Alone, ~Collisions
  PROVE  Spec => []OneTokenPairPerSession
<1> DEFINE Inv == TokenInv /\ PairsInv /\ OnRoutes /\ TurnInv /\ OnePairInv
<1>1. Inv => OneTokenPairPerSession
  BY DEF TokenInv, MappingsFollowOwner, OnePairInv, OneTokenPairPerSession
<1>2. Init => Inv
  BY TokenInit, PairsInit, OnRoutesInit, TurnInit, OnePairInit
<1>3. Inv /\ [Next]_vars => Inv'
  <2>1. TokenInv => TypeInv
    BY DEF TokenInv
  <2> QED BY <2>1, TokenNext, PairsNext, OnRoutesNext, TurnNext, OnePairNext
<1> HIDE DEF Inv
<1> QED BY <1>1, <1>2, <1>3, PTL DEF Spec

-----------------------------------------------------------------------------
(* Nothing recorded is forgotten.                                          *)

TurnsIn(ids) == {ids[i] : i \in DOMAIN ids}

\* Writing the list ids over a hash with the list old forgets no turn: an empty
\* list is not written.
NoTurnLost(ids, old) == ids = <<>> \/ TurnsIn(old) \subseteq TurnsIn(ids)

NoAgentLost(agents, old) == agents = {} \/ old \subseteq agents

NothingLost(h, old) ==
  /\ NoTurnLost(h.turn_ids, old.turn_ids)
  /\ NoAgentLost(h.agent_mappings, old.agent_mappings)

\* What a handler has read and will write is no less than what the session
\* holds: the update of a PATCH, the hash refresh_ttl writes back, and the
\* mappings set_local_mapping adds one to.
RecordsInv ==
  \A p \in Procs : req[p].op # "none" =>
    LET r == req[p]
        h == session[r.gsk].hash
    IN  /\ NothingLost(r.upd, h) /\ r.upd.agent_mappings = {}
        /\ r.pc = "ttl_hset" => NothingLost(r.snap, h) /\ NothingLost(r.upd, r.snap)
        /\ r.pc \in {"map_exists", "map_hset"} =>
             h.agent_mappings \subseteq r.snap.agent_mappings

\* The updates of a new request: at most a PATCH writes turns, one more than
\* there were.
LEMMA AccumulateKeeps ==
  ASSUME NEW ids \in Seq(Turns), NEW t \in Turns \cup {None}
  PROVE  TurnsIn(ids) \subseteq TurnsIn(Accumulate(ids, t))
<1>1. t \in Turns => TurnsIn(ids) \subseteq TurnsIn(Append(ids, t))
  BY DEF TurnsIn
<1> QED BY <1>1 DEF Accumulate

LEMMA UpdatesLoseNothing ==
  ASSUME NEW h \in Hash
  PROVE  /\ NothingLost(NoHash, h) /\ NothingLost(Ending, h)
         /\ \A c : NothingLost(Customer(c), h)
         /\ \A patch \in Patches : NothingLost(PatchUpdates(h, patch), h)
<1>1. /\ NothingLost(NoHash, h) /\ NothingLost(Ending, h)
      /\ \A c : NothingLost(Customer(c), h)
  BY DEF NothingLost, NoTurnLost, NoAgentLost, NoHash, Ending, Customer
<1>2. ASSUME NEW patch \in Patches
      PROVE  NothingLost(PatchUpdates(h, patch), h)
  <2>1. h.turn_ids \in Seq(Turns) /\ patch.turn_id \in Turns \cup {None}
    BY PatchesAreRequests DEF Hash, Patch
  <2>2. /\ PatchUpdates(h, patch).turn_ids = TurnIdsPatched(h.turn_ids, patch.turn_id)
        /\ PatchUpdates(h, patch).agent_mappings = {}
    BY DEF PatchUpdates, NoHash
  <2>3. NoTurnLost(TurnIdsPatched(h.turn_ids, patch.turn_id), h.turn_ids)
    BY <2>1, AccumulateKeeps DEF NoTurnLost, TurnIdsPatched
  <2> QED BY <2>2, <2>3 DEF NothingLost, NoAgentLost
<1> QED BY <1>1, <1>2

\* The hash after an HSET has what the fields written have, or what it had.
LEMMA HSetLosesNothing ==
  ASSUME NEW h, NEW u, NothingLost(u, h)
  PROVE  /\ TurnsIn(h.turn_ids) \subseteq TurnsIn(HSet(h, u).turn_ids)
         /\ h.agent_mappings \subseteq HSet(h, u).agent_mappings
         /\ \A w : NothingLost(w, h) /\ NothingLost(w, u) => NothingLost(w, HSet(h, u))
BY DEF HSet, NothingLost, NoTurnLost, NoAgentLost

\* What one command does to the hash of a session.
HashMoves(r) ==
  \A s \in Sessions :
    session'[s].hash = IF s = r.gsk /\ r.pc \in Hsetting
                         THEN HSet(session[s].hash, Writes(r)) ELSE session[s].hash

LEMMA HandlerHashMoves ==
  ASSUME TypeInv, NEW r, SessionMoves(r)
  PROVE  HashMoves(r)
<1>0. session \in [Sessions -> [hash : Hash, exp : Deadline]]
  BY DEF TypeInv, TypeOK, StoreTypeOK
<1>1. CASE r.pc \in Hsetting /\ HSetSession(r.gsk, Writes(r))
  BY <1>0, <1>1 DEF HSetSession, HashMoves
<1>2. CASE r.pc \in Expiring /\ ExpireSession(r.gsk)
  BY <1>0, <1>2 DEF ExpireSession, HashMoves, Hsetting, Expiring
<1>3. CASE r.pc \notin Hsetting \cup Expiring /\ UNCHANGED session
  BY <1>3 DEF HashMoves
<1> QED BY <1>1, <1>2, <1>3 DEF SessionMoves

LEMMA WritesLoseNothing ==
  ASSUME TypeInv, OnRoutes, RecordsInv, NEW p \in Procs, req[p].op # "none",
         req[p].pc \in Hsetting
  PROVE  /\ NothingLost(Writes(req[p]), session[req[p].gsk].hash)
         /\ NothingLost(req[p].upd, Writes(req[p]))
<1> DEFINE r == req[p]
           h == session[r.gsk].hash
<1>0. r \in Request /\ h \in Hash /\ r.snap \in Hash /\ r.upd \in Hash
  BY InFlightTyped DEF Request, TypeInv, TypeOK, StoreTypeOK
<1>1. NothingLost(r.upd, h) /\ r.upd.agent_mappings = {}
  BY DEF RecordsInv
<1>2. CASE r.pc = "create_hset"
  <2>1. r.upd = NoHash
    BY <1>0, <1>2, InFlightTyped DEF OnRoute, Request, Ops, TtlSteps, MapSteps, UpdateSteps,
         RotateSteps, CloseSteps, TurnSteps, ProfileSteps
  <2>2. Writes(r).turn_ids = <<>> /\ Writes(r).agent_mappings = {}
    BY <1>2 DEF Writes, NoHash
  <2>3. r.upd.turn_ids = <<>>
    BY <2>1 DEF NoHash
  <2> QED BY <1>1, <2>2, <2>3 DEF NothingLost, NoTurnLost, NoAgentLost
<1>3. CASE r.pc = "ttl_hset"
  <2>1. NothingLost(r.snap, h) /\ NothingLost(r.upd, r.snap)
    BY <1>3 DEF RecordsInv
  <2>2. /\ Writes(r).turn_ids = r.snap.turn_ids
        /\ Writes(r).agent_mappings = r.snap.agent_mappings
    BY <1>0, <1>3 DEF Writes, Hash
  <2> QED BY <2>1, <2>2 DEF NothingLost
<1>4. CASE r.pc = "map_hset"
  <2>1. h.agent_mappings \subseteq r.snap.agent_mappings
    BY <1>4 DEF RecordsInv
  <2>2. Writes(r).turn_ids = <<>> /\ Writes(r).agent_mappings = MappingsWith(r)
    BY <1>4 DEF Writes, NoHash
  <2>3. NoAgentLost(MappingsWith(r), h.agent_mappings)
    BY <2>1 DEF NoAgentLost, MappingsWith
  <2>4. TurnsIn(<<>>) = {}
    BY DEF TurnsIn
  <2> QED BY <1>1, <2>2, <2>3, <2>4 DEF NothingLost, NoTurnLost, NoAgentLost
<1>5. CASE r.pc = "update_hset"
  <2>1. Writes(r) = r.upd
    BY <1>5 DEF Writes
  <2> QED BY <1>1, <2>1 DEF NothingLost, NoTurnLost, NoAgentLost
<1> QED BY <1>2, <1>3, <1>4, <1>5 DEF Hsetting

\* No command of a handler takes from any session what it has recorded.
LEMMA HandlerForgetsNothing ==
  ASSUME TypeInv, OnRoutes, RecordsInv, NEW p \in Procs, SessionMoves(req[p]),
         NEW s \in Sessions
  PROVE  /\ TurnsIn(session[s].hash.turn_ids) \subseteq TurnsIn(session'[s].hash.turn_ids)
         /\ session[s].hash.agent_mappings \subseteq session'[s].hash.agent_mappings
<1>1. HashMoves(req[p])
  BY HandlerHashMoves
<1>2. CASE session'[s].hash = session[s].hash
  BY <1>2
<1>3. CASE /\ s = req[p].gsk /\ req[p].pc \in Hsetting
           /\ session'[s].hash = HSet(session[s].hash, Writes(req[p]))
  <2>1. req[p].op # "none"
    BY <1>3, InFlightTyped DEF Hsetting
  <2>2. NothingLost(Writes(req[p]), session[s].hash)
    BY <1>3, <2>1, WritesLoseNothing
  <2> QED BY <1>3, <2>2, HSetLosesNothing
<1> QED BY <1>1, <1>2, <1>3 DEF HashMoves

LEMMA HandlerKeepsRecords ==
  ASSUME Alone, TypeInv, OnRoutes, RecordsInv, NEW p \in Procs, Moves(p)
  PROVE  RecordsInv'
<1> DEFINE r == req[p]
           r2 == req'[p]
           h == session[r.gsk].hash
           h2 == session'[r.gsk].hash
<1> SUFFICES ASSUME r2.op # "none"
             PROVE  /\ NothingLost(r2.upd, h2) /\ r2.upd.agent_mappings = {}
                    /\ r2.pc = "ttl_hset" => NothingLost(r2.snap, h2)
                                             /\ NothingLost(r2.upd, r2.snap)
                    /\ r2.pc \in {"map_exists", "map_hset"} =>
                         h2.agent_mappings \subseteq r2.snap.agent_mappings
                    /\ r2.gsk = r.gsk
  BY DEF RecordsInv, Alone
<1>0. /\ r.op # "none" /\ r2.gsk = r.gsk /\ r.gsk \in Sessions
      /\ Leads(r, r2.pc) /\ Keeps(r, r2)
  BY GoesOnFrom DEF Moves
<1>1. h2 = IF r.pc \in Hsetting THEN HSet(h, Writes(r)) ELSE h
  BY <1>0, HandlerHashMoves DEF Moves, HashMoves
<1>2. NothingLost(r.upd, h) /\ r.upd.agent_mappings = {}
  BY <1>0 DEF RecordsInv
<1>3. NothingLost(r.upd, h2)
  <2>1. r.pc \in Hsetting => NothingLost(Writes(r), h) /\ NothingLost(r.upd, Writes(r))
    BY <1>0, WritesLoseNothing
  <2> QED BY <1>1, <1>2, <2>1, HSetLosesNothing
<1>4. r2.upd = r.upd \/ r2.upd = Ending
  BY <1>0 DEF Keeps
<1>5. NothingLost(r2.upd, h2) /\ r2.upd.agent_mappings = {}
  <2>1. Ending.turn_ids = <<>> /\ Ending.agent_mappings = {}
    BY DEF Ending, NoHash
  <2> QED BY <1>2, <1>3, <1>4, <2>1 DEF NothingLost, NoTurnLost, NoAgentLost
<1>6. CASE r2.pc = "ttl_hset"
  <2>1. r.pc = "ttl_get" /\ Exists(r.gsk)
    BY <1>0, <1>6 DEF Leads, AfterRefreshTtl, AfterUpdate
  <2>2. r2.snap = h /\ r2.upd = r.upd /\ h2 = h
    BY <1>0, <1>1, <2>1 DEF Keeps, Hsetting
  <2>3. NothingLost(h, h)
    BY DEF NothingLost, NoTurnLost, NoAgentLost
  <2> QED BY <1>0, <1>2, <1>5, <1>6, <2>2, <2>3
<1>7. CASE r2.pc \in {"map_exists", "map_hset"}
  <2>1. \/ r.pc = "map_get" /\ Exists(r.gsk)
        \/ r.pc = "map_exists" /\ r2.pc = "map_hset"
    BY <1>0, <1>7 DEF Leads, AfterRefreshTtl, AfterUpdate
  <2>2. h2 = h
    BY <1>1, <2>1 DEF Hsetting
  <2>3. CASE r.pc = "map_get" /\ Exists(r.gsk)
    <3>1. r2.snap.agent_mappings = h.agent_mappings
      BY <1>0, <2>3 DEF Keeps
    <3> QED BY <1>0, <1>5, <1>7, <2>2, <3>1
  <2>4. CASE r.pc = "map_exists" /\ r2.pc = "map_hset"
    <3>1. r2.snap = r.snap
      BY <1>0, <2>4 DEF Keeps
    <3>2. h.agent_mappings \subseteq r.snap.agent_mappings
      BY <1>0, <2>4 DEF RecordsInv
    <3> QED BY <1>0, <1>5, <1>7, <2>2, <3>1, <3>2
  <2> QED BY <2>1, <2>3, <2>4
<1> QED BY <1>0, <1>5, <1>6, <1>7

LEMMA StartKeepsRecords ==
  ASSUME Alone, TypeInv, RecordsInv, NEW p \in Procs, Start(p)
  PROVE  RecordsInv'
<1> DEFINE r == req'[p]
           h == session[r.gsk].hash
<1>0. Begins(p) /\ UNCHANGED session
  BY StartBegins DEF Begins, keyVars
<1> SUFFICES ASSUME r.op # "none"
             PROVE  /\ NothingLost(r.upd, h) /\ r.upd.agent_mappings = {}
                    /\ r.pc \notin {"ttl_hset", "map_exists", "map_hset"}
  BY <1>0 DEF RecordsInv, Alone
<1>1. r.pc \notin {"ttl_hset", "map_exists", "map_hset"}
  BY <1>0 DEF Begins, Creates, Refreshes, ByKey, Idle
<1>2. \/ r.upd \in {NoHash, Ending}
      \/ \E c : r.upd = Customer(c)
      \/ r.gsk \in Sessions /\ \E patch \in Patches : r.upd = PatchUpdates(h, patch)
  BY <1>0 DEF Begins, Creates, Refreshes, ByKey, Idle
<1>3. /\ NoHash.turn_ids = <<>> /\ Ending.turn_ids = <<>>
      /\ NoHash.agent_mappings = {} /\ Ending.agent_mappings = {}
      /\ \A c : Customer(c).turn_ids = <<>> /\ Customer(c).agent_mappings = {}
      /\ \A patch : PatchUpdates(h, patch).agent_mappings = {}
  BY DEF NoHash, Ending, Customer, PatchUpdates
<1>4. CASE r.upd.turn_ids = <<>> /\ r.upd.agent_mappings = {}
  BY <1>1, <1>4 DEF NothingLost, NoTurnLost, NoAgentLost
<1>5. CASE r.gsk \in Sessions /\ \E patch \in Patches : r.upd = PatchUpdates(h, patch)
  <2>1. h \in Hash
    BY <1>5 DEF TypeInv, TypeOK, StoreTypeOK
  <2>2. \A patch \in Patches : NothingLost(PatchUpdates(h, patch), h)
    BY <2>1, UpdatesLoseNothing
  <2> QED BY <1>1, <1>3, <1>5, <2>2
<1> QED BY <1>2, <1>3, <1>4, <1>5

LEMMA TickKeepsRecords ==
  ASSUME TypeInv, OnRoutes, RecordsInv, Tick
  PROVE  RecordsInv'
<1>1. \A s \in Sessions : session'[s].hash \in {session[s].hash, NoHash}
  BY DEF Tick, StoreTick
<1>2. UNCHANGED req /\ \A p \in Procs : req[p].op # "none" => req[p].gsk \in Sessions
  BY InFlightTyped DEF Tick, StoreTick
<1>3. \A h : NothingLost(h, NoHash)
  BY DEF NothingLost, NoTurnLost, NoAgentLost, TurnsIn, NoHash
<1>4. NoHash.agent_mappings = {}
  BY DEF NoHash
<1> QED BY <1>1, <1>2, <1>3, <1>4 DEF RecordsInv

LEMMA RecordsNext ==
  ASSUME Alone
  PROVE  TypeInv /\ OnRoutes /\ RecordsInv /\ [Next]_vars => RecordsInv'
<1> SUFFICES ASSUME TypeInv, OnRoutes, RecordsInv, [Next]_vars  PROVE RecordsInv'
  OBVIOUS
<1>1. ASSUME NEW p \in Procs, Start(p)  PROVE RecordsInv'
  BY <1>1, StartKeepsRecords
<1>2. ASSUME NEW p \in Procs, Continue(p) \/ LoseAnswer(p)  PROVE RecordsInv'
  BY <1>2, HandlerIsMove, HandlerKeepsRecords
<1>3. ASSUME NEW p \in Procs, Fail(p)  PROVE RecordsInv'
  BY <1>3 DEF Fail, Alone, TypeInv, RequestsOK, Idle, RecordsInv
<1>4. CASE Tick
  BY <1>4, TickKeepsRecords
<1>5. CASE UNCHANGED vars
  BY <1>5 DEF vars, storeVars, keyVars, RecordsInv
<1> QED BY <1>1, <1>2, <1>3, <1>4, <1>5 DEF Next, Horizon

LEMMA RecordsInit == Init => RecordsInv
BY DEF Init, StoreInit, RecordsInv, Idle

\* What RecordsAccumulate says of one step.
LEMMA StepsForgetNothing ==
  ASSUME TypeInv, OnRoutes, RecordsInv, [Next]_vars,
         NEW s \in Sessions, Live(session'[s].exp)
  PROVE  /\ TurnsIn(session[s].hash.turn_ids) \subseteq TurnsIn(session'[s].hash.turn_ids)
         /\ session[s].hash.agent_mappings \subseteq session'[s].hash.agent_mappings
<1>1. CASE session'[s] = session[s]
  BY <1>1
<1>2. ASSUME NEW p \in Procs, Start(p) \/ Fail(p)  PROVE session'[s] = session[s]
  BY <1>2, StartBegins DEF Begins, Fail, keyVars
<1>3. ASSUME NEW p \in Procs, Continue(p) \/ LoseAnswer(p)
      PROVE  /\ TurnsIn(session[s].hash.turn_ids) \subseteq TurnsIn(session'[s].hash.turn_ids)
             /\ session[s].hash.agent_mappings \subseteq session'[s].hash.agent_mappings
  BY <1>3, HandlerIsMove, HandlerForgetsNothing DEF Moves
<1>4. CASE Tick
  BY <1>1, <1>4 DEF Tick, StoreTick, Live, Gone
<1>5. CASE UNCHANGED vars
  BY <1>1, <1>5 DEF vars, storeVars, keyVars
<1> QED BY <1>1, <1>2, <1>3, <1>4, <1>5 DEF Next, Horizon

\* RecordsAccumulate for every run in which one handler is in flight at a time,
\* also when the session expires in the middle of a handler or the handler stops
\* there: every write-back (the whole hash in refresh_ttl, the list of a PATCH,
\* the mappings) is computed from a hash that is still the session's.  (A second
\* PATCH between the read and the write loses a turn.)
THEOREM NothingIsForgotten ==
  ASSUME Alone
  PROVE  Spec => RecordsAccumulate
<1> DEFINE Inv == TypeInv /\ OnRoutes /\ RecordsInv
           Remembers(s) ==
             Exists(s) /\ Live(session'[s].exp) =>
               /\ \A i \in DOMAIN session[s].hash.turn_ids :
                    \E k \in DOMAIN session'[s].hash.turn_ids :
                      session'[s].hash.turn_ids[k] = session[s].hash.turn_ids[i]
               /\ session[s].hash.agent_mappings
                    \subseteq session'[s].hash.agent_mappings
<1>1. Init => Inv
  BY InitOK, OnRoutesInit, RecordsInit
<1>2. Inv /\ [Next]_vars => Inv'
  BY NextOK, OnRoutesNext, RecordsNext
<1>3. Inv /\ [Next]_vars => [\A s \in Sessions : Remembers(s)]_vars
  <2> SUFFICES ASSUME Inv, [Next]_vars, NEW s \in Sessions, Live(session'[s].exp)
               PROVE  Remembers(s)
    OBVIOUS
  <2>1. /\ TurnsIn(session[s].hash.turn_ids) \subseteq TurnsIn(session'[s].hash.turn_ids)
        /\ session[s].hash.agent_mappings \subseteq session'[s].hash.agent_mappings
    BY StepsForgetNothing
  <2> QED BY <2>1 DEF TurnsIn
<1> HIDE DEF Inv
<1> QED BY <1>1, <1>2, <1>3, PTL DEF Spec, RecordsAccumulate
=============================================================================
