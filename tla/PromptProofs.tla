----------------------------- MODULE PromptProofs -----------------------------
(***************************************************************************)
(* What holds when no request straddles a deadline (Prompt), however the   *)
(* requests overlap: a handler never loses the session it works on, so     *)
(* nothing it writes re-creates a key, every key it touches gets its       *)
(* deadline, and what callers were told of a session stays true.           *)
(***************************************************************************)
EXTENDS TurnProofs

-----------------------------------------------------------------------------
(* One command of a handler, as a table.                                   *)

\* Request r goes on with the command m, or answers (m = "done").
Leads(r, m) ==
  \/ r.pc = "create_get"      /\ m = IF Exists(r.gsk) THEN "done" ELSE "create_hset"
  \/ r.pc = "create_hset"     /\ m = "create_expire"
  \/ r.pc = "create_expire"   /\ m = "done"
  \/ r.pc = "ttl_get"         /\ m = IF Exists(r.gsk) THEN "ttl_hset" ELSE AfterRefreshTtl(r)
  \/ r.pc = "ttl_hset"        /\ m = "ttl_expire"
  \/ r.pc = "ttl_expire"      /\ m = "ttl_turns"
  \/ r.pc = "ttl_turns"       /\ m = "ttl_realtime"
  \/ r.pc = "ttl_realtime"    /\ m = IF r.snap.cusno # None THEN "ttl_batch" ELSE AfterRefreshTtl(r)
  \/ r.pc = "ttl_batch"       /\ m = AfterRefreshTtl(r)
  \/ r.pc = "map_get"         /\ m = IF Exists(r.gsk) THEN "map_exists" ELSE "update_exists"
  \/ r.pc = "map_exists"      /\ m = IF Exists(r.gsk) THEN "map_hset" ELSE "update_exists"
  \/ r.pc = "map_hset"        /\ m = "update_exists"
  \/ r.pc = "update_exists"   /\ m = IF Exists(r.gsk) THEN "update_hset" ELSE AfterUpdate(r)
  \/ r.pc = "update_hset"     /\ m = AfterUpdate(r)
  \/ r.pc = "rotate_del"      /\ m = "rotate_setex"
  \/ r.pc = "rotate_setex"    /\ m = "done"
  \/ r.pc = "close_get"       /\ m = IF Exists(r.gsk) THEN "update_exists" ELSE "done"
  \/ r.pc = "revoke"          /\ m = "done"
  \/ r.pc = "turn_push"       /\ m = "turn_expire"
  \/ r.pc = "turn_expire"     /\ m = "done"
  \/ r.pc = "profile_get"     /\ m = IF ~Exists(r.gsk) THEN "done"
                                     ELSE IF r.upd.cusno # None THEN "update_exists"
                                     ELSE "realtime_set"
  \/ r.pc = "realtime_set"    /\ m = "realtime_expire"
  \/ r.pc = "realtime_expire" /\ m \in {"done"} \cup {l \in {"batch_set"} : r.upd.cusno # None}
  \/ r.pc = "batch_set"       /\ m = "batch_expire"
  \/ r.pc = "batch_expire"    /\ m = "done"

\* What a close writes, what a customer number writes.
Ending == [NoHash EXCEPT !.session_state = "end"]
Customer(c) == [NoHash EXCEPT !.cusno = c]

LEMMA Endings == Ending.cusno = None /\ \A c : Customer(c).cusno = c
BY DEF Ending, Customer, NoHash

\* What r carries, r2 carries too; what has been read is in snap.
Keeps(r, r2) ==
  /\ r2.op = r.op /\ r2.gsk = r.gsk /\ r2.jti = r.jti /\ r2.kind = r.kind
  /\ r2.new = r.new /\ r2.agent = r.agent /\ r2.bad = r.bad
  /\ r2.upd = IF r.pc = "close_get" THEN Ending ELSE r.upd
  /\ r.pc = "ttl_get" /\ Exists(r.gsk) => r2.snap = session[r.gsk].hash
  /\ r.pc = "ttl_hset" => r2.snap = Customer(r.snap.cusno)
  /\ r.pc = "map_get" /\ Exists(r.gsk) =>
       r2.snap.agent_mappings = session[r.gsk].hash.agent_mappings
  /\ r.pc \in {"map_exists", "ttl_expire", "ttl_turns"} /\ r2.pc # "update_exists" =>
       r2.snap = r.snap
  /\ r.pc = "ttl_realtime" /\ r.snap.cusno # None => r2.snap = r.snap

Onward(p) ==
  /\ \A q \in Procs \ {p} : req'[q] = req[q]
  /\ \/ req'[p] = Idle /\ Leads(req[p], "done")
     \/ /\ req'[p].pc \in Steps
        /\ Leads(req[p], req'[p].pc)
        /\ Keeps(req[p], req'[p])

\* The HSETs and the fields they write.
Hsetting == {"create_hset", "ttl_hset", "map_hset", "update_hset"}

Writes(r) ==
  CASE r.pc = "create_hset" ->
         [NoHash EXCEPT !.session_state = "start", !.expires_at = ExpiresAt]
    [] r.pc = "ttl_hset" -> [r.snap EXCEPT !.expires_at = ExpiresAt]
    [] r.pc = "map_hset" -> [NoHash EXCEPT !.agent_mappings = MappingsWith(r)]
    [] r.pc = "update_hset" -> r.upd

SessionMoves(r) ==
  \/ r.pc \in Hsetting /\ HSetSession(r.gsk, Writes(r))
  \/ r.pc \in Expiring /\ ExpireSession(r.gsk)
  \/ r.pc \notin Hsetting \cup Expiring /\ UNCHANGED session

\* The commands that write turns and profiles, and those that renew them.
OthersMove(r) ==
  /\ turns' = IF r.pc = "turn_push" THEN [turns EXCEPT ![r.gsk] = Write(@)]
              ELSE IF r.pc \in {"ttl_turns", "turn_expire"}
                THEN [turns EXCEPT ![r.gsk] = Expire(@, now, SessionTTL)]
              ELSE turns
  /\ realtime' =
       IF r.pc = "realtime_set"
         THEN [realtime EXCEPT ![ProfileKey(r.gsk, r.upd.cusno)] = Overwrite(@)]
       ELSE IF r.pc = "realtime_expire"
         THEN [realtime EXCEPT ![ProfileKey(r.gsk, r.upd.cusno)] =
                 Expire(@, now, SessionTTL)]
       ELSE IF r.pc = "ttl_realtime"
         THEN [realtime EXCEPT ![ProfileKey(r.gsk, r.snap.cusno)] =
                 Expire(@, now, SessionTTL)]
       ELSE realtime
  /\ batch' =
       IF r.pc = "batch_set" THEN [batch EXCEPT ![r.upd.cusno] = Overwrite(@)]
       ELSE IF r.pc = "batch_expire"
         THEN [batch EXCEPT ![r.upd.cusno] = Expire(@, now, SessionTTL)]
       ELSE IF r.pc = "ttl_batch"
         THEN [batch EXCEPT ![r.snap.cusno] = Expire(@, now, SessionTTL)]
       ELSE batch

Moves(p) ==
  /\ Onward(p)
  /\ SessionMoves(req[p])
  /\ OthersMove(req[p])
  /\ now' = now /\ born' = born

LEMMA AtFields ==
  ASSUME NEW r \in Request, NEW m, m # "done"
  PROVE  /\ At(r, m).pc = m /\ At(r, m).op = r.op /\ At(r, m).gsk = r.gsk
         /\ At(r, m).jti = r.jti /\ At(r, m).kind = r.kind /\ At(r, m).new = r.new
         /\ At(r, m).agent = r.agent /\ At(r, m).bad = r.bad
         /\ At(r, m).snap = r.snap /\ At(r, m).upd = r.upd
BY DEF At, Request

\* A step of p, given as the record r it goes on with and its next command m.
LEMMA GoesOnward ==
  ASSUME TypeInv, NEW p \in Procs, NEW r \in Request, NEW m \in Steps \cup {"done"},
         req' = [req EXCEPT ![p] = At(r, m)],
         Leads(req[p], m),
         m # "done" => Keeps(req[p], At(r, m))
  PROVE  Onward(p)
<1>1. /\ req'[p] = At(r, m)
      /\ \A q \in Procs \ {p} : req'[q] = req[q]
  BY DEF TypeInv, RequestsOK
<1>2. CASE m = "done"
  BY <1>1, <1>2 DEF At, Onward
<1>3. CASE m # "done"
  <2>1. At(r, m) \in Request
    BY <1>3 DEF At, Request
  <2>2. Keeps(req[p], req'[p])
    BY <1>1, <1>3
  <2>3. req'[p].pc = m
    BY <1>1, <1>3, AtFields
  <2> QED BY <1>1, <1>3, <2>2, <2>3 DEF Onward
<1> QED BY <1>2, <1>3

\* The commands that read nothing into the request.
LEMMA StepOnward ==
  ASSUME TypeInv, NEW p \in Procs, NEW l, NEW m \in Steps \cup {"done"}, Step(p, l, m),
         l \notin {"ttl_hset", "close_get"},
         l \in {"ttl_get", "map_get"} => ~Exists(req[p].gsk),
         Leads(req[p], m)
  PROVE  Onward(p)
<1>0. req[p] \in Request
  BY DEF TypeInv, RequestsOK
<1>1. req' = [req EXCEPT ![p] = At(req[p], m)] /\ req[p].pc = l
  BY DEF Step
<1>2. ASSUME m # "done"  PROVE Keeps(req[p], At(req[p], m))
  BY <1>0, <1>1, <1>2, AtFields DEF Keeps
<1> QED BY <1>0, <1>1, <1>2, GoesOnward

\* The commands that end a subroutine forget what it has read.
LEMMA ReturnOnward ==
  ASSUME TypeInv, NEW p \in Procs, NEW l, NEW m \in Steps \cup {"done"}, Return(p, l, m),
         l \in {"map_exists", "map_hset", "ttl_realtime", "ttl_batch"},
         l = "map_exists" => m = "update_exists",
         l = "ttl_realtime" => req[p].snap.cusno = None,
         Leads(req[p], m)
  PROVE  Onward(p)
<1>0. req[p] \in Request /\ NoHash \in Hash
  BY IdleType DEF TypeInv, RequestsOK
<1> DEFINE r == [req[p] EXCEPT !.snap = NoHash]
<1>1. /\ r \in Request /\ r.op = req[p].op /\ r.gsk = req[p].gsk /\ r.jti = req[p].jti
      /\ r.kind = req[p].kind /\ r.new = req[p].new /\ r.agent = req[p].agent
      /\ r.bad = req[p].bad /\ r.upd = req[p].upd /\ r.snap = NoHash
  BY <1>0 DEF Request
<1>2. req' = [req EXCEPT ![p] = At(r, m)] /\ req[p].pc = l
  BY DEF Return
<1> HIDE DEF r
<1>3. ASSUME m # "done"  PROVE Keeps(req[p], At(r, m))
  BY <1>1, <1>2, <1>3, AtFields DEF Keeps
<1> QED BY <1>1, <1>2, <1>3, GoesOnward

\* Where refresh_ttl and update return to are commands or the end.
LEMMA AfterSteps ==
  ASSUME NEW r
  PROVE  /\ AfterRefreshTtl(r) \in Steps \cup {"done"}
         /\ AfterUpdate(r) \in Steps \cup {"done"}
BY AfterNotSetex

LEMMA SimpleOnward ==
  ASSUME TypeInv, NEW p \in Procs,
         \/ CreateGet(p) \/ CreateHset(p) \/ CreateExpire(p)
         \/ TtlExpire(p) \/ TtlTurns(p) \/ Update(p) \/ AddTurn(p) \/ UpdateProfile(p)
         \/ RotateDel(p) \/ MapNewPair(p) \/ Revoke(p)
  PROVE  Onward(p)
<1> USE DEF Leads, Steps, CreateSteps, TtlSteps, UpdateSteps, RotateSteps, CloseSteps,
            TurnSteps, ProfileSteps, Step
<1>1. CASE CreateGet(p) \/ CreateHset(p) \/ CreateExpire(p)
  BY <1>1, StepOnward DEF CreateGet, CreateHset, CreateExpire
<1>2. CASE TtlExpire(p) \/ TtlTurns(p)
  BY <1>2, StepOnward DEF TtlExpire, TtlTurns
<1>3. CASE Update(p)
  BY <1>3, StepOnward, AfterSteps DEF Update, UpdateExists, UpdateHset
<1>4. CASE AddTurn(p)
  BY <1>4, StepOnward DEF AddTurn, TurnPush, TurnExpire
<1>5. CASE ProfileGet(p)
  BY <1>5, StepOnward DEF ProfileGet
<1>6. CASE RealtimeSet(p) \/ BatchSet(p) \/ BatchExpire(p)
  BY <1>6, StepOnward DEF RealtimeSet, BatchSet, BatchExpire
<1>7. CASE RealtimeExpire(p)
  BY <1>7, StepOnward DEF RealtimeExpire
<1>8. CASE RotateDel(p) \/ MapNewPair(p) \/ Revoke(p)
  BY <1>8, StepOnward DEF RotateDel, MapNewPair, Revoke
<1> QED BY <1>1, <1>2, <1>3, <1>4, <1>5, <1>6, <1>7, <1>8 DEF UpdateProfile

LEMMA ReadingOnward ==
  ASSUME TypeInv, NEW p \in Procs,
         \/ TtlGet(p) \/ TtlHset(p) \/ TtlRealtime(p) \/ TtlBatch(p)
         \/ SetLocalMapping(p) \/ CloseGet(p)
  PROVE  Onward(p)
<1>0. /\ req[p] \in Request /\ NoHash \in Hash
      /\ req \in [Procs -> Request]
      /\ session \in [Sessions -> [hash : Hash, exp : Deadline]]
  BY IdleType DEF TypeInv, TypeOK, StoreTypeOK
<1>1. ASSUME NEW l \in Steps, req[p].pc = l  PROVE req[p].gsk \in Sessions
  BY <1>1, InFlight DEF TypeInv, Fits
<1>2. ASSUME NEW r, NEW l, NEW m \in Steps \cup {"done"}, NEW h \in Hash,
             req[p].pc = l, l \in Steps,
             r = [req[p] EXCEPT !.snap = h],
             req' = [req EXCEPT ![p] = At(r, m)], Leads(req[p], m),
             l \notin {"close_get", "ttl_realtime", "map_exists", "ttl_expire", "ttl_turns"},
             l = "ttl_get" /\ Exists(req[p].gsk) => h = session[req[p].gsk].hash,
             l = "ttl_hset" => h = Customer(req[p].snap.cusno),
             l = "map_get" /\ Exists(req[p].gsk) =>
               h.agent_mappings = session[req[p].gsk].hash.agent_mappings
      PROVE  Onward(p)
  <2>1. /\ r \in Request /\ r.op = req[p].op /\ r.gsk = req[p].gsk /\ r.jti = req[p].jti
        /\ r.kind = req[p].kind /\ r.new = req[p].new /\ r.agent = req[p].agent
        /\ r.bad = req[p].bad /\ r.upd = req[p].upd /\ r.snap = h
    BY <1>0, <1>2 DEF Request
  <2>2. /\ req[p].pc \notin {"close_get", "ttl_realtime", "map_exists", "ttl_expire", "ttl_turns"}
        /\ req[p].pc = "ttl_get" /\ Exists(req[p].gsk) => h = session[req[p].gsk].hash
        /\ req[p].pc = "ttl_hset" => h = Customer(req[p].snap.cusno)
        /\ req[p].pc = "map_get" /\ Exists(req[p].gsk) =>
             h.agent_mappings = session[req[p].gsk].hash.agent_mappings
    BY <1>2
  <2>3. ASSUME m # "done"  PROVE Keeps(req[p], At(r, m))
    <3>1. /\ At(r, m).op = r.op /\ At(r, m).gsk = r.gsk
          /\ At(r, m).jti = r.jti /\ At(r, m).kind = r.kind /\ At(r, m).new = r.new
          /\ At(r, m).agent = r.agent /\ At(r, m).bad = r.bad
          /\ At(r, m).snap = h /\ At(r, m).upd = r.upd
      BY <2>1, <2>3, AtFields
    <3> QED BY <2>1, <2>2, <3>1 DEF Keeps
  <2> QED BY <1>2, <2>1, <2>3, GoesOnward
<1>3. CASE TtlGet(p)
  <2>0. "ttl_get" \in Steps /\ "ttl_hset" \in Steps
    BY DEF Steps, TtlSteps
  <2>1. CASE Exists(req[p].gsk)
    <3> DEFINE h == session[req[p].gsk].hash
    <3>1. h \in Hash
      BY <1>0, <1>1, <1>3, <2>0 DEF TtlGet
    <3>2. /\ req' = [req EXCEPT ![p] = At([req[p] EXCEPT !.snap = h], "ttl_hset")]
          /\ req[p].pc = "ttl_get" /\ Leads(req[p], "ttl_hset")
      BY <1>3, <2>1 DEF TtlGet, Leads
    <3> QED BY <1>2, <2>0, <3>1, <3>2
  <2>2. CASE ~Exists(req[p].gsk)
    <3>1. Step(p, "ttl_get", AfterRefreshTtl(req[p])) /\ Leads(req[p], AfterRefreshTtl(req[p]))
      BY <1>3, <2>2 DEF TtlGet, Step, Leads
    <3> QED BY <2>2, <3>1, StepOnward, AfterSteps
  <2> QED BY <2>1, <2>2
<1>4. CASE TtlHset(p)
  <2>1. /\ "ttl_hset" \in Steps /\ "ttl_expire" \in Steps
        /\ Customer(req[p].snap.cusno) \in Hash
    BY HashUpdatesType DEF Steps, TtlSteps, TypeInv, TypeOK, StoreOK, Customer
  <2>2. Leads(req[p], "ttl_expire") /\ req[p].pc = "ttl_hset"
    BY <1>4 DEF TtlHset, Leads
  <2> QED BY <1>2, <1>4, <2>1, <2>2 DEF TtlHset, Customer
<1>5. CASE TtlRealtime(p)
  <2>1. CASE req[p].snap.cusno # None
    BY <1>5, <2>1, StepOnward DEF TtlRealtime, Leads, Steps, TtlSteps, Step
  <2>2. CASE req[p].snap.cusno = None
    BY <1>5, <2>2, ReturnOnward, AfterSteps DEF TtlRealtime, Leads, Return
  <2> QED BY <2>1, <2>2
<1>6. CASE TtlBatch(p)
  BY <1>6, ReturnOnward, AfterSteps DEF TtlBatch, Leads, Return
<1>7. CASE MapGet(p)
  <2>0. "map_get" \in Steps /\ "map_exists" \in Steps /\ "update_exists" \in Steps
    BY DEF Steps, MapSteps, UpdateSteps
  <2>1. CASE Exists(req[p].gsk)
    <3> DEFINE a == session[req[p].gsk].hash.agent_mappings
               h == [req[p].snap EXCEPT !.agent_mappings = a]
    <3>1. h \in Hash /\ h.agent_mappings = a
      BY <1>0, <1>1, <1>7, <2>0 DEF MapGet, Request, Hash
    <3>2. /\ req' = [req EXCEPT ![p] = At([req[p] EXCEPT !.snap = h], "map_exists")]
          /\ req[p].pc = "map_get" /\ Leads(req[p], "map_exists")
      <4>1. req' = [req EXCEPT ![p] = At([req[p] EXCEPT !.snap.agent_mappings = a],
                                         "map_exists")]
            /\ req[p].pc = "map_get"
        BY <1>7, <2>1 DEF MapGet
      <4>2. [req[p] EXCEPT !.snap.agent_mappings = a] = [req[p] EXCEPT !.snap = h]
        BY <1>0 DEF Request
      <4> QED BY <2>1, <4>1, <4>2 DEF Leads
    <3> HIDE DEF h
    <3> QED BY <1>2, <2>0, <3>1, <3>2
  <2>2. CASE ~Exists(req[p].gsk)
    <3>1. Step(p, "map_get", "update_exists") /\ Leads(req[p], "update_exists")
      BY <1>7, <2>2 DEF MapGet, Step, Leads
    <3> QED BY <2>0, <2>2, <3>1, StepOnward
  <2> QED BY <2>1, <2>2
<1>8. CASE MapExists(p)
  <2>1. CASE Exists(req[p].gsk)
    BY <1>8, <2>1, StepOnward DEF MapExists, Leads, Steps, MapSteps, Step
  <2>2. CASE ~Exists(req[p].gsk)
    BY <1>8, <2>2, ReturnOnward DEF MapExists, Leads, Steps, UpdateSteps, Return
  <2> QED BY <2>1, <2>2
<1>9. CASE MapHset(p)
  BY <1>9, ReturnOnward DEF MapHset, Leads, Steps, UpdateSteps, Return
<1>10. CASE CloseGet(p)
  <2>1. CASE Exists(req[p].gsk)
    <3> DEFINE r == [req[p] EXCEPT !.upd = Ending]
    <3>1. Ending \in Hash
      BY HashUpdatesType DEF TypeInv, TypeOK, StoreOK, Ending
    <3>2. /\ r \in Request /\ r.op = req[p].op /\ r.gsk = req[p].gsk /\ r.jti = req[p].jti
          /\ r.kind = req[p].kind /\ r.new = req[p].new /\ r.agent = req[p].agent
          /\ r.bad = req[p].bad /\ r.upd = Ending /\ r.snap = req[p].snap
      BY <1>0, <3>1 DEF Request
    <3>3. /\ req' = [req EXCEPT ![p] = At(r, "update_exists")]
          /\ req[p].pc = "close_get" /\ Leads(req[p], "update_exists")
          /\ "update_exists" \in Steps
      BY <1>10, <2>1 DEF CloseGet, Leads, Steps, UpdateSteps, Ending
    <3> HIDE DEF r
    <3>4. Keeps(req[p], At(r, "update_exists"))
      BY <3>2, <3>3, AtFields DEF Keeps
    <3> QED BY <3>2, <3>3, <3>4, GoesOnward
  <2>2. CASE ~Exists(req[p].gsk)
    <3>1. req' = [req EXCEPT ![p] = Idle] /\ Leads(req[p], "done")
      BY <1>10, <2>2 DEF CloseGet, At, Leads
    <3> QED BY <1>0, <3>1 DEF Onward
  <2> QED BY <2>1, <2>2
<1> QED BY <1>3, <1>4, <1>5, <1>6, <1>7, <1>8, <1>9, <1>10 DEF SetLocalMapping

\* The keys after one command.
KeysMove(p) == SessionMoves(req[p]) /\ OthersMove(req[p]) /\ now' = now

LEMMA HashKeysMove ==
  ASSUME TypeInv, NEW p \in Procs,
         \/ CreateHset(p) \/ CreateExpire(p) \/ TtlHset(p) \/ TtlExpire(p)
         \/ UpdateHset(p) \/ MapHset(p)
  PROVE  KeysMove(p)
<1> USE DEF KeysMove, OthersMove, Step, Return
<1>1. CASE CreateHset(p)
  BY <1>1 DEF CreateHset, SessionMoves, Hsetting, Writes
<1>2. CASE CreateExpire(p) \/ TtlExpire(p)
  BY <1>2 DEF CreateExpire, TtlExpire, SessionMoves, Expiring
<1>3. CASE TtlHset(p)
  BY <1>3 DEF TtlHset, SessionMoves, Hsetting, Writes
<1>4. CASE UpdateHset(p)
  BY <1>4 DEF UpdateHset, SessionMoves, Hsetting, Writes
<1>5. CASE MapHset(p)
  BY <1>5 DEF MapHset, SessionMoves, Hsetting, Writes
<1> QED BY <1>1, <1>2, <1>3, <1>4, <1>5

LEMMA OtherKeysMove ==
  ASSUME TypeInv, NEW p \in Procs,
         \/ TtlTurns(p) \/ TtlRealtime(p) \/ TtlBatch(p) \/ AddTurn(p)
         \/ RealtimeSet(p) \/ RealtimeExpire(p) \/ BatchSet(p) \/ BatchExpire(p)
  PROVE  KeysMove(p)
<1> USE DEF KeysMove, OthersMove, SessionMoves, Hsetting, Expiring, Step, Return
<1>1. CASE TtlTurns(p) \/ AddTurn(p)
  BY <1>1 DEF TtlTurns, AddTurn, TurnPush, TurnExpire
<1>2. CASE TtlRealtime(p)
  BY <1>2 DEF TtlRealtime
<1>3. CASE TtlBatch(p)
  BY <1>3 DEF TtlBatch
<1>4. CASE RealtimeSet(p) \/ RealtimeExpire(p)
  BY <1>4 DEF RealtimeSet, RealtimeExpire, RealtimeKey
<1>5. CASE BatchSet(p) \/ BatchExpire(p)
  BY <1>5 DEF BatchSet, BatchExpire
<1> QED BY <1>1, <1>2, <1>3, <1>4, <1>5

LEMMA NoKeysMove ==
  ASSUME TypeInv, NEW p \in Procs, UNCHANGED keyVars,
         req[p].pc \in {"create_get", "ttl_get", "map_get", "map_exists", "update_exists",
                        "rotate_del", "rotate_setex", "close_get", "revoke", "profile_get"}
  PROVE  KeysMove(p)
BY DEF KeysMove, OthersMove, SessionMoves, Hsetting, Expiring, keyVars

\* Every command a handler sends, answered or not.
LEMMA HandlerIsMove ==
  ASSUME TypeInv, NEW p \in Procs, Continue(p) \/ LoseAnswer(p)
  PROVE  Moves(p)
<1>1. born' = born
  BY DEF Continue, StoreStep, CreateStep, TokenStep, LoseAnswer
<1> USE DEF Moves, KeysMove
<1>2. CASE \/ CreateHset(p) \/ CreateExpire(p) \/ TtlHset(p) \/ TtlExpire(p)
           \/ UpdateHset(p) \/ MapHset(p)
  BY <1>1, <1>2, HashKeysMove, SimpleOnward, ReadingOnward DEF Update, SetLocalMapping
<1>3. CASE \/ TtlTurns(p) \/ TtlRealtime(p) \/ TtlBatch(p) \/ AddTurn(p)
           \/ RealtimeSet(p) \/ RealtimeExpire(p) \/ BatchSet(p) \/ BatchExpire(p)
  BY <1>1, <1>3, OtherKeysMove, SimpleOnward, ReadingOnward DEF UpdateProfile
<1>4. CASE CreateGet(p) \/ UpdateExists(p) \/ ProfileGet(p)
  <2>1. KeysMove(p)
    BY <1>4, NoKeysMove DEF CreateGet, UpdateExists, ProfileGet, Step
  <2> QED BY <1>1, <1>4, <2>1, SimpleOnward DEF Update, UpdateProfile
<1>5. CASE TtlGet(p) \/ MapGet(p) \/ MapExists(p)
  <2>1. KeysMove(p)
    BY <1>5, NoKeysMove DEF TtlGet, MapGet, MapExists, Step, Return
  <2> QED BY <1>1, <1>5, <2>1, ReadingOnward DEF SetLocalMapping
<1>6. CASE UNCHANGED keyVars /\ (RotateDel(p) \/ MapNewPair(p) \/ Revoke(p))
  <2>1. KeysMove(p)
    BY <1>6, NoKeysMove DEF RotateDel, MapNewPair, Revoke, Step
  <2> QED BY <1>1, <1>6, <2>1, SimpleOnward
<1>7. CASE UNCHANGED keyVars /\ CloseGet(p)
  <2>1. KeysMove(p)
    BY <1>7, NoKeysMove DEF CloseGet
  <2> QED BY <1>1, <1>7, <2>1, ReadingOnward
<1>8. CASE StoreStep(p)
  BY <1>2, <1>3, <1>4, <1>5, <1>8
     DEF StoreStep, RefreshTtl, Update, SetLocalMapping, UpdateProfile
<1>9. CASE CreateStep(p)
  BY <1>2, <1>4, <1>9 DEF CreateStep, CreateSessionGet, CreateSessionAnswer
<1>10. CASE TokenStep(p)
  BY <1>6, <1>7, <1>10 DEF TokenStep, RotateSetex
<1>11. CASE LoseAnswer(p)
  BY <1>2, <1>4, <1>6, <1>11 DEF LoseAnswer
<1> QED BY <1>8, <1>9, <1>10, <1>11 DEF Continue

-----------------------------------------------------------------------------
(* A new request.                                                          *)

\* Requests by token: the session is the one the pair leads to.
ByToken(r, j) ==
  /\ j \in held /\ j \in Jtis /\ Mapped(j)
  /\ r.gsk = jti[j].gsk
  /\ r.snap = NoHash

\* Requests by key.
ByKey(r) ==
  /\ r.gsk \in Sessions /\ Exists(r.gsk)
  /\ r.snap = NoHash
  /\ \/ /\ r.op = "patch" /\ r.pc \in {"ttl_get", "map_get", "update_exists"}
        /\ \E patch \in Patches : r.upd = PatchUpdates(session[r.gsk].hash, patch)
     \/ /\ r.op = "close_key" /\ r.pc = "update_exists"
        /\ r.upd = Ending
     \/ r.op = "api_result" /\ r.pc = "turn_push" /\ r.upd = NoHash

Creates(r) ==
  /\ r.op = "create" /\ r.pc = "create_get"
  /\ r.gsk \in Sessions /\ r.new \in Jtis /\ r.snap = NoHash /\ r.upd = NoHash
  /\ GenerateId(r.gsk) /\ Draw(r.new, r.gsk, None) /\ SetJtiMapping(r.new, r.gsk)

Refreshes(r) ==
  /\ r.op = "refresh" /\ r.pc = "ttl_get"
  /\ ByToken(r, r.jti) /\ r.new \in Jtis /\ r.upd = NoHash
  /\ Draw(r.new, r.gsk, r.jti) /\ UNCHANGED <<jti, born>>

Begins(p) ==
  /\ req[p] = Idle
  /\ \A q \in Procs \ {p} : req'[q] = req[q]
  /\ UNCHANGED <<keyVars, tok, held, failures>>
  /\ \/ Creates(req'[p])
     \/ Refreshes(req'[p])
     \/ /\ UNCHANGED <<jti, owner, parent, born>>
        /\ \/ req'[p] = Idle
           \/ /\ req'[p].op = "close_token" /\ req'[p].pc = "close_get"
              /\ ByToken(req'[p], req'[p].jti) /\ req'[p].upd = NoHash
              /\ Verified(req'[p].jti, req'[p].kind)
           \/ /\ req'[p].op = "profile" /\ req'[p].pc = "profile_get"
              /\ \E j \in Jtis : ByToken(req'[p], j)
              /\ \E c \in Cusnos \cup {None} : req'[p].upd = Customer(c)
           \/ ByKey(req'[p])

LEMMA StartBegins ==
  ASSUME TypeInv, NEW p \in Procs, Start(p)
  PROVE  Begins(p)
<1>0. req \in [Procs -> Request]
  BY DEF TypeInv, RequestsOK
<1>1. ASSUME NEW r, req' = [req EXCEPT ![p] = r], req[p] = Idle
      PROVE  req'[p] = r /\ \A q \in Procs \ {p} : req'[q] = req[q]
  BY <1>0, <1>1
<1>2. CASE create_session(p)
  <2> PICK gsk \in Sessions, j \in Jtis : CreateSession(p, gsk, j)
    BY <1>2 DEF create_session
  <2> DEFINE r == At([Idle EXCEPT !.op = "create", !.gsk = gsk, !.new = j], "create_get")
  <2>1. /\ r.op = "create" /\ r.pc = "create_get" /\ r.gsk = gsk /\ r.new = j
        /\ r.snap = NoHash /\ r.upd = NoHash
    BY DEF At, Idle
  <2>2. /\ req' = [req EXCEPT ![p] = r] /\ req[p] = Idle
        /\ UNCHANGED <<keyVars, tok, held, failures>>
        /\ GenerateId(gsk) /\ Draw(j, gsk, None) /\ SetJtiMapping(j, gsk)
    BY <1>2 DEF create_session, CreateSession, CreateTokens
  <2> HIDE DEF r
  <2>3. req'[p] = r /\ Creates(r)
    BY <1>1, <2>1, <2>2 DEF Creates
  <2> QED BY <1>1, <2>2, <2>3 DEF Begins
<1>3. CASE refresh_token(p)
  <2> PICK j \in Jtis, new \in Jtis : RefreshLookup(p, j, new)
    BY <1>3 DEF refresh_token
  <2> DEFINE r == At([Idle EXCEPT !.op = "refresh", !.gsk = jti[j].gsk, !.jti = j,
                                  !.kind = "refresh", !.new = new], "ttl_get")
  <2>1. /\ r.op = "refresh" /\ r.pc = "ttl_get" /\ r.gsk = jti[j].gsk /\ r.new = new
        /\ r.jti = j /\ r.snap = NoHash /\ r.upd = NoHash
    BY DEF At, Idle
  <2>2. /\ req' = [req EXCEPT ![p] = r] /\ req[p] = Idle
        /\ UNCHANGED <<keyVars, tok, held, failures, jti, born>>
        /\ Draw(new, jti[j].gsk, j) /\ Mapped(j) /\ j \in held
    BY <1>3 DEF refresh_token, RefreshLookup, Verified
  <2> HIDE DEF r
  <2>3. req'[p] = r /\ Refreshes(r)
    BY <1>1, <2>1, <2>2 DEF Refreshes, ByToken
  <2> QED BY <1>1, <2>2, <2>3 DEF Begins
<1>4. CASE close_session(p)
  <2> PICK j \in Jtis, kind \in {"access", "refresh"} : CloseLookup(p, j, kind)
    BY <1>4 DEF close_session
  <2> DEFINE r == At([Idle EXCEPT !.op = "close_token", !.gsk = jti[j].gsk, !.jti = j,
                                  !.kind = kind], "close_get")
  <2>1. /\ r.op = "close_token" /\ r.pc = "close_get" /\ r.gsk = jti[j].gsk
        /\ r.jti = j /\ r.kind = kind /\ r.snap = NoHash /\ r.upd = NoHash
    BY DEF At, Idle
  <2>2. /\ req' = [req EXCEPT ![p] = r] /\ req[p] = Idle
        /\ UNCHANGED <<keyVars, failures, authVars, born>>
        /\ Verified(j, kind) /\ Mapped(j)
    BY <1>4 DEF close_session, CloseLookup
  <2> HIDE DEF r
  <2>3. req'[p] = r /\ ByToken(r, j) /\ Verified(r.jti, r.kind)
    BY <1>1, <2>1, <2>2 DEF ByToken, Verified
  <2> QED BY <1>1, <2>1, <2>2, <2>3 DEF Begins, authVars
<1>5. CASE update_realtime_personal_context(p)
  <2> PICK j \in Jtis, c \in Cusnos \cup {None} : ProfileLookup(p, j, c)
    BY <1>5 DEF update_realtime_personal_context
  <2> DEFINE r == At([Idle EXCEPT !.op = "profile", !.gsk = jti[j].gsk,
                                  !.upd = Customer(c)], "profile_get")
  <2>1. /\ r.op = "profile" /\ r.pc = "profile_get" /\ r.gsk = jti[j].gsk
        /\ r.snap = NoHash /\ r.upd = Customer(c)
    BY DEF At, Idle
  <2>2. /\ req' = [req EXCEPT ![p] = r] /\ req[p] = Idle
        /\ UNCHANGED <<keyVars, failures, authVars, born>>
        /\ j \in held /\ Mapped(j)
    BY <1>5 DEF update_realtime_personal_context, ProfileLookup, Verified, Customer
  <2> HIDE DEF r
  <2>3. req'[p] = r /\ ByToken(r, j)
    BY <1>1, <2>1, <2>2 DEF ByToken
  <2> QED BY <1>1, <2>1, <2>2, <2>3 DEF Begins, authVars
<1>6. ASSUME NEW r, req' = [req EXCEPT ![p] = r], req[p] = Idle, ByKey(r) \/ r = Idle,
             UNCHANGED <<keyVars, authVars, born, failures>>
      PROVE  Begins(p)
  BY <1>1, <1>6 DEF Begins, authVars
<1>7. CASE update_session_state(p)
  <2> PICK gsk \in Sessions, patch \in Patches : PatchSessionState(p, gsk, patch)
    BY <1>7 DEF update_session_state
  <2> DEFINE u == PatchUpdates(session[gsk].hash, patch)
             r0 == [Idle EXCEPT !.op = "patch", !.gsk = gsk, !.upd = u,
                                !.agent = patch.agent, !.bad = patch.bad]
             m == IF patch.session_state = "talk" THEN "ttl_get" ELSE AfterRefreshTtl(r0)
             r == At(r0, m)
  <2>1. m \in {"ttl_get", "map_get", "update_exists", "done"}
    BY DEF AfterRefreshTtl, Idle
  <2>2. m # "done" => /\ r.op = "patch" /\ r.gsk = gsk /\ r.snap = NoHash
                      /\ r.upd = u /\ r.pc = m
    BY DEF At, Idle
  <2>3. m = "done" => r = Idle
    BY DEF At
  <2>4. /\ req' = [req EXCEPT ![p] = r] /\ req[p] = Idle /\ Exists(gsk)
        /\ UNCHANGED <<keyVars, authVars, born, failures>>
    BY <1>7 DEF update_session_state, PatchSessionState
  <2> HIDE DEF r0, m, r
  <2>5. ByKey(r) \/ r = Idle
    BY <2>1, <2>2, <2>3, <2>4 DEF ByKey
  <2> QED BY <1>6, <2>4, <2>5
<1>8. CASE close_session_by_key(p)
  <2> PICK gsk \in Sessions : CloseSession(p, gsk)
    BY <1>8 DEF close_session_by_key
  <2> DEFINE r == At([Idle EXCEPT !.op = "close_key", !.gsk = gsk, !.upd = Ending],
                     "update_exists")
  <2>1. /\ r.op = "close_key" /\ r.pc = "update_exists" /\ r.gsk = gsk
        /\ r.snap = NoHash /\ r.upd = Ending
    BY DEF At, Idle
  <2>2. /\ req' = [req EXCEPT ![p] = r] /\ req[p] = Idle /\ Exists(gsk)
        /\ UNCHANGED <<keyVars, authVars, born, failures>>
    BY <1>8 DEF close_session_by_key, CloseSession, Ending
  <2> HIDE DEF r
  <2> QED BY <1>6, <2>1, <2>2 DEF ByKey
<1>9. CASE save_api_result(p)
  <2> PICK gsk \in Sessions : SaveApiResult(p, gsk)
    BY <1>9 DEF save_api_result
  <2> DEFINE r == At([Idle EXCEPT !.op = "api_result", !.gsk = gsk], "turn_push")
  <2>1. /\ r.op = "api_result" /\ r.pc = "turn_push" /\ r.gsk = gsk
        /\ r.snap = NoHash /\ r.upd = NoHash
    BY DEF At, Idle
  <2>2. /\ req' = [req EXCEPT ![p] = r] /\ req[p] = Idle /\ Exists(gsk)
        /\ UNCHANGED <<keyVars, authVars, born, failures>>
    BY <1>9 DEF save_api_result, SaveApiResult
  <2> HIDE DEF r
  <2> QED BY <1>6, <2>1, <2>2 DEF ByKey
<1> QED BY <1>2, <1>3, <1>4, <1>5, <1>7, <1>8, <1>9 DEF Start

-----------------------------------------------------------------------------
(* Every request keeps to the commands of its operation.                   *)

OnRoute(r) ==
  /\ r.op = "none" => r.pc = "idle"
  /\ r.op = "create" => r.pc \in CreateSteps
  /\ r.op = "refresh" => r.pc \in TtlSteps \cup RotateSteps
  /\ r.op = "close_token" => r.pc \in CloseSteps \cup UpdateSteps
  /\ r.op = "profile" => r.pc \in ProfileSteps \cup UpdateSteps
  /\ r.op = "patch" => r.pc \in TtlSteps \cup MapSteps \cup UpdateSteps
  /\ r.op = "close_key" => r.pc \in UpdateSteps
  /\ r.op = "api_result" => r.pc \in TurnSteps
  /\ r.op \in {"none", "create", "refresh"} => r.upd = NoHash
  /\ r.op # "profile" => r.upd.cusno = None

OnRoutes == \A p \in Procs : OnRoute(req[p])

LEMMA IdleOnRoute == OnRoute(Idle)
BY DEF OnRoute, Idle, NoHash

LEMMA LeadsOnRoute ==
  ASSUME NEW r \in Request, NEW m \in Steps, OnRoute(r), Fits(r, r.pc), Leads(r, m),
         NEW r2, r2.op = r.op, r2.pc = m,
         r2.upd = IF r.pc = "close_get" THEN Ending ELSE r.upd
  PROVE  OnRoute(r2)
<1> USE DEF Steps, CreateSteps, TtlSteps, MapSteps, UpdateSteps, RotateSteps, CloseSteps,
            TurnSteps, ProfileSteps
<1>0. r.op \in Ops \cup {"none"} /\ r.pc \in Steps \cup {"idle"}
  BY DEF Request
<1>1. r2.upd = r.upd \/ (r.op = "close_token" /\ r2.upd.cusno = None)
  <2>1. CASE r.pc = "close_get"
    <3>1. r.op = "close_token"
      BY <1>0, <2>1 DEF OnRoute, Ops
    <3> QED BY <2>1, <3>1, Endings
  <2> QED BY <2>1
<1>2. /\ r.op \in {"none", "create", "refresh"} => r2.upd = NoHash
      /\ r.op # "profile" => r2.upd.cusno = None
  BY <1>1 DEF OnRoute
<1>3. CASE r.op = "create"
  BY <1>2, <1>3 DEF OnRoute, Leads
<1>4. CASE r.op = "refresh"
  BY <1>2, <1>4 DEF OnRoute, Leads, AfterRefreshTtl
<1>5. CASE r.op = "close_token"
  BY <1>2, <1>5 DEF OnRoute, Leads, AfterUpdate
<1>6. CASE r.op = "profile"
  BY <1>2, <1>6 DEF OnRoute, Leads, AfterUpdate
<1>7. CASE r.op = "patch"
  BY <1>2, <1>7 DEF OnRoute, Leads, AfterUpdate, AfterRefreshTtl, Steps
<1>8. CASE r.op = "close_key"
  BY <1>2, <1>8 DEF OnRoute, Leads, AfterUpdate, Steps
<1>9. CASE r.op = "api_result"
  BY <1>2, <1>9 DEF OnRoute, Leads, Steps
<1>10. CASE r.op = "none"
  BY <1>2, <1>10 DEF OnRoute, Leads
<1> QED BY <1>0, <1>3, <1>4, <1>5, <1>6, <1>7, <1>8, <1>9, <1>10 DEF Ops

LEMMA OnRoutesInit == Init => OnRoutes
BY IdleOnRoute DEF Init, StoreInit, OnRoutes

LEMMA OnRoutesNext == TypeInv /\ OnRoutes /\ [Next]_vars => OnRoutes'
<1> SUFFICES ASSUME TypeInv, OnRoutes, [Next]_vars, NEW q \in Procs
             PROVE  OnRoute(req'[q])
  BY DEF OnRoutes, OnRoute
<1>1. CASE UNCHANGED req
  BY <1>1 DEF OnRoutes
<1>2. ASSUME NEW p \in Procs, Start(p)  PROVE OnRoute(req'[q])
  <2>1. Begins(p)
    BY <1>2, StartBegins
  <2>2. CASE q # p
    BY <2>1, <2>2 DEF Begins, OnRoutes
  <2>3. ASSUME NEW r, \/ Creates(r) \/ Refreshes(r) \/ ByKey(r)
                      \/ r.op = "close_token" /\ r.pc = "close_get" /\ r.upd = NoHash
                      \/ r.op = "profile" /\ r.pc = "profile_get"
        PROVE  OnRoute(r)
    <3>1. CASE ByKey(r)
      <4>1. r.upd.cusno = None
        <5>1. /\ \A h, patch : PatchUpdates(h, patch).cusno = None
              /\ Ending.cusno = None
              /\ NoHash.cusno = None
          BY Endings DEF PatchUpdates, NoHash
        <5> QED BY <3>1, <5>1 DEF ByKey
      <4> QED BY <3>1, <4>1 DEF ByKey, OnRoute, TtlSteps, MapSteps, UpdateSteps, TurnSteps
    <3>2. NoHash.cusno = None
      BY DEF NoHash
    <3> QED BY <2>3, <3>1, <3>2 DEF OnRoute, Creates, Refreshes, CreateSteps,
                                    TtlSteps, CloseSteps, ProfileSteps
  <2>4. CASE q = p
    BY <2>1, <2>3, <2>4, IdleOnRoute DEF Begins
  <2> QED BY <2>2, <2>4
<1>3. ASSUME NEW p \in Procs, Continue(p) \/ LoseAnswer(p)  PROVE OnRoute(req'[q])
  <2>1. Onward(p)
    BY <1>3, HandlerIsMove DEF Moves
  <2>2. CASE q # p
    BY <2>1, <2>2 DEF Onward, OnRoutes
  <2>3. CASE q = p /\ req'[p] = Idle
    BY <2>3, IdleOnRoute
  <2>4. CASE q = p /\ req'[p] # Idle
    <3>1. /\ req'[p].pc \in Steps /\ Leads(req[p], req'[p].pc) /\ Keeps(req[p], req'[p])
      BY <2>1, <2>4 DEF Onward
    <3>2. req[p] \in Request /\ WellFormed(req[p])
      BY DEF TypeInv, RequestsOK
    <3>3. req[p].pc # "idle"
      BY <3>1 DEF Leads
    <3>4. Fits(req[p], req[p].pc)
      BY <3>2, <3>3 DEF WellFormed, Idle
    <3> QED BY <2>4, <3>1, <3>2, <3>4, LeadsOnRoute DEF Keeps, OnRoutes
  <2> QED BY <2>2, <2>3, <2>4
<1>4. ASSUME NEW p \in Procs, Fail(p)  PROVE OnRoute(req'[q])
  BY <1>4, IdleOnRoute DEF Fail, OnRoutes, TypeInv, RequestsOK
<1>5. CASE Tick \/ Horizon \/ UNCHANGED vars
  BY <1>1, <1>5 DEF Tick, StoreTick, Horizon, vars, storeVars
<1> QED BY <1>2, <1>3, <1>4, <1>5 DEF Next

-----------------------------------------------------------------------------
(* The deadline of a session, and the pairs, after one command.            *)

\* Session s is there until d at least.
Lasts(s, d) == session[s].exp = Persist \/ session[s].exp >= d

FullLife == now + SessionTTL

\* An HSET gives an absent key no deadline, an EXPIRE a full life.
ExpMoves(r) ==
  \A s \in Sessions :
    \/ session'[s].exp = session[s].exp
    \/ Exists(s) /\ s = r.gsk /\ r.pc \in Expiring /\ session'[s].exp = FullLife
    \/ ~Exists(s) /\ s = r.gsk /\ r.pc \in Hsetting /\ session'[s].exp = Persist

LEMMA DeadlineMove ==
  ASSUME TypeInv, NEW r, SessionMoves(r)
  PROVE  ExpMoves(r)
<1>0. session \in [Sessions -> [hash : Hash, exp : Deadline]]
  BY DEF TypeInv, TypeOK, StoreTypeOK
<1>1. CASE r.pc \in Hsetting /\ HSetSession(r.gsk, Writes(r))
  BY <1>0, <1>1 DEF HSetSession, Write, Exists, ExpMoves
<1>2. CASE r.pc \in Expiring /\ ExpireSession(r.gsk)
  BY <1>0, <1>2 DEF ExpireSession, Expire, Exists, Live, Gone, ExpMoves, FullLife
<1>3. CASE UNCHANGED session
  BY <1>3 DEF ExpMoves
<1> QED BY <1>1, <1>2, <1>3 DEF SessionMoves

\* No handler takes a session away or brings its end nearer.
LEMMA LastsOn ==
  ASSUME TypeInv, NEW r, ExpMoves(r), NEW s \in Sessions
  PROVE  /\ Exists(s) => Live(session'[s].exp)
         /\ \A d \in Int : Lasts(s, d) /\ d <= FullLife =>
              session'[s].exp = Persist \/ session'[s].exp >= d
<1>0. now \in Nat /\ session[s].exp \in Deadline
  BY DEF TypeInv, TypeOK, StoreTypeOK
<1> QED BY <1>0, TTLsArePositive
        DEF ExpMoves, Exists, Live, Gone, Persist, Lasts, FullLife, Deadline

\* The pairs after one command: a pair becomes usable with the last command of
\* a refresh, and reaches its caller with the last command of a create or a
\* refresh.
PairsMove(r) ==
  /\ UNCHANGED <<owner, parent>>
  /\ \A j \in Jtis :
       \/ jti'[j] = jti[j]
       \/ ~Live(jti'[j].exp)
       \/ r.pc = "rotate_setex" /\ j = r.new /\ jti'[j] = [gsk |-> r.gsk, exp |-> FullLife]
  /\ \A j \in Jtis : tok'[j] = tok[j] \/ (r.op \in {"create", "refresh"} /\ j = r.new)
  /\ \/ held' = held
     \/ /\ held' = held \cup {r.new}
        /\ r.pc \in {"create_expire", "rotate_setex"} \/ (r.pc = "create_get" /\ Exists(r.gsk))

LEMMA HandlerPairsMove ==
  ASSUME TypeInv, NEW p \in Procs, Continue(p) \/ LoseAnswer(p)
  PROVE  PairsMove(req[p])
<1>0. /\ jti \in [Jtis -> [gsk : Sessions \cup {None}, exp : Deadline]]
      /\ tok \in [Jtis -> [access : Nat, refresh : Nat]]
  BY DEF TypeInv, TypeOK, AuthTypeOK
<1>1. Sign(req[p].new) => \A j \in Jtis : tok'[j] = tok[j] \/ j = req[p].new
  BY <1>0 DEF Sign
<1>2. DeleteJti(req[p].jti) => \A j \in Jtis : jti'[j] = jti[j] \/ ~Live(jti'[j].exp)
  BY <1>0 DEF DeleteJti, Unmapped, Live
<1>3. SetJtiMapping(req[p].new, req[p].gsk) =>
        \A j \in Jtis : \/ jti'[j] = jti[j]
                        \/ j = req[p].new /\ jti'[j] = [gsk |-> req[p].gsk, exp |-> FullLife]
  BY <1>0 DEF SetJtiMapping, SetEx, FullLife
<1>4. CASE StoreStep(p)
  BY <1>4 DEF StoreStep, authVars, PairsMove
<1>5. CASE CreateStep(p)
  <2>1. CASE CreateSessionGet(p)
    <3>1. req[p].pc = "create_get" /\ req[p].op \in {"create", "refresh"}
      BY <2>1, IssuersIssue DEF CreateSessionGet, CreateGet, Step, Issuing
    <3> QED BY <1>1, <2>1, <3>1 DEF CreateSessionGet, PairsMove
  <2>2. CASE CreateSessionAnswer(p)
    BY <2>2 DEF CreateSessionAnswer, CreateExpire, Step, PairsMove
  <2> QED BY <1>5, <2>1, <2>2 DEF CreateStep
<1>6. CASE RotateDel(p)
  <2>1. req[p].op \in {"create", "refresh"}
    BY <1>6, IssuersIssue DEF RotateDel, Step, Issuing
  <2> QED BY <1>1, <1>2, <1>6, <2>1 DEF RotateDel, PairsMove
<1>7. CASE RotateSetex(p)
  BY <1>3, <1>7 DEF RotateSetex, MapNewPair, Step, PairsMove
<1>8. CASE CloseGet(p)
  BY <1>8 DEF CloseGet, authVars, PairsMove
<1>9. CASE Revoke(p)
  <2>1. \A j \in Jtis : jti'[j] = jti[j] \/ ~Live(jti'[j].exp)
    BY <1>2, <1>9 DEF Revoke
  <2> QED BY <1>9, <2>1 DEF Revoke, PairsMove
<1>10. CASE LoseAnswer(p)
  <2>1. held' = held
    BY <1>10 DEF LoseAnswer
  <2>2. CASE CreateGet(p) /\ Sign(req[p].new) /\ UNCHANGED <<jti, owner, parent>>
    <3>1. req[p].op \in {"create", "refresh"}
      BY <2>2, IssuersIssue DEF CreateGet, Step, Issuing
    <3> QED BY <1>1, <2>1, <2>2, <3>1 DEF PairsMove
  <2>3. CASE UNCHANGED <<jti, tok, owner, parent>>
    BY <2>1, <2>3 DEF PairsMove
  <2>4. CASE MapNewPair(p)
    BY <1>3, <2>1, <2>4 DEF MapNewPair, Step, PairsMove
  <2> QED BY <1>10, <2>2, <2>3, <2>4 DEF LoseAnswer
<1> QED BY <1>4, <1>5, <1>6, <1>7, <1>8, <1>9, <1>10 DEF Continue, TokenStep

-----------------------------------------------------------------------------
(* Handlers do not lose their sessions.                                    *)

\* A handler works on a session that is there.
SessionsStay == \A p \in Procs : req[p].op \notin {"none", "create"} => Exists(req[p].gsk)

\* A create works on the key it has just generated for the pair it will answer.
CreatesKnow ==
  \A p \in Procs : req[p].op = "create" =>
    /\ born[req[p].gsk] = now
    /\ owner[req[p].new] = req[p].gsk
    /\ req[p].pc = "create_expire" => Exists(req[p].gsk)

\* The commands of a refresh that follow the EXPIRE of its session.
AfterExpire == {"ttl_turns", "ttl_realtime", "ttl_batch"} \cup RotateSteps

RefreshesRenew ==
  \A p \in Procs : req[p].op = "refresh" /\ req[p].pc \in AfterExpire =>
    Lasts(req[p].gsk, FullLife)

\* The token a close was sent is good until its handler answers.
ClosesKnow ==
  \A p \in Procs : req[p].op = "close_token" => Verified(req[p].jti, req[p].kind)

\* A session lives a full life from the moment its key was generated.
KeysLast ==
  \A s \in Sessions : Exists(s) =>
    born[s] \in 0 .. now /\ Lasts(s, born[s] + SessionTTL)

\* A pair that a caller may use: it has been received, or no handler can have
\* stopped between mapping it and storing its session.
Creating(j) == \E p \in Procs : req[p].op = "create" /\ req[p].new = j
Promised(j) == j \in held \/ ("stop" \notin Faults /\ ~Creating(j))

PairsLast ==
  \A j \in Jtis : Mapped(j) =>
    /\ jti[j].exp \in 1 .. FullLife
    /\ Promised(j) => Lasts(jti[j].gsk, jti[j].exp)

\* A mapping lives no longer than its session: that is why a handler that has
\* looked a token up finds the session.
AliveInv ==
  /\ SessionsStay /\ CreatesKnow /\ RefreshesRenew
  /\ ClosesKnow /\ KeysLast /\ PairsLast

\* What the proofs below take for granted of every state.
Basics == TokenInv /\ PairsInv /\ OnRoutes

LEMMA InFlightTyped ==
  ASSUME TypeInv, OnRoutes, NEW p \in Procs
  PROVE  /\ req[p] \in Request /\ OnRoute(req[p])
         /\ req[p].op # "none" \/ req[p].pc # "idle" =>
              /\ req[p].op # "none" /\ req[p].pc \in Steps
              /\ Fits(req[p], req[p].pc) /\ req[p].gsk \in Sessions
         /\ req[p].op = "create" => req[p].new \in Jtis
<1>1. req[p] \in Request /\ WellFormed(req[p]) /\ OnRoute(req[p])
  BY DEF TypeInv, RequestsOK, OnRoutes
<1>2. req[p] = Idle => req[p].op = "none" /\ req[p].pc = "idle"
  BY DEF Idle
<1>3. req[p].op = "none" => req[p].pc = "idle"
  BY <1>1 DEF OnRoute
<1>4. req[p] # Idle => /\ req[p].pc \in Steps /\ Fits(req[p], req[p].pc)
                       /\ req[p].gsk \in Sessions
  BY <1>1 DEF WellFormed, Request, Fits
<1>5. req[p] # Idle => req[p].pc # "idle"
  BY <1>1 DEF WellFormed
<1> QED BY <1>1, <1>2, <1>3, <1>4, <1>5 DEF Fits

\* Only a create gives a session that is not there a hash.
LEMMA OnlyCreatesMake ==
  ASSUME TypeInv, OnRoutes, SessionsStay, NEW p \in Procs,
         req[p].pc \in Hsetting, ~Exists(req[p].gsk)
  PROVE  req[p].pc = "create_hset" /\ req[p].op = "create"
<1>1. req[p].op # "none" /\ req[p].pc # "idle"
  BY InFlightTyped DEF Hsetting
<1>2. req[p].op = "create"
  BY <1>1 DEF SessionsStay
<1> QED BY <1>2 DEF OnRoutes, OnRoute, Hsetting, CreateSteps

\* A request that is in flight after a command was in flight before it.
LEMMA GoesOnFrom ==
  ASSUME TypeInv, OnRoutes, NEW p \in Procs, Onward(p),
         NEW q \in Procs, req'[q].op # "none"
  PROVE  /\ req'[q].op = req[q].op /\ req'[q].gsk = req[q].gsk /\ req'[q].jti = req[q].jti
         /\ req'[q].kind = req[q].kind /\ req'[q].new = req[q].new
         /\ req[q].op # "none" /\ req[q].gsk \in Sessions
         /\ q # p => req'[q] = req[q]
         /\ q = p => Leads(req[p], req'[p].pc) /\ Keeps(req[p], req'[p])
<1>1. q # p => req'[q] = req[q]
  BY DEF Onward
<1>2. q = p => Leads(req[p], req'[p].pc) /\ Keeps(req[p], req'[p])
  BY DEF Onward, Idle
<1>3. /\ req'[q].op = req[q].op /\ req'[q].gsk = req[q].gsk /\ req'[q].jti = req[q].jti
      /\ req'[q].kind = req[q].kind /\ req'[q].new = req[q].new
  BY <1>1, <1>2 DEF Keeps
<1> QED BY <1>1, <1>2, <1>3, InFlightTyped

LEMMA AliveSessions ==
  ASSUME TypeInv, OnRoutes, AliveInv, NEW p \in Procs, Moves(p)
  PROVE  /\ SessionsStay' /\ KeysLast'
         /\ \A q \in Procs : req'[q].op = "create" =>
              /\ req'[q].pc = "create_expire" => Live(session'[req'[q].gsk].exp)
<1>0. /\ ExpMoves(req[p]) /\ now' = now /\ born' = born /\ now \in Nat
      /\ born \in [Sessions -> Nat \cup {Never}]
  BY DeadlineMove DEF Moves, TypeInv, TypeOK, StoreTypeOK
<1>1. ASSUME NEW q \in Procs, req'[q].op # "none"
      PROVE  /\ req[q].op = req'[q].op /\ req[q].gsk = req'[q].gsk
             /\ req[q].gsk \in Sessions
             /\ q # p => req'[q] = req[q]
             /\ q = p => Leads(req[p], req'[p].pc) /\ Keeps(req[p], req'[p])
  BY <1>1, GoesOnFrom DEF Moves
<1>2. SessionsStay'
  <2> SUFFICES ASSUME NEW q \in Procs, req'[q].op \notin {"none", "create"}
               PROVE  Live(session'[req'[q].gsk].exp)
    BY DEF SessionsStay, Exists
  <2> QED BY <1>0, <1>1, LastsOn DEF AliveInv, SessionsStay
<1>3. KeysLast'
  <2> SUFFICES ASSUME NEW s \in Sessions, Live(session'[s].exp)
               PROVE  /\ born[s] \in 0 .. now
                      /\ \/ session'[s].exp = Persist
                         \/ session'[s].exp >= born[s] + SessionTTL
    BY <1>0 DEF KeysLast, Exists, Lasts
  <2>1. CASE Exists(s)
    <3>1. /\ born[s] \in 0 .. now /\ Lasts(s, born[s] + SessionTTL)
          /\ born[s] + SessionTTL \in Int /\ born[s] + SessionTTL <= FullLife
      BY <1>0, <2>1, TTLsArePositive DEF AliveInv, KeysLast, FullLife
    <3> QED BY <1>0, <3>1, LastsOn
  <2>2. CASE ~Exists(s)
    <3>1. s = req[p].gsk /\ req[p].pc \in Hsetting /\ session'[s].exp = Persist
      BY <1>0, <2>2 DEF ExpMoves, Exists
    <3>2. born[s] = now
      BY <2>2, <3>1, OnlyCreatesMake DEF AliveInv, CreatesKnow
    <3> QED BY <1>0, <3>1, <3>2
  <2> QED BY <2>1, <2>2
<1>4. ASSUME NEW q \in Procs, req'[q].op = "create", req'[q].pc = "create_expire"
      PROVE  Live(session'[req'[q].gsk].exp)
  <2>1. CASE Exists(req'[q].gsk)
    BY <1>0, <1>1, <1>4, <2>1, LastsOn
  <2>2. CASE ~Exists(req'[q].gsk)
    <3>1. q = p /\ req[p].pc = "create_hset"
      <4>1. q = p
        BY <1>1, <1>4, <2>2 DEF AliveInv, CreatesKnow
      <4>2. Leads(req[p], "create_expire")
        BY <1>1, <1>4, <4>1
      <4> QED BY <4>1, <4>2 DEF Leads, AfterRefreshTtl, AfterUpdate
    <3>2. HSetSession(req[p].gsk, Writes(req[p]))
      BY <3>1 DEF Moves, SessionMoves, Hsetting, Expiring
    <3>3. session \in [Sessions -> [hash : Hash, exp : Deadline]]
      BY DEF TypeInv, TypeOK, StoreTypeOK
    <3> QED BY <1>1, <1>4, <3>1, <3>2, <3>3 DEF HSetSession, Write, Live, Gone, Persist
  <2> QED BY <2>1, <2>2
<1> QED BY <1>2, <1>3, <1>4

\* The deadlines are numbers again.
LEMMA HandlerType ==
  ASSUME TypeInv, NEW p \in Procs, Moves(p)
  PROVE  \A s \in Sessions : session'[s].exp \in Deadline
BY DeadlineMove, TTLsArePositive
   DEF Moves, ExpMoves, TypeInv, TypeOK, StoreTypeOK, FullLife, Deadline, Persist

\* The command that answers a create leaves its session a full life.
LEMMA CreateLasts ==
  ASSUME TypeInv, OnRoutes, AliveInv, NEW p \in Procs, Moves(p), req[p].op = "create",
         req[p].pc = "create_expire" \/ (req[p].pc = "create_get" /\ Exists(req[p].gsk))
  PROVE  session'[req[p].gsk].exp = Persist \/ session'[req[p].gsk].exp >= FullLife
<1>0. /\ req[p].gsk \in Sessions /\ ExpMoves(req[p])
      /\ session \in [Sessions -> [hash : Hash, exp : Deadline]]
      /\ now \in Nat /\ FullLife \in Int /\ FullLife <= FullLife
  BY InFlightTyped, DeadlineMove, TTLsArePositive
     DEF Moves, TypeInv, TypeOK, StoreTypeOK, FullLife
<1>1. CASE req[p].pc = "create_get" /\ Exists(req[p].gsk)
  <2>1. Lasts(req[p].gsk, FullLife)
    BY <1>0, <1>1 DEF AliveInv, KeysLast, CreatesKnow, FullLife
  <2> QED BY <1>0, <2>1, LastsOn
<1>2. CASE req[p].pc = "create_expire"
  <2>1. ExpireSession(req[p].gsk) /\ Exists(req[p].gsk)
    BY <1>2 DEF Moves, SessionMoves, Hsetting, Expiring, AliveInv, CreatesKnow
  <2> QED BY <1>0, <2>1 DEF ExpireSession, Expire, Exists, FullLife
<1> QED BY <1>1, <1>2

\* So does the command after which a refresh has renewed its session.
LEMMA RefreshLasts ==
  ASSUME TypeInv, OnRoutes, AliveInv, NEW p \in Procs, Moves(p)
  PROVE  RefreshesRenew'
<1>0. /\ ExpMoves(req[p]) /\ now' = now /\ now \in Nat /\ FullLife \in Int
      /\ session \in [Sessions -> [hash : Hash, exp : Deadline]]
      /\ FullLife <= FullLife
  BY DeadlineMove, TTLsArePositive DEF Moves, TypeInv, TypeOK, StoreTypeOK, FullLife
<1> SUFFICES ASSUME NEW q \in Procs, req'[q].op = "refresh", req'[q].pc \in AfterExpire
             PROVE  session'[req'[q].gsk].exp = Persist
                    \/ session'[req'[q].gsk].exp >= FullLife
  BY <1>0 DEF RefreshesRenew, Lasts, FullLife
<1>1. /\ req[q].op = "refresh" /\ req'[q].gsk = req[q].gsk /\ req[q].gsk \in Sessions
      /\ q # p => req'[q] = req[q]
      /\ q = p => Leads(req[p], req'[p].pc)
  BY GoesOnFrom DEF Moves
<1>2. Exists(req[q].gsk)
  BY <1>1 DEF AliveInv, SessionsStay
<1>3. CASE req[q].pc \in AfterExpire
  <2>1. Lasts(req[q].gsk, FullLife)
    BY <1>1, <1>3 DEF AliveInv, RefreshesRenew
  <2> QED BY <1>0, <1>1, <2>1, LastsOn
<1>4. CASE req[q].pc \notin AfterExpire
  <2>1. q = p
    BY <1>1, <1>4
  <2>2. OnRoute(req[p]) /\ Leads(req[p], req'[p].pc)
    BY <1>1, <2>1 DEF OnRoutes
  <2>3. req[p].pc \in TtlSteps
    BY <1>1, <1>4, <2>1, <2>2 DEF OnRoute, AfterExpire
  <2>4. req[p].pc = "ttl_expire"
    BY <1>2, <1>4, <2>1, <2>2, <2>3 DEF Leads, TtlSteps, AfterExpire, RotateSteps
  <2>5. ExpireSession(req[p].gsk)
    BY <2>4 DEF Moves, SessionMoves, Hsetting, Expiring
  <2> QED BY <1>0, <1>1, <1>2, <2>1, <2>5 DEF ExpireSession, Expire, Exists, FullLife
<1> QED BY <1>3, <1>4

LEMMA AliveRequests ==
  ASSUME Basics, AliveInv, NEW p \in Procs, Moves(p), PairsMove(req[p])
  PROVE  CreatesKnow' /\ ClosesKnow'
<1>0. TypeInv /\ OnRoutes /\ PairsInv /\ now' = now /\ born' = born /\ owner' = owner
  BY DEF Basics, TokenInv, Moves, PairsMove
<1>1. ASSUME NEW q \in Procs, req'[q].op = "create"
      PROVE  /\ born[req'[q].gsk] = now
             /\ owner[req'[q].new] = req'[q].gsk
             /\ req'[q].pc = "create_expire" => Live(session'[req'[q].gsk].exp)
  <2>1. /\ req[q].op = "create" /\ req'[q].gsk = req[q].gsk /\ req'[q].new = req[q].new
    BY <1>0, <1>1, GoesOnFrom DEF Moves
  <2>2. born[req[q].gsk] = now /\ owner[req[q].new] = req[q].gsk
    BY <2>1 DEF AliveInv, CreatesKnow
  <2> QED BY <1>0, <1>1, <2>1, <2>2, AliveSessions
<1>2. CreatesKnow'
  BY <1>0, <1>1 DEF CreatesKnow, Exists
<1>3. ASSUME NEW q \in Procs, req'[q].op = "close_token"
      PROVE  /\ req'[q].jti \in held'
             /\ now' < IF req'[q].kind = "access" THEN tok'[req'[q].jti].access
                       ELSE tok'[req'[q].jti].refresh
  <2>1. /\ req[q].op = "close_token" /\ req'[q].jti = req[q].jti
        /\ req'[q].kind = req[q].kind
    BY <1>0, <1>3, GoesOnFrom DEF Moves
  <2>2. Verified(req[q].jti, req[q].kind)
    BY <2>1 DEF AliveInv, ClosesKnow
  <2>3. req[q].jti \in held /\ held \subseteq Jtis
    BY <1>0, <2>2 DEF Verified, TypeInv, TypeOK, AuthTypeOK
  <2>4. tok'[req[q].jti] = tok[req[q].jti]
    BY <1>0, <2>3 DEF PairsMove, PairsInv, Issuing
  <2> QED BY <1>0, <2>1, <2>2, <2>4 DEF Verified, PairsMove
<1>4. ClosesKnow'
  BY <1>3 DEF ClosesKnow, Verified
<1> QED BY <1>2, <1>4

\* Only the answer of a create promises a pair anew.
LEMMA PromisesMove ==
  ASSUME Basics, AliveInv, NEW p \in Procs, Moves(p), PairsMove(req[p]),
         NEW j \in Jtis, Mapped(j), Promised(j)', ~Promised(j)
  PROVE  /\ req[p].op = "create" /\ j = req[p].new
         /\ req[p].pc = "create_expire" \/ (req[p].pc = "create_get" /\ Exists(req[p].gsk))
<1>0. TypeInv /\ OnRoutes
  BY DEF Basics, TokenInv
<1>1. CASE j \in held' /\ j \notin held
  <2>1. /\ j = req[p].new
        /\ req[p].pc \in {"create_expire", "rotate_setex"}
           \/ (req[p].pc = "create_get" /\ Exists(req[p].gsk))
    BY <1>1 DEF PairsMove
  <2>2. req[p].pc # "rotate_setex"
    <3> SUFFICES ASSUME req[p].pc = "rotate_setex" PROVE FALSE
      OBVIOUS
    <3>1. "rotate_setex" \in Steps /\ "rotate_setex" \in RotateSteps
      BY DEF Steps, RotateSteps
    <3>2. Refreshing(p)
      BY <1>0, <3>1, InFlight DEF TypeInv, Fits, Refreshing
    <3> QED BY <2>1, <3>2 DEF Basics, TokenInv, RefreshesKnow, RefreshKnows
  <2>3. {"create_get", "create_expire"} \subseteq Steps \cap CreateSteps
    BY DEF Steps, CreateSteps
  <2>4. req[p].op = "create"
    BY <1>0, <2>1, <2>2, <2>3, InFlight DEF TypeInv, Fits
  <2> QED BY <2>1, <2>2, <2>4
<1>2. CASE "stop" \notin Faults /\ Creating(j) /\ ~Creating(j)'
  <2>1. PICK q \in Procs : req[q].op = "create" /\ req[q].new = j
    BY <1>2 DEF Creating
  <2>2. q = p /\ req'[p] = Idle /\ Leads(req[p], "done")
    BY <1>2, <2>1 DEF Creating, Moves, Onward, Keeps
  <2>3. req[p].pc \in CreateSteps
    BY <1>0, <2>1, <2>2 DEF OnRoutes, OnRoute
  <2>4. req[p].pc = "create_expire" \/ (req[p].pc = "create_get" /\ Exists(req[p].gsk))
    BY <2>2, <2>3 DEF Leads, CreateSteps
  <2> QED BY <2>1, <2>2, <2>4
<1> QED BY <1>1, <1>2 DEF Promised

LEMMA AlivePairs ==
  ASSUME Basics, AliveInv, NEW p \in Procs, Moves(p), PairsMove(req[p])
  PROVE  PairsLast'
<1>0. /\ TypeInv /\ OnRoutes /\ now' = now /\ now \in Nat /\ FullLife \in Int
      /\ ExpMoves(req[p]) /\ FullLife >= 1
  BY DeadlineMove, TTLsArePositive
     DEF Basics, TokenInv, Moves, TypeInv, TypeOK, StoreTypeOK, FullLife
<1> SUFFICES ASSUME NEW j \in Jtis, Live(jti'[j].exp)
             PROVE  /\ jti'[j].exp \in 1 .. FullLife
                    /\ Promised(j)' => \/ session'[jti'[j].gsk].exp = Persist
                                       \/ session'[jti'[j].gsk].exp >= jti'[j].exp
  BY <1>0 DEF PairsLast, Mapped, Lasts, FullLife
<1>1. CASE jti'[j] = jti[j]
  <2> DEFINE s == jti[j].gsk
             d == jti[j].exp
  <2>1. /\ Mapped(j) /\ d \in 1 .. FullLife /\ s \in Sessions
        /\ Promised(j) => Lasts(s, d)
    BY <1>0, <1>1 DEF Mapped, AliveInv, PairsLast, TypeInv, MappingsOK
  <2>2. d \in Int /\ d <= FullLife
    BY <1>0, <2>1
  <2> HIDE DEF d
  <2>3. CASE Promised(j)
    BY <1>0, <1>1, <2>1, <2>2, <2>3, LastsOn DEF d
  <2>4. CASE Promised(j)' /\ ~Promised(j)
    <3>1. /\ req[p].op = "create" /\ j = req[p].new
          /\ req[p].pc = "create_expire" \/ (req[p].pc = "create_get" /\ Exists(req[p].gsk))
      BY <2>1, <2>4, PromisesMove
    <3>2. s = req[p].gsk
      BY <2>1, <3>1 DEF Basics, TokenInv, MappingsFollowOwner, AliveInv, CreatesKnow
    <3>3. session'[s].exp = Persist \/ session'[s].exp >= FullLife
      BY <1>0, <3>1, <3>2, CreateLasts
    <3>4. CASE session'[s].exp >= FullLife
      <4>1. session'[s].exp \in Deadline
        BY <1>0, <2>1, HandlerType
      <4> QED BY <1>0, <1>1, <2>1, <2>2, <3>4, <4>1 DEF d, Deadline, Persist
    <3> QED BY <1>1, <2>1, <3>3, <3>4 DEF d
  <2> QED BY <1>1, <2>1, <2>3, <2>4 DEF d
<1>2. CASE req[p].pc = "rotate_setex" /\ jti'[j] = [gsk |-> req[p].gsk, exp |-> FullLife]
  <2>1. "rotate_setex" \in Steps /\ "rotate_setex" \in RotateSteps
    BY DEF Steps, RotateSteps
  <2>2. req[p].op = "refresh" /\ req[p].gsk \in Sessions
    BY <1>0, <1>2, <2>1, InFlight DEF TypeInv, Fits
  <2>3. Lasts(req[p].gsk, FullLife)
    BY <1>2, <2>1, <2>2 DEF AliveInv, RefreshesRenew, AfterExpire
  <2>4. session'[req[p].gsk].exp = Persist \/ session'[req[p].gsk].exp >= FullLife
    BY <1>0, <2>2, <2>3, LastsOn
  <2> QED BY <1>0, <1>2, <2>4
<1> QED BY <1>1, <1>2 DEF PairsMove

LEMMA AliveHandler ==
  ASSUME Basics, AliveInv, NEW p \in Procs, Continue(p) \/ LoseAnswer(p)
  PROVE  AliveInv'
<1>1. TypeInv /\ OnRoutes
  BY DEF Basics, TokenInv
<1>2. Moves(p) /\ PairsMove(req[p])
  BY <1>1, HandlerIsMove, HandlerPairsMove
<1> QED BY <1>1, <1>2, AliveSessions, RefreshLasts, AliveRequests, AlivePairs DEF AliveInv

\* A pair in a caller's hands leads to a session that is there.
LEMMA HeldLead ==
  ASSUME TypeInv, AliveInv, NEW j \in held, Mapped(j)
  PROVE  j \in Jtis /\ jti[j].gsk \in Sessions /\ Exists(jti[j].gsk)
<1>1. j \in Jtis /\ jti[j].gsk \in Sessions
  BY DEF TypeInv, TypeOK, AuthTypeOK, MappingsOK
<1>2. Lasts(jti[j].gsk, jti[j].exp) /\ jti[j].exp \in 1 .. FullLife
  BY <1>1 DEF AliveInv, PairsLast, Promised
<1>3. session[jti[j].gsk].exp \in Deadline /\ FullLife \in Int
  BY <1>1, TTLsArePositive DEF TypeInv, TypeOK, StoreTypeOK, FullLife
<1> QED BY <1>1, <1>2, <1>3 DEF Lasts, Exists, Live, Gone, Persist

LEMMA AliveStart ==
  ASSUME Basics, AliveInv, NEW p \in Procs, Start(p)
  PROVE  AliveInv'
<1>0. /\ TypeInv /\ OnRoutes /\ PairsInv /\ Begins(p) /\ now \in Nat
      /\ req[p] = Idle /\ \A q \in Procs \ {p} : req'[q] = req[q]
      /\ UNCHANGED <<now, session, tok, held>>
      /\ held \subseteq Jtis /\ FullLife \in Int /\ FullLife >= 1
      /\ jti \in [Jtis -> [gsk : Sessions \cup {None}, exp : Deadline]]
      /\ owner \in [Jtis -> Sessions \cup {None}]
      /\ born \in [Sessions -> Nat \cup {Never}]
  BY StartBegins, TTLsArePositive
     DEF Basics, TokenInv, TypeInv, TypeOK, StoreTypeOK, AuthTypeOK, Begins, keyVars, FullLife
<1>1. \/ Creates(req'[p]) /\ req'[p].op = "create"
      \/ /\ UNCHANGED <<jti, born>>
         /\ UNCHANGED owner \/ Draw(req'[p].new, req'[p].gsk, req'[p].jti)
         /\ req'[p].op # "create" /\ (req'[p].op = "refresh" => req'[p].pc = "ttl_get")
         /\ req'[p].op # "none" => Exists(req'[p].gsk)
         /\ req'[p].op = "close_token" => Verified(req'[p].jti, req'[p].kind)
  <2>1. CASE Creates(req'[p])
    BY <2>1 DEF Creates
  <2>2. ASSUME NEW j \in Jtis, ByToken(req'[p], j)  PROVE Exists(req'[p].gsk)
    BY <1>0, <2>2, HeldLead DEF ByToken
  <2>3. CASE Refreshes(req'[p])
    BY <1>0, <2>2, <2>3 DEF Refreshes, ByToken
  <2>4. CASE req'[p] = Idle /\ UNCHANGED <<jti, owner, born>>
    BY <2>4 DEF Idle
  <2>5. CASE ByKey(req'[p]) /\ UNCHANGED <<jti, owner, born>>
    BY <2>5 DEF ByKey
  <2>6. CASE /\ req'[p].op = "close_token" /\ req'[p].pc = "close_get"
             /\ ByToken(req'[p], req'[p].jti) /\ UNCHANGED <<jti, owner, born>>
             /\ Verified(req'[p].jti, req'[p].kind)
    BY <2>2, <2>6 DEF ByToken
  <2>7. CASE /\ req'[p].op = "profile" /\ UNCHANGED <<jti, owner, born>>
             /\ \E j \in Jtis : ByToken(req'[p], j)
    BY <2>2, <2>7
  <2> QED BY <1>0, <2>1, <2>3, <2>4, <2>5, <2>6, <2>7 DEF Begins
<1>2. /\ \A s \in Sessions : born'[s] = born[s] \/ (born'[s] = now /\ born[s] \in {Never, now})
      /\ \A j \in Jtis : ~Fresh(j) => owner'[j] = owner[j]
  BY <1>0, <1>1 DEF Creates, GenerateId, Draw
<1>3. SessionsStay'
  BY <1>0, <1>1 DEF AliveInv, SessionsStay, Exists
<1>4. CreatesKnow'
  <2> SUFFICES ASSUME NEW q \in Procs, req'[q].op = "create"
               PROVE  /\ born'[req'[q].gsk] = now
                      /\ owner'[req'[q].new] = req'[q].gsk
                      /\ req'[q].pc = "create_expire" => Exists(req'[q].gsk)
    BY <1>0 DEF CreatesKnow, Exists
  <2>1. CASE q = p
    BY <1>0, <1>1, <2>1 DEF Creates, GenerateId, Draw
  <2>2. CASE q # p
    <3>1. req'[q] = req[q] /\ req[q].gsk \in Sessions
      BY <1>0, <2>2, InFlightTyped
    <3>2. /\ born[req[q].gsk] = now /\ owner[req[q].new] = req[q].gsk
          /\ req[q].pc = "create_expire" => Exists(req[q].gsk)
      BY <3>1 DEF AliveInv, CreatesKnow
    <3>3. req[q].new \in Jtis /\ ~Fresh(req[q].new)
      BY <1>0, <3>1 DEF PairsInv, Issuing
    <3> QED BY <1>2, <3>1, <3>2, <3>3
  <2> QED BY <2>1, <2>2
<1>5. RefreshesRenew'
  <2>1. "ttl_get" \notin AfterExpire
    BY DEF AfterExpire, RotateSteps
  <2> QED BY <1>0, <1>1, <2>1 DEF AliveInv, RefreshesRenew, Lasts, FullLife
<1>6. ClosesKnow'
  BY <1>0, <1>1 DEF AliveInv, ClosesKnow, Verified
<1>7. KeysLast'
  <2> SUFFICES ASSUME NEW s \in Sessions, Exists(s)
               PROVE  born'[s] \in 0 .. now /\ Lasts(s, born'[s] + SessionTTL)
    BY <1>0 DEF KeysLast, Exists, Lasts
  <2>1. born[s] \in 0 .. now /\ Lasts(s, born[s] + SessionTTL)
    BY DEF AliveInv, KeysLast
  <2> QED BY <1>0, <1>2, <2>1 DEF Never
<1>8. \A j \in Jtis : Creating(j) => Creating(j)'
  BY <1>0 DEF Creating, Idle
<1>9. PairsLast'
  <2> SUFFICES ASSUME NEW j \in Jtis, Live(jti'[j].exp)
               PROVE  /\ jti'[j].exp \in 1 .. FullLife
                      /\ Promised(j)' => Lasts(jti'[j].gsk, jti'[j].exp)
    BY <1>0 DEF PairsLast, Mapped, Lasts, FullLife
  <2>1. CASE jti'[j] = jti[j]
    <3>1. Promised(j)' => Promised(j)
      BY <1>0, <1>8 DEF Promised
    <3> QED BY <2>1, <3>1 DEF AliveInv, PairsLast, Mapped
  <2>2. CASE jti'[j] # jti[j]
    <3>1. Creates(req'[p]) /\ req'[p].op = "create" /\ j = req'[p].new
      BY <1>0, <1>1, <2>2 DEF Creates, SetJtiMapping
    <3>2. jti'[j].exp = FullLife
      BY <1>0, <3>1 DEF Creates, SetJtiMapping, SetEx, FullLife
    <3>3. j \notin held /\ Creating(j)'
      BY <1>0, <3>1 DEF Creates, Draw, PairsInv, Creating
    <3> QED BY <1>0, <3>2, <3>3 DEF Promised
  <2> QED BY <2>1, <2>2
<1> QED BY <1>3, <1>4, <1>5, <1>6, <1>7, <1>9 DEF AliveInv

LEMMA AliveFail ==
  ASSUME Basics, AliveInv, NEW p \in Procs, Fail(p)
  PROVE  AliveInv'
<1>0. /\ UNCHANGED <<now, session, jti, tok, held, owner, born>>
      /\ "stop" \in Faults
      /\ \A q \in Procs : req'[q] = req[q] \/ (q = p /\ req'[q] = Idle)
  BY DEF Fail, Fault, keyVars, authVars, Basics, TokenInv, TypeInv, RequestsOK
<1>1. \A q \in Procs : req'[q] = req[q] \/ req'[q].op = "none"
  BY <1>0 DEF Idle
<1>2. SessionsStay' /\ CreatesKnow' /\ RefreshesRenew' /\ ClosesKnow'
  BY <1>0, <1>1
     DEF AliveInv, SessionsStay, CreatesKnow, RefreshesRenew, ClosesKnow, Exists, Lasts,
         FullLife, Verified
<1>3. KeysLast' /\ PairsLast'
  BY <1>0 DEF AliveInv, KeysLast, PairsLast, Exists, Lasts, FullLife, Mapped, Promised
<1> QED BY <1>2, <1>3 DEF AliveInv

\* The deadline of a key that time leaves, and of one that it drops.
LEMMA SessionsInTime ==
  ASSUME TypeInv, Tick, NEW s \in Sessions
  PROVE  /\ now' = now + 1 /\ now \in Nat /\ session[s].exp \in Deadline
         /\ session[s].exp = Persist \/ session[s].exp > now' => session'[s] = session[s]
         /\ session'[s] = session[s] \/ session'[s] = [hash |-> NoHash, exp |-> Gone]
         /\ Live(session'[s].exp) => session'[s] = session[s] /\ Exists(s)
BY DEF Tick, StoreTick, TypeInv, TypeOK, StoreTypeOK, Surviving, Exists, Live,
       Deadline, Gone, Persist

LEMMA AliveTick ==
  ASSUME Prompt, TypeInv, AliveInv, Tick
  PROVE  AliveInv'
<1>0. /\ now' = now + 1 /\ now \in Nat
      /\ UNCHANGED <<req, tok, held, owner, born>>
      /\ \A p \in Procs : req'[p].op = "none"
      /\ jti \in [Jtis -> [gsk : Sessions \cup {None}, exp : Deadline]]
      /\ SessionTTL \in Nat
  BY TTLsArePositive
     DEF Tick, StoreTick, TypeInv, TypeOK, StoreTypeOK, AuthTypeOK, Idle
<1>1. SessionsStay' /\ CreatesKnow' /\ RefreshesRenew' /\ ClosesKnow'
  BY <1>0 DEF SessionsStay, CreatesKnow, RefreshesRenew, ClosesKnow
<1>2. KeysLast'
  BY <1>0, SessionsInTime DEF AliveInv, KeysLast, Exists, Lasts
<1>3. PairsLast'
  <2> SUFFICES ASSUME NEW j \in Jtis, Live(jti'[j].exp)
               PROVE  /\ jti'[j].exp \in 1 .. now' + SessionTTL
                      /\ Promised(j)' => \/ session'[jti'[j].gsk].exp = Persist
                                         \/ session'[jti'[j].gsk].exp >= jti'[j].exp
    BY DEF PairsLast, Mapped, Lasts, FullLife
  <2>1. /\ jti'[j] = jti[j] /\ Mapped(j)
        /\ jti[j].exp = Persist \/ jti[j].exp > now'
    <3>1. jti'[j] = IF Surviving(jti[j].exp, now') = Gone THEN Unmapped ELSE jti[j]
      BY DEF Tick, JtiTick
    <3>2. jti[j].exp \in Deadline
      BY <1>0
    <3> QED BY <1>0, <3>1, <3>2
            DEF Surviving, Unmapped, Mapped, Live, Gone, Persist, Deadline
  <2>2. /\ jti[j].exp \in 1 .. now + SessionTTL
        /\ Promised(j) => Lasts(jti[j].gsk, jti[j].exp)
    BY <2>1 DEF AliveInv, PairsLast, FullLife
  <2>3. Promised(j)' => Promised(j)
    BY <1>0 DEF Promised, Creating
  <2>4. jti[j].gsk \in Sessions /\ jti[j].exp > now'
    BY <1>0, <2>1, <2>2 DEF TypeInv, MappingsOK, Persist
  <2> QED BY <1>0, <2>1, <2>2, <2>3, <2>4, SessionsInTime DEF Lasts, Deadline, Persist
<1> QED BY <1>1, <1>2, <1>3 DEF AliveInv

LEMMA AliveInit == Init => AliveInv
BY DEF Init, StoreInit, AuthInit, AliveInv, SessionsStay, CreatesKnow, RefreshesRenew,
       ClosesKnow, KeysLast, PairsLast, Exists, Mapped, Unmapped, Live, Idle

LEMMA AliveNext ==
  ASSUME Prompt
  PROVE  Basics /\ AliveInv /\ [Next]_vars => AliveInv'
<1> SUFFICES ASSUME Basics, AliveInv, [Next]_vars PROVE AliveInv'
  OBVIOUS
<1>1. TypeInv
  BY DEF Basics, TokenInv
<1>2. ASSUME NEW p \in Procs, Start(p) \/ Continue(p) \/ Fail(p) \/ LoseAnswer(p)
      PROVE  AliveInv'
  BY <1>2, AliveStart, AliveHandler, AliveFail
<1>3. CASE Tick
  BY <1>1, <1>3, AliveTick
<1>4. CASE UNCHANGED vars
  BY <1>4 DEF vars, storeVars, keyVars, authVars, AliveInv, SessionsStay, CreatesKnow,
              RefreshesRenew, ClosesKnow, KeysLast, PairsLast, Exists, Lasts, FullLife,
              Mapped, Promised, Creating, Verified
<1> QED BY <1>2, <1>3, <1>4 DEF Next, Horizon

LEMMA BasicsInvariant == Spec => []Basics
<1>1. Init => Basics
  BY TokenInit, PairsInit, OnRoutesInit DEF Basics
<1>2. Basics /\ [Next]_vars => Basics'
  BY TokenNext, PairsNext, OnRoutesNext DEF Basics, TokenInv
<1> QED BY <1>1, <1>2, PTL DEF Spec

LEMMA AliveInvariant ==
  ASSUME Prompt
  PROVE  Spec => [](Basics /\ AliveInv)
BY AliveInit, AliveNext, BasicsInvariant, PTL DEF Spec

-----------------------------------------------------------------------------
(* What AliveInv says of the answers.                                      *)

\* RefreshExtendsSession for every number of overlapping requests, whatever
\* stops half-way: refresh_token ignores what refresh_ttl returns, but the
\* session of a request in flight is there.
THEOREM RefreshesFindTheirSession ==
  ASSUME Prompt
  PROVE  Spec => RefreshExtendsSession
<1>1. AliveInv /\ [Next]_vars =>
        [\A p \in Procs :
           req[p].op = "refresh" /\ Answers(p) => Exists(req[p].gsk)]_vars
  BY DEF AliveInv, SessionsStay
<1> QED BY <1>1, AliveInvariant, PTL DEF Spec, RefreshExtendsSession

\* The handler whose request is answered by a step without failures.
LEMMA AnswersByCommand ==
  ASSUME TypeInv, [Next]_vars, NEW p \in Procs, Answers(p)
  PROVE  Continue(p)
<1>0. req[p] # Idle /\ req'[p] = Idle /\ failures' = failures /\ failures \in Nat
  BY DEF Answers, TypeInv, TypeOK
<1>1. ASSUME NEW q \in Procs, Start(q)  PROVE FALSE
  BY <1>0, <1>1, StartBegins DEF Begins
<1>2. ASSUME NEW q \in Procs, Fail(q) \/ LoseAnswer(q)  PROVE FALSE
  BY <1>0, <1>2 DEF Fail, LoseAnswer, Fault
<1>3. ASSUME NEW q \in Procs, Continue(q)  PROVE q = p
  BY <1>0, <1>3, HandlerIsMove DEF Moves, Onward
<1>4. ~(Tick \/ Horizon \/ UNCHANGED vars)
  BY <1>0 DEF Tick, StoreTick, Horizon, vars, storeVars
<1> QED BY <1>1, <1>2, <1>3, <1>4 DEF Next

\* ClosedTokensAreDead for every number of overlapping requests: verify_token
\* runs a second time before the DEL, and no time has passed since it passed.
THEOREM ClosedTokensStayDead ==
  ASSUME Prompt
  PROVE  Spec => ClosedTokensAreDead
<1>1. ASSUME Basics, AliveInv, [Next]_vars, NEW p \in Procs, req[p].op = "close_token",
             Answers(p), Exists(req[p].gsk)
      PROVE  ~Live(jti'[req[p].jti].exp)
  <2>0. TypeInv /\ OnRoute(req[p])
    BY <1>1 DEF Basics, TokenInv, OnRoutes
  <2>1. Continue(p)
    BY <1>1, <2>0, AnswersByCommand
  <2>2. Leads(req[p], "done")
    <3>1. Onward(p) /\ req'[p] = Idle
      BY <1>1, <2>0, <2>1, HandlerIsMove DEF Moves, Answers
    <3>2. "idle" \notin Steps /\ Idle.pc = "idle"
      BY DEF Idle, Steps, CreateSteps, TtlSteps, MapSteps, UpdateSteps, RotateSteps,
             CloseSteps, TurnSteps, ProfileSteps
    <3> QED BY <3>1, <3>2 DEF Onward
  <2>3. req[p].pc = "revoke"
    <3>1. req[p].pc \in CloseSteps \cup UpdateSteps
      BY <1>1, <2>0 DEF OnRoute
    <3>2. AfterUpdate(req[p]) = "revoke"
      BY <1>1 DEF AfterUpdate
    <3> QED BY <1>1, <2>2, <3>1, <3>2 DEF Leads, CloseSteps, UpdateSteps
  <2>4. Revoke(p) /\ Verified(req[p].jti, req[p].kind)
    BY <1>1, <2>0, <2>1, <2>3, RevokeNext DEF AliveInv, ClosesKnow
  <2>5. DeleteJti(req[p].jti) /\ req[p].jti \in Jtis
    BY <2>0, <2>4 DEF Revoke, Verified, TypeInv, TypeOK, AuthTypeOK
  <2>6. jti \in [Jtis -> [gsk : Sessions \cup {None}, exp : Deadline]]
    BY <2>0 DEF TypeInv, TypeOK, AuthTypeOK
  <2> QED BY <2>5, <2>6 DEF DeleteJti, Unmapped, Live
<1>2. Basics /\ AliveInv /\ [Next]_vars =>
        [\A p \in Procs :
           req[p].op = "close_token" /\ Answers(p) /\ Exists(req[p].gsk)
             => ~Live(jti'[req[p].jti].exp)]_vars
  BY <1>1
<1> QED BY <1>2, AliveInvariant, PTL DEF Spec, ClosedTokensAreDead

-----------------------------------------------------------------------------
(* What AliveInv says of the readers.                                      *)

ReadTypeOK ==
  /\ view \in [Readers -> View]
  /\ told \in [Sessions -> Nat]

LEMMA ReadTypeInit == ReadInit => ReadTypeOK
BY DEF ReadInit, ReadTypeOK, View, NoView

LEMMA ReadTypeNext == TypeInv /\ ReadTypeOK /\ [ReadNext]_readVars => ReadTypeOK'
<1> SUFFICES ASSUME TypeInv, ReadTypeOK, [ReadNext]_readVars PROVE ReadTypeOK'
  OBVIOUS
<1>0. session \in [Sessions -> [hash : Hash, exp : Deadline]]
  BY DEF TypeInv, TypeOK, StoreTypeOK
<1>1. CASE UNCHANGED <<view, told>>
  BY <1>1 DEF ReadTypeOK
<1>2. ASSUME NEW r \in Readers, NEW gsk \in Sessions, NEW cusno \in Cusnos \cup {None},
             NEW l \in ReadSteps, Look(r, gsk, cusno, l), UNCHANGED told
      PROVE  ReadTypeOK'
  BY <1>2 DEF Look, ReadTypeOK, View
<1>3. ASSUME NEW r \in Readers, NEW j \in Jtis, VerifyLookup(r, j)  PROVE ReadTypeOK'
  <2>1. jti[j].gsk \in Sessions
    BY <1>3 DEF VerifyLookup, TypeInv, MappingsOK
  <2> QED BY <1>2, <1>3, <2>1 DEF VerifyLookup, ReadSteps
<1>4. ASSUME NEW r \in Readers, NEW gsk \in Sessions, ResolveGet(r, gsk)
      PROVE  ReadTypeOK'
  <2>1. session[gsk].hash.cusno \in Cusnos \cup {None}
    BY <1>0 DEF Hash
  <2> QED BY <1>2, <1>4, <2>1 DEF ResolveGet, ReadSteps, ProfilesGet
<1>5. ASSUME NEW r \in Readers, VerifyGet(r)  PROVE ReadTypeOK'
  <2>1. view' \in [Readers -> View]
    BY <1>5 DEF VerifyGet, Answer, ReadTypeOK, View, NoView
  <2>2. view[r].gsk \in Sessions => session[view[r].gsk].hash.expires_at \in Nat
    BY <1>0 DEF Hash
  <2>3. told' \in [Sessions -> Nat]
    BY <1>5, <2>2 DEF VerifyGet, ReadTypeOK
  <2> QED BY <2>1, <2>3 DEF ReadTypeOK
<1>6. ASSUME NEW r \in Readers, ResolveMapping(r) \/ ResolveBatch(r) \/ ResolveRealtime(r)
      PROVE  ReadTypeOK'
  BY <1>6 DEF ResolveMapping, ResolveBatch, ResolveRealtime, Answer, ReadTypeOK, View,
              NoView, ReadSteps, ProfilesGet
<1> QED BY <1>1, <1>3, <1>4, <1>5, <1>6 DEF ReadNext, Serve, Read, readVars

\* A session goes only when time passes.
LEMMA SessionsGoOn ==
  ASSUME TypeInv, [Next]_vars, now' = now, NEW s \in Sessions, Exists(s)
  PROVE  Live(session'[s].exp)
<1>0. now \in Nat
  BY DEF TypeInv, TypeOK, StoreTypeOK
<1>1. CASE session' = session
  BY <1>1 DEF Exists
<1>2. ASSUME NEW p \in Procs, Continue(p) \/ LoseAnswer(p)  PROVE Live(session'[s].exp)
  BY <1>2, HandlerIsMove, DeadlineMove, LastsOn DEF Moves
<1>3. ASSUME NEW p \in Procs, Start(p) \/ Fail(p)  PROVE session' = session
  BY <1>3, StartBegins DEF Begins, Fail, keyVars
<1>4. ~Tick
  BY <1>0 DEF Tick, StoreTick
<1>5. CASE Horizon \/ UNCHANGED vars
  BY <1>1, <1>5 DEF Horizon, vars, storeVars, keyVars
<1> QED BY <1>1, <1>2, <1>3, <1>4, <1>5 DEF Next

\* VerifiedSessionsAreAlive for every number of overlapping readers and
\* writers: verify answers is_alive = false only for a token that has just
\* expired.
THEOREM VerifiedStayAlive ==
  ASSUME Prompt
  PROVE  ReadSpec => []VerifiedSessionsAreAlive
<1> DEFINE Inv == /\ ReadTypeOK
                  /\ \A r \in Readers : view[r].pc = "verify_get" =>
                       view[r].gsk \in Sessions /\ Exists(view[r].gsk)
<1>1. ReadInit => Inv
  BY ReadTypeInit DEF ReadInit, NoView
<1>2. ASSUME TypeInv, AliveInv, Inv, [ReadNext]_readVars  PROVE Inv'
  <2>1. ReadTypeOK'
    BY <1>2, ReadTypeNext
  <2> SUFFICES ASSUME NEW r \in Readers, view'[r].pc = "verify_get"
               PROVE  view'[r].gsk \in Sessions /\ Live(session'[view'[r].gsk].exp)
    BY <2>1 DEF Exists
  <2>2. CASE view'[r] = view[r] /\ [Next]_vars /\ now' = now
    BY <1>2, <2>2, SessionsGoOn
  <2>3. CASE Serve
    <3>1. view'[r] = view[r] /\ view[r] # NoView
      BY <2>3 DEF Serve, NoView
    <3> QED BY <2>2, <2>3, <3>1 DEF Serve
  <2>4. ASSUME NEW q \in Readers, Read(q), UNCHANGED vars
        PROVE  view'[r].gsk \in Sessions /\ Live(session'[view'[r].gsk].exp)
    <3>0. view \in [Readers -> View] /\ session' = session /\ now' = now
      BY <1>2, <2>4 DEF ReadTypeOK, vars, storeVars, keyVars
    <3>1. CASE view'[r] = view[r]
      BY <2>2, <2>4, <3>0, <3>1
    <3>2. ASSUME NEW j \in Jtis, VerifyLookup(q, j)
          PROVE  view'[r] = view[r] \/ (view'[r].gsk \in Sessions /\ Exists(view'[r].gsk))
      BY <1>2, <3>0, <3>2, HeldLead DEF VerifyLookup, Verified, Look
    <3>3. CASE ~\E j \in Jtis : VerifyLookup(q, j)
      <4>1. view'[r] = view[r] \/ view'[r].pc # "verify_get"
        BY <2>4, <3>0, <3>3
           DEF Read, VerifyGet, ResolveGet, ResolveMapping, ResolveBatch,
               ResolveRealtime, Look, Answer, NoView, ProfilesGet, View
      <4> QED BY <3>1, <4>1
    <3> QED BY <3>0, <3>1, <3>2, <3>3 DEF Exists
  <2>5. CASE UNCHANGED readVars
    BY <2>2, <2>5 DEF readVars, vars, storeVars, keyVars
  <2> QED BY <1>2, <2>3, <2>4, <2>5 DEF ReadNext
<1>3. Inv => VerifiedSessionsAreAlive
  BY DEF VerifiedSessionsAreAlive
<1>4. Basics => TypeInv
  BY DEF Basics, TokenInv
<1> HIDE DEF Inv
<1> QED BY <1>1, <1>2, <1>3, <1>4, ReadersOnlyRead, AliveInvariant, PTL DEF ReadSpec

-----------------------------------------------------------------------------
(* Every key gets its deadline, when no handler stops half-way.            *)

\* The commands that leave a key without a deadline are followed by the one
\* that gives it.
SessionsRenewed ==
  \A s \in Sessions : session[s].exp = Persist =>
    \E p \in Procs : req[p].gsk = s /\ req[p].pc = "create_expire"

TurnsRenewed ==
  \A s \in Sessions : turns[s] = Persist =>
    \E p \in Procs : req[p].gsk = s /\ req[p].pc = "turn_expire"

RealtimesRenewed ==
  \A o \in Owners : realtime[o] = Persist =>
    \E p \in Procs : ProfileKey(req[p].gsk, req[p].upd.cusno) = o
                     /\ req[p].pc = "realtime_expire"

BatchesRenewed ==
  \A c \in Cusnos : batch[c] = Persist =>
    \E p \in Procs : req[p].upd.cusno = c /\ req[p].pc = "batch_expire"

RenewedInv == SessionsRenewed /\ TurnsRenewed /\ RealtimesRenewed /\ BatchesRenewed

\* The commands that follow those that leave a key without a deadline, and the
\* commands of refresh_ttl.
LEMMA Follows ==
  ASSUME NEW p \in Procs, Onward(p)
  PROVE  /\ req[p].pc = "create_hset" => req'[p].pc = "create_expire"
         /\ req[p].pc = "turn_push" => req'[p].pc = "turn_expire"
         /\ req[p].pc = "realtime_set" => req'[p].pc = "realtime_expire"
         /\ req[p].pc = "batch_set" => req'[p].pc = "batch_expire"
         /\ req[p].pc = "ttl_hset" => req'[p].pc = "ttl_expire"
         /\ req[p].pc = "ttl_expire" => req'[p].pc = "ttl_turns"
         /\ req[p].pc = "ttl_turns" => req'[p].pc = "ttl_realtime"
         /\ req[p].pc \in {"create_hset", "turn_push", "realtime_set", "batch_set",
                          "ttl_hset", "ttl_expire", "ttl_turns"}
              => Keeps(req[p], req'[p])
<1>1. ASSUME NEW k, Leads(req[p], k)
      PROVE  /\ req[p].pc = "create_hset" => k = "create_expire"
             /\ req[p].pc = "turn_push" => k = "turn_expire"
             /\ req[p].pc = "realtime_set" => k = "realtime_expire"
             /\ req[p].pc = "batch_set" => k = "batch_expire"
             /\ req[p].pc = "ttl_hset" => k = "ttl_expire"
             /\ req[p].pc = "ttl_expire" => k = "ttl_turns"
             /\ req[p].pc = "ttl_turns" => k = "ttl_realtime"
  BY <1>1 DEF Leads
<1> QED BY <1>1 DEF Onward

LEMMA HandlerKeepsRenewed ==
  ASSUME TypeInv, OnRoutes, SessionsStay, RenewedInv, NEW p \in Procs, Moves(p)
  PROVE  RenewedInv'
<1>0. /\ Onward(p) /\ OthersMove(req[p]) /\ ExpMoves(req[p])
      /\ session \in [Sessions -> [hash : Hash, exp : Deadline]]
      /\ turns \in [Sessions -> Deadline] /\ realtime \in [Owners -> Deadline]
      /\ batch \in [Cusnos -> Deadline]
      /\ now \in Nat /\ SessionTTL \in Nat /\ SessionTTL > 0
      /\ FullLife # Persist /\ FullLife # Gone
  BY DeadlineMove, TTLsArePositive
     DEF Moves, TypeInv, TypeOK, StoreTypeOK, FullLife, Gone, Persist
<1>1. \A q \in Procs \ {p} : req'[q] = req[q]
  BY <1>0 DEF Onward
<1>2. ASSUME NEW d \in Deadline  PROVE Expire(d, now, SessionTTL) # Persist
  BY <1>0 DEF Expire, Gone, Persist
<1>3. SessionsRenewed'
  <2> SUFFICES ASSUME NEW s \in Sessions, session'[s].exp = Persist
               PROVE  \E q \in Procs : req'[q].gsk = s /\ req'[q].pc = "create_expire"
    BY DEF SessionsRenewed
  <2>1. CASE session[s].exp = Persist
    <3>1. PICK q \in Procs : req[q].gsk = s /\ req[q].pc = "create_expire"
      BY <2>1 DEF RenewedInv, SessionsRenewed
    <3>2. q # p
      <4> SUFFICES ASSUME q = p PROVE FALSE
        OBVIOUS
      <4>1. ExpireSession(s)
        BY <3>1 DEF Moves, SessionMoves, Hsetting, Expiring
      <4> QED BY <1>0, <1>2, <4>1 DEF ExpireSession
    <3> QED BY <1>1, <3>1, <3>2
  <2>2. CASE session[s].exp # Persist
    <3>1. ~Exists(s) /\ s = req[p].gsk /\ req[p].pc \in Hsetting
      BY <1>0, <2>2 DEF ExpMoves
    <3>2. req[p].pc = "create_hset"
      BY <3>1, OnlyCreatesMake
    <3>3. req'[p].pc = "create_expire" /\ Keeps(req[p], req'[p])
      BY <1>0, <3>2, Follows
    <3> QED BY <3>1, <3>3 DEF Keeps
  <2> QED BY <2>1, <2>2
<1>4. TurnsRenewed'
  <2> SUFFICES ASSUME NEW s \in Sessions, turns'[s] = Persist
               PROVE  \E q \in Procs : req'[q].gsk = s /\ req'[q].pc = "turn_expire"
    BY DEF TurnsRenewed
  <2>1. CASE req[p].gsk = s /\ req[p].pc \in {"ttl_turns", "turn_expire"}
    BY <1>0, <1>2, <2>1 DEF OthersMove
  <2>2. CASE req[p].gsk = s /\ req[p].pc = "turn_push"
    <3>1. req'[p].pc = "turn_expire" /\ Keeps(req[p], req'[p])
      BY <1>0, <2>2, Follows
    <3> QED BY <2>2, <3>1 DEF Keeps
  <2>3. CASE ~(req[p].gsk = s /\ req[p].pc \in {"ttl_turns", "turn_expire", "turn_push"})
    <3>1. turns[s] = Persist
      BY <1>0, <2>3 DEF OthersMove
    <3>2. PICK q \in Procs : req[q].gsk = s /\ req[q].pc = "turn_expire"
      BY <3>1 DEF RenewedInv, TurnsRenewed
    <3> QED BY <1>1, <2>3, <3>2
  <2> QED BY <2>1, <2>2, <2>3
<1>5. RealtimesRenewed'
  <2> DEFINE key(r) == ProfileKey(r.gsk, r.upd.cusno)
  <2> SUFFICES ASSUME NEW o \in Owners, realtime'[o] = Persist
               PROVE  \E q \in Procs : key(req'[q]) = o /\ req'[q].pc = "realtime_expire"
    BY DEF RealtimesRenewed
  <2>1. CASE key(req[p]) = o /\ req[p].pc = "realtime_expire"
    BY <1>0, <1>2, <2>1 DEF OthersMove
  <2>2. CASE key(req[p]) = o /\ req[p].pc = "realtime_set"
    <3>1. req'[p].pc = "realtime_expire" /\ Keeps(req[p], req'[p])
      BY <1>0, <2>2, Follows
    <3>2. key(req'[p]) = key(req[p])
      BY <2>2, <3>1 DEF Keeps
    <3> QED BY <2>2, <3>1, <3>2
  <2>3. CASE ~(key(req[p]) = o /\ req[p].pc \in {"realtime_expire", "realtime_set"})
    <3>1. realtime'[o] = realtime[o] \/ realtime'[o] = Expire(realtime[o], now, SessionTTL)
      BY <1>0, <2>3 DEF OthersMove
    <3>2. realtime[o] = Persist
      BY <1>0, <1>2, <3>1
    <3>3. PICK q \in Procs : key(req[q]) = o /\ req[q].pc = "realtime_expire"
      BY <3>2 DEF RenewedInv, RealtimesRenewed
    <3>4. req'[q] = req[q]
      BY <1>1, <2>3, <3>3
    <3> QED BY <3>3, <3>4
  <2> QED BY <2>1, <2>2, <2>3
<1>6. BatchesRenewed'
  <2> SUFFICES ASSUME NEW c \in Cusnos, batch'[c] = Persist
               PROVE  \E q \in Procs : req'[q].upd.cusno = c /\ req'[q].pc = "batch_expire"
    BY DEF BatchesRenewed
  <2>1. CASE req[p].upd.cusno = c /\ req[p].pc = "batch_expire"
    BY <1>0, <1>2, <2>1 DEF OthersMove
  <2>2. CASE req[p].upd.cusno = c /\ req[p].pc = "batch_set"
    <3>1. req'[p].pc = "batch_expire" /\ Keeps(req[p], req'[p])
      BY <1>0, <2>2, Follows
    <3> QED BY <2>2, <3>1 DEF Keeps
  <2>3. CASE ~(req[p].upd.cusno = c /\ req[p].pc \in {"batch_expire", "batch_set"})
    <3>1. batch'[c] = batch[c] \/ batch'[c] = Expire(batch[c], now, SessionTTL)
      BY <1>0, <2>3 DEF OthersMove
    <3>2. batch[c] = Persist
      BY <1>0, <1>2, <3>1
    <3>3. PICK q \in Procs : req[q].upd.cusno = c /\ req[q].pc = "batch_expire"
      BY <3>2 DEF RenewedInv, BatchesRenewed
    <3>4. req'[q] = req[q]
      BY <1>1, <2>3, <3>3
    <3> QED BY <3>3, <3>4
  <2> QED BY <2>1, <2>2, <2>3
<1> QED BY <1>3, <1>4, <1>5, <1>6 DEF RenewedInv

LEMMA RenewedNext ==
  ASSUME "stop" \notin Faults
  PROVE  Basics /\ AliveInv /\ RenewedInv /\ [Next]_vars => RenewedInv'
<1> SUFFICES ASSUME Basics, AliveInv, RenewedInv, [Next]_vars PROVE RenewedInv'
  OBVIOUS
<1>0. TypeInv /\ OnRoutes /\ SessionsStay
  BY DEF Basics, TokenInv, AliveInv
<1>1. ASSUME NEW p \in Procs, Continue(p) \/ LoseAnswer(p)  PROVE RenewedInv'
  BY <1>0, <1>1, HandlerIsMove, HandlerKeepsRenewed
<1>2. ASSUME NEW p \in Procs, Start(p)  PROVE RenewedInv'
  <2>1. /\ UNCHANGED keyVars /\ req[p].pc = "idle"
        /\ \A q \in Procs \ {p} : req'[q] = req[q]
    BY <1>0, <1>2, StartBegins DEF Begins, Idle
  <2>2. \A q \in Procs : req[q].pc \in {"create_expire", "turn_expire", "realtime_expire",
                                        "batch_expire"} => req'[q] = req[q]
    BY <2>1
  <2>3. SessionsRenewed' /\ TurnsRenewed'
    BY <2>1, <2>2 DEF RenewedInv, SessionsRenewed, TurnsRenewed, keyVars
  <2>4. RealtimesRenewed'
    <3> SUFFICES ASSUME NEW o \in Owners, realtime'[o] = Persist
                 PROVE  \E q \in Procs : ProfileKey(req'[q].gsk, req'[q].upd.cusno) = o
                                         /\ req'[q].pc = "realtime_expire"
      BY DEF RealtimesRenewed
    <3>1. PICK q \in Procs : ProfileKey(req[q].gsk, req[q].upd.cusno) = o
                             /\ req[q].pc = "realtime_expire"
      BY <2>1 DEF RenewedInv, RealtimesRenewed, keyVars
    <3> QED BY <2>2, <3>1
  <2>5. BatchesRenewed'
    BY <2>1, <2>2 DEF RenewedInv, BatchesRenewed, keyVars
  <2> QED BY <2>3, <2>4, <2>5 DEF RenewedInv
<1>3. ASSUME NEW p \in Procs, Fail(p)  PROVE FALSE
  BY <1>3 DEF Fail, Fault
<1>4. CASE Tick
  <2>1. /\ req' = req /\ session \in [Sessions -> [hash : Hash, exp : Deadline]]
        /\ turns \in [Sessions -> Deadline] /\ realtime \in [Owners -> Deadline]
        /\ batch \in [Cusnos -> Deadline]
    BY <1>0, <1>4 DEF Tick, StoreTick, TypeInv, TypeOK, StoreTypeOK
  <2>2. /\ \A s \in Sessions : session'[s].exp = Persist => session[s].exp = Persist
        /\ \A s \in Sessions : turns'[s] = Persist => turns[s] = Persist
        /\ \A o \in Owners : realtime'[o] = Persist => realtime[o] = Persist
        /\ \A c \in Cusnos : batch'[c] = Persist => batch[c] = Persist
    BY <1>4, <2>1 DEF Tick, StoreTick, Surviving, Gone, Persist
  <2> QED BY <2>1, <2>2
          DEF RenewedInv, SessionsRenewed, TurnsRenewed, RealtimesRenewed, BatchesRenewed
<1>5. CASE UNCHANGED vars
  BY <1>5 DEF vars, storeVars, keyVars, RenewedInv, SessionsRenewed, TurnsRenewed,
              RealtimesRenewed, BatchesRenewed
<1> QED BY <1>1, <1>2, <1>3, <1>4, <1>5 DEF Next, Horizon

LEMMA RenewedInit == Init => RenewedInv
BY DEF Init, StoreInit, RenewedInv, SessionsRenewed, TurnsRenewed, RealtimesRenewed,
       BatchesRenewed, Gone, Persist

LEMMA RenewedInvariant ==
  ASSUME Prompt, "stop" \notin Faults
  PROVE  Spec => [](Basics /\ AliveInv /\ RenewedInv)
BY RenewedInit, RenewedNext, AliveInvariant, PTL DEF Spec

\* EverythingExpires for every number of overlapping requests, as long as no
\* handler stops half-way: an HSET, RPUSH or SET that makes a key is followed by
\* the EXPIRE of the same handler, and an HSET finds its session there.
THEOREM EveryKeyExpires ==
  ASSUME Prompt, "stop" \notin Faults
  PROVE  Spec => []EverythingExpires
<1>1. RenewedInv => EverythingExpires
  BY DEF RenewedInv, SessionsRenewed, TurnsRenewed, RealtimesRenewed, BatchesRenewed,
         EverythingExpires, AllIdle, Idle
<1> QED BY <1>1, RenewedInvariant, PTL

\* TokensLeadToSessions for every number of overlapping requests, as long as no
\* handler stops half-way: the mapping of a pair is written before its session
\* is stored or after it is renewed, and outlives neither.
THEOREM TokensKeepTheirSessions ==
  ASSUME Prompt, "stop" \notin Faults
  PROVE  Spec => []TokensLeadToSessions
<1>1. ASSUME TypeInv, AliveInv, AllIdle, NEW j \in Jtis, Mapped(j)
      PROVE  Exists(jti[j].gsk)
  <2>1. Promised(j)
    BY <1>1 DEF Promised, Creating, AllIdle, Idle
  <2>2. jti[j].exp \in 1 .. FullLife /\ Lasts(jti[j].gsk, jti[j].exp)
    BY <1>1, <2>1 DEF AliveInv, PairsLast
  <2>3. session[jti[j].gsk].exp \in Deadline /\ FullLife \in Int
    BY <1>1, TTLsArePositive
       DEF TypeInv, MappingsOK, TypeOK, StoreTypeOK, FullLife
  <2> QED BY <2>2, <2>3 DEF Lasts, Exists, Live, Gone, Persist
<1>2. Basics /\ AliveInv => TokensLeadToSessions
  BY <1>1 DEF TokensLeadToSessions, Basics, TokenInv
<1> QED BY <1>2, AliveInvariant, PTL

-----------------------------------------------------------------------------
(* What verify has told callers of a session.                              *)

\* Session s is there until d, or is about to get a full life.
WillLast(s, d) == Exists(s) /\ (Lasts(s, d) \/ Renewing(s))

ShownLast == \A s \in Sessions : Exists(s) => WillLast(s, session[s].hash.expires_at)

\* The deadlines told are kept, which is more than PromisedTimeIsKept: it says
\* by whom.
ToldInv ==
  \A s \in Sessions : /\ told[s] <= FullLife
                      /\ told[s] > now => WillLast(s, told[s])

\* The EXPIRE a handler has yet to send follows, or is this command.
LEMMA RenewingMove ==
  ASSUME TypeInv, NEW p \in Procs, Moves(p), NEW s \in Sessions, Exists(s), Renewing(s)
  PROVE  Renewing(s)' \/ (session'[s].exp = FullLife /\ session'[s].hash = session[s].hash)
<1>1. PICK q \in Procs : req[q].gsk = s /\ req[q].pc \in Expiring
  BY DEF Renewing, Expiring
<1>2. CASE q = p
  <2>1. ExpireSession(s)
    BY <1>1, <1>2 DEF Moves, SessionMoves, Hsetting, Expiring
  <2>2. session \in [Sessions -> [hash : Hash, exp : Deadline]]
    BY DEF TypeInv, TypeOK, StoreTypeOK
  <2> QED BY <2>1, <2>2 DEF ExpireSession, Expire, Exists, FullLife
<1>3. CASE q # p
  BY <1>1, <1>3 DEF Moves, Onward, Renewing, Expiring
<1> QED BY <1>2, <1>3

LEMMA WillLastOn ==
  ASSUME TypeInv, NEW p \in Procs, Moves(p), NEW s \in Sessions, NEW d \in Int,
         d <= FullLife, WillLast(s, d)
  PROVE  WillLast(s, d)'
<1>1. ExpMoves(req[p]) /\ FullLife \in Int
  BY DeadlineMove, TTLsArePositive DEF Moves, TypeInv, TypeOK, StoreTypeOK, FullLife
<1>2. Live(session'[s].exp)
  BY <1>1, LastsOn DEF WillLast
<1>3. CASE Lasts(s, d)
  BY <1>1, <1>2, <1>3, LastsOn DEF WillLast, Exists, Lasts
<1>4. CASE Renewing(s)
  BY <1>1, <1>2, <1>4, RenewingMove DEF WillLast, Exists, Lasts
<1> QED BY <1>3, <1>4 DEF WillLast

LEMMA ShownMoves ==
  ASSUME TypeInv, OnRoutes, SessionsStay, ExpiryBounded, ShownLast,
         NEW p \in Procs, Moves(p)
  PROVE  ShownLast'
<1>0. /\ session \in [Sessions -> [hash : Hash, exp : Deadline]]
      /\ FullLife \in Int /\ FullLife <= FullLife
  BY TTLsArePositive DEF TypeInv, TypeOK, StoreTypeOK, FullLife
<1> SUFFICES ASSUME NEW s \in Sessions, Live(session'[s].exp)
             PROVE  WillLast(s, session[s].hash.expires_at)'
  BY DEF ShownLast, Exists
<1>1. session[s].hash.expires_at \in Int /\ session[s].hash.expires_at <= FullLife
  BY <1>0 DEF Hash, ExpiryBounded, FullLife
<1>2. CASE Exists(s) /\ session'[s].hash.expires_at = session[s].hash.expires_at
  <2> PICK d : d = session[s].hash.expires_at
    OBVIOUS
  <2>1. d \in Int /\ d <= FullLife /\ WillLast(s, d) /\ session'[s].hash.expires_at = d
    BY <1>1, <1>2 DEF ShownLast
  <2>2. WillLast(s, d)'
    BY <2>1, WillLastOn
  <2> QED BY <2>1, <2>2 DEF WillLast, Lasts
<1>3. CASE s = req[p].gsk /\ req[p].pc \in {"create_hset", "ttl_hset"}
  <2>1. Renewing(s)'
    BY <1>3, Follows DEF Moves, Keeps, Renewing
  <2> QED BY <2>1 DEF WillLast, Exists
<1>4. CASE ~(s = req[p].gsk /\ req[p].pc \in {"create_hset", "ttl_hset"})
  <2>1. Exists(s)
    <3> SUFFICES ASSUME ~Exists(s) PROVE FALSE
      OBVIOUS
    <3>1. s = req[p].gsk /\ req[p].pc \in Hsetting
      BY DeadlineMove DEF Moves, ExpMoves, Exists
    <3> QED BY <1>4, <3>1, OnlyCreatesMake
  <2>2. session'[s].hash.expires_at = session[s].hash.expires_at
    <3>1. CASE req[p].pc \in Hsetting /\ s = req[p].gsk
      <4>1. HSetSession(s, Writes(req[p])) /\ req[p].pc \in {"map_hset", "update_hset"}
        BY <1>4, <3>1 DEF Moves, SessionMoves, Hsetting, Expiring
      <4>2. Writes(req[p]).expires_at = 0
        BY <4>1 DEF Writes, NoHash, ExpiryBounded
      <4>3. session'[s].hash = HSet(session[s].hash, Writes(req[p]))
        BY <1>0, <4>1 DEF HSetSession
      <4> QED BY <4>2, <4>3 DEF HSet
    <3>2. CASE ~(req[p].pc \in Hsetting /\ s = req[p].gsk)
      BY <1>0, <3>2 DEF Moves, SessionMoves, HSetSession, ExpireSession
    <3> QED BY <3>1, <3>2
  <2> QED BY <1>2, <2>1, <2>2
<1> QED BY <1>3, <1>4

\* Time passes when no EXPIRE is missing.
LEMMA WillLastInTime ==
  ASSUME Prompt, TypeInv, Tick, NEW s \in Sessions, NEW d \in Int, WillLast(s, d), d > now'
  PROVE  WillLast(s, d)'
<1>1. ~Renewing(s)
  BY DEF Tick, Renewing, Idle
<1>2. Lasts(s, d)
  BY <1>1 DEF WillLast
<1>3. session'[s] = session[s]
  BY <1>2, SessionsInTime DEF Lasts, Deadline, Persist
<1> QED BY <1>2, <1>3 DEF WillLast, Exists, Lasts

LEMMA ShownNext ==
  ASSUME Prompt, "stop" \notin Faults
  PROVE  Basics /\ AliveInv /\ ExpiryBounded /\ ShownLast /\ [Next]_vars => ShownLast'
<1> SUFFICES ASSUME Basics, AliveInv, ExpiryBounded, ShownLast, [Next]_vars
             PROVE  ShownLast'
  OBVIOUS
<1>0. TypeInv /\ OnRoutes /\ SessionsStay
  BY DEF Basics, TokenInv, AliveInv
<1>1. ASSUME NEW p \in Procs, Continue(p) \/ LoseAnswer(p)  PROVE ShownLast'
  BY <1>0, <1>1, HandlerIsMove, ShownMoves
<1>2. ASSUME NEW p \in Procs, Start(p)  PROVE ShownLast'
  <2>1. /\ session' = session /\ req[p].pc = "idle"
        /\ \A q \in Procs \ {p} : req'[q] = req[q]
    BY <1>0, <1>2, StartBegins DEF Begins, Idle, keyVars
  <2>2. \A s \in Sessions : Renewing(s) => Renewing(s)'
    BY <2>1 DEF Renewing
  <2> QED BY <2>1, <2>2 DEF ShownLast, WillLast, Exists, Lasts
<1>3. ASSUME NEW p \in Procs, Fail(p)  PROVE FALSE
  BY <1>3 DEF Fail, Fault
<1>4. CASE Tick
  <2>1. ASSUME NEW s \in Sessions, Live(session'[s].exp)
        PROVE  Exists(s)' /\ Lasts(s, session[s].hash.expires_at)'
    <3>1. session'[s] = session[s] /\ Exists(s)
      BY <1>0, <1>4, <2>1, SessionsInTime
    <3>2. ~Renewing(s)
      BY <1>4 DEF Tick, Renewing, Idle
    <3> QED BY <3>1, <3>2 DEF ShownLast, WillLast, Lasts, Exists
  <2> QED BY <2>1 DEF ShownLast, WillLast, Exists
<1>5. CASE UNCHANGED vars
  BY <1>5 DEF vars, storeVars, keyVars, ShownLast, WillLast, Exists, Lasts, Renewing
<1> QED BY <1>1, <1>2, <1>3, <1>4, <1>5 DEF Next, Horizon

LEMMA ShownInit == Init => ShownLast
BY DEF Init, StoreInit, ShownLast, Exists, Live

\* A session that will last does so whatever step comes next.
LEMMA WillLastNext ==
  ASSUME Prompt, "stop" \notin Faults, TypeInv, [Next]_vars,
         NEW s \in Sessions, NEW d \in Int, d <= FullLife, d > now', WillLast(s, d)
  PROVE  WillLast(s, d)'
<1>1. ASSUME NEW p \in Procs, Continue(p) \/ LoseAnswer(p)  PROVE WillLast(s, d)'
  BY <1>1, HandlerIsMove, WillLastOn
<1>2. CASE session' = session /\ (Renewing(s) => Renewing(s)')
  BY <1>2 DEF WillLast, Exists, Lasts
<1>3. ASSUME NEW p \in Procs, Start(p)
      PROVE  session' = session /\ (Renewing(s) => Renewing(s)')
  BY <1>3, StartBegins DEF Begins, Idle, keyVars, Renewing
<1>4. \A p \in Procs : ~Fail(p)
  BY DEF Fail, Fault
<1>5. CASE Horizon \/ UNCHANGED vars
  BY <1>2, <1>5 DEF Horizon, vars, storeVars, keyVars, Renewing
<1> QED BY <1>1, <1>2, <1>3, <1>4, <1>5, WillLastInTime DEF Next

\* A step beside which no reader adds to what was told.
LEMMA ToldStays ==
  ASSUME Prompt, "stop" \notin Faults, TypeInv, ReadTypeOK, ToldInv, [Next]_vars,
         told' = told
  PROVE  ToldInv'
<1>1. /\ now \in Nat /\ now' \in Nat /\ now' >= now /\ SessionTTL \in Nat
  BY HandlersTakeNoTime, TTLsArePositive
     DEF Next, Tick, StoreTick, Horizon, vars, storeVars, keyVars, TypeInv, TypeOK,
         StoreTypeOK
<1> SUFFICES ASSUME NEW s \in Sessions
             PROVE  /\ told'[s] <= now' + SessionTTL
                    /\ told'[s] > now' => WillLast(s, told[s])'
  BY DEF ToldInv, FullLife
<1> PICK d : d = told[s]
  OBVIOUS
<1>2. d = told'[s] /\ d \in Int
  BY DEF ReadTypeOK
<1>3. d <= FullLife /\ (d > now => WillLast(s, d))
  BY DEF ToldInv
<1>4. ASSUME d > now'  PROVE WillLast(s, d)'
  BY <1>1, <1>2, <1>3, <1>4, WillLastNext
<1> QED BY <1>1, <1>2, <1>3, <1>4 DEF FullLife, WillLast, Lasts

LEMMA ToldNext ==
  ASSUME Prompt, "stop" \notin Faults
  PROVE  TypeInv /\ ReadTypeOK /\ ExpiryBounded /\ ShownLast /\ ToldInv
           /\ [ReadNext]_readVars => ToldInv'
<1> SUFFICES ASSUME TypeInv, ReadTypeOK, ExpiryBounded, ShownLast, ToldInv,
                    [ReadNext]_readVars
             PROVE  ToldInv'
  OBVIOUS
<1>1. CASE told' = told /\ [Next]_vars
  BY <1>1, ToldStays
<1>2. ASSUME NEW r \in Readers, VerifyGet(r), UNCHANGED vars  PROVE ToldInv'
  <2>0. /\ told \in [Sessions -> Nat] /\ UNCHANGED <<now, session, req>>
        /\ session \in [Sessions -> [hash : Hash, exp : Deadline]]
    BY <1>2 DEF ReadTypeOK, TypeInv, TypeOK, StoreTypeOK, vars, storeVars, keyVars
  <2> SUFFICES ASSUME NEW s \in Sessions
               PROVE  /\ told'[s] <= FullLife
                      /\ told'[s] > now => WillLast(s, told'[s])
    BY <2>0 DEF ToldInv, FullLife, WillLast, Exists, Lasts, Renewing
  <2>1. \/ told'[s] = told[s]
        \/ told'[s] = session[s].hash.expires_at /\ session[s].hash.expires_at > told[s]
    BY <1>2, <2>0 DEF VerifyGet
  <2>2. told[s] <= FullLife /\ (told[s] > now => WillLast(s, told[s]))
    BY DEF ToldInv
  <2>3. /\ session[s].hash.expires_at <= FullLife
        /\ session[s].hash.expires_at > told[s] => Exists(s)
    BY <2>0 DEF ExpiryBounded, FullLife
  <2>4. Exists(s) => WillLast(s, session[s].hash.expires_at)
    BY DEF ShownLast
  <2> QED BY <2>1, <2>2, <2>3, <2>4
<1>3. (told' = told /\ [Next]_vars)
      \/ (UNCHANGED vars /\ \E r \in Readers : VerifyGet(r))
  BY DEF ReadNext, Serve, Read, VerifyLookup, ResolveGet, ResolveMapping, ResolveBatch,
         ResolveRealtime, readVars
<1> QED BY <1>1, <1>2, <1>3

\* PromisedTimeIsKept for every number of overlapping readers and writers: a
\* caller who was told when a session ends finds it until then, whatever
\* expires_at an update writes back over it.
THEOREM ToldTimeIsKept ==
  ASSUME Prompt, "stop" \notin Faults
  PROVE  ReadSpec => []PromisedTimeIsKept
<1>1. ReadInit => ReadTypeOK /\ ToldInv
  <2>1. ReadInit => ToldInv
    BY TTLsArePositive DEF ReadInit, Init, StoreInit, ToldInv, FullLife
  <2> QED BY <2>1, ReadTypeInit
<1>2. Spec => [](Basics /\ AliveInv /\ ExpiryBounded /\ ShownLast)
  <2>1. ExpiryInv => ExpiryBounded
    BY DEF ExpiryInv
  <2> QED BY <2>1, ShownInit, ShownNext, AliveInvariant, ExpiryInvariant, PTL DEF Spec
<1>3. Basics => TypeInv
  BY DEF Basics, TokenInv
<1>4. ToldInv => PromisedTimeIsKept
  BY DEF ToldInv, WillLast, PromisedTimeIsKept
<1> QED BY <1>1, <1>2, <1>3, <1>4, ReadTypeNext, ToldNext, ReadersOnlyRead, PTL
        DEF ReadSpec

-----------------------------------------------------------------------------
(* The customer a session names has a realtime profile.                    *)

\* The customer's profile is there until d.
ProfileLasts(c, d) == Live(realtime[c]) /\ (realtime[c] = Persist \/ realtime[c] >= d)

\* refresh_ttl has yet to renew the profile of the customer it has read.
TtlKnows == {"ttl_expire", "ttl_turns", "ttl_realtime"}
Due(s, c) ==
  \E p \in Procs : req[p].gsk = s /\ req[p].snap.cusno = c /\ req[p].pc \in TtlKnows

\* The profile is there or about to be stored; it lasts until d or is about to
\* be renewed.
HasProfile(c) == Live(realtime[c]) \/ Naming(c)
Covers(s, c, d) ==
  Naming(c) \/ (Live(realtime[c]) /\ (ProfileLasts(c, d) \/ Due(s, c)))

CusnoOf(s) == session[s].hash.cusno

SessionsBounded ==
  \A s \in Sessions : /\ session[s].exp <= FullLife
                      /\ ~Exists(s) => CusnoOf(s) = None

\* The customer of a session is covered until the session goes.
CustomersCovered ==
  \A s \in Sessions : Exists(s) /\ CusnoOf(s) # None =>
    Covers(s, CusnoOf(s), session[s].exp)

\* The customer a refresh_ttl has read has a profile.
SnapsCovered ==
  \A p \in Procs : req[p].pc \in TtlKnows \cup {"ttl_hset"} /\ req[p].snap.cusno # None =>
    HasProfile(req[p].snap.cusno)

\* The customer of a session that is about to be given a full life is one that
\* the handler has read, or one that is covered that long.
RenewalsCovered ==
  \A p \in Procs :
    LET s == req[p].gsk
    IN  req[p].pc \in {"create_hset", "create_expire", "ttl_hset", "ttl_expire"} =>
          \/ CusnoOf(s) = None
          \/ CusnoOf(s) = req[p].snap.cusno /\ req[p].pc \in {"ttl_hset", "ttl_expire"}
          \/ Covers(s, CusnoOf(s), FullLife)

ProfileInv == SessionsBounded /\ CustomersCovered /\ SnapsCovered /\ RenewalsCovered

\* What one command does to the profile of a customer, and to the handlers that
\* are about to store or to renew it.
LEMMA ProfileMoves ==
  ASSUME TypeInv, OnRoutes, NEW p \in Procs, Moves(p), NEW c \in Cusnos
  PROVE  /\ Live(realtime[c]) => Live(realtime'[c])
         /\ realtime'[c] \in {realtime[c], Persist, FullLife}
         /\ Naming(c) => Naming(c)' \/ realtime'[c] = Persist
         /\ \A s \in Sessions : Due(s, c) /\ Live(realtime[c]) =>
              Due(s, c)' \/ realtime'[c] = FullLife
<1>0. /\ Onward(p) /\ OthersMove(req[p]) /\ realtime \in [Owners -> Deadline]
      /\ c \in Owners /\ c # None /\ now \in Nat /\ SessionTTL \in Nat /\ SessionTTL > 0
      /\ \A q \in Procs \ {p} : req'[q] = req[q]
  BY NoneIsNoValue, TTLsArePositive
     DEF Moves, Onward, TypeInv, TypeOK, StoreTypeOK, Owners
<1>1. /\ Live(realtime[c]) => Live(realtime'[c])
      /\ realtime'[c] \in {realtime[c], Persist, FullLife}
  BY <1>0 DEF OthersMove, Overwrite, Expire, Live, Gone, Persist, FullLife
<1>2. ASSUME Naming(c)  PROVE Naming(c)' \/ realtime'[c] = Persist
  <2>1. PICK q \in Procs : req[q].pc = "realtime_set" /\ req[q].upd.cusno = c
    BY <1>2 DEF Naming
  <2>2. CASE q # p
    BY <1>0, <2>1, <2>2 DEF Naming
  <2>3. CASE q = p
    BY <1>0, <2>1, <2>3 DEF OthersMove, ProfileKey, Overwrite
  <2> QED BY <2>2, <2>3
<1>3. ASSUME NEW s \in Sessions, Due(s, c), Live(realtime[c])
      PROVE  Due(s, c)' \/ realtime'[c] = FullLife
  <2>1. PICK q \in Procs : /\ req[q].gsk = s /\ req[q].snap.cusno = c
                           /\ req[q].pc \in TtlKnows
    BY <1>3 DEF Due
  <2>2. CASE q # p
    BY <1>0, <2>1, <2>2 DEF Due
  <2>3. CASE q = p /\ req[p].pc = "ttl_realtime"
    BY <1>0, <1>3, <2>1, <2>3 DEF OthersMove, ProfileKey, Expire, FullLife
  <2>4. CASE q = p /\ req[p].pc \in {"ttl_expire", "ttl_turns"}
    <3>1. /\ req'[p].pc \in {"ttl_turns", "ttl_realtime"}
          /\ Keeps(req[p], req'[p])
      BY <1>0, <2>4, Follows
    <3>2. req'[p].gsk = s /\ req'[p].snap = req[p].snap
      BY <2>1, <2>4, <3>1 DEF Keeps
    <3> QED BY <2>1, <2>4, <3>1, <3>2 DEF Due, TtlKnows
  <2> QED BY <2>1, <2>2, <2>3, <2>4 DEF TtlKnows
<1> QED BY <1>1, <1>2, <1>3

\* A customer who is covered stays covered.
LEMMA CoversOn ==
  ASSUME TypeInv, OnRoutes, NEW p \in Procs, Moves(p), NEW c \in Cusnos
  PROVE  /\ HasProfile(c) => HasProfile(c)'
         /\ \A s \in Sessions, d \in Int : d <= FullLife /\ Covers(s, c, d) =>
              \/ Naming(c)'
              \/ /\ Live(realtime'[c])
                 /\ realtime'[c] = Persist \/ realtime'[c] >= d \/ Due(s, c)'
<1>0. FullLife \in Nat /\ FullLife > 0 /\ Live(Persist)
  BY TTLsArePositive DEF FullLife, TypeInv, TypeOK, StoreTypeOK, Live, Gone, Persist
<1>1. HasProfile(c) => HasProfile(c)'
  BY <1>0, ProfileMoves DEF HasProfile
<1>2. ASSUME NEW s \in Sessions, NEW d \in Int, d <= FullLife, Covers(s, c, d)
      PROVE  \/ Naming(c)'
             \/ /\ Live(realtime'[c])
                /\ realtime'[c] = Persist \/ realtime'[c] >= d \/ Due(s, c)'
  <2>1. CASE Naming(c)
    BY <1>0, <2>1, ProfileMoves
  <2>2. CASE Live(realtime[c]) /\ Due(s, c)
    BY <1>0, <1>2, <2>2, ProfileMoves
  <2>3. CASE ProfileLasts(c, d)
    BY <1>0, <1>2, <2>3, ProfileMoves DEF ProfileLasts
  <2> QED BY <1>2, <2>1, <2>2, <2>3 DEF Covers
<1> QED BY <1>1, <1>2

\* What one command does to the customer a session names.
CusnoMoves(r) ==
  \A s \in Sessions :
    \/ session'[s].hash.cusno = CusnoOf(s)
    \/ /\ r.gsk = s /\ Exists(s)
       /\ session'[s].exp = session[s].exp
       /\ \/ r.pc = "ttl_hset" /\ session'[s].hash.cusno = r.snap.cusno
          \/ r.pc = "update_hset" /\ r.op = "profile" /\ session'[s].hash.cusno = r.upd.cusno
       /\ session'[s].hash.cusno # None

LEMMA CustomerMoves ==
  ASSUME TypeInv, OnRoutes, SessionsStay, NEW p \in Procs, Moves(p)
  PROVE  CusnoMoves(req[p])
<1>0. session \in [Sessions -> [hash : Hash, exp : Deadline]]
  BY DEF TypeInv, TypeOK, StoreTypeOK
<1> SUFFICES ASSUME NEW s \in Sessions, session'[s].hash.cusno # CusnoOf(s)
             PROVE  /\ req[p].gsk = s /\ Exists(s)
                    /\ session'[s].exp = session[s].exp
                    /\ \/ /\ req[p].pc = "ttl_hset"
                          /\ session'[s].hash.cusno = req[p].snap.cusno
                       \/ /\ req[p].pc = "update_hset" /\ req[p].op = "profile"
                          /\ session'[s].hash.cusno = req[p].upd.cusno
                    /\ session'[s].hash.cusno # None
  BY DEF CusnoMoves
<1>1. req[p].gsk = s /\ req[p].pc \in Hsetting /\ HSetSession(s, Writes(req[p]))
  BY <1>0 DEF Moves, SessionMoves, HSetSession, ExpireSession, CusnoOf
<1>2. session'[s].hash = HSet(session[s].hash, Writes(req[p]))
      /\ session'[s].exp = Write(session[s].exp)
  BY <1>0, <1>1 DEF HSetSession
<1>3. Writes(req[p]).cusno # None /\ session'[s].hash.cusno = Writes(req[p]).cusno
  BY <1>2 DEF HSet, CusnoOf
<1>4. CASE req[p].pc \in {"create_hset", "map_hset"}
  BY <1>3, <1>4 DEF Writes, NoHash
<1>5. CASE req[p].pc = "ttl_hset"
  <2>1. Writes(req[p]) = [req[p].snap EXCEPT !.expires_at = ExpiresAt]
    BY <1>5 DEF Writes
  <2>2. req[p].snap \in Hash
    BY InFlightTyped DEF Request
  <2>3. Writes(req[p]).cusno = req[p].snap.cusno
    BY <2>1, <2>2 DEF Hash
  <2>4. Exists(s)
    BY <1>1, <1>5, OnlyCreatesMake
  <2> QED BY <1>1, <1>2, <1>3, <1>5, <2>3, <2>4 DEF Write, Exists
<1>6. CASE req[p].pc = "update_hset"
  <2>1. Writes(req[p]) = req[p].upd
    BY <1>6 DEF Writes
  <2>2. req[p].op = "profile"
    BY <1>3, <2>1 DEF OnRoutes, OnRoute
  <2>3. Exists(s)
    BY <1>1, <1>6, OnlyCreatesMake
  <2> QED BY <1>1, <1>2, <1>3, <1>6, <2>1, <2>2, <2>3 DEF Write, Exists
<1> QED BY <1>1, <1>4, <1>5, <1>6 DEF Hsetting

LEMMA CusnosTyped ==
  ASSUME TypeInv, NEW p \in Procs, Moves(p), Basics, SessionsStay, NEW s \in Sessions
  PROVE  /\ CusnoOf(s) \in Cusnos \cup {None}
         /\ session'[s].hash.cusno \in Cusnos \cup {None}
<1>1. CusnoOf(s) \in Cusnos \cup {None}
  BY DEF CusnoOf, TypeInv, TypeOK, StoreTypeOK, Hash
<1>2. /\ req[p].snap.cusno \in Cusnos \cup {None}
      /\ req[p].upd.cusno \in Cusnos \cup {None}
  BY DEF TypeInv, RequestsOK, Request, Hash
<1> QED BY <1>1, <1>2, CustomerMoves DEF CusnoMoves, Basics

\* A customer whom a session names anew is about to get a profile, or is the one
\* whom a refresh_ttl has read and whose profile it will renew.
LEMMA NamedAnew ==
  ASSUME Basics, SessionsStay, SnapsCovered, NEW p \in Procs, Moves(p),
         NEW s \in Sessions, NEW c \in Cusnos,
         c = session'[s].hash.cusno, c # CusnoOf(s)
  PROVE  Naming(c)' \/ (Live(realtime'[c]) /\ Due(s, c)')
<1>0. TypeInv /\ OnRoutes /\ Onward(p)
  BY DEF Basics, TokenInv, Moves
<1>1. \/ req[p].gsk = s /\ req[p].pc = "ttl_hset" /\ c = req[p].snap.cusno
      \/ /\ req[p].pc = "update_hset" /\ req[p].op = "profile"
         /\ c = req[p].upd.cusno
  BY <1>0, CustomerMoves DEF CusnoMoves
<1>2. CASE req[p].gsk = s /\ req[p].pc = "ttl_hset" /\ c = req[p].snap.cusno
  <2>1. req'[p].pc = "ttl_expire" /\ Keeps(req[p], req'[p])
    BY <1>0, <1>2, Follows
  <2>2. req'[p].gsk = s /\ req'[p].snap.cusno = c
    BY <1>2, <2>1, Endings DEF Keeps
  <2>3. Due(s, c)'
    BY <2>1, <2>2 DEF Due, TtlKnows
  <2>4. HasProfile(c)
    BY <1>2, NoneIsNoValue DEF SnapsCovered
  <2>5. HasProfile(c)'
    BY <1>0, <2>4, CoversOn
  <2> QED BY <2>3, <2>5 DEF HasProfile
<1>3. CASE /\ req[p].pc = "update_hset" /\ req[p].op = "profile"
           /\ c = req[p].upd.cusno
  <2>1. \A m : Leads(req[p], m) => m = "realtime_set"
    BY <1>3 DEF Leads, AfterUpdate
  <2>2. req'[p].pc = "realtime_set" /\ Keeps(req[p], req'[p])
    BY <1>0, <2>1 DEF Onward
  <2>3. req'[p].upd = req[p].upd
    BY <1>3, <2>2 DEF Keeps
  <2> QED BY <1>3, <2>2, <2>3 DEF Naming
<1> QED BY <1>1, <1>2, <1>3

\* Where the commands of refresh_ttl and create come from.
LEMMA Follow ==
  ASSUME NEW r, NEW m, Leads(r, m)
  PROVE  /\ m = "ttl_hset" => r.pc = "ttl_get" /\ Exists(r.gsk)
         /\ m = "ttl_expire" => r.pc = "ttl_hset"
         /\ m = "ttl_turns" => r.pc = "ttl_expire"
         /\ m = "ttl_realtime" => r.pc = "ttl_turns"
         /\ m = "create_hset" => r.pc = "create_get" /\ ~Exists(r.gsk)
         /\ m = "create_expire" => r.pc = "create_hset"
BY DEF Leads, AfterRefreshTtl, AfterUpdate

LEMMA BoundsMove ==
  ASSUME Basics, SessionsStay, SessionsBounded, NEW p \in Procs, Moves(p)
  PROVE  SessionsBounded'
<1>0. TypeInv /\ OnRoutes /\ ExpMoves(req[p]) /\ CusnoMoves(req[p]) /\ now' = now
      /\ FullLife \in Nat /\ FullLife > 0
  BY DeadlineMove, CustomerMoves, TTLsArePositive
     DEF Basics, TokenInv, Moves, FullLife, TypeInv, TypeOK, StoreTypeOK
<1> SUFFICES ASSUME NEW s \in Sessions
             PROVE  /\ session'[s].exp <= FullLife
                    /\ ~Live(session'[s].exp) => session'[s].hash.cusno = None
  BY <1>0 DEF SessionsBounded, CusnoOf, Exists, FullLife
<1>1. session'[s].exp <= FullLife
  BY <1>0 DEF ExpMoves, SessionsBounded, Persist
<1>2. ASSUME ~Live(session'[s].exp)  PROVE session'[s].hash.cusno = None
  <2>1. ~Exists(s)
    BY <1>0, <1>2, LastsOn
  <2> QED BY <1>0, <2>1 DEF CusnoMoves, SessionsBounded
<1> QED BY <1>1, <1>2

LEMMA CustomersMove ==
  ASSUME Basics, SessionsStay, ProfileInv, NEW p \in Procs, Moves(p)
  PROVE  CustomersCovered'
<1>0. /\ TypeInv /\ OnRoutes /\ ExpMoves(req[p]) /\ FullLife \in Int
      /\ FullLife <= FullLife /\ Onward(p)
      /\ \A s \in Sessions : session[s].exp \in Int /\ session[s].exp <= FullLife
  BY DeadlineMove, TTLsArePositive
     DEF Basics, TokenInv, Moves, FullLife, TypeInv, TypeOK, StoreTypeOK, Deadline, Persist,
         ProfileInv, SessionsBounded
<1> SUFFICES ASSUME NEW s \in Sessions, Live(session'[s].exp),
                    NEW c, c = session'[s].hash.cusno, c # None
             PROVE  \/ Naming(c)'
                    \/ /\ Live(realtime'[c])
                       /\ \/ realtime'[c] = Persist \/ realtime'[c] >= session'[s].exp
                          \/ Due(s, c)'
  BY DEF CustomersCovered, Covers, ProfileLasts, CusnoOf, Exists
<1>1. c \in Cusnos
  BY <1>0, CusnosTyped
<1>2. CASE c # CusnoOf(s)
  BY <1>1, <1>2, NamedAnew DEF ProfileInv
<1>3. CASE c = CusnoOf(s)
  <2>1. Exists(s) /\ Covers(s, c, session[s].exp)
    BY <1>3 DEF ProfileInv, SessionsBounded, CustomersCovered
  <2>2. CASE session'[s].exp = session[s].exp
    <3> PICK d : d = session[s].exp
      OBVIOUS
    <3>1. d \in Int /\ d <= FullLife /\ Covers(s, c, d) /\ session'[s].exp = d
      BY <1>0, <2>1, <2>2
    <3> QED BY <1>0, <1>1, <3>1, CoversOn
  <2>3. CASE s = req[p].gsk /\ req[p].pc \in Expiring /\ session'[s].exp = FullLife
    <3>1. \/ c = req[p].snap.cusno /\ req[p].pc = "ttl_expire"
          \/ Covers(s, c, FullLife)
      BY <1>3, <2>3 DEF ProfileInv, RenewalsCovered, Expiring
    <3>2. CASE Covers(s, c, FullLife)
      <4> PICK d : d = FullLife
        OBVIOUS
      <4>1. d \in Int /\ d <= FullLife /\ Covers(s, c, d) /\ session'[s].exp = d
        BY <1>0, <2>3, <3>2
      <4> QED BY <1>0, <1>1, <4>1, CoversOn
    <3>3. CASE c = req[p].snap.cusno /\ req[p].pc = "ttl_expire"
      <4>1. req'[p].pc = "ttl_turns" /\ Keeps(req[p], req'[p])
        BY <1>0, <3>3, Follows
      <4>2. req'[p].gsk = s /\ req'[p].snap = req[p].snap
        BY <2>3, <3>3, <4>1 DEF Keeps
      <4>3. Due(s, c)'
        BY <3>3, <4>1, <4>2 DEF Due, TtlKnows
      <4>4. HasProfile(c)
        BY <3>3 DEF ProfileInv, SnapsCovered, TtlKnows
      <4>5. HasProfile(c)'
        BY <1>0, <1>1, <4>4, CoversOn
      <4> QED BY <4>3, <4>5 DEF HasProfile
    <3> QED BY <3>1, <3>2, <3>3
  <2> QED BY <1>0, <2>1, <2>2, <2>3 DEF ExpMoves
<1> QED BY <1>2, <1>3

LEMMA SnapsMove ==
  ASSUME Basics, SessionsStay, ProfileInv, NEW p \in Procs, Moves(p)
  PROVE  SnapsCovered'
<1>0. TypeInv /\ OnRoutes /\ Onward(p)
  BY DEF Basics, TokenInv, Moves
<1> SUFFICES ASSUME NEW q \in Procs, req'[q].pc \in TtlKnows \cup {"ttl_hset"},
                    NEW c, c = req'[q].snap.cusno, c # None
             PROVE  HasProfile(c)'
  BY DEF SnapsCovered, HasProfile, Naming
<1>1. HasProfile(c) /\ c \in Cusnos
  <2>1. CASE q # p
    <3>1. req'[q] = req[q] /\ req[q].snap.cusno \in Cusnos \cup {None}
      BY <1>0, <2>1 DEF Onward, TypeInv, RequestsOK, Request, Hash
    <3> QED BY <3>1 DEF ProfileInv, SnapsCovered
  <2>2. CASE q = p
    <3>0. Leads(req[p], req'[p].pc) /\ Keeps(req[p], req'[p])
      BY <1>0, <2>2 DEF Onward, Idle, TtlKnows
    <3>1. /\ req[p].snap.cusno \in Cusnos \cup {None}
          /\ req[p].pc \in Steps => req[p].gsk \in Sessions
      BY <1>0, InFlight DEF TypeInv, RequestsOK, Request, Hash, Fits
    <3>2. CASE req'[p].pc = "ttl_hset"
      <4>1. req[p].pc = "ttl_get" /\ Exists(req[p].gsk)
        BY <3>0, <3>2, Follow
      <4>2. req[p].gsk \in Sessions
        BY <3>1, <4>1 DEF Steps, TtlSteps
      <4>3. c = CusnoOf(req[p].gsk) /\ c \in Cusnos
        BY <1>0, <2>2, <3>0, <4>1, <4>2, CusnosTyped DEF Keeps, CusnoOf
      <4>4. Covers(req[p].gsk, c, session[req[p].gsk].exp)
        BY <4>1, <4>2, <4>3 DEF ProfileInv, CustomersCovered
      <4> QED BY <4>3, <4>4 DEF Covers, HasProfile, ProfileLasts
    <3>3. CASE req'[p].pc \in TtlKnows
      <4>1. req[p].pc \in {"ttl_hset", "ttl_expire", "ttl_turns"}
        BY <3>0, <3>3, Follow DEF TtlKnows
      <4>2. c = req[p].snap.cusno
        BY <2>2, <3>0, <3>3, <4>1, Endings DEF Keeps, TtlKnows
      <4> QED BY <3>1, <4>1, <4>2 DEF ProfileInv, SnapsCovered, TtlKnows
    <3> QED BY <2>2, <3>2, <3>3
  <2> QED BY <2>1, <2>2
<1> QED BY <1>0, <1>1, CoversOn

LEMMA RenewalsMove ==
  ASSUME Basics, SessionsStay, ProfileInv, NEW p \in Procs, Moves(p)
  PROVE  RenewalsCovered'
<1>0. /\ TypeInv /\ OnRoutes /\ Onward(p) /\ now' = now
      /\ FullLife \in Int /\ FullLife <= FullLife
  BY TTLsArePositive
     DEF Basics, TokenInv, Moves, FullLife, TypeInv, TypeOK, StoreTypeOK
<1> DEFINE Behind == {"create_hset", "create_expire", "ttl_hset", "ttl_expire"}
<1> SUFFICES ASSUME NEW q \in Procs, req'[q].pc \in Behind,
                    NEW s, s = req'[q].gsk, NEW c, c = session'[s].hash.cusno, c # None,
                    ~(c = req'[q].snap.cusno /\ req'[q].pc \in {"ttl_hset", "ttl_expire"})
             PROVE  \/ Naming(c)'
                    \/ /\ Live(realtime'[c])
                       /\ \/ realtime'[c] = Persist \/ realtime'[c] >= FullLife
                          \/ Due(s, c)'
  BY <1>0 DEF RenewalsCovered, Covers, ProfileLasts, CusnoOf, FullLife
<1>1. /\ req'[q].gsk = req[q].gsk /\ s \in Sessions
      /\ q # p => req'[q] = req[q]
      /\ q = p => Leads(req[p], req'[p].pc) /\ Keeps(req[p], req'[p])
  <2>1. q # p => req'[q] = req[q]
    BY <1>0 DEF Onward
  <2>2. q = p => Leads(req[p], req'[p].pc) /\ Keeps(req[p], req'[p])
    BY <1>0 DEF Onward, Idle
  <2>3. req'[q].gsk = req[q].gsk
    BY <2>1, <2>2 DEF Keeps
  <2>4. req[q].pc # "idle"
    BY <2>1, <2>2, Follow
  <2> QED BY <1>0, <2>1, <2>2, <2>3, <2>4, InFlightTyped
<1>2. c \in Cusnos
  BY <1>0, <1>1, CusnosTyped
<1>3. CASE c # CusnoOf(s)
  BY <1>1, <1>2, <1>3, NamedAnew DEF ProfileInv
<1>4. ASSUME Covers(s, c, FullLife)
      PROVE  \/ Naming(c)'
             \/ /\ Live(realtime'[c])
                /\ realtime'[c] = Persist \/ realtime'[c] >= FullLife \/ Due(s, c)'
  <2> PICK d : d = FullLife
    OBVIOUS
  <2>1. d \in Int /\ d <= FullLife /\ Covers(s, c, d)
    BY <1>0, <1>4
  <2> QED BY <1>0, <1>1, <1>2, <2>1, CoversOn
<1>5. CASE c = CusnoOf(s) /\ q # p
  <2>1. req[q].pc \in Behind /\ req[q].gsk = s
        /\ ~(c = req[q].snap.cusno /\ req[q].pc \in {"ttl_hset", "ttl_expire"})
    BY <1>1, <1>5
  <2>2. Covers(s, c, FullLife)
    BY <1>5, <2>1 DEF ProfileInv, RenewalsCovered
  <2> QED BY <1>4, <2>2
<1>6. CASE c = CusnoOf(s) /\ q = p
  <2>1. CASE req'[p].pc = "ttl_hset"
    <3>1. req[p].pc = "ttl_get" /\ Exists(req[p].gsk)
      BY <1>1, <1>6, <2>1, Follow
    <3>2. req'[p].snap = session[s].hash
      BY <1>1, <1>6, <3>1 DEF Keeps
    <3> QED BY <1>6, <2>1, <3>2 DEF CusnoOf
  <2>2. CASE req'[p].pc = "ttl_expire"
    <3>1. req[p].pc = "ttl_hset"
      BY <1>1, <1>6, <2>2, Follow
    <3>2. req'[p].snap.cusno = req[p].snap.cusno
      BY <1>1, <1>6, <3>1, Endings DEF Keeps
    <3>3. Covers(s, c, FullLife)
      BY <1>1, <1>6, <2>2, <3>1, <3>2 DEF ProfileInv, RenewalsCovered
    <3> QED BY <1>4, <3>3
  <2>3. CASE req'[p].pc = "create_hset"
    <3>1. ~Exists(s)
      BY <1>1, <1>6, <2>3, Follow
    <3> QED BY <1>1, <1>6, <3>1 DEF ProfileInv, SessionsBounded
  <2>4. CASE req'[p].pc = "create_expire"
    <3>1. req[p].pc = "create_hset"
      BY <1>1, <1>6, <2>4, Follow
    <3>2. Covers(s, c, FullLife)
      BY <1>1, <1>6, <3>1 DEF ProfileInv, RenewalsCovered
    <3> QED BY <1>4, <3>2
  <2> QED BY <1>6, <2>1, <2>2, <2>3, <2>4
<1> QED BY <1>3, <1>5, <1>6

\* What a new request does to the keys and to the handlers in flight.
LEMMA StartIsQuiet ==
  ASSUME TypeInv, NEW p \in Procs, Start(p)
  PROVE  /\ UNCHANGED keyVars
         /\ \A q \in Procs : req'[q] = req[q]
              \/ /\ req[q].pc = "idle"
                 /\ req'[q].pc \notin TtlKnows \cup {"ttl_hset", "create_hset", "create_expire"}
BY StartBegins DEF Begins, Idle, TtlKnows, Creates, Refreshes, ByKey

\* Steps that leave the keys alone and take no handler out of its commands.
LEMMA CoveredStays ==
  ASSUME UNCHANGED <<keyVars>>,
         \A q \in Procs : req'[q] = req[q]
           \/ /\ req[q].pc = "idle"
              /\ req'[q].pc \notin TtlKnows \cup {"ttl_hset", "create_hset", "create_expire"},
         ProfileInv
  PROVE  ProfileInv' /\ \A c : HasProfile(c) => HasProfile(c)'
<1>0. UNCHANGED <<now, session, realtime>>
  BY DEF keyVars
<1>1. \A c : Naming(c) => Naming(c)'
  <2> SUFFICES ASSUME NEW c, Naming(c) PROVE Naming(c)'
    OBVIOUS
  <2>1. PICK q \in Procs : req[q].pc = "realtime_set" /\ req[q].upd.cusno = c
    BY DEF Naming
  <2>2. req'[q] = req[q]
    BY <2>1
  <2> QED BY <2>1, <2>2 DEF Naming
<1>2. \A s, c : Due(s, c) => Due(s, c)'
  <2> SUFFICES ASSUME NEW s, NEW c, Due(s, c) PROVE Due(s, c)'
    OBVIOUS
  <2>1. PICK q \in Procs : /\ req[q].gsk = s /\ req[q].snap.cusno = c
                           /\ req[q].pc \in TtlKnows
    BY DEF Due
  <2>2. req'[q] = req[q]
    BY <2>1 DEF TtlKnows
  <2> QED BY <2>1, <2>2 DEF Due
<1>3. \A c : HasProfile(c) => HasProfile(c)'
  BY <1>0, <1>1 DEF HasProfile
<1>4. \A s, c, d : Covers(s, c, d) =>
        \/ Naming(c)'
        \/ Live(realtime[c]) /\ (ProfileLasts(c, d) \/ Due(s, c)')
  BY <1>1, <1>2 DEF Covers
<1>5. SessionsBounded'
  BY <1>0 DEF ProfileInv, SessionsBounded, CusnoOf, Exists, FullLife
<1>6. CustomersCovered'
  <2> SUFFICES ASSUME NEW s \in Sessions, Exists(s), CusnoOf(s) # None
               PROVE  \/ Naming(CusnoOf(s))'
                      \/ /\ Live(realtime[CusnoOf(s)])
                         /\ \/ ProfileLasts(CusnoOf(s), session[s].exp)
                            \/ Due(s, CusnoOf(s))'
    BY <1>0 DEF CustomersCovered, Covers, ProfileLasts, CusnoOf, Exists, Naming, Due
  <2> QED BY <1>0, <1>4 DEF ProfileInv, CustomersCovered, CusnoOf
<1>7. SnapsCovered'
  BY <1>3 DEF ProfileInv, SnapsCovered, HasProfile, Naming
<1>8. RenewalsCovered'
  <2> SUFFICES ASSUME NEW q \in Procs, NEW s, s = req[q].gsk, req'[q] = req[q],
                      req[q].pc \in {"create_hset", "create_expire", "ttl_hset",
                                     "ttl_expire"}
               PROVE  \/ CusnoOf(s) = None
                      \/ /\ CusnoOf(s) = req[q].snap.cusno
                         /\ req[q].pc \in {"ttl_hset", "ttl_expire"}
                      \/ Covers(s, CusnoOf(s), FullLife)'
    BY <1>0 DEF RenewalsCovered, CusnoOf, TtlKnows
  <2>1. \/ CusnoOf(s) = None
        \/ CusnoOf(s) = req[q].snap.cusno /\ req[q].pc \in {"ttl_hset", "ttl_expire"}
        \/ Covers(s, CusnoOf(s), FullLife)
    BY DEF ProfileInv, RenewalsCovered
  <2>2. Covers(s, CusnoOf(s), FullLife) => Covers(s, CusnoOf(s), FullLife)'
    <3> PICK c, d : c = CusnoOf(s) /\ d = FullLife
      OBVIOUS
    <3>1. CusnoOf(s)' = c /\ FullLife' = d
      BY <1>0 DEF CusnoOf, FullLife
    <3>2. Covers(s, c, d) => Covers(s, c, d)'
      BY <1>0, <1>4 DEF Covers, ProfileLasts
    <3> QED BY <3>1, <3>2 DEF Covers, ProfileLasts, Naming, Due
  <2> QED BY <2>1, <2>2
<1> QED BY <1>3, <1>5, <1>6, <1>7, <1>8 DEF ProfileInv

\* Time passes when every profile has its deadline, no earlier than that of the
\* session.
LEMMA ProfileTick ==
  ASSUME Prompt, TypeInv, RenewedInv, ProfileInv, Tick
  PROVE  ProfileInv'
<1>0. /\ now' = now + 1 /\ now \in Nat /\ SessionTTL \in Nat
      /\ \A p \in Procs : req[p] = Idle /\ req'[p] = Idle
      /\ realtime \in [Owners -> Deadline] /\ Idle.pc = "idle"
      /\ session \in [Sessions -> [hash : Hash, exp : Deadline]]
  BY TTLsArePositive DEF Tick, StoreTick, TypeInv, TypeOK, StoreTypeOK, Idle
<1>1. SnapsCovered' /\ RenewalsCovered'
  BY <1>0 DEF SnapsCovered, RenewalsCovered, TtlKnows
<1>2. SessionsBounded'
  <2> SUFFICES ASSUME NEW s \in Sessions
               PROVE  /\ session'[s].exp <= now' + SessionTTL
                      /\ ~Live(session'[s].exp) => session'[s].hash.cusno = None
    BY DEF SessionsBounded, CusnoOf, Exists, FullLife
  <2>1. session[s].exp <= now + SessionTTL /\ (~Exists(s) => session[s].hash.cusno = None)
    BY DEF ProfileInv, SessionsBounded, CusnoOf, FullLife
  <2>2. NoHash.cusno = None
    BY DEF NoHash
  <2>3. \/ session'[s] = session[s]
        \/ session'[s].hash = NoHash /\ session'[s].exp = Gone
    BY SessionsInTime
  <2> QED BY <1>0, <2>1, <2>2, <2>3 DEF Exists, Live, Gone, Deadline, Persist
<1>3. CustomersCovered'
  <2> SUFFICES ASSUME NEW s \in Sessions, Live(session'[s].exp),
                      NEW c, c = session'[s].hash.cusno, c # None
               PROVE  /\ Live(realtime'[c])
                      /\ realtime'[c] = Persist \/ realtime'[c] >= session'[s].exp
    BY DEF CustomersCovered, Covers, ProfileLasts, CusnoOf, Exists
  <2>1. session'[s] = session[s] /\ Exists(s)
    BY SessionsInTime
  <2>2. session[s].exp # Persist /\ session[s].exp > now'
    <3>1. session[s].exp # Persist
      BY <1>0 DEF RenewedInv, SessionsRenewed
    <3>2. session'[s].exp = Gone \/ session[s].exp = Persist \/ session[s].exp > now'
      <4>1. session[s].exp = Persist \/ session[s].exp > now' \/ session[s].exp <= now'
        BY <1>0 DEF Deadline, Persist
      <4>2. session[s].exp # Persist /\ session[s].exp <= now' => session'[s].exp = Gone
        BY DEF Tick, StoreTick, Surviving
      <4> QED BY <4>1, <4>2
    <3> QED BY <3>1, <3>2 DEF Live
  <2>3. Covers(s, c, session[s].exp) /\ c \in Cusnos
    BY <1>0, <2>1 DEF ProfileInv, CustomersCovered, CusnoOf, Hash
  <2>4. ProfileLasts(c, session[s].exp)
    BY <1>0, <2>3 DEF Covers, Naming, Due, TtlKnows
  <2>5. realtime'[c] = Surviving(realtime[c], now') /\ realtime[c] \in Deadline
    BY <1>0, <2>3 DEF Tick, StoreTick, Owners
  <2>6. realtime[c] = Persist \/ realtime[c] >= session[s].exp
    BY <2>4 DEF ProfileLasts
  <2>7. session[s].exp \in Int /\ realtime[c] \in Int
    BY <1>0, <2>5 DEF Deadline, Persist
  <2>8. realtime'[c] = realtime[c]
    BY <1>0, <2>2, <2>5, <2>6, <2>7 DEF Surviving
  <2> QED BY <2>1, <2>4, <2>6, <2>8 DEF ProfileLasts
<1> QED BY <1>1, <1>2, <1>3 DEF ProfileInv

LEMMA ProfileNext ==
  ASSUME Prompt, "stop" \notin Faults
  PROVE  Basics /\ AliveInv /\ RenewedInv /\ ProfileInv /\ [Next]_vars => ProfileInv'
<1> SUFFICES ASSUME Basics, AliveInv, RenewedInv, ProfileInv, [Next]_vars
             PROVE  ProfileInv'
  OBVIOUS
<1>0. TypeInv /\ SessionsStay
  BY DEF Basics, TokenInv, AliveInv
<1>1. ASSUME NEW p \in Procs, Continue(p) \/ LoseAnswer(p)  PROVE ProfileInv'
  <2>1. Moves(p)
    BY <1>0, <1>1, HandlerIsMove
  <2>2. SessionsBounded'
    BY <1>0, <2>1, BoundsMove DEF ProfileInv
  <2> QED BY <1>0, <2>1, <2>2, CustomersMove, SnapsMove, RenewalsMove DEF ProfileInv
<1>2. ASSUME NEW p \in Procs, Start(p)  PROVE ProfileInv'
  BY <1>0, <1>2, StartIsQuiet, CoveredStays
<1>3. ASSUME NEW p \in Procs, Fail(p)  PROVE FALSE
  BY <1>3 DEF Fail, Fault
<1>4. CASE Tick
  BY <1>0, <1>4, ProfileTick
<1>5. CASE UNCHANGED vars
  BY <1>5, CoveredStays DEF vars, storeVars
<1> QED BY <1>1, <1>2, <1>3, <1>4, <1>5 DEF Next, Horizon

LEMMA ProfileInit == Init => ProfileInv
BY TTLsArePositive
   DEF Init, StoreInit, ProfileInv, SessionsBounded, CustomersCovered, SnapsCovered,
       RenewalsCovered, CusnoOf, Exists, Live, Gone, FullLife, NoHash, Idle, TtlKnows

\* ProfileOutlivesSession for every number of overlapping requests, as long as
\* no handler stops half-way: a refresh_ttl may have read the hash before a
\* customer was named in it, and gives the session a full life without renewing
\* that customer's profile, but the profile has just been stored.
THEOREM ProfilesOutliveSessions ==
  ASSUME Prompt, "stop" \notin Faults
  PROVE  Spec => []ProfileOutlivesSession
<1>1. ASSUME TypeInv, RenewedInv, ProfileInv, AllIdle, NEW s \in Sessions,
             Exists(s), session[s].hash.cusno # None
      PROVE  /\ Live(realtime[session[s].hash.cusno])
             /\ realtime[session[s].hash.cusno] >= session[s].exp
  <2>1. /\ \A p \in Procs : req[p].pc = "idle"
        /\ session[s].hash.cusno \in Owners
    BY <1>1 DEF AllIdle, Idle, TypeInv, TypeOK, StoreTypeOK, Hash, Owners
  <2>2. Covers(s, CusnoOf(s), session[s].exp)
    BY <1>1 DEF ProfileInv, CustomersCovered, CusnoOf
  <2>3. ProfileLasts(CusnoOf(s), session[s].exp)
    BY <2>1, <2>2 DEF Covers, Naming, Due, TtlKnows
  <2>4. realtime[CusnoOf(s)] # Persist
    BY <1>1, <2>1 DEF RenewedInv, RealtimesRenewed, CusnoOf
  <2> QED BY <2>3, <2>4 DEF ProfileLasts, CusnoOf
<1>2. Basics /\ RenewedInv /\ ProfileInv => ProfileOutlivesSession
  BY <1>1 DEF ProfileOutlivesSession, Basics, TokenInv
<1> QED BY <1>2, ProfileInit, ProfileNext, RenewedInvariant, PTL DEF Spec

\* The customer a resolve will answer with has a profile.
ViewsCovered == \A r \in Readers : view[r].cusno # None => HasProfile(view[r].cusno)

LEMMA ProfilesGoOn ==
  ASSUME "stop" \notin Faults, Basics, AliveInv, ProfileInv, [Next]_vars, now' = now,
         NEW c \in Cusnos, HasProfile(c)
  PROVE  HasProfile(c)'
<1>0. TypeInv /\ OnRoutes /\ now \in Nat
  BY DEF Basics, TokenInv, TypeInv, TypeOK, StoreTypeOK
<1>1. ASSUME NEW p \in Procs, Continue(p) \/ LoseAnswer(p)  PROVE HasProfile(c)'
  BY <1>0, <1>1, HandlerIsMove, CoversOn
<1>2. ASSUME NEW p \in Procs, Start(p)  PROVE HasProfile(c)'
  BY <1>0, <1>2, StartIsQuiet, CoveredStays
<1>3. \A p \in Procs : ~Fail(p)
  BY DEF Fail, Fault
<1>4. ~Tick
  BY <1>0 DEF Tick, StoreTick
<1>5. CASE Horizon \/ UNCHANGED vars
  BY <1>5 DEF Horizon, vars, storeVars, keyVars, HasProfile, Naming
<1> QED BY <1>1, <1>2, <1>3, <1>4, <1>5 DEF Next

LEMMA ViewsNext ==
  ASSUME Prompt, "stop" \notin Faults
  PROVE  Basics /\ AliveInv /\ ProfileInv /\ ReadTypeOK /\ ViewsCovered
           /\ [ReadNext]_readVars => ViewsCovered'
<1> SUFFICES ASSUME Basics, AliveInv, ProfileInv, ReadTypeOK, ViewsCovered,
                    [ReadNext]_readVars, NEW r \in Readers,
                    NEW c, c = view'[r].cusno, c # None
             PROVE  HasProfile(c)'
  BY DEF ViewsCovered, HasProfile, Naming
<1>0. TypeInv /\ NoView.cusno = None /\ view \in [Readers -> View]
  BY DEF Basics, TokenInv, NoView, ReadTypeOK
<1>1. ASSUME view'[r] = view[r], [Next]_vars, now' = now  PROVE HasProfile(c)'
  <2>1. HasProfile(c) /\ c \in Cusnos
    BY <1>0, <1>1 DEF ViewsCovered, View
  <2> QED BY <1>1, <2>1, ProfilesGoOn
<1>2. CASE Serve
  <2>1. view'[r] = view[r] /\ (now' # now => view[r] = NoView) /\ Next
    BY <1>2 DEF Serve
  <2> QED BY <1>0, <1>1, <2>1
<1>3. ASSUME NEW q \in Readers, Read(q), UNCHANGED vars  PROVE HasProfile(c)'
  <2>0. UNCHANGED <<now, session, realtime, req>>
    BY <1>3 DEF vars, storeVars, keyVars
  <2>1. CASE view'[r].cusno = view[r].cusno
    BY <2>0, <2>1 DEF ViewsCovered, HasProfile, Naming
  <2>2. ASSUME NEW gsk \in Sessions, ResolveGet(q, gsk)  PROVE HasProfile(c)'
    <3>1. view'[r] = view[r] \/ (Exists(gsk) /\ view'[r].cusno = CusnoOf(gsk))
      BY <1>0, <2>2 DEF ResolveGet, Look, CusnoOf
    <3>2. CASE Exists(gsk) /\ view'[r].cusno = CusnoOf(gsk)
      <4>1. Covers(gsk, c, session[gsk].exp)
        BY <3>2 DEF ProfileInv, CustomersCovered
      <4> QED BY <2>0, <4>1 DEF Covers, ProfileLasts, HasProfile, Naming
    <3> QED BY <2>1, <3>1, <3>2
  <2>3. CASE ~\E gsk \in Sessions : ResolveGet(q, gsk)
    <3>1. view'[r].cusno \in {view[r].cusno, None}
      BY <1>0, <1>3, <2>3
         DEF Read, VerifyLookup, VerifyGet, ResolveMapping, ResolveBatch, ResolveRealtime,
             Look, Answer, View
    <3> QED BY <2>1, <3>1
  <2> QED BY <2>2, <2>3
<1>4. CASE UNCHANGED readVars
  BY <1>1, <1>4 DEF readVars, vars, storeVars, keyVars
<1> QED BY <1>2, <1>3, <1>4 DEF ReadNext

\* ResolvedCustomersHaveProfiles for every number of overlapping readers and
\* writers: the profile is read three GETs after the hash that names its
\* customer, and what was there when the hash was read is there still.
THEOREM ResolvedProfilesAreThere ==
  ASSUME Prompt, "stop" \notin Faults
  PROVE  ReadSpec => []ResolvedCustomersHaveProfiles
<1>1. ReadInit => ReadTypeOK /\ ViewsCovered
  BY ReadTypeInit DEF ReadInit, ViewsCovered, NoView
<1>2. Spec => [](Basics /\ AliveInv /\ ProfileInv)
  BY ProfileInit, ProfileNext, RenewedInvariant, PTL DEF Spec
<1>3. Basics => TypeInv
  BY DEF Basics, TokenInv
<1>4. ViewsCovered => ResolvedCustomersHaveProfiles
  BY DEF ViewsCovered, HasProfile, ResolvedCustomersHaveProfiles
<1> QED BY <1>1, <1>2, <1>3, <1>4, ReadTypeNext, ViewsNext, ReadersOnlyRead, PTL
        DEF ReadSpec

=============================================================================
