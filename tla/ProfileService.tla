---------------------------- MODULE ProfileService ----------------------------
(***************************************************************************)
(* ProfileService.update_realtime_personal_context                         *)
(* (app/services/profile_service.py).  The realtime profile is stored      *)
(* under the customer number when the body has one, else under the session *)
(* key; the batch profile is fetched from MinIO, which may have none.      *)
(***************************************************************************)
EXTENDS AuthService

ProfileLookup(p, j, cusno) ==
  /\ req[p] = Idle
  /\ Verified(j, "access") \/ Verified(j, "refresh")
  /\ Mapped(j)
  /\ req' = [req EXCEPT ![p] =
               At([Idle EXCEPT !.op = "profile", !.gsk = jti[j].gsk,
                               !.upd = [NoHash EXCEPT !.cusno = cusno]],
                  "profile_get")]
  /\ UNCHANGED authVars

\* A body without a customer number leaves the session's cusno as it is.
ProfileGet(p) ==
  /\ Step(p, "profile_get",
          IF ~Exists(req[p].gsk) THEN "done"
          ELSE IF req[p].upd.cusno # None THEN "update_exists"
          ELSE "realtime_set")
  /\ UNCHANGED keyVars

RealtimeKey(p) == ProfileKey(req[p].gsk, req[p].upd.cusno)

RealtimeSet(p) ==
  /\ Step(p, "realtime_set", "realtime_expire")
  /\ realtime' = [realtime EXCEPT ![RealtimeKey(p)] = Overwrite(@)]
  /\ UNCHANGED <<now, session, turns, batch>>

\* After EXPIRE, MinIO is asked for the customer's batch profile.
RealtimeExpire(p) ==
  /\ \/ req[p].upd.cusno # None /\ Step(p, "realtime_expire", "batch_set")
     \/ Step(p, "realtime_expire", "done")
  /\ realtime' = [realtime EXCEPT ![RealtimeKey(p)] =
                    Expire(@, now, SessionTTL)]
  /\ UNCHANGED <<now, session, turns, batch>>

BatchSet(p) ==
  /\ Step(p, "batch_set", "batch_expire")
  /\ batch' = [batch EXCEPT ![req[p].upd.cusno] = Overwrite(@)]
  /\ UNCHANGED <<now, session, turns, realtime>>

BatchExpireForgotten(p) ==     \* slip: no EXPIRE after SET
  /\ Step(p, "batch_expire", "done")
  /\ UNCHANGED keyVars

BatchExpire(p) ==
  /\ Step(p, "batch_expire", "done")
  /\ batch' = [batch EXCEPT ![req[p].upd.cusno] = Expire(@, now, SessionTTL)]
  /\ UNCHANGED <<now, session, turns, realtime>>

UpdateProfile(p) == \/ ProfileGet(p) \/ RealtimeSet(p) \/ RealtimeExpire(p)
                    \/ BatchSet(p) \/ BatchExpire(p)

=============================================================================
