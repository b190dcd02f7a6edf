----------------------------- MODULE SessionReads -----------------------------
(***************************************************************************)
(* The handlers that only read: GET /sessions/verify                       *)
(* (AuthService.verify_token_and_get_session) and                          *)
(* GET /sessions/{global_session_key} (SessionService.resolve_session).    *)
(* Each sends its GETs one after the other while other handlers write, and *)
(* answers with what it has put together.  Readers run beside the session  *)
(* manager: every behaviour of ReadSpec is one of Spec.                    *)
(***************************************************************************)
EXTENDS SessionInvariants

CONSTANT Readers   \* reading handlers in flight at a time

ASSUME RefreshOutlasts == AccessTTL <= RefreshTTL

VARIABLES
  view,     \* what each reader has read, and the command it sends next
  told,     \* history: the latest expires_at a verify has answered
  closed    \* history: the pairs a close by token has answered for

readVars == <<vars, view, told, closed>>

ReadSteps == {"verify_get", "mapping_get", "batch_get", "realtime_get"}

View == [pc    : ReadSteps \cup {"idle"},
         gsk   : Sessions \cup {None},    \* the session asked for
         cusno : Cusnos \cup {None}]      \* the customer the session names

NoView == [pc |-> "idle", gsk |-> None, cusno |-> None]

ReadInit ==
  /\ Init
  /\ view = [r \in Readers |-> NoView]
  /\ told = [s \in Sessions |-> 0]
  /\ closed = {}

Look(r, gsk, cusno, l) ==
  view' = [view EXCEPT ![r] = [pc |-> l, gsk |-> gsk, cusno |-> cusno]]

Answer(r) == view' = [view EXCEPT ![r] = NoView]

-----------------------------------------------------------------------------
(* verify: the access token is checked and its jti looked up, then the     *)
(* session is fetched.  A session that is gone is answered is_alive = false *)
(* and a hash without expires_at as one without expiry.                    *)

VerifyLookup(r, j) ==
  /\ view[r] = NoView
  /\ Verified(j, "access")
  /\ Mapped(j)
  /\ Look(r, jti[j].gsk, None, "verify_get")
  /\ UNCHANGED told

VerifyGet(r) ==
  /\ view[r].pc = "verify_get"
  /\ told' = [told EXCEPT ![view[r].gsk] =
                IF session[view[r].gsk].hash.expires_at > @
                THEN session[view[r].gsk].hash.expires_at ELSE @]
  /\ Answer(r)

-----------------------------------------------------------------------------
(* resolve: the hash, a second fetch of it for the agent mapping when a    *)
(* TASK agent asks, then the profiles of the customer the first hash names. *)
(* Without a customer only a realtime profile under the session key is     *)
(* looked for.                                                             *)

ProfilesGet(cusno) == IF cusno = None THEN "realtime_get" ELSE "batch_get"

ResolveGet(r, gsk) ==
  /\ view[r] = NoView
  /\ Known(gsk)
  /\ Exists(gsk)
  /\ LET cusno == session[gsk].hash.cusno
     IN  \E l \in {"mapping_get", ProfilesGet(cusno)} : Look(r, gsk, cusno, l)
  /\ UNCHANGED told

ResolveMapping(r) ==
  /\ view[r].pc = "mapping_get"
  /\ view' = [view EXCEPT ![r].pc = ProfilesGet(view[r].cusno)]
  /\ UNCHANGED told

ResolveBatch(r) ==
  /\ view[r].pc = "batch_get"
  /\ view' = [view EXCEPT ![r].pc = "realtime_get"]
  /\ UNCHANGED told

ResolveRealtime(r) ==
  /\ view[r].pc = "realtime_get"
  /\ Answer(r)
  /\ UNCHANGED told

Read(r) ==
  \/ \E j \in Jtis : VerifyLookup(r, j)
  \/ VerifyGet(r)
  \/ \E gsk \in Sessions : ResolveGet(r, gsk)
  \/ ResolveMapping(r)
  \/ ResolveBatch(r)
  \/ ResolveRealtime(r)

-----------------------------------------------------------------------------

\* The pairs whose close by token answers with this step.
Closing == {req[p].jti : p \in {q \in Procs : req[q].pc = "revoke" /\ Answers(q)}}

Serve ==
  /\ Next
  /\ Prompt /\ now' # now => \A r \in Readers : view[r] = NoView
  /\ closed' = closed \cup Closing
  /\ UNCHANGED <<view, told>>

ReadNext ==
  \/ Serve
  \/ \E r \in Readers : Read(r) /\ UNCHANGED <<vars, closed>>

ReadSpec == ReadInit /\ [][ReadNext]_readVars

-----------------------------------------------------------------------------
(* However reads and writes overlap.                                       *)

\* After close_session_by_token has answered, verify refuses the access token
\* of the pair for good, although the token is checked again before its mapping
\* is deleted and is left alone when it has expired meanwhile, and although a
\* refresh of the same pair may be going on.
ClosedTokensVerifyNoMore ==
  \A j \in closed : ~(Verified(j, "access") /\ Mapped(j))

\* A caller who was told by verify when a session ends finds it until then,
\* whatever hash refresh_ttl or an update writes back over it afterwards.
\* (Claimed when no handler straddles a deadline or stops half-way.)
PromisedTimeIsKept == \A s \in Sessions : told[s] > now => Exists(s)

\* verify never answers is_alive = false for a token it accepts.
\* (Claimed when no handler straddles a deadline.)
VerifiedSessionsAreAlive ==
  \A r \in Readers : view[r].pc = "verify_get" => Exists(view[r].gsk)

\* Some update_realtime_personal_context has named the customer in the session
\* and has yet to store the profile.
Naming(c) == \E p \in Procs : req[p].pc = "realtime_set" /\ req[p].upd.cusno = c

\* resolve answers with the realtime profile of the customer it names, unless
\* that profile is just being stored.
\* (Claimed when no handler straddles a deadline or stops half-way.)
ResolvedCustomersHaveProfiles ==
  \A r \in Readers :
    view[r].pc \in {"batch_get", "realtime_get"} /\ view[r].cusno # None
      => Live(realtime[view[r].cusno]) \/ Naming(view[r].cusno)

=============================================================================
