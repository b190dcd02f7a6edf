---------------------------- MODULE SessionManager ----------------------------
(***************************************************************************)
(* The session manager: the routes of app/api/v1/sessions.py, the handlers *)
(* they start, the clock that lets Redis keys expire, and the failures     *)
(* that end a handler between two of its commands.                         *)
(***************************************************************************)
EXTENDS SessionService, ProfileService

CONSTANTS
  Offered,       \* the operations callers use
  Prompt,        \* TRUE: time passes only when no handler is in flight
  MaxTime,       \* bound on the clock
  Faults,        \* what may go wrong: "stop", "lose"
  MaxFailures    \* bound on what goes wrong

ASSUME BoundsAreBounds ==
  /\ Offered \subseteq Ops
  /\ Prompt \in BOOLEAN
  /\ MaxTime \in Nat
  /\ Faults \subseteq {"stop", "lose"}
  /\ MaxFailures \in Nat

VARIABLES failures   \* handlers that have stopped half-way, answers lost

vars == <<storeVars, authVars, born, failures>>

Init ==
  /\ StoreInit
  /\ AuthInit
  /\ born = [s \in Sessions |-> Never]
  /\ failures = 0

-----------------------------------------------------------------------------
(* The routes.  A token reaches a handler in a header or a cookie; a body  *)
(* whose session key differs from the path is refused (400).               *)

create_session(p) ==
  /\ "create" \in Offered
  /\ \E gsk \in Sessions, j \in Jtis : CreateSession(p, gsk, j)
  /\ UNCHANGED <<keyVars, failures>>

refresh_token(p) ==
  /\ "refresh" \in Offered
  /\ \E j, new \in Jtis : RefreshLookup(p, j, new)
  /\ UNCHANGED <<keyVars, born, failures>>

close_session(p) ==
  /\ "close_token" \in Offered
  /\ \E j \in Jtis, kind \in {"access", "refresh"} : CloseLookup(p, j, kind)
  /\ UNCHANGED <<keyVars, born, failures>>

update_realtime_personal_context(p) ==
  /\ "profile" \in Offered
  /\ \E j \in Jtis, cusno \in Cusnos \cup {None} : ProfileLookup(p, j, cusno)
  /\ UNCHANGED <<keyVars, born, failures>>

update_session_state(p) ==
  /\ "patch" \in Offered
  /\ \E gsk \in Sessions, patch \in Patches : PatchSessionState(p, gsk, patch)
  /\ UNCHANGED <<keyVars, authVars, born, failures>>

close_session_by_key(p) ==
  /\ "close_key" \in Offered
  /\ \E gsk \in Sessions : CloseSession(p, gsk)
  /\ UNCHANGED <<keyVars, authVars, born, failures>>

save_api_result(p) ==
  /\ "api_result" \in Offered
  /\ \E gsk \in Sessions : SaveApiResult(p, gsk)
  /\ UNCHANGED <<keyVars, authVars, born, failures>>

Start(p) ==
  \/ create_session(p)
  \/ refresh_token(p)
  \/ close_session(p)
  \/ update_realtime_personal_context(p)
  \/ update_session_state(p)
  \/ close_session_by_key(p)
  \/ save_api_result(p)

-----------------------------------------------------------------------------
(* A handler in flight sends its next command.                             *)

StoreStep(p) ==
  /\ \/ CreateHset(p)
     \/ RefreshTtl(p)
     \/ Update(p)
     \/ SetLocalMapping(p)
     \/ AddTurn(p)
     \/ UpdateProfile(p)
  /\ UNCHANGED <<authVars, born, failures>>

CreateStep(p) ==
  /\ CreateSessionGet(p) \/ CreateSessionAnswer(p)
  /\ UNCHANGED <<born, failures>>

TokenStep(p) ==
  /\ RotateDel(p) \/ RotateSetex(p) \/ CloseGet(p) \/ Revoke(p)
  /\ UNCHANGED <<keyVars, born, failures>>

Continue(p) == StoreStep(p) \/ CreateStep(p) \/ TokenStep(p)

-----------------------------------------------------------------------------
(* A Redis command raises (pool exhausted, connection lost, failover) or   *)
(* the pod stops: nothing catches it, the handler ends where it is.        *)

Fault(kind) ==
  /\ kind \in Faults
  /\ failures < MaxFailures
  /\ failures' = failures + 1

Fail(p) ==
  /\ Fault("stop")
  /\ req[p] # Idle
  /\ req' = [req EXCEPT ![p] = Idle]
  /\ UNCHANGED <<keyVars, authVars, born>>

\* The last command takes effect, but its reply or the answer of the handler is
\* lost: the tokens it carries never reach the caller.  Other handlers have
\* nothing in their answers that a caller needs later.
LoseAnswer(p) ==
  /\ Fault("lose")
  /\ \/ /\ CreateGet(p)
        /\ Exists(req[p].gsk)
        /\ Sign(req[p].new)
        /\ UNCHANGED <<jti, owner, parent>>
     \/ CreateExpire(p) /\ UNCHANGED <<jti, tok, owner, parent>>
     \/ MapNewPair(p) /\ UNCHANGED keyVars
  /\ UNCHANGED <<held, born>>

Tick ==
  /\ now < MaxTime
  /\ Prompt => \A p \in Procs : req[p] = Idle
  /\ StoreTick
  /\ JtiTick(now')
  /\ UNCHANGED <<tok, held, owner, parent, born, failures>>

\* The bounded clock has run out and every handler has answered.
Horizon ==
  /\ now = MaxTime
  /\ \A p \in Procs : req[p] = Idle
  /\ UNCHANGED vars

Next ==
  \/ \E p \in Procs : Start(p) \/ Continue(p) \/ Fail(p) \/ LoseAnswer(p)
  \/ Tick
  \/ Horizon

Spec == Init /\ [][Next]_vars

\* The event loop resumes every handler whose command has been answered.
Fairness == \A p \in Procs : WF_vars(Continue(p))

FairSpec == Spec /\ Fairness

=============================================================================
