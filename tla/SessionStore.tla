----------------------------- MODULE SessionStore -----------------------------
(***************************************************************************)
(* What the session manager promises its callers, one request at a time:   *)
(* every request takes effect at one moment, on sessions, turn lists,      *)
(* profiles and token pairs that each have exactly one deadline, and what  *)
(* a renewal renews, it renews together.                                   *)
(***************************************************************************)
EXTENDS Integers, Sequences

CONSTANTS
  Sessions, Jtis, Cusnos, Patches, None,
  SessionTTL, AccessTTL, RefreshTTL

VARIABLES
  now,
  sessions,   \* the state, turns, agents, customer and expiry of each session
  turns,      \* when the turn list of a session is dropped, 0 for no list
  realtime,   \* the same for the profiles of customers and nameless sessions
  batch,
  pairs,      \* the token pairs: for whom, instead of which, usable until when
  held        \* the pairs callers have received

vars == <<now, sessions, turns, realtime, batch, pairs, held>>

NoSession == [state |-> "none", turn_ids |-> <<>>, agents |-> {},
              cusno |-> None, expires_at |-> 0]

NoPair == [session |-> None, replaces |-> None,
           access |-> 0, refresh |-> 0, until |-> 0]

Init ==
  /\ now = 0
  /\ sessions = [s \in Sessions |-> NoSession]
  /\ turns = [s \in Sessions |-> 0]
  /\ realtime = [o \in Sessions \cup Cusnos |-> 0]
  /\ batch = [c \in Cusnos |-> 0]
  /\ pairs = [j \in Jtis |-> NoPair]
  /\ held = {}

Usable(j) == pairs[j].until > 0
Known(s) == (\E j \in held : pairs[j].session = s) /\ sessions[s] # NoSession

FullLife == now + SessionTTL
Renewed(deadline) == IF deadline > 0 THEN FullLife ELSE 0

Pair(s, old) == [session |-> s, replaces |-> old, access |-> now + AccessTTL,
                 refresh |-> now + RefreshTTL, until |-> FullLife]

\* The answer brings the pair to the caller, or is lost.
Deliver(j) == held' \in {held, held \cup {j}}

\* A session, its turns and the profiles of its customer live on together.
Renew(s) ==
  LET c == sessions[s].cusno
  IN  /\ turns' = [turns EXCEPT ![s] = Renewed(@)]
      /\ realtime' = [realtime EXCEPT ![IF c = None THEN s ELSE c] = Renewed(@)]
      /\ batch' = IF c = None THEN batch
                  ELSE [batch EXCEPT ![c] = Renewed(@)]

-----------------------------------------------------------------------------

Create(s, j) ==
  /\ \A k \in Jtis : pairs[k].session # s
  /\ pairs[j] = NoPair
  /\ sessions' = [sessions EXCEPT ![s] = [NoSession EXCEPT !.state = "start",
                                                          !.expires_at = FullLife]]
  /\ pairs' = [pairs EXCEPT ![j] = Pair(s, None)]
  /\ Deliver(j)
  /\ UNCHANGED <<now, turns, realtime, batch>>

\* The pair j is exchanged for the pair new.
Refresh(j, new) ==
  LET s == pairs[j].session
  IN  /\ j \in held /\ Usable(j) /\ pairs[new] = NoPair
      /\ sessions' = [sessions EXCEPT ![s].expires_at = FullLife]
      /\ Renew(s)
      /\ pairs' = [pairs EXCEPT ![j].until = 0, ![new] = Pair(s, j)]
      /\ Deliver(new)
      /\ UNCHANGED now

\* Closing by token ends the pair, closing by key does not.
CloseByToken(j) ==
  /\ j \in held /\ Usable(j)
  /\ sessions' = [sessions EXCEPT ![pairs[j].session].state = "end"]
  /\ pairs' = [pairs EXCEPT ![j].until = 0]
  /\ UNCHANGED <<now, turns, realtime, batch, held>>

CloseByKey(s) ==
  /\ Known(s)
  /\ sessions' = [sessions EXCEPT ![s].state = "end"]
  /\ UNCHANGED <<now, turns, realtime, batch, pairs, held>>

\* What a PATCH records: a state, an agent, a turn that is not recorded yet.
Patched(h, patch) ==
  [h EXCEPT
     !.state = IF patch.session_state = None THEN @ ELSE patch.session_state,
     !.agents = @ \cup ({patch.agent} \ {None}),
     !.turn_ids = IF patch.turn_id = None \/ \E i \in DOMAIN @ : @[i] = patch.turn_id
                    THEN @ ELSE Append(@, patch.turn_id)]

\* TALK renews the session; a PATCH that is refused records nothing.
PatchSession(s, patch) ==
  LET h == IF patch.bad THEN sessions[s] ELSE Patched(sessions[s], patch)
  IN  /\ Known(s)
      /\ \/ /\ patch.session_state = "talk"
            /\ sessions' = [sessions EXCEPT ![s] = [h EXCEPT !.expires_at = FullLife]]
            /\ Renew(s)
         \/ /\ patch.session_state # "talk"
            /\ sessions' = [sessions EXCEPT ![s] = h]
            /\ UNCHANGED <<turns, realtime, batch>>
      /\ UNCHANGED <<now, pairs, held>>

SaveApiResult(s) ==
  /\ Known(s)
  /\ turns' = [turns EXCEPT ![s] = FullLife]
  /\ UNCHANGED <<now, sessions, realtime, batch, pairs, held>>

\* The profile is the customer's when one is named, and the session names the
\* customer from then on; a batch profile comes along if there is one.
UpdateProfile(j, c) ==
  LET s == pairs[j].session
  IN  /\ j \in held /\ Usable(j)
      /\ sessions' = [sessions EXCEPT ![s].cusno = IF c = None THEN @ ELSE c]
      /\ realtime' = [realtime EXCEPT ![IF c = None THEN s ELSE c] = FullLife]
      /\ batch' \in {batch} \cup {[b \in Cusnos |-> IF b = c THEN FullLife ELSE batch[b]]}
      /\ UNCHANGED <<now, turns, pairs, held>>

\* Everything ends at its deadline.
Left(deadline) == IF deadline <= now' THEN 0 ELSE deadline

Tick ==
  /\ now' = now + 1
  /\ sessions' = [s \in Sessions |->
       IF Left(sessions[s].expires_at) = 0 THEN NoSession ELSE sessions[s]]
  /\ turns' = [s \in Sessions |-> Left(turns[s])]
  /\ realtime' = [o \in Sessions \cup Cusnos |-> Left(realtime[o])]
  /\ batch' = [c \in Cusnos |-> Left(batch[c])]
  /\ pairs' = [j \in Jtis |-> [pairs[j] EXCEPT !.until = Left(@)]]
  /\ UNCHANGED held

Next ==
  \/ \E s \in Sessions :
       \/ \E j \in Jtis : Create(s, j)
       \/ CloseByKey(s)
       \/ \E patch \in Patches : PatchSession(s, patch)
       \/ SaveApiResult(s)
  \/ \E j \in Jtis :
       \/ \E new \in Jtis : Refresh(j, new)
       \/ CloseByToken(j)
       \/ \E c \in Cusnos \cup {None} : UpdateProfile(j, c)
  \/ Tick

Spec == Init /\ [][Next]_vars

=============================================================================
