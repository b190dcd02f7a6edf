--------------------------- MODULE MCSessionManager ---------------------------
(***************************************************************************)
(* Instances of the session manager for TLC.                               *)
(***************************************************************************)
EXTENDS SessionInvariants, TLC

CONSTANTS t1, t2, a1, a2

\* A PATCH that reports a turn, one that starts the conversation, one that
\* registers an agent, one whose reference_information is refused, and one
\* that ends the session.
TurnPatch(t) == [session_state |-> None, turn_id |-> t, agent |-> None, bad |-> FALSE]
TalkPatch(t) == [session_state |-> "talk", turn_id |-> t, agent |-> None, bad |-> FALSE]
AgentPatch(a) == [session_state |-> None, turn_id |-> None, agent |-> a, bad |-> FALSE]
BadTalkPatch == [session_state |-> "talk", turn_id |-> None, agent |-> None, bad |-> TRUE]
EndPatch == [session_state |-> "end", turn_id |-> None, agent |-> None, bad |-> FALSE]

NoPatches == {}
TalkOnly == {TalkPatch(None)}
TurnPatches == {TalkPatch(t1), TurnPatch(t2)}
\* The second writes lists of both kinds in one request.
WritePatches == {TalkPatch(t1), [AgentPatch(a1) EXCEPT !.turn_id = t2]}
AgentPatches == {AgentPatch(a1), BadTalkPatch}

EveryPatch == {TalkPatch(t1), TurnPatch(t2), AgentPatch(a1), AgentPatch(a2),
               BadTalkPatch, EndPatch}

Symmetry == Permutations(Jtis) \cup Permutations(Sessions)
              \cup Permutations(Procs) \cup Permutations(Cusnos)

=============================================================================
