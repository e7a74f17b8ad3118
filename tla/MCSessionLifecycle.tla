------------------------ MODULE MCSessionLifecycle ------------------------
(* A behaviour sends either the requests about sessions or the ones that   *)
(* remove what a session refers to, together with its creation.            *)
EXTENDS SessionLifecycle

VARIABLE scope

mcvars == <<vars, scope>>

Outside == [control |-> {"p_begin", "q_delete"}, catalog |-> {"read", "delete", "begin"}]

MCInit == Init /\ scope \in DOMAIN Outside

MCNext ==
  /\ Next
  /\ \A t \in Tasks : task'[t].pc \notin Outside[scope]
  /\ UNCHANGED scope

MCSpec == MCInit /\ [][MCNext]_mcvars /\ Fairness
===========================================================================
