-------------------------- MODULE MCVodCoordinator --------------------------
(* One session of one provider.  Each behaviour has one of three casts:      *)
(* two requests and a stop, two overlapping stops with drains and a close,   *)
(* or a stop with a drain or a close and a second attempt.                   *)
EXTENDS VodCoordinator, TLC

CONSTANTS s1, p1, r1, r2, k1, k2, i1, i2

VARIABLE cast

MCProvider == s1 :> p1
MCSessionOf == (r1 :> s1) @@ (r2 :> s1)
MCStopSession == (k1 :> s1) @@ (k2 :> s1)

MCInit == Init /\ cast \in {"requests", "stops", "attempts"}

\* Requests and attempts are interchangeable: the first of each comes first.
MCNext ==
    /\ Next
    /\ UNCHANGED cast
    /\ IF cast = "requests" THEN rpc'[r2] # "idle" => epoch'[r1] + pendingEnsures'[s1] > 0
                            ELSE rpc'[r2] = "idle"
    /\ cast = "stops" => phase'[i2] = "unused"
    /\ cast # "stops" => kpc'[k2] = "idle"
    /\ phase'[i1] = "unused" => phase'[i2] = "unused"
    /\ lifecycleFence' <= CASE cast = "requests" -> 0 [] cast = "stops" -> 2
                            [] cast = "attempts" -> 1

MCSpec == MCInit /\ [][MCNext]_<<vars, cast>> /\ Fairness

=============================================================================
