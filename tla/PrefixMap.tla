----------------------------- MODULE PrefixMap -----------------------------
(***************************************************************************)
(* What gdav_get_xmlns_prefix and gdav_set_xmlns_prefix promise to threads *)
(* that call them at any time: the registry is one atomic map that starts  *)
(* with the prefixes of the library, and every call takes effect at one    *)
(* point between its invocation and its return.                            *)
(***************************************************************************)
CONSTANTS Thread, Request, Initial, Apply(_, _), Answer(_, _)

VARIABLES
    map,    \* the registry
    call    \* call[t]: the call thread t is in, and how far it is

mapVars == <<map, call>>

NoCall == [state |-> "idle"]

MapInit ==
    /\ map = Initial
    /\ call = [t \in Thread |-> NoCall]

Invoke(t) ==
    /\ call[t] = NoCall
    /\ \E r \in Request : call' = [call EXCEPT ![t] = [state |-> "called", req |-> r]]
    /\ UNCHANGED map

\* The call takes effect: it sees the map and changes it in one step.
TakeEffect(t) ==
    /\ call[t].state = "called"
    /\ LET r == call[t].req
       IN  /\ map' = Apply(map, r)
           /\ call' = [call EXCEPT ![t] = [state |-> "done", req |-> r,
                                           value |-> Answer(map, r)]]

Return(t) ==
    /\ call[t].state = "done"
    /\ call' = [call EXCEPT ![t] = NoCall]
    /\ UNCHANGED map

MapNext == \E t \in Thread : Invoke(t) \/ TakeEffect(t) \/ Return(t)

MapSpec == MapInit /\ [][MapNext]_mapVars
=============================================================================
