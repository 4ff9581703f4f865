------------------------------ MODULE GioCalls ------------------------------
(***************************************************************************)
(* What the methods of libgdav promise to an application: "libgdav methods *)
(* can execute synchronously or asynchronously and follow the conventions  *)
(* established by GIO" (README).  A call completes once, on the thread     *)
(* that started it and after the starting function returned; a synchronous *)
(* call blocks its thread, and nothing else completes there meanwhile; a   *)
(* cancelled call does not succeed.                                        *)
(***************************************************************************)
CONSTANTS Thread, Call, None, Cancellable

VARIABLES
    state,      \* state[c]: "idle", "pending", "ready" or "done"
    home,       \* home[c]: the thread that hears of the asynchronous call c
    blocked,    \* blocked[t]: the synchronous call that thread t waits for
    outcome,    \* outcome[c]: what the finish function returned
    cancelled   \* calls whose cancellable was cancelled

gioVars == <<state, home, blocked, outcome, cancelled>>

GioInit ==
    /\ state = [c \in Call |-> "idle"]
    /\ home = [c \in Call |-> None]
    /\ blocked = [t \in Thread |-> None]
    /\ outcome = [c \in Call |-> "none"]
    /\ cancelled = {}

Started(c) == state[c] = "idle" /\ state' = [state EXCEPT ![c] = "pending"]

StartAsync(t, c) ==
    /\ blocked[t] = None
    /\ Started(c)
    /\ home' = [home EXCEPT ![c] = t]
    /\ UNCHANGED <<blocked, outcome, cancelled>>

StartSync(t, c) ==
    /\ blocked[t] = None
    /\ Started(c)
    /\ blocked' = [blocked EXCEPT ![t] = c]
    /\ UNCHANGED <<home, outcome, cancelled>>

\* The callback runs: of a blocking call, or of any if nothing blocks.
Complete(t, c) ==
    /\ state[c] = "pending"
    /\ blocked[t] = c \/ (blocked[t] = None /\ home[c] = t)
    /\ state' = [state EXCEPT ![c] = "ready"]
    /\ UNCHANGED <<home, blocked, outcome, cancelled>>

Finish(c, r) ==
    /\ state[c] = "ready"
    /\ r = "ok" => c \notin cancelled
    /\ state' = [state EXCEPT ![c] = "done"]
    /\ outcome' = [outcome EXCEPT ![c] = r]
    /\ UNCHANGED <<home, blocked, cancelled>>

Return(t) ==
    /\ blocked[t] # None
    /\ state[blocked[t]] = "done"
    /\ blocked' = [blocked EXCEPT ![t] = None]
    /\ UNCHANGED <<state, home, outcome, cancelled>>

CancelCall(c) ==
    /\ c \in Cancellable
    /\ cancelled' = cancelled \cup {c}
    /\ UNCHANGED <<state, home, blocked, outcome>>

GioNext ==
    \/ \E t \in Thread, c \in Call :
         StartAsync(t, c) \/ StartSync(t, c) \/ Complete(t, c)
    \/ \E c \in Call, r \in {"ok", "error"} : Finish(c, r)
    \/ \E t \in Thread : Return(t)
    \/ \E c \in Call : CancelCall(c)

GioSpec == GioInit /\ [][GioNext]_gioVars
=============================================================================
