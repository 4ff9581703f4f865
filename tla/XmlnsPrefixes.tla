--------------------------- MODULE XmlnsPrefixes ---------------------------
(***************************************************************************)
(* The registry of XML namespace prefixes, libgdav/gdav-xml-namespaces.c.  *)
(* Threads call gdav_get_xmlns_prefix and gdav_set_xmlns_prefix; the first *)
(* call creates the hash table under a GOnce, and every access to it is    *)
(* made under a lock.  An access takes time: it starts in one step and     *)
(* ends in another, and the table must not be used by others in between.   *)
(***************************************************************************)
EXTENDS Naturals

CONSTANTS
    Thread,     \* threads that use the registry
    Href,       \* namespaces
    Prefix,     \* prefixes
    None,       \* no prefix, no thread
    Dav,        \* GDAV_XMLNS_DAV and its prefix "D"
    D,
    Caldav,     \* GDAV_XMLNS_CALDAV and its prefix "C"
    C

ASSUME NoneAssumption == None \notin Thread \cup Prefix

ASSUME NamesAssumption ==
    /\ Dav \in Href /\ Caldav \in Href /\ Dav # Caldav
    /\ D \in Prefix /\ C \in Prefix

VARIABLES
    pc,         \* pc[t]: what thread t does next
    req,        \* req[t]: the arguments of its call
    value,      \* value[t]: the result of its lookup
    once,       \* status of the GOnce
    table,      \* content of the hash table
    lock        \* holder of the lock

vars == <<pc, req, value, once, table, lock>>

Request == [op : {"get"}, href : Href]
           \cup [op : {"set"}, href : Href, prefix : Prefix]

Table == [Href -> Prefix \cup {None}]

Empty == [h \in Href |-> None]

Pc == {"idle", "once", "add_dav", "add_caldav", "publish", "lock",
       "enter", "access", "unlock", "return"}

Init ==
    /\ pc = [t \in Thread |-> "idle"]
    /\ req = [t \in Thread |-> [op |-> "get", href |-> Dav]]
    /\ value = [t \in Thread |-> None]
    /\ once = "notcalled"
    /\ table = Empty
    /\ lock = None

Goto(t, from, to) == pc[t] = from /\ pc' = [pc EXCEPT ![t] = to]

\* gdav_get_xmlns_prefix or gdav_set_xmlns_prefix is called.
Call(t) ==
    /\ Goto(t, "idle", "once")
    /\ \E r \in Request : req' = [req EXCEPT ![t] = r]
    /\ value' = [value EXCEPT ![t] = None]
    /\ UNCHANGED <<once, table, lock>>

-----------------------------------------------------------------------------
(* g_once and gdav_xmlns_prefixes_init                                     *)

\* Mutant of MayInitialise: every thread that finds no table makes one.
MayInitialiseRacy == once # "ready"

\* g_once runs the function in the first thread and makes the others wait.
MayInitialise == once = "notcalled"

OnceStart(t) ==
    /\ MayInitialise
    /\ Goto(t, "once", "add_dav")
    /\ once' = "progress"
    /\ table' = Empty
    /\ UNCHANGED <<req, value, lock>>

OncePassed(t) ==
    /\ once = "ready"
    /\ Goto(t, "once", "lock")
    /\ UNCHANGED <<req, value, once, table, lock>>

AddDav(t) ==
    /\ Goto(t, "add_dav", "add_caldav")
    /\ table' = [table EXCEPT ![Dav] = D]
    /\ UNCHANGED <<req, value, once, lock>>

AddCaldav(t) ==
    /\ Goto(t, "add_caldav", "publish")
    /\ table' = [table EXCEPT ![Caldav] = C]
    /\ UNCHANGED <<req, value, once, lock>>

Publish(t) ==
    /\ Goto(t, "publish", "lock")
    /\ once' = "ready"
    /\ UNCHANGED <<req, value, table, lock>>

-----------------------------------------------------------------------------
(* The locked access                                                       *)

\* Mutant of Lock: G_LOCK is left out.
LockNothing(t) ==
    /\ Goto(t, "lock", "enter")
    /\ UNCHANGED <<req, value, once, table, lock>>

Lock(t) ==
    /\ lock = None
    /\ Goto(t, "lock", "enter")
    /\ lock' = t
    /\ UNCHANGED <<req, value, once, table>>

\* g_hash_table_lookup or g_hash_table_replace starts ...
Enter(t) ==
    /\ Goto(t, "enter", "access")
    /\ UNCHANGED <<req, value, once, table, lock>>

\* ... and ends.
Access(t) ==
    /\ Goto(t, "access", "unlock")
    /\ LET r == req[t]
       IN  IF r.op = "get"
           THEN /\ value' = [value EXCEPT ![t] = table[r.href]]
                /\ UNCHANGED table
           ELSE /\ table' = [table EXCEPT ![r.href] = r.prefix]
                /\ UNCHANGED value
    /\ UNCHANGED <<req, once, lock>>

\* Mutant of Unlock: a look-up is returned at once, past G_UNLOCK.
UnlockSetter(t) ==
    /\ Goto(t, "unlock", "return")
    /\ lock' = IF req[t].op = "get" THEN lock ELSE None
    /\ UNCHANGED <<req, value, once, table>>

Unlock(t) ==
    /\ Goto(t, "unlock", "return")
    /\ lock' = None
    /\ UNCHANGED <<req, value, once, table>>

Return(t) ==
    /\ Goto(t, "return", "idle")
    /\ UNCHANGED <<req, value, once, table, lock>>

-----------------------------------------------------------------------------

\* What thread t does inside a call.
Step(t) ==
    \/ OnceStart(t) \/ OncePassed(t)
    \/ AddDav(t) \/ AddCaldav(t) \/ Publish(t)
    \/ Lock(t) \/ Enter(t) \/ Access(t) \/ Unlock(t)
    \/ Return(t)

Next == \E t \in Thread : Call(t) \/ Step(t)

Spec == Init /\ [][Next]_vars

-----------------------------------------------------------------------------
(* Properties                                                              *)

\* The variables have their types.
TypeOK ==
    /\ pc \in [Thread -> Pc]
    /\ req \in [Thread -> Request]
    /\ value \in [Thread -> Prefix \cup {None}]
    /\ once \in {"notcalled", "progress", "ready"}
    /\ table \in Table
    /\ lock \in Thread \cup {None}

\* The thread works on the hash table, of which GLib has no protection.
UsesTable(t) == pc[t] \in {"add_dav", "add_caldav", "publish", "access"}

\* No thread uses the table while another one does, be it to initialise it
\* (g_once) or to access it (G_LOCK).
NoRace == \A s, t \in Thread : UsesTable(s) /\ UsesTable(t) => s = t

Initialises(t) == pc[t] \in {"add_dav", "add_caldav", "publish"}

Holds(t) == pc[t] \in {"enter", "access", "unlock"}

\* A thread that g_once or G_LOCK keeps waiting waits for another one that
\* waits for nobody: the thread inside gdav_xmlns_prefixes_init, or the one that
\* accesses the table and will come to its G_UNLOCK.
WaitsForWorker ==
    \A t \in Thread :
        /\ pc[t] = "once" /\ once = "progress" =>
              \E s \in Thread : Initialises(s)
        /\ pc[t] = "lock" /\ lock # None => lock \in Thread /\ Holds(lock)

\* The prefixes that the library registers.
Initial == [Empty EXCEPT ![Dav] = D, ![Caldav] = C]

Updated(m, r) == IF r.op = "set" THEN [m EXCEPT ![r.href] = r.prefix] ELSE m

Found(m, r) == IF r.op = "get" THEN m[r.href] ELSE None

\* The call of thread t as an abstract one: the locked access is its effect.
AbstractCall(t) ==
    IF pc[t] = "idle" THEN [state |-> "idle"]
    ELSE IF pc[t] \in {"unlock", "return"}
    THEN [state |-> "done", req |-> req[t], value |-> value[t]]
    ELSE [state |-> "called", req |-> req[t]]

Map == INSTANCE PrefixMap WITH
    map    <- IF once = "ready" THEN table ELSE Initial,
    call   <- [t \in Thread |-> AbstractCall(t)],
    Apply  <- Updated,
    Answer <- Found

\* The calls are linearizable: they implement the atomic map of PrefixMap.
\* Above all, the one-time initialisation overwrites no prefix that was set.
Linearizable == Map!MapSpec
=============================================================================
