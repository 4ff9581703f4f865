----------------------------- MODULE ActiveLock -----------------------------
(***************************************************************************)
(* GDavActiveLock (libgdav/gdav-active-lock.c): a lock as an object whose  *)
(* setters notify.  An application keeps two locks alike, with a handler   *)
(* on each that copies what changed to the other one, as a property        *)
(* binding does, and has a second handler that may call anything.  It may  *)
(* take scope and type of the locks from a GDavLockEntry.                  *)
(*                                                                         *)
(* Setters run handlers and handlers run setters.  The emissions under way *)
(* are the frames of a stack, the innermost first.  GObject is external    *)
(* and modelled by its rules: "notify" does not recurse, an emission of    *)
(* the same property restarts instead; while notifications are frozen they *)
(* are collected, and g_object_set freezes them for its own duration.      *)
(***************************************************************************)
EXTENDS Integers, Sequences

CONSTANTS
    A, B,           \* the two locks
    Text,           \* strings
    Null,
    MaxInt,         \* G_MAXINT32
    Used,           \* the properties that the application changes
    MaxCalls,       \* bound on the calls made before notifications have ended
    MaxFreeze       \* bound on nested g_object_freeze_notify calls

Lock == {A, B}

Peer(o) == IF o = A THEN B ELSE A

Prop == {"depth", "lock_root", "lock_scope", "lock_token", "lock_type", "owner",
         "timeout"}

ASSUME LocksAssumption == A # B

ASSUME TextAssumption == Null \notin Text

ASSUME BoundsAssumption ==
    /\ MaxInt \in Nat
    /\ MaxCalls \in Nat
    /\ MaxFreeze \in Nat
    /\ Used \subseteq Prop

VARIABLES
    lock,       \* lock[o]: the fields of a GDavActiveLock
    made,       \* who made the locks: "none", "lock_new" or "object_new"
    entry,      \* a GDavLockEntry, while there are no locks, or Null
    stack,      \* emissions under way
    frozen,     \* frozen[o]: freeze count of the notifications of o
    queue,      \* queue[o]: properties to be notified once it is zero
    asked,      \* history: the latest timeout that was asked for
    calls       \* calls of the application in this cascade

vars == <<lock, made, entry, stack, frozen, queue, asked, calls>>

-----------------------------------------------------------------------------
(* Fields                                                                  *)

\* What a field may hold; for g_object_set, what its GParamSpec lets pass.
Value ==
    [depth |-> {"0", "1", "infinity"}, lock_scope |-> {"exclusive", "shared"},
     lock_type |-> {"unknown", "write"}, timeout |-> -1 .. MaxInt,
     lock_root |-> Text \cup {Null}, lock_token |-> Text \cup {Null},
     owner |-> Text \cup {Null}]

\* What a setter may be called with.
Argument(p) == IF p = "timeout" THEN -MaxInt - 1 .. MaxInt ELSE Value[p]

\* The private data of a new instance.
Zeroed == [depth |-> "0", lock_scope |-> "exclusive", lock_type |-> "unknown",
           timeout |-> 0, lock_root |-> Null, lock_token |-> Null, owner |-> Null]

\* Mutant of ConstructDefault: the timeout is no construct property.
ConstructDefaultZero == [depth |-> "0", lock_scope |-> "exclusive",
                         lock_type |-> "write", timeout |-> 0]

\* The defaults of the properties that are set at construction in any case.
ConstructDefault == [depth |-> "0", lock_scope |-> "exclusive",
                     lock_type |-> "write", timeout |-> -1]

\* g_object_new with the properties given.
Constructed(given) ==
    [p \in Prop |-> IF p \in DOMAIN given THEN given[p]
                    ELSE IF p \in DOMAIN ConstructDefault THEN ConstructDefault[p]
                    ELSE Zeroed[p]]

\* gdav_active_lock_set_timeout: CLAMP (timeout, -1, G_MAXINT32).
Clamp(t) == IF t > MaxInt THEN MaxInt ELSE IF t < -1 THEN -1 ELSE t

\* Mutant of Stored: the timeout is stored as it is.
StoredUnclamped(p, v) == v

\* What the field holds afterwards.
Stored(p, v) == IF p = "timeout" THEN Clamp(v) ELSE v

\* Mutant of Accepts: the lock root may be cleared.
AcceptsNull(p, v) == TRUE

\* gdav_active_lock_set_lock_root refuses NULL.
Accepts(p, v) == p = "lock_root" => v # Null

\* Mutant of Changes: the setter assigns and notifies in any case.
ChangesAlways(o, p, v) == Accepts(p, v)

\* A setter does nothing unless the value differs.
Changes(o, p, v) == Accepts(p, v) /\ Stored(p, v) # lock[o][p]

-----------------------------------------------------------------------------
(* Notifications                                                           *)

\* An emission on o of property p; the properties of todo are to follow.
Frame(o, p, todo, handler) ==
    [object |-> o, prop |-> p, todo |-> todo, handler |-> handler, restart |-> FALSE]

\* The dispatch of all the properties of todo.
Dispatch(o, todo) == Frame(o, "none", todo, "next")

Top == Head(stack)

WithTop(f) == <<f>> \o Tail(stack)

Emitting(o, p, s) == \E i \in DOMAIN s : s[i].object = o /\ s[i].prop = p

Restarted(o, p, s) ==
    [i \in DOMAIN s |-> IF s[i].object = o /\ s[i].prop = p
                        THEN [s[i] EXCEPT !.restart = TRUE] ELSE s[i]]

\* g_signal_emit for "notify", G_SIGNAL_NO_RECURSE, on top of the frames in s.
Emitted(o, p, s) ==
    IF Emitting(o, p, s) THEN Restarted(o, p, s)
                         ELSE <<Frame(o, p, {}, "follow")>> \o s

\* g_object_notify.
Notify(o, p, s) ==
    IF frozen[o] > 0
    THEN /\ queue' = [queue EXCEPT ![o] = @ \cup {p}]
         /\ stack' = s
    ELSE /\ stack' = Emitted(o, p, s)
         /\ UNCHANGED queue

\* Mutant of SetField: assigned before it is compared, so nothing is notified.
SetFieldSilent(o, p, v, s) ==
    /\ lock' = IF Accepts(p, v) THEN [lock EXCEPT ![o][p] = Stored(p, v)] ELSE lock
    /\ stack' = s
    /\ UNCHANGED queue

\* The seven setters, called with the frames of s on the stack.
SetField(o, p, v, s) ==
    IF Changes(o, p, v)
    THEN /\ lock' = [lock EXCEPT ![o][p] = Stored(p, v)]
         /\ Notify(o, p, s)
    ELSE /\ stack' = s
         /\ UNCHANGED <<lock, queue>>

Ask(o, p, v) == asked' = IF p = "timeout" THEN [asked EXCEPT ![o] = v] ELSE asked

\* No notification is under way or held back.
AtRest == stack = << >> /\ \A o \in Lock : frozen[o] = 0

Count(n) == calls' = IF AtRest' THEN 0 ELSE calls + n

-----------------------------------------------------------------------------
(* The application                                                         *)

\* Application code runs: its main program or its handler.
InUserCode ==
    /\ made # "none"
    /\ stack # << >> => Top.handler = "app"

Calling == InUserCode /\ calls < MaxCalls

\* gdav_active_lock_set_*.
Set(o, p, v) ==
    /\ Calling
    /\ SetField(o, p, v, stack)
    /\ Ask(o, p, v)
    /\ UNCHANGED <<made, entry, frozen>>
    /\ Count(1)

\* g_object_set with two properties: set_property calls the two setters while
\* the notifications are frozen, and both properties are notified in any case.
ObjectSet(o, f) ==
    /\ Calling
    /\ lock' = [lock EXCEPT ![o] =
                  [p \in Prop |-> IF p \in DOMAIN f /\ Accepts(p, f[p])
                                  THEN Stored(p, f[p]) ELSE lock[o][p]]]
    /\ IF frozen[o] > 0
       THEN /\ queue' = [queue EXCEPT ![o] = @ \cup DOMAIN f]
            /\ UNCHANGED stack
       ELSE /\ stack' = <<Dispatch(o, DOMAIN f)>> \o stack
            /\ UNCHANGED queue
    /\ asked' = IF "timeout" \in DOMAIN f THEN [asked EXCEPT ![o] = f["timeout"]]
                                          ELSE asked
    /\ UNCHANGED <<made, entry, frozen>>
    /\ Count(1)

\* g_object_freeze_notify
Freeze(o) ==
    /\ Calling
    /\ frozen[o] < MaxFreeze
    /\ frozen' = [frozen EXCEPT ![o] = @ + 1]
    /\ UNCHANGED <<lock, made, entry, stack, queue, asked>>
    /\ Count(1)

\* g_object_thaw_notify
Thaw(o) ==
    /\ InUserCode
    /\ frozen[o] > 0
    /\ frozen' = [frozen EXCEPT ![o] = @ - 1]
    /\ IF frozen[o] = 1
       THEN /\ stack' = <<Dispatch(o, queue[o])>> \o stack
            /\ queue' = [queue EXCEPT ![o] = {}]
       ELSE UNCHANGED <<stack, queue>>
    /\ UNCHANGED <<lock, made, entry, asked>>
    /\ Count(0)

\* gdav_lock_entry_new, or g_object_new with the defaults; its properties are
\* construct-only.
NewEntry(scope, type) ==
    /\ made = "none"
    /\ entry = Null
    /\ entry' = [lock_scope |-> scope, lock_type |-> type]
    /\ UNCHANGED <<lock, made, stack, frozen, queue, asked, calls>>

\* Two locks alike are made, and the handlers connected: by
\* gdav_active_lock_new, or by g_object_new without properties, as the parser
\* makes the object of an element.  An entry is read for them and dropped.
New(given) ==
    /\ made = "none"
    /\ entry # Null => /\ given # << >>
                       /\ given.lock_scope = entry.lock_scope
                       /\ given.lock_type = entry.lock_type
    /\ lock' = [o \in Lock |-> Constructed(given)]
    /\ made' = IF given = << >> THEN "object_new" ELSE "lock_new"
    /\ entry' = Null
    /\ asked' = [o \in Lock |-> -1]
    /\ UNCHANGED <<stack, frozen, queue, calls>>

\* The last references are dropped: gdav_active_lock_finalize.
Unref ==
    /\ made # "none"
    /\ AtRest
    /\ made' = "none"
    /\ lock' = [o \in Lock |-> Zeroed]
    /\ asked' = [o \in Lock |-> -1]
    /\ UNCHANGED <<entry, stack, frozen, queue, calls>>

-----------------------------------------------------------------------------
(* Handlers                                                                *)

\* The first handler copies the property to the other lock, with the getter of
\* the one and the setter of the other.
Follow ==
    /\ stack # << >>
    /\ Top.handler = "follow"
    /\ LET v == lock[Top.object][Top.prop]
       IN  /\ SetField(Peer(Top.object), Top.prop, v,
                       WithTop([Top EXCEPT !.handler = "followed"]))
           /\ Ask(Peer(Top.object), Top.prop, v)
    /\ UNCHANGED <<made, entry, frozen>>
    /\ Count(0)

\* A handler returns: the emission restarts if that was asked for, or goes on.
Return(handler, next) ==
    /\ stack # << >>
    /\ Top.handler = handler
    /\ stack' = WithTop(IF Top.restart
                        THEN [Top EXCEPT !.handler = "follow", !.restart = FALSE]
                        ELSE next)
    /\ UNCHANGED <<lock, made, entry, frozen, queue, asked>>
    /\ Count(0)

FollowReturns == Return("followed", [Top EXCEPT !.handler = "app"])

AppReturns == Return("app", [Top EXCEPT !.handler = "next", !.prop = "none"])

\* The next property of the dispatch is emitted, or all were.
DispatchNext ==
    /\ stack # << >>
    /\ Top.handler = "next"
    /\ IF Top.todo = {}
       THEN stack' = Tail(stack)
       ELSE \E p \in Top.todo :
              LET rest == Top.todo \ {p}
              IN  stack' = IF Emitting(Top.object, p, Tail(stack))
                           THEN <<Dispatch(Top.object, rest)>>
                                \o Restarted(Top.object, p, Tail(stack))
                           ELSE WithTop(Frame(Top.object, p, rest, "follow"))
    /\ UNCHANGED <<lock, made, entry, frozen, queue, asked>>
    /\ Count(0)

Handlers == Follow \/ FollowReturns \/ AppReturns \/ DispatchNext

-----------------------------------------------------------------------------
Init ==
    /\ lock = [o \in Lock |-> Zeroed]
    /\ made = "none"
    /\ entry = Null
    /\ stack = << >>
    /\ frozen = [o \in Lock |-> 0]
    /\ queue = [o \in Lock |-> {}]
    /\ asked = [o \in Lock |-> -1]
    /\ calls = 0

\* The arguments of gdav_active_lock_new, or none; one value is enough of what
\* the application does not change.
Given ==
    {<< >>} \cup [depth : IF "depth" \in Used THEN Value["depth"] ELSE {"0"},
                  lock_scope : Value["lock_scope"], lock_type : {"write"},
                  lock_root : Text]

Entry == [lock_scope : Value["lock_scope"], lock_type : {"write"}]

Next ==
    \/ \E given \in Given : New(given)
    \/ \E e \in Entry : NewEntry(e.lock_scope, e.lock_type)
    \/ Unref
    \/ \E o \in Lock :
         \/ \E p \in Used : \E v \in Argument(p) : Set(o, p, v)
         \/ \E p, q \in Used : \E v \in Value[p], w \in Value[q] :
              ObjectSet(o, [r \in {p, q} |-> IF r = p THEN v ELSE w])
         \/ Freeze(o) \/ Thaw(o)
    \/ Handlers

Spec == Init /\ [][Next]_vars

\* Handlers that were called run on and return.
FairSpec == Spec /\ WF_vars(Handlers)

-----------------------------------------------------------------------------
(* Properties                                                              *)

FrameType == [object : Lock, prop : Prop \cup {"none"}, todo : SUBSET Prop,
              handler : {"next", "follow", "followed", "app"}, restart : BOOLEAN]

\* The variables have their types; every field holds a legal value, after any
\* sequence of calls.
TypeOK ==
    /\ \A o \in Lock : DOMAIN lock[o] = Prop
    /\ \A o \in Lock, p \in Prop : made # "none" => lock[o][p] \in Value[p]
    /\ made \in {"none", "lock_new", "object_new"}
    /\ entry \in Entry \cup {Null}
    /\ stack \in Seq(FrameType)
    /\ frozen \in [Lock -> 0 .. MaxFreeze]
    /\ queue \in [Lock -> SUBSET Prop]
    /\ asked \in [Lock -> Int]
    /\ calls \in 0 .. MaxCalls

\* At rest the two locks agree, however setters, handlers that call setters
\* again, frozen notifications and g_object_set were interleaved: no change
\* goes unnotified, although setters notify only what differs.
PeersAgree == AtRest => lock[A] = lock[B]

\* A lock that gdav_active_lock_new made always has a root ("lockroot is
\* mandatory"), whatever is tried with the setter and g_object_set.
RootKnown ==
    made = "lock_new" => \A o \in Lock : lock[o]["lock_root"] # Null

\* "Any negative timeout means infinite", stored as -1, which is also what a
\* lock has whose timeout nobody set; other timeouts are stored as they are.
TimeoutMeaning ==
    made # "none" =>
        \A o \in Lock :
            lock[o]["timeout"] = IF asked[o] < 0 THEN -1 ELSE asked[o]

\* Notifications end: locks bound to one another do not go on telling each
\* other what they know.
NotificationsEnd == []<>(stack = << >>)
=============================================================================
