----------------------------- MODULE GDavMethods -----------------------------
(***************************************************************************)
(* The method calls of libgdav: gdav_options and gdav_propfind, each       *)
(* asynchronous (libgdav/gdav-methods.c) or synchronous on top of a        *)
(* private main loop (GDavAsyncClosure, libgdav/gdav-utils.c).             *)
(*                                                                         *)
(* A call is a chain of two GTasks.  The outer task is the one whose       *)
(* callback the application gave; its context owns the SoupMessage.  The   *)
(* inner task wraps soup_request_send_async and the splice that copies     *)
(* the response body into the message.  Everything of a call happens in    *)
(* callbacks that some thread dispatches from a GMainContext, so a thread  *)
(* is its C call stack: an empty stack means that the thread is in its own *)
(* main loop, a "sync_wait" frame that it is in the private loop of a      *)
(* synchronous call.  The first element of a stack is the innermost frame. *)
(*                                                                         *)
(* GTask, GMainLoop and libsoup are external; they are modelled by the     *)
(* rules that the code relies on.                                          *)
(***************************************************************************)
EXTENDS Naturals, Sequences, FiniteSets

CONSTANTS
    Thread,         \* threads of the application, each with a main context
    Call,           \* calls the application may make (each is made once)
    None,           \* no call, no context
    Kind,           \* the methods the application uses
    Cancellable,    \* the calls that are given a GCancellable
    ParseOutcome    \* what gdav_parsable_new_from_data may do

ASSUME IdentitiesAssumption == Thread \cap Call = {} /\ None \notin Thread \cup Call

ASSUME KindAssumption == Kind \subseteq {"options", "propfind"}

ASSUME CancellableAssumption == Cancellable \subseteq Call

ASSUME ParseAssumption == ParseOutcome \subseteq {"object", "error", "nothing"}

VARIABLES
    stack,      \* stack[t]: the frames of thread t, innermost first
    defaults,   \* defaults[t]: contexts pushed as thread-default, last first
    op,         \* op[c]: the state of call c
    cancelled   \* the calls whose GCancellable was cancelled

vars == <<stack, defaults, op, cancelled>>

Context == Thread \cup Call

Holder == {"context", "inner", "caller"}

Fn == {"handler", "callback",                           \* the application
       "send_cb", "splice_cb", "inner_idle",            \* about to unref inner
       "request_cb", "request_cb_end", "outer_idle",    \* ... to unref outer
       "sync_run", "sync_wait", "sync_finish"}

\* Besides them a handler of a signal may run while a call is worked on.
Frame == [fn : Fn \cup {"signal"}, call : Call \cup {None}]

OpRecord ==
    [kind     : {"options", "propfind"},
     sync     : BOOLEAN,
     phase    : {"idle", "begun", "ready", "finishing", "finished"},
     ctx      : Context \cup {None},    \* main context of both tasks
     src      : {"none", "send", "splice", "inner", "outer"}, \* pending source
     srcCtx   : Context \cup {None},    \* and the context it is attached to
     outer    : Nat,                    \* references to the outer task
     inner    : Nat,                    \* references to the inner task
     innerRes : {"none", "ok", "error"},
     outerRes : {"none", "ok", "error"},
     message  : SUBSET Holder,          \* who owns a reference to the message
     copies   : Nat,                    \* copies of the body in the message
     object   : {"none", "task", "caller", "freed"},  \* the GDavMultiStatus
     running  : BOOLEAN,                \* GMainLoop.is_running of the closure
     result   : BOOLEAN,                \* closure->result is set
     called   : Nat,                    \* invocations of the callback
     wanted   : BOOLEAN,                \* the caller asked for the message
     outs     : BOOLEAN,                \* *out_allow, *out_options were set
     ret      : {"none", "ok", "error"}]

IdleOp ==
    [kind |-> "options", sync |-> FALSE, phase |-> "idle", ctx |-> None,
     src |-> "none", srcCtx |-> None, outer |-> 0, inner |-> 0,
     innerRes |-> "none", outerRes |-> "none", message |-> {}, copies |-> 0,
     object |-> "none", running |-> FALSE, result |-> FALSE, called |-> 0,
     wanted |-> FALSE, outs |-> FALSE, ret |-> "none"]

Init ==
    /\ stack = [t \in Thread |-> << >>]
    /\ defaults = [t \in Thread |-> << >>]
    /\ op = [c \in Call |-> IdleOp]
    /\ cancelled = {}

-----------------------------------------------------------------------------
(* GLib: main contexts, loops and references                               *)

One(b) == IF b THEN 1 ELSE 0

Push(f, s) == <<f>> \o s

At(fn, c) == [fn |-> fn, call |-> c]

\* Thread t executes the frame fn.
In(t, fn) == stack[t] # << >> /\ Head(stack[t]).fn = fn

\* The call that the innermost frame of t works on.
Cur(t) == Head(stack[t]).call

\* g_main_context_ref_thread_default, for the contexts s pushed by thread t.
Default(t, s) == IF s = << >> THEN t ELSE Head(s)

DefaultCtx(t) == Default(t, defaults[t])

\* Mutants of ClosureContext, PushDefault and PopDefault: the loop runs the
\* context of the thread; the push, or the pop, is forgotten.
ClosureContextShared(t, c) == t

PushNothing(x, s) == s

PopNothing(s) == s

\* gdav_async_closure_new: the context that a synchronous call c creates for
\* its loop, named by the call, becomes the default of the thread.
ClosureContext(t, c) == c

PushDefault(x, s) == Push(x, s)

PopDefault(s) == Tail(s)

\* Thread t is in g_main_loop_run.
InMainLoop(t) ==
    stack[t] = << >> \/ (In(t, "sync_wait") /\ op[Cur(t)].running)

\* Thread t is in a g_main_loop_run that dispatches the sources of x.
Iterates(t, x) ==
    /\ InMainLoop(t)
    /\ x = IF stack[t] = << >> THEN t ELSE ClosureContext(t, Cur(t))

\* The context of the source that t is dispatching (g_main_current_source).
DispatchCtx(t) ==
    LET waits == {i \in DOMAIN stack[t] : stack[t][i].fn = "sync_wait"}
    IN  IF waits = {} THEN t
        ELSE LET i == CHOOSE i \in waits : \A j \in waits : i <= j
             IN  ClosureContext(t, stack[t][i].call)

\* g_task_return() calls back at once only from a source of the task's own
\* context, and not in the dispatch that created the task.
ReturnsNow(t, o, fresh) == DispatchCtx(t) = o.ctx /\ ~fresh

RefOuter(o) == [o EXCEPT !.outer = @ + 1]

\* The last reference takes the AsyncContext, and an unclaimed result, along.
UnrefOuter(o) ==
    IF o.outer = 1
    THEN [o EXCEPT !.outer = 0, !.message = @ \ {"context"},
                   !.object = IF @ = "task" THEN "freed" ELSE @]
    ELSE [o EXCEPT !.outer = @ - 1]

RefInner(o) == [o EXCEPT !.inner = @ + 1]

\* The task data of the inner task is a reference to the message.
UnrefInner(o) ==
    IF o.inner = 1 THEN [o EXCEPT !.inner = 0, !.message = @ \ {"inner"}]
                   ELSE [o EXCEPT !.inner = @ - 1]

Attach(o, source, x) == [o EXCEPT !.src = source, !.srcCtx = x]

Detach(o) == Attach(o, "none", None)

\* g_task_propagate_*() and g_task_had_error() look at the cancellable first.
Failed(c, res) == c \in cancelled \/ res = "error"

-----------------------------------------------------------------------------
(* Completion of the two tasks                                             *)

\* Mutant of ClosureCallback: the loop is not told to quit.
ClosureCallbackNoQuit(o) == [RefOuter(o) EXCEPT !.result = TRUE]

\* gdav_async_closure_callback
ClosureCallback(o) ==
    LET kept == IF o.result THEN UnrefOuter(o) ELSE o
    IN  [RefOuter(kept) EXCEPT !.result = TRUE, !.running = FALSE]

\* The callback of the outer task runs, on top of the frames in rest.
Invoke(t, c, o, rest) ==
    LET called == [o EXCEPT !.called = @ + 1, !.phase = "ready"]
    IN  /\ op' = [op EXCEPT ![c] =
                    IF o.sync THEN ClosureCallback(called) ELSE called]
        /\ stack' = [stack EXCEPT ![t] =
                    IF o.sync THEN rest ELSE Push(At("callback", c), rest)]

\* g_task_return_*() on the outer task.
OuterReturned(t, c, o, fresh, rest) ==
    \/ ReturnsNow(t, o, fresh) /\ Invoke(t, c, o, rest)
    \/ /\ op' = [op EXCEPT ![c] = Attach(RefOuter(o), "outer", o.ctx)]
       /\ stack' = [stack EXCEPT ![t] = rest]

\* g_task_return_*() on the inner task by its callback fn, which then drops
\* its own reference to the task.
InnerReturned(t, c, o, fn) ==
    \/ /\ ReturnsNow(t, o, FALSE)
       /\ op' = [op EXCEPT ![c] = Detach(o)]
       /\ stack' = [stack EXCEPT ![t] =
                      Push(At("request_cb", c), Push(At(fn, c), @))]
    \/ /\ op' = [op EXCEPT ![c] =
                      UnrefInner(Attach(RefInner(o), "inner", o.ctx))]
       /\ UNCHANGED stack

-----------------------------------------------------------------------------
(* Starting a call                                                         *)

\* Mutants of RequestSend: no reference for the callback, one g_object_unref
\* too many, and task data that is not a reference of its own.
RequestSendNoRef(o, x) ==
    LET task == RefInner([o EXCEPT !.message = @ \cup {"inner"}])
    IN  UnrefInner(Attach(task, "send", x))

RequestSendExtraUnref(o, x) == UnrefInner(RequestSendNoRef(o, x))

RequestSendBorrowed(o, x) == Attach(RefInner(o), "send", x)

\* gdav_request_send: the inner task, with a reference for the callback.
RequestSend(o, x) ==
    LET task == RefInner([o EXCEPT !.message = @ \cup {"inner"}])
    IN  UnrefInner(Attach(RefInner(task), "send", x))

\* Mutant of BeginFailed: the callback is invoked directly.
BeginFailedAtOnce(t, c, o, rest) ==
    Invoke(t, c, [o EXCEPT !.outerRes = "error", !.outer = @ - 1], rest)

\* g_task_return_error for a request that could not be built.
BeginFailed(t, c, o, rest) ==
    OuterReturned(t, c, [o EXCEPT !.outerRes = "error", !.outer = @ - 1],
                  TRUE, rest)

\* gdav_options and gdav_propfind, called by thread t while x is its
\* thread-default context.  The request cannot be built for an invalid URI.
Begin(t, c, k, s, x, rest) ==
    LET o == RefOuter([IdleOp EXCEPT !.kind = k, !.sync = s, !.phase = "begun",
                                     !.ctx = x])
    IN  \/ LET sent == RequestSend(
                         RefOuter([o EXCEPT !.message = {"context"}]), x)
           IN  /\ op' = [op EXCEPT ![c] = UnrefOuter(sent)]
               /\ stack' = [stack EXCEPT ![t] = rest]
        \/ BeginFailed(t, c, o, rest)

\* The thread runs application code: an event handler or a callback.
InUserCode(t) == In(t, "handler") \/ In(t, "callback")

BeginAsync(t, c, k) ==
    /\ InUserCode(t)
    /\ op[c].phase = "idle"
    /\ Begin(t, c, k, FALSE, DefaultCtx(t), stack[t])
    /\ UNCHANGED <<defaults, cancelled>>

\* gdav_options_sync and gdav_propfind_sync up to gdav_async_closure_wait.
BeginSync(t, c, k) ==
    /\ InUserCode(t)
    /\ op[c].phase = "idle"
    /\ LET pushed == PushDefault(ClosureContext(t, c), defaults[t])
       IN  /\ defaults' = [defaults EXCEPT ![t] = pushed]
           /\ Begin(t, c, k, TRUE, Default(t, pushed),
                    Push(At("sync_run", c), stack[t]))
    /\ UNCHANGED cancelled

-----------------------------------------------------------------------------
(* Callbacks of the pipeline                                               *)

\* gdav_request_send_cb: on success the splice holds a new reference and the
\* callback drops its own.
SendCb(t, c) ==
    LET o == Detach(op[c])
    IN  /\ op[c].src = "send"
        /\ Iterates(t, op[c].srcCtx)
        /\ \/ /\ op' = [op EXCEPT ![c] =
                     UnrefInner(Attach(RefInner(o), "splice", DefaultCtx(t)))]
              /\ UNCHANGED stack
           \/ InnerReturned(t, c, [o EXCEPT !.innerRes = "error"], "send_cb")
        /\ UNCHANGED <<defaults, cancelled>>

\* Mutant of CopyBody: the body is appended without looking.
CopyBodyAlways(o, filled) == [o EXCEPT !.copies = @ + 1 + One(filled)]

\* The splice is done.  "filled" says that libsoup stored a copy of the body
\* itself; the callback appends one only if the message has none.
CopyBody(o, filled) ==
    LET copied == o.copies + One(filled)
    IN  [o EXCEPT !.copies = IF copied = 0 THEN 1 ELSE copied]

\* gdav_request_splice_cb
SpliceCb(t, c) ==
    LET o == Detach(op[c])
    IN  /\ op[c].src = "splice"
        /\ Iterates(t, op[c].srcCtx)
        /\ \/ \E filled \in BOOLEAN :
                InnerReturned(t, c, [CopyBody(o, filled)
                                       EXCEPT !.innerRes = "ok"], "splice_cb")
           \/ InnerReturned(t, c, [o EXCEPT !.innerRes = "error"], "splice_cb")
        /\ UNCHANGED <<defaults, cancelled>>

\* The idle source that completes the inner task.
InnerIdle(t, c) ==
    /\ op[c].src = "inner"
    /\ Iterates(t, op[c].srcCtx)
    /\ op' = [op EXCEPT ![c] = Detach(@)]
    /\ stack' = [stack EXCEPT ![t] =
                   Push(At("request_cb", c), Push(At("inner_idle", c), @))]
    /\ UNCHANGED <<defaults, cancelled>>

\* gdav_options_request_cb
OptionsRequestCb(t, c, rest) ==
    OuterReturned(t, c,
        [op[c] EXCEPT !.outerRes = IF Failed(c, op[c].innerRes)
                                   THEN "error" ELSE "ok"], FALSE, rest)

\* gdav_propfind_request_cb.  With neither an object nor an error the task
\* is not returned at all.
PropfindRequestCb(t, c, rest) ==
    \/ OuterReturned(t, c, [op[c] EXCEPT !.outerRes = "error"], FALSE, rest)
    \/ /\ ~Failed(c, op[c].innerRes)
       /\ \E outcome \in ParseOutcome :
            \/ /\ outcome = "object"
               /\ OuterReturned(t, c, [op[c] EXCEPT !.outerRes = "ok",
                                                    !.object = "task"],
                                FALSE, rest)
            \/ /\ outcome = "error"
               /\ OuterReturned(t, c, [op[c] EXCEPT !.outerRes = "error"],
                                FALSE, rest)
            \/ /\ outcome = "nothing"
               /\ stack' = [stack EXCEPT ![t] = rest]
               /\ UNCHANGED op

RequestCb(t) ==
    /\ In(t, "request_cb")
    /\ LET c == Cur(t)
           rest == Push(At("request_cb_end", c), Tail(stack[t]))
       IN  IF op[c].kind = "options" THEN OptionsRequestCb(t, c, rest)
                                     ELSE PropfindRequestCb(t, c, rest)
    /\ UNCHANGED <<defaults, cancelled>>

\* The idle source that completes the outer task.
OuterIdle(t, c) ==
    /\ op[c].src = "outer"
    /\ Iterates(t, op[c].srcCtx)
    /\ Invoke(t, c, Detach(op[c]), Push(At("outer_idle", c), stack[t]))
    /\ UNCHANGED <<defaults, cancelled>>

\* The g_object_unref that ends a callback of the inner or the outer task.
LeaveInner(t) ==
    /\ In(t, "send_cb") \/ In(t, "splice_cb") \/ In(t, "inner_idle")
    /\ op' = [op EXCEPT ![Cur(t)] = UnrefInner(@)]
    /\ stack' = [stack EXCEPT ![t] = Tail(@)]
    /\ UNCHANGED <<defaults, cancelled>>

LeaveOuter(t) ==
    /\ In(t, "request_cb_end") \/ In(t, "outer_idle")
    /\ op' = [op EXCEPT ![Cur(t)] = UnrefOuter(@)]
    /\ stack' = [stack EXCEPT ![t] = Tail(@)]
    /\ UNCHANGED <<defaults, cancelled>>

-----------------------------------------------------------------------------
(* Finishing a call                                                        *)

\* gdav_async_closure_wait: g_main_loop_run starts, ...
ClosureWait(t) ==
    /\ In(t, "sync_run")
    /\ op' = [op EXCEPT ![Cur(t)].running = TRUE]
    /\ stack' = [stack EXCEPT ![t] = Push(At("sync_wait", Cur(t)), Tail(@))]
    /\ UNCHANGED <<defaults, cancelled>>

\* ... and returns once the loop was told to quit.
ClosureQuit(t) ==
    /\ In(t, "sync_wait")
    /\ ~op[Cur(t)].running
    /\ stack' = [stack EXCEPT ![t] = Push(At("sync_finish", Cur(t)), Tail(@))]
    /\ UNCHANGED <<op, defaults, cancelled>>

\* The message passes from the context to the caller, if it is still there.
Taken(c, o) ==
    IF "context" \in o.message
    THEN (o.message \ {"context"}) \cup {"caller"} ELSE o.message

\* Mutant of Handed: a call that failed keeps the message to itself.
HandedOnSuccess(c, o) == IF Failed(c, o.outerRes) THEN o.message ELSE Taken(c, o)

\* What becomes of the message if the caller wants it, error or not.
Handed(c, o) == Taken(c, o)

\* gdav_options_finish and gdav_propfind_finish up to the propagation: the
\* outputs, and the message if the caller wants it.
FinishOutputs(t) ==
    /\ In(t, "callback") \/ In(t, "sync_finish")
    /\ LET c == Cur(t)
           o == op[c]
       IN  /\ o.phase = "ready"
           /\ \E wanted \in BOOLEAN :
                op' = [op EXCEPT ![c] =
                  [o EXCEPT !.phase = "finishing",
                            !.wanted = wanted,
                            !.outs = /\ o.kind = "options"
                                     /\ ~Failed(c, o.outerRes),
                            !.message = IF wanted THEN Handed(c, o) ELSE @]]
    /\ UNCHANGED <<stack, defaults, cancelled>>

\* Mutant of Propagated: the cancellable is not checked.
PropagatedUnchecked(c, res) == IF res = "error" THEN "error" ELSE "ok"

\* g_task_propagate_boolean, g_task_propagate_pointer
Propagated(c, res) == IF Failed(c, res) THEN "error" ELSE "ok"

FinishPropagate(t) ==
    /\ In(t, "callback") \/ In(t, "sync_finish")
    /\ LET c == Cur(t)
           ret == Propagated(c, op[c].outerRes)
       IN  /\ op[c].phase = "finishing"
           /\ op' = [op EXCEPT ![c].phase = "finished", ![c].ret = ret,
                        ![c].object = IF ret = "ok" /\ @ = "task"
                                      THEN "caller" ELSE @]
    /\ UNCHANGED <<stack, defaults, cancelled>>

\* gdav_async_closure_free, and the synchronous function returns.
ClosureFree(t) ==
    /\ In(t, "sync_finish")
    /\ op[Cur(t)].phase = "finished"
    /\ defaults' = [defaults EXCEPT ![t] = PopDefault(@)]
    /\ op' = [op EXCEPT ![Cur(t)] =
                IF @.result THEN UnrefOuter([@ EXCEPT !.result = FALSE]) ELSE @]
    /\ stack' = [stack EXCEPT ![t] = Tail(@)]
    /\ UNCHANGED cancelled

-----------------------------------------------------------------------------
(* The application                                                         *)

\* A source of the application, on the thread's main context, is dispatched.
Handler(t) ==
    /\ Iterates(t, t)
    /\ \E c \in Call : op[c].phase = "idle"
    /\ stack' = [stack EXCEPT ![t] = Push(At("handler", None), @)]
    /\ UNCHANGED <<defaults, op, cancelled>>

\* A handler that the application connected to a signal of the session or of
\* the message runs while libsoup works on call c within a synchronous call, as
\* "authenticate" of the tool (tools/main.c) and "finished" do.  It calls no
\* method of the library.
Signal(t, c) ==
    /\ In(t, "sync_wait")
    /\ op[c].src \in {"send", "splice"}
    /\ Iterates(t, op[c].srcCtx)
    /\ stack' = [stack EXCEPT ![t] = Push(At("signal", c), @)]
    /\ UNCHANGED <<defaults, op, cancelled>>

\* Application code returns; a callback has finished its call by then.
UserReturn(t) ==
    /\ \/ In(t, "handler") \/ In(t, "signal")
       \/ In(t, "callback") /\ op[Cur(t)].phase = "finished"
    /\ stack' = [stack EXCEPT ![t] = Tail(@)]
    /\ UNCHANGED <<defaults, op, cancelled>>

\* g_cancellable_cancel, from any thread and at any time.
Cancel(c) ==
    /\ c \in Cancellable \ cancelled
    /\ op[c].phase # "finished"
    /\ cancelled' = cancelled \cup {c}
    /\ UNCHANGED <<stack, defaults, op>>

\* Every thread polls in a main loop.
Poll == (\A t \in Thread : InMainLoop(t)) /\ UNCHANGED vars

\* A thread in a main loop dispatches a source of call c.
Dispatch(t, c) ==
    SendCb(t, c) \/ SpliceCb(t, c) \/ InnerIdle(t, c) \/ OuterIdle(t, c)

\* A thread executes its innermost frame.
Execute(t) ==
    \/ RequestCb(t) \/ LeaveInner(t) \/ LeaveOuter(t)
    \/ ClosureWait(t) \/ ClosureQuit(t) \/ ClosureFree(t)
    \/ FinishOutputs(t) \/ FinishPropagate(t)
    \/ UserReturn(t)

Next ==
    \/ \E t \in Thread :
         \/ Execute(t)
         \/ Handler(t)
         \/ \E c \in Call : Dispatch(t, c) \/ Signal(t, c)
         \/ \E c \in Call, k \in Kind : BeginAsync(t, c, k) \/ BeginSync(t, c, k)
    \/ \E c \in Call : Cancel(c)
    \/ Poll

Spec == Init /\ [][Next]_vars

\* Code that a thread executes runs on, the application's included.  libsoup
\* answers every request, and a ready source is not overtaken for ever: an
\* iteration of a GMainContext dispatches everything ready before it polls.
FairSpec ==
    /\ Spec
    /\ \A t \in Thread : WF_vars(Execute(t))
    /\ \A t \in Thread, c \in Call : SF_vars(Dispatch(t, c))

-----------------------------------------------------------------------------
(* Safety                                                                  *)

\* The variables have their types.
TypeOK ==
    /\ stack \in [Thread -> Seq(Frame)]
    /\ defaults \in [Thread -> Seq(Call)]
    /\ op \in [Call -> OpRecord]
    /\ cancelled \subseteq Call

OnStack(fn, c) ==
    \E t \in Thread : \E i \in DOMAIN stack[t] : stack[t][i] = At(fn, c)

InFlight(o) == o.src \in {"send", "splice", "inner"}

\* Every reference to a GTask belongs to exactly one holder: a source that
\* will call back with it, a callback that still has to drop it, or the
\* closure of a synchronous call.  So no task is used after its last unref and
\* none outlives its call, whatever callbacks nest (the g_object_ref and
\* g_object_unref calls of gdav-methods.c and gdav_async_closure_callback).
ReferencesBalanced ==
    \A c \in Call : LET o == op[c] IN
        /\ o.outer = One(InFlight(o))
                     + One(OnStack("request_cb", c))
                     + One(OnStack("request_cb_end", c))
                     + One(o.src = "outer") + One(OnStack("outer_idle", c))
                     + One(o.result)
        /\ o.inner = One(InFlight(o)) + One(OnStack("send_cb", c))
                     + One(OnStack("splice_cb", c))
                     + One(OnStack("inner_idle", c))

\* The message lives as long as a task that uses it, and once both tasks are
\* gone only the caller that asked for it owns it (async_context_free,
\* out_message of the finish functions).
MessageOwned ==
    \A c \in Call : LET o == op[c] IN
        /\ "inner" \in o.message <=> o.inner > 0
        /\ "context" \in o.message => o.outer > 0
        /\ o.phase = "begun" /\ o.outer > 0 /\ o.outerRes = "none"
              => "context" \in o.message
        /\ o.object = "task" => o.outer > 0

\* A call that succeeds has one copy of its body, stored the outputs (OPTIONS)
\* or handed the multistatus over (PROPFIND).  A call that fails hands no
\* multistatus over, and stored outputs only if it was cancelled after all had
\* gone well, between g_task_had_error and g_task_propagate_boolean.
ResultsConsistent ==
    \A c \in Call : LET o == op[c] IN
        /\ o.outerRes = "ok" => o.innerRes = "ok" /\ o.copies = 1
        /\ o.ret = "ok" => IF o.kind = "options" THEN o.outs
                                                 ELSE o.object = "caller"
        /\ o.ret = "error" =>
              /\ o.object # "caller"
              /\ o.outs => o.outerRes = "ok" /\ c \in cancelled

\* A caller who asks for the message has it when the call is over, whether it
\* succeeded, failed or was cancelled meanwhile; there is none only if the
\* request could not be built (the comment in the finish functions).
MessageDelivered ==
    \A c \in Call : LET o == op[c] IN
        o.ret # "none" /\ o.wanted =>
            ("caller" \in o.message <=> o.innerRes # "none")

Sync == {"sync_run", "sync_wait", "sync_finish"}

\* While a synchronous call blocks a thread, no source of the application, no
\* callback and no part of another call runs on it: on top of the call there
\* are its own functions, and handlers of signals that its message causes.
Isolation ==
    \A t \in Thread : \A i, j \in DOMAIN stack[t] :
        i < j /\ stack[t][j].fn \in Sync =>
            /\ stack[t][i].call = stack[t][j].call
            /\ stack[t][i].fn # "callback"

\* The call that blocks thread t: that of its innermost synchronous frame.
Blocked(t) ==
    LET frames == {i \in DOMAIN stack[t] : stack[t][i].fn \in Sync}
    IN  IF frames = {} THEN None
        ELSE stack[t][CHOOSE i \in frames : \A j \in frames : i <= j].call

\* A thread has pushed the context of the call that blocks it as its default,
\* and no other, whatever calls nest: every pop removes its own context, and
\* an asynchronous call never starts on somebody's private context.
ContextsNested ==
    \A t \in Thread :
        defaults[t] = IF Blocked(t) = None THEN << >> ELSE <<Blocked(t)>>

\* Whatever nests, a call that has begun has a source until its callback runs,
\* and the source is attached to the context of its task, which some thread will
\* iterate again.  Only the parser can lose a call, with neither an object nor
\* an error (gdav_propfind_request_cb).
SourcesReachable ==
    \A c \in Call : LET o == op[c] IN
        /\ o.phase = "begun" =>
              \/ o.src # "none" \/ OnStack("request_cb", c)
              \/ o.kind = "propfind" /\ "nothing" \in ParseOutcome
        /\ o.src # "none" =>
              /\ o.srcCtx = o.ctx
              /\ IF o.sync THEN o.ctx = c /\ \E f \in {"sync_run", "sync_wait"} :
                                               OnStack(f, c)
                           ELSE o.ctx \in Thread

\* The innermost function of t goes on: it is no loop that runs, and a function
\* that finishes a call has the answer.
MayExecute(t) ==
    /\ stack[t] # << >>
    /\ LET f == Head(stack[t]) IN
         /\ f.fn = "sync_wait" => ~op[f.call].running
         /\ f.fn \in {"callback", "sync_finish"} =>
               op[f.call].phase \in {"ready", "finishing", "finished"}

\* Thread t is in a main loop that a source of call c is ready for.
MayDispatch(t, c) == op[c].src # "none" /\ Iterates(t, op[c].srcCtx)

\* As long as a call is unfinished some thread has something to do for a call:
\* threads never all poll for sources that are not there, nor for sources of
\* contexts that none of them iterates, however synchronous calls nest in
\* callbacks and callbacks in synchronous calls.
NeverStuck ==
    \A c \in Call : op[c].phase \notin {"idle", "finished"} =>
        \E t \in Thread : MayExecute(t) \/ \E d \in Call : MayDispatch(t, d)

\* g_main_loop_quit never precedes g_main_loop_run, which would lose it.
NoLostQuit ==
    \A c \in Call : OnStack("sync_run", c) => op[c].called = 0

\* The callback of a call runs once, never before the function that started
\* the call has returned, and only when the outer task has a result.
CallbackOnce ==
    [][\A c \in Call : op'[c].called # op[c].called =>
            /\ op[c].phase = "begun" /\ op[c].called = 0
            /\ op'[c].called = 1
            /\ op'[c].outerRes # "none"]_vars

\* What the application sees of a call, and the call that blocks each thread.
Stage(o) ==
    CASE o.phase = "idle"     -> "idle"
      [] o.phase = "begun"    -> "pending"
      [] o.phase = "finished" -> "done"
      [] OTHER                -> "ready"

stages == [c \in Call |-> Stage(op[c])]

homes == [c \in Call |-> IF op[c].sync THEN None ELSE op[c].ctx]

blocking == [t \in Thread |-> Blocked(t)]

outcomes == [c \in Call |-> op[c].ret]

Gio == INSTANCE GioCalls WITH
    state <- stages, home <- homes, blocked <- blocking, outcome <- outcomes

\* Calls keep the conventions of GIO that GioCalls states.
GioConventions == Gio!GioSpec

-----------------------------------------------------------------------------
(* Liveness, under FairSpec                                                *)

\* Every call that was begun finishes, synchronous ones by returning.
CallsFinish == \A c \in Call : op[c].phase = "begun" ~> op[c].phase = "finished"

\* Every thread gets back to its own main loop.
ThreadsReturn == \A t \in Thread : []<>(stack[t] = << >>)
=============================================================================
