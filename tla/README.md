# A verification project for libgdav

libgdav performs WebDAV operations on top of libsoup, GIO and libxml2, and comes
with an interactive tool, `gdav`.  This directory holds TLA+ models of its
stateful parts, TLC configurations that check them on small instances, and
proofs for TLAPS that hold for every instance.  `PROJECT.json` is the index: it
maps each definition to the lines of the source it stands for, and lists runs,
mutants (a plausible bug for every property), hazards, findings and theorems.

Run a configuration with `tlc -config MCXmlnsPrefixes.cfg MCXmlnsPrefixes` and
a proof with `tlapm XmlnsPrefixesProofs.tla`.

## 1. Inventory

| Component | Source | State | Operations | Modelled by |
|---|---|---|---|---|
| Method calls | `gdav-methods.c`, `gdav-utils.c` | two `GTask`s per call, `AsyncContext`, `GDavAsyncClosure`, stack of thread-default contexts | `gdav_options`, `gdav_propfind`, each asynchronous or `_sync`, with `_finish`; the callbacks in between | `GDavMethods`, `GioCalls` |
| Namespace registry | `gdav-xml-namespaces.c` | a hash table behind a `GOnce` and a `GMutex` | get and set a prefix | `XmlnsPrefixes`, `PrefixMap` |
| Request builder | `gdav-requests.c` | the document under construction and its namespace declarations | one function per HTTP method, `gdav_request_add_lock_token` | `DavRequests` |
| Property set, property update | `gdav-property-set.c`, `gdav-property-update.c` | a set of types, a queue of values, `names_only`; lists of instructions | add, collect types, serialize, deserialize | `DavRequests` (writing), `MultiStatusParser` (reading) |
| Multistatus parser | `gdav-parsable.c`, `gdav-multi-status.c`, `gdav-response.c`, `gdav-prop-stat.c` | the C stack of `gdav_parsable_new_from_xml_node`, objects under construction, one `GError` | deserialize; find a property, a response, collect types | `MultiStatusParser` |
| Properties | `gdav-property.c`, its fifteen classes, the type registry of `gdav-parsable.c` | the registered types; a `GValue` of the class's type | look up an element's class, construct, deserialize, set with conversion, dispose, finalize | `DavProperties` |
| Lock objects | `gdav-active-lock.c`, `gdav-lock-entry.c` | seven fields; emissions of `notify` under way, frozen or restarted | construct, seven setters, `g_object_set`, freeze and thaw | `ActiveLock` |
| Interactive tool | `tools/` | `GlobalState`: base URI, `connected`, `isdav`, `allow`, `options`, prompt; the session's `ssl-strict`; the line editor's buffer and history | start, command loop, `open`, `close`, `quit`, the certificate and credential dialogs | `GDavShell`, `CommandLoop` |
| Error element | `gdav-error.c` | none | none | a flag in `MultiStatusParser` |
| Enumerations, build files | `enumtypes.*.template`, `configure.ac`, `Makefile.am` | none | none | no |

How they interact.  The tool calls `gdav_options_sync` and
`gdav_propfind_sync`.  A method asks the request builder for a `SoupMessage`;
the builder asks the property set for the types it holds and the registry for a
prefix for the namespace of each.  The method sends the message through
libsoup, whose answer arrives in callbacks dispatched from a `GMainContext`,
splices the body into the message and hands it to the parser, which fills
objects that the application queries.  The application may call the library
from several threads, and from callbacks of the library itself.

What is hard.
- *Reentrancy and contexts.*  A synchronous call pushes a private main context
  and runs a loop on it; a callback may start another, and handlers of session and
  message signals run inside it.  The chain of tasks
  carries references by hand (`g_object_ref` before an asynchronous step,
  `g_object_unref` at the end of each callback), and GTask returns either at
  once or through an idle source.
- *Cancellation* at any time, from any thread, also between the two looks at the
  cancellable within one finish function.
- *One-time initialisation and a lock* used from several threads.
- *Failure in the middle*: of a document at any depth, of a request after part of
  it was declared, of the second of two requests of `open`.
- *Undefined results*: a `gboolean` function without a return statement and
  a function that returns an uninitialised variable.
- *Order of elements* in a multistatus: any may repeat or replace an earlier one.
- *Notifications that call back into setters*, restart in place of recursing, and are
  held back and delivered later.
- *Order of construction*: construct properties are set before `constructed()` runs.
- *One input for two readers*: a user name is read through the line editor while the
  line that led to it is being executed.
- *Reuse* of an object that an operation has modified as a side effect
  (PROPFIND switches the caller's set to names only, which calls the caller back in the
  middle of the operation).

What makes each component correct: calls complete once, in the right context,
with balanced references and without blocking a thread for ever; the registry is
linearizable; a request qualifies what it names by prefixes that the registry held,
and asks for what the application named; the parser returns an object or an error, and
queries agree with the document; the tool's view of its connection is
consistent at every prompt; a property holds a value of its class's type, the
one it was given, and an element is always read as the same class; a setter of a
lock notifies every change, and locks kept alike by their handlers agree once
the notifications have ended.  `PROJECT.json` lists the hazards line by line.

## 2. Modules

`MC*.tla` only give constants their small values and name symmetry sets.
Definitions called `...` *mutant* in a comment are wrong variants of the definition
that follows; nothing uses them.  They document which bug a property would find.

### GDavMethods (with GioCalls)

A thread is its C call stack, innermost frame first.  An empty stack means that
it is in its own main loop; the frame `sync_wait` that it is in the loop of a
synchronous call.  `op[c]` is everything that belongs to call `c`: the reference
counts of the outer task (`task` of `gdav_options`) and the inner task (`task`
of `gdav_request_send`), the owners of the `SoupMessage`, the one source that
will call back next and the context it is attached to, and the closure's `result`
and `is_running`.  `defaults[t]` is the thread's stack of pushed contexts.

| Action | Code |
|---|---|
| `BeginAsync`, `BeginSync` | `gdav_options`, `gdav_propfind`; `*_sync` with `gdav_async_closure_new` |
| `SendCb`, `SpliceCb` | `gdav_request_send_cb`, `gdav_request_splice_cb` |
| `InnerIdle`, `OuterIdle` | the idle source of `g_task_return_*` |
| `RequestCb` | `gdav_options_request_cb`, `gdav_propfind_request_cb` |
| `LeaveInner`, `LeaveOuter` | the `g_object_unref (task)` that ends a callback |
| `ClosureWait`, `ClosureQuit`, `ClosureFree` | `gdav_async_closure_wait`, `_free` |
| `FinishOutputs`, `FinishPropagate` | the two halves of `*_finish`, between which a call may be cancelled |
| `Handler`, `UserReturn`, `Cancel`, `Poll` | the application's own sources and callbacks, and its idle main loops |
| `Signal` | a handler of a signal that libsoup emits inside a synchronous call, as `authenticate` of `tools/main.c` |

External, modelled by the rules the code relies on: `g_task_return_*` calls back at
once only from a source of the task's own context and not within the dispatch
that created the task, and otherwise attaches an idle source; the
`g_task_propagate_*` functions and `g_task_had_error` look at the
cancellable first; libsoup delivers its callbacks in the thread-default context at
the time of the request; `g_main_loop_quit` on a loop that is not running is lost;
signals of the session and of the message (`authenticate`, `finished` and the like) are
emitted by the thread that iterates the context of the request, while it is under way.
Each call of the model is made at most once (the bound is the set `Call`).  An
application callback is assumed to call the finish function before it returns, and
the application to run a loop only in the outermost frame.

A source of the application (`Handler`) is dispatched by a loop that iterates the
thread's own context.  That a blocked thread never does so is no guard of the action
but follows from the private context of each closure; the mutant of `Isolation` lets
the closure share the context of its thread.  A handler of a signal, on the other
hand, does run on top of a synchronous call.  Those of the model return without a call
of the library, as those of the tool do, so on a thread in its own main loop they
would leave no trace at all: `Signal` is about blocked threads.  A handler that began
an asynchronous call inside a synchronous one would attach it to the closure's
context, which nobody iterates after the call: a hazard without a property, since no
document says that handlers may do that.

A finish function takes the message from the context first, if the caller wants it
(`wanted`), and propagates the result afterwards.  So a caller gets the message of a
call that failed, too (`MessageDelivered`), and an OPTIONS call that is cancelled after
`g_task_had_error` fails although its outputs were stored.  `ResultsConsistent` states
exactly that case as the only one in which a call that failed has stored outputs.

`GioCalls` is the abstract specification: what an application may expect of
calls that "follow the conventions established by GIO".  A call completes once,
on the thread that started it, never while a synchronous call blocks that thread
unless it is that call, and a cancelled call does not succeed.  `GDavMethods`
implements it under the mapping given with `GioConventions`.

### XmlnsPrefixes (with PrefixMap)

Threads call `gdav_get_xmlns_prefix` and `gdav_set_xmlns_prefix`; each call is
`OnceStart`, `AddDav`, `AddCaldav`, `Publish` or `OncePassed` (`g_once`), then
`Lock`, `Enter`, `Access`, `Unlock`, `Return`.  Using the hash table takes two
steps, so that unprotected use would show.  `PrefixMap` is a map whose calls take
effect in one step between call and return; linearizability is refinement to it.
A caller reads the returned string without the lock, as in the code, but strings
are interned there and never freed, so a value stands for itself.

### DavRequests

The application adds types, values and instructions to its set and update,
builds requests, changes prefixes in the registry; the builder declares the
namespace of one property after another (`Start`, `DeclareDav`, `Collect`), then makes the
body.  Between any two look-ups a prefix may change (`SetPrefix`, by another thread).

A PROPFIND first switches the application's set to names only (`SwitchToNames`), which
emits `notify::names-only` if it changes anything: in `pc = "notify"` the application
may add types, whose namespaces are not among those declared, and may undo the switch.
`FinishPropfind` serializes what the callback left.  A callback that builds another
request itself is not modelled; the builder shares no state with it but the set.

Two histories serve the properties only: `held[n]`, the prefixes that namespace `n` had
in the registry since the build began, and `reset`, whether a callback of this build
switched names-only off.  `collected` is what the set held at the beginning.
Only the parts of a request that something depends on are kept: the
names written to the body and the `If` header.  libxml2 is external: `xmlNewNs`
refuses to declare one prefix twice on an element and returns `NULL`, which the
builder dereferences, in `gdav_namespaces_ht_new` as well as in
`gdav_maybe_add_namespace`.

### MultiStatusParser

The recursion of `gdav_parsable_new_from_xml_node` is a stack of frames.  The
document is not given: each step of mode `parse` chooses what comes next,
a child the handler knows, a leaf it can or cannot read, an unknown element, or
the end, so that the reachable results are those of all documents of up to
`MaxElements` elements.  `Fallthrough` is the set of values the function without a
return statement may yield; each is a separate choice.  A frame also
remembers the children read, which only the properties look at: they restate each
query over the document.

### GDavShell

The commands that change `GlobalState`, and the dialogs that interrupt `open`.
The two synchronous calls appear with their outcomes (success, bad certificate,
credentials wanted, failure), since `GDavMethods` says how they get there.
`GDavAllow` and `GDavOptions` are sets of bit positions.

### CommandLoop

The program around the connection: `parse_args` (`Exit`, `Start`, `StartWith`), the
loop of `main` (`EndOfInput`, `UnfinishedLine`, `EmptyLine`, `Execute`, `Return`),
`execute_command` and `get_command` with the table of commands and the aliases.  It
extends `GDavShell` and implements it: `GDavShell` lets the user give any of
its commands at any time, `CommandLoop` says which lines lead to one.  The
`EditLine` has one buffer for lines and user names; `buffer` and `history` say
whose text is in it and was entered into the history.  Handlers that are
empty, print or work on local files leave the state as it is.

### ActiveLock

An application keeps two locks alike, as property bindings do: a handler of each
copies what changed to the other (`Follow`), and a second handler may call
anything.  Emissions under way are frames of a stack.  GObject is external, by three
rules: `notify` does not recurse, an emission of the same property on the same object
restarts in its place; while notifications are frozen they are collected,
each property once; `g_object_set` freezes for its own duration and notifies
what it was given in any case.

| Action | Code |
|---|---|
| `New`, `NewEntry` | `gdav_active_lock_new`, `gdav_lock_entry_new`, or `g_object_new` without properties |
| `Set` | the seven setters: refuse, compare, clamp, store, `g_object_notify` |
| `ObjectSet` | `gdav_active_lock_set_property` for two properties |
| `Freeze`, `Thaw`, `DispatchNext` | `g_object_freeze_notify`, `g_object_thaw_notify` |
| `Follow`, `FollowReturns`, `AppReturns` | handlers; `Follow` calls a getter of one lock and a setter of the other |
| `Unref` | `gdav_active_lock_finalize` |

### DavProperties

One property object at a time, of any class: made by the function of its class
(`NewProperty`) or for an element (`OpenElement`, `DeserializeChild`,
`CloseElement`), given values that are copied or converted (`SetValue`), disposed of
and finalized.  `Construct` keeps the order of `g_object_new`: first the
construct-only `value`, then `gdav_property_constructed`.  `registered` is what
`gdav_parsable_lookup_type` searches; the first object registers `Ensured`,
and naming a type registers it too.

`MCDavObjects` runs `ActiveLock` and `DavProperties` side by side, an application
that uses either at a time: they share no state.

## 3. Runs

| Run | Question | Bounds |
|---|---|---|
| `calls_nested` | Do references balance, is every pushed context popped by its own call, does nothing run on top of a blocked call but its own functions and handlers of its signals, is nobody ever stuck and every callback run once, when calls start from handlers and callbacks of one another? Does every call finish and every thread get back to its loop? | 1 thread, 2 calls of either kind, one cancellable; the parser returns an object or an error |
| `calls_threads` | Do two threads, with cancellation between any two steps, keep the GIO conventions, consistent results, and hand the message to whoever asked for it? Every outcome of the parser is possible. | 2 threads, 2 calls of either kind |
| `prefixes` | Is the registry free of races and linearizable, and is there always a thread that can go on, which the others wait for? | 3 threads (one initialises, one waits, one is past it), 2 namespaces, 2 prefixes |
| `requests` | Does the builder survive all but a clash of prefixes, and does a PROPFIND ask for what it should, under prefixes of the moment, whatever happened to the set before, in the callback of the build, and to the prefixes meanwhile? | 2 properties in 2 namespaces, one unknown to the registry; 2 prefixes, so that they may clash; 1 lock token |
| `requests_serialize`, `requests_silent` | two disagreements, below | the same, with 1 property |
| `parser` | Object or one error, and queries that agree with the document? | every document of up to 8 elements: enough for two responses with two propstats in total, or one with a prop that replaces another; 2 property types |
| `parser_sanity` | a disagreement, below | 3 elements |
| `objects` | Do locks kept alike agree at rest, keep their root and the meaning of a timeout, and do notifications end? Does a property keep its type, a resourcetype the flags of its element, an element its class? | 3 of the 7 lock properties (one that may be refused, one that is clamped, one that is neither), `G_MAXINT32` = 1, so that a timeout may be below -1, infinite, zero or positive; 2 calls of the application per cascade, one of which may be in a handler of the other; 1 level of freezing; all 15 classes, 1 datum and the default |
| `objects_value` | a disagreement, below | the same |
| `shell` | Is the prompt consistent after any mixture of failures and dialogs, does every line lead back to the prompt, and does no user name get into the history? | every command and alias with up to 3 arguments, which is what the table tells apart; 2 servers and an unparsable URI, 3 answers, 2 questions for credentials per request |
| `shell_allow` | a disagreement, below | the same |

Deadlock is checked everywhere but in the runs of `CommandLoop`, whose program stops.
`GDavMethods` has an action `Poll` for threads that all wait in main loops, which is
no deadlock; that there is never nothing else to do while a call is unfinished is
`NeverStuck`, that calls do not wait for ever what `CallsFinish` and `ThreadsReturn`
show.

Fairness.  `GDavMethods!FairSpec`: a thread goes on executing its innermost frame
(weak fairness of `Execute`), and a source that is ready again and again is
dispatched (strong fairness of `Dispatch`, because a nested synchronous call
interrupts the context): libsoup answers every request, if only by a timeout, and
an iteration of a `GMainContext` dispatches all that is ready at one priority.  It
also assumes that application code returns.  `CommandLoop!FairLoopSpec`: the
server answers or the connection fails, and the user answers a question (weak
fairness of `Proceed`); nothing forces the user to type a line.  `ActiveLock`: a
handler that was called runs on and returns (weak fairness of `Handlers`), since it
is a C function on the stack; nothing forces the application to call a setter or
to thaw.

In `calls_nested` and in `parser` the undefined return value does no harm by choice
of the constants: `parser` fixes the build in which it is `TRUE`, `calls_nested`
leaves out the parser's outcome "nothing".  What happens otherwise is
the finding of `parser_sanity`.  `calls_threads` has every outcome.

### Disagreements found

Each has a run that ends in a counterexample; `PROJECT.json` quotes the lines.
1. `parser_sanity`: `gdav_parsable_real_deserialize` has no return statement, so
   an element without a handler may make the parser return neither an object nor an
   error, against the "Sanity check" of its caller.  The call then never
   completes, and inside a `prop` the parser is not lenient about unknown properties
   as it means to be.
2. `requests_serialize`: serializing a set with a value recurses on the set.
3. `requests_silent`: a request function returns neither a request nor an error.  For
   PROPPATCH always, because a property update has no serialize method; for LOCK
   by chance, because the result is an uninitialised variable.
4. `shell_allow`: the OPTIONS callback fills `allow` from the `DAV` header.
5. `objects_value`: the value given to `gdav_..._property_new` is lost, because the
   construct-only property is copied into a `GValue` that holds no type yet.

Seen while modelling, without a run of their own: `getcontenttype` is missing from the
types that `gdav_parsable_class_init` registers ("Register all GDavParsable
subtypes."), so its element is skipped unless the application used the type
(`LookupStable` leaves it out); `supported-calendar-component-set` has the namespace
`DAV:` in place of CalDAV's; `main` resets the tokenizer after a line with an open
quotation although it comments "read another line" (`UnfinishedLine` drops it);
`g_object_get` of a property's `value` leaks a copy; `set_timeout` comments a limit of
2^32-1 and clamps to 2^31-1.

## 4. Proofs

Assumptions are those on constants that the modules name (`...Assumption`): the
sets are disjoint or contain what the code names, never how large they are.

*GDavMethodsProofs.*  None of the properties of the calls is inductive.  What the
references and contexts of a call depend on is which of its functions are on some C
stack, the set `FnsOf(c)`, and `IInv` has two parts.  `StackInv` is about a stack: its
frames differ, handlers of signals apart; above a synchronous frame there are only
library functions of the same call and handlers of its signals; the pushed default is
the context of that call.  `Unique` adds that a frame of a call is on one stack only.
`CallInv` is about a call and its functions, and is split by subject: `Balanced`
counts the references, `Owned` the owners of the message, `Staged` says which
functions are excluded by where the call is in its life (with a source in flight none
but those of the closure, for example), `Closed` ties a synchronous call to the one
closure function it is in and to its own context.  Type correctness rests on all of
it, since a reference count is a natural number only as long as nobody drops a
reference that is not there.

The proof separates the two parts.  `Moved` describes a stack from which some
functions of one call returned and which some others entered; `Effect`, `StackEffect`
and `CallMoves` conclude that such a step keeps `IInv` once the changed call is
`Consistent`, and for each step of the code there is a lemma about the call (`...Step`,
without stacks) and one about the action (`...Keeps`).  The application's functions that
are part of no call (`Beside`: handlers of sources and of signals) come and go without
an effect on any call (`BesideMoves`); that the former start on empty stacks only
(`HandlerAlone`), and the latter on top of the call that emits the signal
(`SignalAlone`), follows from the invariant.  From `IInv` follow
`TypeCorrect`, `References`, `Ownership`, `IsolatedCalls`, `Contexts`,
`QuitNotLost` and, with one lemma per action (`...Once`), the action property
`CalledOnce`.

`Results` needs a second invariant, `ResultInv`, kept beside `IInv` with one lemma per
action (`...Result`): what each stage of a call has stored (`Result`, `Sourced`,
`Announced`, and `Delivery` for the message), and `Awaits`: the callback that an
asynchronous call is waiting to see return lies directly above a function that still
holds a reference to the outer task. So the unref in that function is never the last
one while a result is unclaimed (`NotTheLast`), which is the only way a multistatus
could be lost.  For a call that failed it says that there is no multistatus at the
caller, and outputs only with the outer result "ok" and a cancellation (`Results`).
`MessagesDelivered` follows from it too.

`Conventions` proves the refinement of `GioCalls`: `stages`, `homes`, `blocking` and
`outcomes` are what an application sees of the calls, and each step is one of
`GioCalls` or leaves all of them alone (`Conventional`, one lemma per action, `...Seen`).
That the thread blocked by a call is the one whose default context is the call's
(`BlockingIs`) comes from `ContextsNested`; that a callback runs where its call blocks
or where it began (`Hears`) from the contexts of tasks and sources.

`NotStuck` is the safety part of `CallsFinish`, for any number of threads and calls
and any nesting: there is always a function that goes on or a source that some thread
is iterating the context of.  A third invariant, `HeldAll`, says what a call that has
begun hangs on: a source, or `request_cb` (`Pending`); the loop of a synchronous call
runs only until then; a call with an answer has on a stack the function that is to
finish it; and functions that call on at once, and loops, are the innermost of their
stacks (`Topped`).  `Reachable` follows from it too.  The assumption, that the parser
returns an object or an error, is the one that `parser_sanity` refutes for some
builds.  `StepsBounded` is the other part: `Work` counts what a call has yet to do, at
most fifteen steps, and every step of a thread takes one call closer to its end and
leaves the others where they are; only handlers that begin and return, of sources or
signals, polls and cancellations leave all of them there.  `Moves` lists what a step
may do to a call, each lemma about an action says which of these it does, and `Held`
and `Work` are compared without stacks.  So fairness adds only that the steps happen.

*XmlnsPrefixesProofs.*  `TypeCorrect`, then `Invariance` of `IInv`.
`NoRace` is not inductive: it needs that a thread inside the initialisation is the
one that made `once` "progress", that no thread passes `g_once` before "ready",
and that a thread between `Lock` and `Unlock` holds the lock; `IInv` says that
and that the table holds the initial prefixes as far as the initialiser got.
`Linearizability` maps every step to one of `PrefixMap` or to a stutter
(`StepRefines`): only `Access` takes effect, and `Publish` makes the table visible
with the contents that the abstract map had all along.  `WaitsEnd` excludes
deadlock: a thread waits for the one that initialises or for the one that holds the
lock, and neither of these waits for anybody.

*DavRequestsProofs.*  The inductive invariant has two parts.  `Declarations` relates
the registry and the builder: what the registry holds during a build is recorded in
`held`, every declared prefix was held by its namespace during the build, and a
property whose namespace was looked at without one that could be declared belongs to a
namespace that had no prefix at some moment of the build.  `Course` follows the switch
to names: once it is made, the set is for names only unless a callback of this build
undid it, and the builder never writes a body before all collected types were looked
at.  From them follow `CrashNeedsClash`, `PropfindQualified`, `PropfindWritesNames`
and, as an action property, `PropfindComplete`.  libxml2's rule alone makes
declarations distinct, so that is no property here; `CrashNeedsClash` says when the
builder runs into a refusal, which it does not survive.  `BuildsEnd` bounds a build by
the properties to collect, while other threads set prefixes, and the callback fills
the set, as often as they like.

*GDavShellProofs and CommandLoopProofs.*  Type correctness carries the relation of
prompt and dialog; the inductive invariant says, for each point at which the tool
waits, which parts of the connection are set.  `ProgramImplementsShell` shows that
every step of `CommandLoop` is one of `GDavShell` or leaves its variables alone, so
that its safety properties hold of the whole program (`ProgramPromptConsistent`,
`ProgramLaxOnlyAccepted`).  `HistoryOfLines` is inductive by itself: what is entered
is the buffer that has just been filled with the line.  `LinesEnd` is the safety part
of `LinesReturn`: a rank made of the requests that `open` has still ahead (`Ahead`:
one more is made after a certificate was accepted, with a session that asks no
further) and of the questions for credentials left (`Questions`) falls with each step
of a line, and never does the line wait in a tool that was quit.  It is bounded by
`MaxAuth`, how often the server may ask for credentials in one request.

*ActiveLockProofs.*  `PeersAgree` speaks of rest only.  The inductive invariant says
(`DifferencesPending`) that any difference between the locks is still to be notified,
by a lock whose value the other will accept: the property is in its queue while it is
frozen, or some frame of the stack will yet have it followed, because it is in the
frame's `todo`, the handler has not run, or the emission will restart.  `Pushed` and
the lemmas after it say what becomes of that when frames are pushed, popped, replaced
or restarted.  At rest there are no frames and no queues, so there is no difference.
`CascadesEndAtRest` is the safety part of `NotificationsEnd`, and says why two
handlers that call each other's setters stop.  `Load` is what the frames and queues
have yet to do (`Weight`) and four for every property in which the locks differ: a
setter that a handler calls starts an emission only if it makes the locks agree there.
Only calls of the application raise it, and they use up `Budget`.  It needs that no
property of an object is emitted by two frames (`Once`): GObject restarts an emission
in its place.  `RootKnown` and `TimeoutMeaning` are parts of the invariant: the value
that `Follow` copies must satisfy what a fresh argument does.

*DavPropertiesProofs.*  `PropertiesTypeOK` with the shape of the object; `LookupStable`
needs that no object exists before the classes are registered and that no
two classes share an element.

*MultiStatusParserProofs.*  For documents of any size and depth: objects under
construction, and all they contain, are `Sound` (well-typed, and with the types
of all their values), and activations nest as elements do, so that
`AttachSound` applies whenever an object is handed to its parent.

`QueriesAnswered` adds to each object the children of its node: the responses are as many
as the children of that kind and in their order (`OneEach`, by `Place`), a prop has the
types of its children (`PropRead`), a propstat the last of its props and status
elements (`PropStatRead`), and so on up to the multistatus.  It is inductive,
because a child is appended to both (`ReadRead`, `AttachRead`), so that no induction
over documents is needed.  Once the root is finished, a search of the objects
meets the image of the first child that a search of the document finds (`FirstHit`).

`ErrorOK` says
that an error is stored at most once and nothing is read after it.  `ObjectsOrErrors` has
the assumption that no function without a return statement yields `FALSE`; the
finding of `parser_sanity` shows that it is needed.  `ParsesEnd` bounds the steps by the
elements of the document and says that the first error is final.

Only model-checked: liveness (`CallsFinish`, `ThreadsReturn`, `LinesReturn`,
`NotificationsEnd`), since a proof from fairness needs ENABLED, which the prover has
no backend for.  What the code contributes to it, that something can always happen
and that only so much can, is proved as said above.  The disagreements of section 3
are counterexamples, found by TLC alone.

## 5. Not modelled

Texts that are stored and never looked at (descriptions, locations, reason phrases),
header values other than `If`, `Allow` and `DAV`, and the syntax of XML, URIs and
dates.  What a property's string, number or date holds is an abstract datum; lists
of locks and the elements below `lockdiscovery` and `supportedlock` have no code
yet.  `gdav-error.c` is a class without content.  The life of the response's input
stream: the splice leaves it open and `gdav-methods.c` does not mention it again.
Memory, and its exhaustion, which GLib turns into an abort.  Of the tool the local
commands, which read and print files, the terminal and the completion.

## 6. Plan

Done, in this order, the most important behaviour first: `GDavMethods` and
`GioCalls`; `XmlnsPrefixes` and `PrefixMap`; `MultiStatusParser`; `DavRequests`;
`GDavShell`; `CommandLoop`; `ActiveLock`; `DavProperties`; the proofs about each.

Open:
1. The tool over the calls and the parser: `open` with `GDavMethods` in place of
   outcomes chosen freely.
2. Proofs about what the abstract specifications promise in their own terms: what a
   caller of `PrefixMap` or `GioCalls` may conclude from two of its calls.
3. For locks, who is notified how often: that no change is announced twice once the
   cascade is at rest.
