---------------------------- MODULE DavRequests ----------------------------
(***************************************************************************)
(* Building WebDAV requests, libgdav/gdav-requests.c, from a property set  *)
(* (gdav-property-set.c) or a property update (gdav-property-update.c)     *)
(* that the application assembled.                                         *)
(*                                                                         *)
(* The builder looks up the prefix of one namespace after the other in the *)
(* registry of XmlnsPrefixes, here the atomic map that it implements; other *)
(* threads may change a prefix between two look-ups.  libxml2 declares a   *)
(* prefix at most once per element, and the builder does not expect that a *)
(* declaration is refused.  PROPFIND then switches the application's set   *)
(* to names, which calls the application back (notify::names-only) before  *)
(* the set is serialized.                                                  *)
(***************************************************************************)
EXTENDS Naturals, Sequences, FiniteSets

CONSTANTS
    PropertyType,       \* subclasses of GDavProperty
    Namespace, Dav,     \* XML namespaces, "DAV:" among them
    NsOf,               \* NsOf[p]: the element namespace of property p
    Prefix, None,       \* prefixes, and the lack of one
    FirstPrefixes,      \* what the registry holds at first
    Uninitialised,      \* values of an uninitialised gboolean
    MaxTokens           \* bound on the lock tokens added to a request

ASSUME NamespaceAssumption ==
    /\ Dav \in Namespace
    /\ NsOf \in [PropertyType -> Namespace]

ASSUME PrefixAssumption ==
    /\ None \notin Prefix
    /\ FirstPrefixes \in [Namespace -> Prefix \cup {None}]
    /\ FirstPrefixes[Dav] # None

ASSUME UninitialisedAssumption ==
    Uninitialised \subseteq BOOLEAN /\ MaxTokens \in Nat

VARIABLES
    prefixes,   \* the registry of namespace prefixes
    propset,    \* the application's GDavPropertySet
    update,     \* types named by its GDavPropertyUpdate
    pc,         \* what the builder does next
    method,     \* the request that is built, or was built last
    collected,  \* types that the objects of the build held at its beginning
    todo,       \* those whose namespace is still to be declared
    decls,      \* decls[n]: prefix declared for namespace n on the root
    request,    \* the outcome
    held,       \* history: prefixes that n had since the build began
    reset       \* history: a callback of the build switched names-only off

vars == <<prefixes, propset, update, pc, method, collected, todo, decls, request,
          held, reset>>

Undeclared == [n \in Namespace |-> None]

\* Outcome of a build: the request, or NULL and an error, or neither.
NoRequest == [made |-> FALSE, error |-> FALSE, body |-> {}, ifHeader |-> << >>]

Failure(error) == [NoRequest EXCEPT !.error = error]

Request(body, ifHeader) ==
    [made |-> TRUE, error |-> FALSE, body |-> body, ifHeader |-> ifHeader]

Init ==
    /\ prefixes = FirstPrefixes
    /\ propset = [types |-> {}, values |-> {}, namesOnly |-> FALSE]
    /\ update = {}
    /\ pc = "idle"
    /\ method = "none"
    /\ collected = {}
    /\ todo = {}
    /\ decls = Undeclared
    /\ request = NoRequest
    /\ held = [n \in Namespace |-> {FirstPrefixes[n]}]
    /\ reset = FALSE

-----------------------------------------------------------------------------
(* The application prepares its objects                                    *)

\* What the builder works on, and what is known of it.
builder == <<pc, method, collected, todo, decls, request>>

Building == pc \in {"nsdav", "collect", "notify", "serialize"}

\* The application runs: outside a build, or in the callback that a build makes
\* when it switches the property set to names.  GDavPropertySet belongs to one
\* thread.
InApplication == pc \in {"idle", "notify"}

\* gdav_property_set_add_type
AddType(p) ==
    /\ InApplication
    /\ propset' = [propset EXCEPT !.types = @ \cup {p}]
    /\ UNCHANGED <<prefixes, update, builder, held, reset>>

\* gdav_property_set_add
Add(p) ==
    /\ InApplication
    /\ propset' = [propset EXCEPT !.types = @ \cup {p}, !.values = @ \cup {p}]
    /\ UNCHANGED <<prefixes, update, builder, held, reset>>

\* gdav_property_set_set_names_only.  Within the callback it notifies again:
\* what the inner callback does is more of the same.
SetNamesOnly(b) ==
    /\ InApplication
    /\ propset' = [propset EXCEPT !.namesOnly = b]
    /\ reset' = (reset \/ (pc = "notify" /\ ~b))
    /\ UNCHANGED <<prefixes, update, builder, held>>

\* gdav_property_update_set, gdav_property_update_remove
Instruct(p) ==
    /\ InApplication
    /\ update' = update \cup {p}
    /\ UNCHANGED <<prefixes, propset, builder, held, reset>>

\* gdav_set_xmlns_prefix, by any thread at any time
SetPrefix(n, p) ==
    /\ pc \notin {"crashed", "overflow"}
    /\ prefixes' = [prefixes EXCEPT ![n] = p]
    /\ held' = IF Building THEN [held EXCEPT ![n] = @ \cup {p}] ELSE held
    /\ UNCHANGED <<propset, update, builder, reset>>

-----------------------------------------------------------------------------
(* Building a request                                                      *)

Prepared == UNCHANGED <<prefixes, propset, update>>

Unrecorded == UNCHANGED <<held, reset>>

BodyMethods == {"PROPFIND prop", "PROPFIND allprop", "PROPPATCH", "LOCK"}

PlainMethods == {"OPTIONS", "MKCOL", "DELETE", "COPY", "MOVE", "UNLOCK",
                 "LOCK refresh"}

\* No document yet; a build, of which nothing is known before, begins with the
\* types in set.
NewBuild(set) ==
    /\ collected' = set /\ todo' = set
    /\ decls' = Undeclared
    /\ held' = [n \in Namespace |-> {prefixes[n]}]
    /\ reset' = FALSE
    /\ Prepared

\* Mutant of BadUri: the error is stored and the request before is returned.
BadUriStale(m) ==
    /\ pc = "idle"
    /\ method' = m
    /\ request' = [request EXCEPT !.error = TRUE]
    /\ NewBuild({}) /\ UNCHANGED pc

\* soup_session_request_http fails for a URI that is not one for HTTP.
BadUri(m) ==
    /\ pc = "idle"
    /\ method' = m
    /\ request' = Failure(TRUE)
    /\ NewBuild({}) /\ UNCHANGED pc

\* Requests without a body consist of headers only; a refresh names its lock
\* in an If header without a resource tag.
Plain(m) ==
    /\ pc = "idle"
    /\ method' = m
    /\ request' = Request({}, IF m = "LOCK refresh" THEN <<"untagged">> ELSE << >>)
    /\ NewBuild({}) /\ UNCHANGED pc

\* What the body of a request for method m names.
Named(m) ==
    CASE m = "PROPFIND prop" -> propset.types
      [] m = "PROPPATCH"     -> update
      [] OTHER               -> {}

\* gdav_init_propfind_request, gdav_init_proppatch_request and
\* gdav_init_lock_request up to the root element.  A PROPFIND of type prop
\* without a property set is one of type allprop.
Start(m) ==
    /\ pc = "idle"
    /\ method' = m
    /\ pc' = "nsdav"
    /\ request' = NoRequest
    /\ NewBuild(Named(m))

\* xmlNewNs returns NULL if the element declares the prefix already.
Refused(n) == \E d \in Namespace : decls[d] = prefixes[n]

\* The result of xmlNewNs is dereferenced.
Declare(n) ==
    IF Refused(n) THEN pc' = "crashed" /\ UNCHANGED decls
                  ELSE decls' = [decls EXCEPT ![n] = prefixes[n]] /\ UNCHANGED pc

\* gdav_namespaces_ht_new on the fresh root element.
DeclareDav ==
    /\ pc = "nsdav"
    /\ IF Refused(Dav)
       THEN pc' = "crashed" /\ UNCHANGED decls
       ELSE pc' = "collect" /\ decls' = [decls EXCEPT ![Dav] = prefixes[Dav]]
    /\ UNCHANGED <<method, collected, todo, request>> /\ Prepared /\ Unrecorded

\* Mutant of Collect: a namespace is declared for every type anew.
CollectAgain(p) ==
    /\ pc = "collect"
    /\ p \in todo
    /\ todo' = todo \ {p}
    /\ IF prefixes[NsOf[p]] = None THEN UNCHANGED <<pc, decls>>
                                  ELSE Declare(NsOf[p])
    /\ UNCHANGED <<method, collected, request>> /\ Prepared /\ Unrecorded

\* Mutant of Collect: the look at the types ends with the first one.
CollectFirst(p) ==
    /\ pc = "collect"
    /\ p \in todo
    /\ todo' = {}
    /\ IF decls[NsOf[p]] # None \/ prefixes[NsOf[p]] = None
       THEN UNCHANGED <<pc, decls>>
       ELSE Declare(NsOf[p])
    /\ UNCHANGED <<method, collected, request>> /\ Prepared /\ Unrecorded

\* gdav_maybe_add_namespace, for one of the collected types.
Collect(p) ==
    /\ pc = "collect"
    /\ p \in todo
    /\ todo' = todo \ {p}
    /\ IF decls[NsOf[p]] # None \/ prefixes[NsOf[p]] = None
       THEN UNCHANGED <<pc, decls>>
       ELSE Declare(NsOf[p])
    /\ UNCHANGED <<method, collected, request>> /\ Prepared /\ Unrecorded

Collected(m) == pc = "collect" /\ todo = {} /\ method = m

Finished(r) ==
    /\ request' = r
    /\ pc' = "idle"
    /\ UNCHANGED <<method, collected, todo, decls>> /\ Prepared /\ Unrecorded

\* gdav_property_set_serialize: names only, each with its namespace if that is
\* declared; else the set serializes itself, again, for its first value.
Overflows(set) == ~set.namesOnly /\ set.values # {}

\* Mutant of Serialized: only the types that have a value.
SerializedValued(set) ==
    {[type |-> p, prefix |-> decls[NsOf[p]]] : p \in set.values}

Serialized(set) ==
    IF set.namesOnly
    THEN {[type |-> p, prefix |-> decls[NsOf[p]]] : p \in set.types}
    ELSE {}

\* Mutant of NamesOnly: the set is serialized as the application left it.
NamesOnlyForgotten(set) == set

\* PROPFIND switches the application's own set to names, for good.
NamesOnly(set) == [set EXCEPT !.namesOnly = TRUE]

\* The switch, which emits notify::names-only if it changes the set.
SwitchToNames ==
    /\ Collected("PROPFIND prop")
    /\ propset' = NamesOnly(propset)
    /\ pc' = IF propset.namesOnly THEN "serialize" ELSE "notify"
    /\ UNCHANGED <<prefixes, update, method, collected, todo, decls, request>>
    /\ Unrecorded

\* The callbacks, if there are any, have returned, and the set is serialized as
\* they left it; the declarations are those of the types collected before.
FinishPropfind ==
    /\ pc \in {"notify", "serialize"}
    /\ IF Overflows(propset)
       THEN /\ pc' = "overflow"
            /\ UNCHANGED <<method, collected, todo, decls, request>>
            /\ Prepared /\ Unrecorded
       ELSE Finished(Request(Serialized(propset), << >>))

\* The application calls gdav_parsable_serialize on its set.
Serialize ==
    /\ pc = "idle"
    /\ method' = "serialize"
    /\ pc' = IF Overflows(propset) THEN "overflow" ELSE "idle"
    /\ NewBuild({}) /\ UNCHANGED request

FinishAllprop ==
    /\ Collected("PROPFIND allprop")
    /\ Finished(Request({}, << >>))

\* GDavPropertyUpdate has no serialize method: gdav_parsable_serialize returns
\* FALSE and stores no error.
FinishProppatch ==
    /\ Collected("PROPPATCH")
    /\ Finished(Failure(FALSE))

\* gdav_init_lock_request never sets the value that it returns.
FinishLock ==
    /\ Collected("LOCK")
    /\ \E success \in Uninitialised :
         Finished(IF success THEN Request({}, << >>) ELSE Failure(FALSE))

\* gdav_request_add_lock_token appends to the If header.
AddLockToken ==
    /\ pc = "idle"
    /\ request.made
    /\ Len(request.ifHeader) < MaxTokens
    /\ request' = [request EXCEPT !.ifHeader = Append(@, "tagged")]
    /\ UNCHANGED <<pc, method, collected, todo, decls>> /\ Prepared /\ Unrecorded

\* A crashed program does nothing.
Crashed == pc \in {"crashed", "overflow"} /\ UNCHANGED vars

Next ==
    \/ \E p \in PropertyType : AddType(p) \/ Add(p) \/ Instruct(p) \/ Collect(p)
    \/ \E b \in BOOLEAN : SetNamesOnly(b)
    \/ \E n \in Namespace, p \in Prefix : SetPrefix(n, p)
    \/ \E m \in BodyMethods \cup PlainMethods : BadUri(m)
    \/ \E m \in PlainMethods : Plain(m)
    \/ \E m \in BodyMethods : Start(m)
    \/ DeclareDav
    \/ Serialize
    \/ SwitchToNames \/ FinishPropfind \/ FinishAllprop \/ FinishProppatch \/ FinishLock
    \/ AddLockToken
    \/ Crashed

Spec == Init /\ [][Next]_vars

-----------------------------------------------------------------------------
(* Properties                                                              *)

\* The variables have their types, and no build returns a request and an error.
TypeOK ==
    /\ prefixes \in [Namespace -> Prefix \cup {None}]
    /\ propset \in [types : SUBSET PropertyType, values : SUBSET PropertyType,
                    namesOnly : BOOLEAN]
    /\ update \subseteq PropertyType
    /\ pc \in {"idle", "nsdav", "collect", "notify", "serialize",
              "crashed", "overflow"}
    /\ method \in BodyMethods \cup PlainMethods \cup {"none", "serialize"}
    /\ todo \subseteq collected /\ collected \subseteq PropertyType
    /\ decls \in [Namespace -> Prefix \cup {None}]
    /\ request \in [made : BOOLEAN, error : BOOLEAN,
                   body : SUBSET [type : PropertyType, prefix : Prefix \cup {None}],
                   ifHeader : Seq({"tagged", "untagged"})]
    /\ ~(request.made /\ request.error)
    /\ held \in [Namespace -> SUBSET (Prefix \cup {None})]
    /\ reset \in BOOLEAN

\* Two namespaces had the same prefix at moments of the build, not necessarily
\* at the same one.
Clash ==
    \E m, n \in Namespace : m # n /\ (held[m] \cap held[n]) \ {None} # {}

\* The builder survives unless two namespaces share a prefix, or exchange one
\* while the builder looks them up one by one.
CrashNeedsClash == pc = "crashed" => Clash

\* Whoever changes prefixes during a build, each property that the application
\* asked for when it began stands in the body with a prefix that its namespace
\* had at some moment of the build; with none only if nobody had registered
\* one when the build began.  Not so for the types that a callback adds once
\* the namespaces are collected: nobody declares theirs.
PropfindQualified ==
    method = "PROPFIND prop" /\ request.made =>
        \A b \in request.body :
            b.type \in collected => b.prefix \in held[NsOf[b.type]]

\* However the application prepared and reused its set, a PROPFIND enters the
\* recursion of gdav_property_set_serialize only if the application's own
\* callback undid the switch to names.
PropfindWritesNames ==
    pc = "overflow" /\ method = "PROPFIND prop" => reset

Asked(r) == {b.type : b \in r.body}

\* A PROPFIND asks for every property that its set held when the build began,
\* and otherwise for what callbacks added to the set meanwhile, unless one of
\* them undid the switch to names.
PropfindComplete ==
    [][~reset /\ pc \in {"notify", "serialize"} /\ pc' = "idle" =>
         /\ request'.made
         /\ collected \subseteq Asked(request')
         /\ Asked(request') = propset.types]_vars

\* A property set can be serialized: names-only says "whether to use only
\* property names when serializing to XML" (gdav-property-set.c).
SerializeReturns == pc # "overflow"

\* "The methods hide assembling XML requests" (README): once the body is
\* assembled for a valid URI, the application gets a request or an error.
RequestOrError ==
    [][Building /\ pc' = "idle" => request'.made \/ request'.error]_vars
=============================================================================
