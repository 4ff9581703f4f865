-------------------------- MODULE DavRequestsProofs --------------------------
(***************************************************************************)
(* The properties of DavRequests for all property types, namespaces and    *)
(* prefixes.  Declarations carries the argument about prefixes: whatever   *)
(* other threads change, what is declared on the root element is something *)
(* that the registry held during the build.  Course says how a build goes  *)
(* on, its callback included.                                              *)
(***************************************************************************)
EXTENDS DavRequests, FiniteSetTheorems, TLAPS

\* DAV: never loses its prefix.
DavKnown == prefixes[Dav] # None

\* The history of a build holds what the registry says now.
Recorded == Building => \A n \in Namespace : prefixes[n] \in held[n]

\* The root element is new until DAV: is declared on it.
FreshRoot == pc = "nsdav" => decls = Undeclared /\ todo = collected

\* What is declared comes from the registry.
FromRegistry ==
    Building => \A n \in Namespace : decls[n] # None => decls[n] \in held[n]

\* The types that were looked at have their namespaces declared.
Looked ==
    Building => \A p \in collected \ todo : decls[NsOf[p]] \in held[NsOf[p]]

Declarations == DavKnown /\ Recorded /\ FreshRoot /\ FromRegistry /\ Looked

\* A build has no outcome before its end, what it was asked for stays in the
\* property set, and its set writes names unless a callback wants it otherwise.
Course ==
    /\ Building => ~request.made
    /\ Building /\ method = "PROPFIND prop" => collected \subseteq propset.types
    /\ pc \in {"notify", "serialize"} =>
          /\ method = "PROPFIND prop"
          /\ todo = {}
          /\ reset \/ propset.namesOnly

IInv == TypeOK /\ Declarations /\ Course /\ CrashNeedsClash
               /\ PropfindQualified /\ PropfindWritesNames

USE NamespaceAssumption, PrefixAssumption

-----------------------------------------------------------------------------
(* Types                                                                   *)

\* The outcomes of a build have the type of request.
RequestOK(r) ==
    /\ r \in [made : BOOLEAN, error : BOOLEAN,
             body : SUBSET [type : PropertyType, prefix : Prefix \cup {None}],
             ifHeader : Seq({"tagged", "untagged"})]
    /\ ~(r.made /\ r.error)

\* What a build works with has its type.
BuildOK(c, l, d, h) ==
    /\ l \subseteq c /\ c \subseteq PropertyType
    /\ d \in [Namespace -> Prefix \cup {None}]
    /\ h \in [Namespace -> SUBSET (Prefix \cup {None})]

LEMMA IfHeaders ==
    /\ << >> \in Seq({"tagged", "untagged"})
    /\ <<"untagged">> \in Seq({"tagged", "untagged"})
<1>1. \A i \in 1 .. Len(<<"untagged">>) : <<"untagged">>[i] \in {"tagged", "untagged"}
    OBVIOUS
<1>2. QED
    BY <1>1

LEMMA FailureTyped ==
    ASSUME NEW error \in BOOLEAN
    PROVE  RequestOK(Failure(error)) /\ RequestOK(NoRequest)
BY IfHeaders DEF RequestOK, Failure, NoRequest

LEMMA RequestTyped ==
    ASSUME NEW body \in SUBSET [type : PropertyType, prefix : Prefix \cup {None}],
           NEW ifHeader \in Seq({"tagged", "untagged"})
    PROVE  RequestOK(Request(body, ifHeader))
BY DEF RequestOK, Request

\* A PROPFIND body consists of types of the set with declared prefixes.
LEMMA SerializedTyped ==
    ASSUME TypeOK
    PROVE  Serialized(propset)
               \in SUBSET [type : PropertyType, prefix : Prefix \cup {None}]
<1>1. \A p \in propset.types : p \in PropertyType /\ decls[NsOf[p]] \in Prefix \cup {None}
    BY DEF TypeOK
<1>2. QED
    BY <1>1 DEF Serialized

LEMMA NewBuildTyped ==
    ASSUME TypeOK, NEW S \in SUBSET PropertyType, NewBuild(S)
    PROVE  BuildOK(collected', todo', decls', held') /\ reset' \in BOOLEAN
<1>1. Undeclared \in [Namespace -> Prefix \cup {None}]
    BY DEF Undeclared
<1>2. [n \in Namespace |-> {prefixes[n]}] \in [Namespace -> SUBSET (Prefix \cup {None})]
    BY DEF TypeOK
<1>3. QED
    BY <1>1, <1>2 DEF NewBuild, BuildOK

LEMMA TypeOKParts ==
    TypeOK <=> /\ prefixes \in [Namespace -> Prefix \cup {None}]
               /\ propset \in [types : SUBSET PropertyType,
                               values : SUBSET PropertyType, namesOnly : BOOLEAN]
               /\ update \subseteq PropertyType
               /\ pc \in {"idle", "nsdav", "collect", "notify", "serialize",
                         "crashed", "overflow"}
               /\ method \in BodyMethods \cup PlainMethods \cup {"none", "serialize"}
               /\ BuildOK(collected, todo, decls, held)
               /\ RequestOK(request)
               /\ reset \in BOOLEAN
BY DEF TypeOK, RequestOK, BuildOK

LEMMA InitInvariant == Init => IInv
<1> SUFFICES ASSUME Init
             PROVE  IInv
    OBVIOUS
<1>1. RequestOK(request)
    BY FailureTyped DEF Init
<1>2. BuildOK(collected, todo, decls, held)
    BY DEF Init, BuildOK, Undeclared
<1>3. TypeOK
    BY <1>1, <1>2, TypeOKParts DEF Init
<1>4. Declarations /\ Course
    BY DEF Init, Declarations, DavKnown, Recorded, FreshRoot, FromRegistry, Looked,
           Course, Building
<1>5. CrashNeedsClash /\ PropfindQualified /\ PropfindWritesNames
    BY DEF Init, CrashNeedsClash, PropfindQualified, PropfindWritesNames
<1>6. QED
    BY <1>3, <1>4, <1>5 DEF IInv

LEMMA StepTyped == TypeOK /\ [Next]_vars => TypeOK'
<1> SUFFICES ASSUME TypeOK, [Next]_vars
             PROVE  TypeOK'
    OBVIOUS
<1>1. ASSUME NEW p \in PropertyType, AddType(p) \/ Add(p) \/ Instruct(p)
      PROVE  TypeOK'
    <2>1. CASE AddType(p)
        BY <1>1, <2>1 DEF TypeOK, AddType, builder
    <2>2. CASE Add(p)
        BY <1>1, <2>2 DEF TypeOK, Add, builder
    <2>3. CASE Instruct(p)
        BY <1>1, <2>3 DEF TypeOK, Instruct, builder
    <2>4. QED
        BY <1>1, <2>1, <2>2, <2>3
<1>2. ASSUME NEW p \in PropertyType, Collect(p)
      PROVE  TypeOK'
    BY <1>2 DEF TypeOK, Collect, Declare, Prepared, Unrecorded
<1>3. ASSUME NEW b \in BOOLEAN, SetNamesOnly(b)
      PROVE  TypeOK'
    BY <1>3 DEF TypeOK, SetNamesOnly, builder
<1>4. ASSUME NEW n \in Namespace, NEW p \in Prefix, SetPrefix(n, p)
      PROVE  TypeOK'
    <2>1. held' \in [Namespace -> SUBSET (Prefix \cup {None})]
        BY <1>4 DEF TypeOK, SetPrefix
    <2>2. QED
        BY <1>4, <2>1 DEF TypeOK, SetPrefix, builder
<1>5. ASSUME NEW m \in BodyMethods \cup PlainMethods, BadUri(m)
      PROVE  TypeOK'
    <2>1. RequestOK(request')
        BY <1>5, FailureTyped DEF BadUri
    <2>2. BuildOK(collected', todo', decls', held') /\ reset' \in BOOLEAN
        BY <1>5, NewBuildTyped DEF BadUri
    <2>3. QED
        BY <1>5, <2>1, <2>2 DEF TypeOK, BadUri, NewBuild, Prepared, RequestOK, BuildOK
<1>6. ASSUME NEW m \in PlainMethods, Plain(m)
      PROVE  TypeOK'
    <2>1. RequestOK(request')
        BY <1>6, RequestTyped, IfHeaders DEF Plain
    <2>2. BuildOK(collected', todo', decls', held') /\ reset' \in BOOLEAN
        BY <1>6, NewBuildTyped DEF Plain
    <2>3. QED
        BY <1>6, <2>1, <2>2 DEF TypeOK, Plain, NewBuild, Prepared, RequestOK, BuildOK
<1>7. ASSUME NEW m \in BodyMethods, Start(m)
      PROVE  TypeOK'
    <2>1. RequestOK(request')
        BY <1>7, FailureTyped DEF Start
    <2>2. Named(m) \subseteq PropertyType
        BY DEF Named, TypeOK
    <2>3. BuildOK(collected', todo', decls', held') /\ reset' \in BOOLEAN
        BY <1>7, <2>2, NewBuildTyped DEF Start
    <2>4. QED
        BY <1>7, <2>1, <2>3 DEF TypeOK, Start, NewBuild, Prepared, RequestOK, BuildOK
<1>8. CASE DeclareDav
    BY <1>8 DEF TypeOK, DeclareDav, Prepared, Unrecorded
<1>9. CASE Serialize
    <2>1. BuildOK(collected', todo', decls', held') /\ reset' \in BOOLEAN
        BY <1>9, NewBuildTyped DEF Serialize
    <2>2. QED
        BY <1>9, <2>1 DEF TypeOK, Serialize, NewBuild, Prepared, BuildOK
<1>10. CASE SwitchToNames
    BY <1>10 DEF TypeOK, SwitchToNames, NamesOnly, Unrecorded
<1>11. CASE FinishPropfind
    <2>1. CASE Overflows(propset)
        BY <1>11, <2>1 DEF TypeOK, FinishPropfind, Prepared, Unrecorded
    <2>2. CASE Finished(Request(Serialized(propset), << >>))
        <3>1. RequestOK(request')
            BY <2>2, SerializedTyped, RequestTyped, IfHeaders DEF Finished
        <3>2. QED
            BY <2>2, <3>1 DEF TypeOK, Finished, RequestOK, Prepared, Unrecorded
    <2>3. QED
        BY <1>11, <2>1, <2>2 DEF FinishPropfind
<1>12. CASE FinishAllprop
    <2>1. RequestOK(request')
        BY <1>12, RequestTyped, IfHeaders
           DEF FinishAllprop, Finished
    <2>2. QED
        BY <1>12, <2>1 DEF TypeOK, FinishAllprop, Finished, RequestOK, Prepared, Unrecorded
<1>13. CASE FinishProppatch
    <2>1. RequestOK(request')
        BY <1>13, FailureTyped DEF FinishProppatch, Finished
    <2>2. QED
        BY <1>13, <2>1 DEF TypeOK, FinishProppatch, Finished, RequestOK, Prepared,
                           Unrecorded
<1>14. CASE FinishLock
    <2>1. RequestOK(request')
        BY <1>14, FailureTyped, RequestTyped, IfHeaders
           DEF FinishLock, Finished
    <2>2. QED
        BY <1>14, <2>1 DEF TypeOK, FinishLock, Finished, RequestOK, Prepared, Unrecorded
<1>15. CASE AddLockToken
    <2>1. Append(request.ifHeader, "tagged") \in Seq({"tagged", "untagged"})
        BY DEF TypeOK
    <2>2. QED
        BY <1>15, <2>1 DEF TypeOK, AddLockToken, Prepared, Unrecorded
<1>16. CASE Crashed \/ UNCHANGED vars
    BY <1>16 DEF TypeOK, Crashed, vars
<1>17. QED
    BY <1>1, <1>2, <1>3, <1>4, <1>5, <1>6, <1>7, <1>8, <1>9, <1>10, <1>11,
       <1>12, <1>13, <1>14, <1>15, <1>16 DEF Next

-----------------------------------------------------------------------------
(* Declarations                                                            *)

\* Outside of a build Declarations only says that DAV: has its prefix.
LEMMA NotBuilding ==
    ASSUME Declarations, ~Building', UNCHANGED prefixes
    PROVE  Declarations'
BY DEF Declarations, DavKnown, Recorded, FreshRoot, FromRegistry, Looked, Building

\* Steps of the application leave the build alone.
LEMMA BuilderAlone ==
    ASSUME Declarations, UNCHANGED <<prefixes, builder, held>>
    PROVE  Declarations'
BY DEF Declarations, DavKnown, Recorded, FreshRoot, FromRegistry, Looked, Building,
       builder

\* A declaration takes the prefix that the registry has now.
LEMMA Declared ==
    ASSUME TypeOK, Declarations, Building, NEW n \in Namespace,
           UNCHANGED <<prefixes, held>>,
           decls' = [decls EXCEPT ![n] = prefixes[n]]
    PROVE  /\ \A m \in Namespace : decls'[m] # None => decls'[m] \in held'[m]
           /\ decls'[n] \in held'[n]
           /\ \A m \in Namespace : decls'[m] = decls[m] \/ decls'[m] \in held'[m]
<1>1. \A m \in Namespace : decls'[m] = IF m = n THEN prefixes[n] ELSE decls[m]
    BY DEF TypeOK
<1>2. prefixes[n] \in held[n]
    BY DEF Declarations, Recorded
<1>3. QED
    BY <1>1, <1>2 DEF Declarations, FromRegistry

LEMMA StepCollect ==
    ASSUME TypeOK, Declarations, NEW p \in PropertyType, Collect(p)
    PROVE  Declarations'
<1> DEFINE n == NsOf[p]
<1>1. CASE pc' = "crashed"
    BY <1>1, NotBuilding DEF Collect, Prepared, Building
<1>2. CASE pc' # "crashed"
    <2>1. /\ pc = "collect" /\ pc' = "collect" /\ p \in todo
          /\ todo' = todo \ {p}
          /\ UNCHANGED <<prefixes, collected, held>>
          /\ Building /\ Building'
        BY <1>2 DEF Collect, Declare, Prepared, Unrecorded, Building
    <2>2. \/ decls' = decls /\ (decls[n] # None \/ prefixes[n] = None)
          \/ decls' = [decls EXCEPT ![n] = prefixes[n]]
        BY <1>2 DEF Collect, Declare
    <2>3. n \in Namespace
        OBVIOUS
    <2>4. /\ \A m \in Namespace : decls'[m] # None => decls'[m] \in held'[m]
          /\ decls'[n] \in held'[n]
          /\ \A m \in Namespace : decls'[m] = decls[m] \/ decls'[m] \in held'[m]
        <3>1. CASE decls' = decls /\ (decls[n] # None \/ prefixes[n] = None)
            <4>1. decls[n] \in held[n]
                <5>1. prefixes[n] \in held[n]
                    BY <2>1, <2>3 DEF Declarations, Recorded
                <5>2. decls[n] # None => decls[n] \in held[n]
                    BY <2>1, <2>3 DEF Declarations, FromRegistry
                <5>3. QED
                    BY <3>1, <5>1, <5>2
            <4>2. \A m \in Namespace : decls[m] # None => decls[m] \in held[m]
                BY <2>1 DEF Declarations, FromRegistry
            <4>3. QED
                BY <2>1, <3>1, <4>1, <4>2
        <3>2. CASE decls' = [decls EXCEPT ![n] = prefixes[n]]
            BY <2>1, <2>3, <3>2, Declared
        <3>3. QED
            BY <2>2, <3>1, <3>2
    <2>5. ASSUME NEW q \in collected \ (todo \ {p})
          PROVE  decls'[NsOf[q]] \in held'[NsOf[q]]
        <3>1. q \in PropertyType
            BY DEF TypeOK
        <3>2. CASE q = p
            BY <2>4, <3>2
        <3>3. CASE q # p
            BY <2>1, <2>4, <3>1, <3>3 DEF Looked, Declarations
        <3>4. QED
            BY <3>2, <3>3
    <2>6. QED
        BY <2>1, <2>4, <2>5
           DEF Declarations, DavKnown, Recorded, FreshRoot, FromRegistry, Looked
<1>3. QED
    BY <1>1, <1>2

LEMMA StepDav ==
    ASSUME TypeOK, Declarations, DeclareDav
    PROVE  Declarations' /\ pc' = "collect"
<1>1. /\ pc = "nsdav" /\ Building
      /\ UNCHANGED <<prefixes, collected, held, todo>>
    BY DEF DeclareDav, Prepared, Unrecorded, Building
<1>2. \A m \in Namespace : decls[m] = None
    BY <1>1 DEF Declarations, FreshRoot, Undeclared
<1>3. ~Refused(Dav)
    BY <1>2 DEF Refused, Declarations, DavKnown
<1>4. pc' = "collect" /\ decls' = [decls EXCEPT ![Dav] = prefixes[Dav]]
    BY <1>3 DEF DeclareDav
<1>5. \A m \in Namespace : decls'[m] # None => decls'[m] \in held'[m]
    BY <1>1, <1>4, Declared
<1>6. todo = collected
    BY <1>1 DEF Declarations, FreshRoot
<1>7. QED
    BY <1>1, <1>4, <1>5, <1>6
       DEF Declarations, DavKnown, Recorded, FreshRoot, FromRegistry, Looked, Building

LEMMA StepDeclarations == TypeOK /\ Declarations /\ [Next]_vars => Declarations'
<1> SUFFICES ASSUME TypeOK, Declarations, [Next]_vars
             PROVE  Declarations'
    OBVIOUS
<1>1. ASSUME NEW p \in PropertyType, AddType(p) \/ Add(p) \/ Instruct(p)
      PROVE  Declarations'
    BY <1>1, BuilderAlone DEF AddType, Add, Instruct
<1>2. ASSUME NEW p \in PropertyType, Collect(p)
      PROVE  Declarations'
    BY <1>2, StepCollect
<1>3. ASSUME NEW b \in BOOLEAN, SetNamesOnly(b)
      PROVE  Declarations'
    BY <1>3, BuilderAlone DEF SetNamesOnly
<1>4. ASSUME NEW n \in Namespace, NEW p \in Prefix, SetPrefix(n, p)
      PROVE  Declarations'
    <2>1. UNCHANGED builder
        BY <1>4 DEF SetPrefix
    <2>2. \A m \in Namespace : prefixes'[m] = IF m = n THEN p ELSE prefixes[m]
        BY <1>4 DEF SetPrefix, TypeOK
    <2>3. Building => \A m \in Namespace :
                         held'[m] = IF m = n THEN held[m] \cup {p} ELSE held[m]
        BY <1>4 DEF SetPrefix, TypeOK
    <2>4. DavKnown'
        BY <2>2 DEF Declarations, DavKnown
    <2>5. Building' <=> Building
        BY <2>1 DEF Building, builder
    <2>6. Recorded' /\ FreshRoot' /\ FromRegistry'
        BY <2>1, <2>2, <2>3, <2>5
           DEF Declarations, Recorded, FreshRoot, FromRegistry, builder
    <2>7. \A q \in collected : NsOf[q] \in Namespace
        BY DEF TypeOK
    <2>8. Looked'
        BY <2>1, <2>3, <2>5, <2>7 DEF Declarations, Looked, builder
    <2>9. QED
        BY <2>4, <2>6, <2>8 DEF Declarations
<1>5. ASSUME NEW m \in BodyMethods \cup PlainMethods, BadUri(m)
      PROVE  Declarations'
    BY <1>5, NotBuilding DEF BadUri, NewBuild, Prepared, Building
<1>6. ASSUME NEW m \in PlainMethods, Plain(m)
      PROVE  Declarations'
    BY <1>6, NotBuilding DEF Plain, NewBuild, Prepared, Building
<1>7. ASSUME NEW m \in BodyMethods, Start(m)
      PROVE  Declarations'
    <2>1. /\ pc' = "nsdav" /\ todo' = collected' /\ decls' = Undeclared
          /\ prefixes' = prefixes
          /\ \A n \in Namespace : prefixes[n] \in held'[n]
        BY <1>7 DEF Start, NewBuild, Prepared
    <2>2. QED
        BY <2>1 DEF Declarations, DavKnown, Recorded, FreshRoot, FromRegistry, Looked,
                    Undeclared
<1>8. CASE DeclareDav
    BY <1>8, StepDav
<1>9. CASE Serialize
    BY <1>9, NotBuilding DEF Serialize, NewBuild, Prepared, Building
<1>10. CASE SwitchToNames
    BY <1>10 DEF SwitchToNames, Collected, Unrecorded, Declarations, DavKnown, Recorded,
                 FreshRoot, FromRegistry, Looked, Building
<1>11. CASE FinishPropfind \/ FinishAllprop \/ FinishProppatch \/ FinishLock
    <2>1. ~Building' /\ UNCHANGED prefixes
        BY <1>11 DEF FinishPropfind, FinishAllprop, FinishProppatch, FinishLock,
                     Finished, Building, Prepared
    <2>2. QED
        BY <2>1, NotBuilding
<1>12. CASE AddLockToken
    BY <1>12, NotBuilding DEF AddLockToken, Prepared, Building
<1>13. CASE Crashed \/ UNCHANGED vars
    BY <1>13, BuilderAlone DEF Crashed, vars, builder
<1>14. QED
    BY <1>1, <1>2, <1>3, <1>4, <1>5, <1>6, <1>7, <1>8, <1>9, <1>10, <1>11,
       <1>12, <1>13 DEF Next

-----------------------------------------------------------------------------
(* The course of a build                                                   *)

\* Outside of a build Course says nothing.
LEMMA OffCourse ==
    ASSUME ~Building'
    PROVE  Course'
BY DEF Course, Building

LEMMA StepCourse == TypeOK /\ Course /\ [Next]_vars => Course'
<1> SUFFICES ASSUME TypeOK, Course, [Next]_vars
             PROVE  Course'
    OBVIOUS
<1>1. ASSUME NEW p \in PropertyType, AddType(p) \/ Add(p) \/ Instruct(p)
      PROVE  Course'
    <2>1. UNCHANGED <<pc, method, collected, todo, request, reset>>
        BY <1>1 DEF AddType, Add, Instruct, builder
    <2>2. \/ propset' = [propset EXCEPT !.types = @ \cup {p}]
          \/ propset' = [propset EXCEPT !.types = @ \cup {p}, !.values = @ \cup {p}]
          \/ propset' = propset
        BY <1>1 DEF AddType, Add, Instruct
    <2>3. propset.types \subseteq propset'.types /\ propset'.namesOnly = propset.namesOnly
        BY <2>2 DEF TypeOK
    <2>4. Building' /\ method' = "PROPFIND prop" => collected' \subseteq propset'.types
        BY <2>1, <2>3 DEF Course, Building
    <2>5. Building' => ~request'.made
        BY <2>1 DEF Course, Building
    <2>6. pc \in {"notify", "serialize"} =>
              method = "PROPFIND prop" /\ todo = {} /\ (reset \/ propset.namesOnly)
        BY DEF Course
    <2>7. pc' \in {"notify", "serialize"} =>
              method' = "PROPFIND prop" /\ todo' = {} /\ (reset' \/ propset'.namesOnly)
        BY <2>1, <2>3, <2>6
    <2>8. QED
        BY <2>4, <2>5, <2>7 DEF Course
<1>2. ASSUME NEW p \in PropertyType, Collect(p)
      PROVE  Course'
    BY <1>2 DEF Collect, Declare, Prepared, Unrecorded, Course, Building
<1>3. ASSUME NEW b \in BOOLEAN, SetNamesOnly(b)
      PROVE  Course'
    <2>1. /\ UNCHANGED builder
          /\ propset'.types = propset.types
          /\ propset'.namesOnly = b
          /\ pc \in {"idle", "notify"}
          /\ reset' = (reset \/ (pc = "notify" /\ ~b))
        BY <1>3 DEF SetNamesOnly, InApplication, TypeOK
    <2>2. CASE b
        BY <2>1, <2>2 DEF Course, Building, builder
    <2>3. CASE ~b
        BY <2>1, <2>3 DEF Course, Building, builder
    <2>4. QED
        BY <2>2, <2>3
<1>4. ASSUME NEW n \in Namespace, NEW p \in Prefix, SetPrefix(n, p)
      PROVE  Course'
    BY <1>4 DEF SetPrefix, Course, Building, builder
<1>5. ASSUME NEW m \in BodyMethods, Start(m)
      PROVE  Course'
    <2>1. /\ pc' = "nsdav" /\ method' = m /\ ~request'.made
          /\ collected' = Named(m) /\ propset' = propset
        BY <1>5 DEF Start, NewBuild, NoRequest, Prepared
    <2>2. m = "PROPFIND prop" => Named(m) = propset.types
        BY DEF Named
    <2>3. QED
        BY <2>1, <2>2 DEF Course
<1>6. CASE DeclareDav
    BY <1>6 DEF DeclareDav, Prepared, Unrecorded, Course, Building
<1>7. CASE SwitchToNames
    BY <1>7 DEF SwitchToNames, NamesOnly, Collected, Unrecorded, Course, Building, TypeOK
<1>8. CASE pc' \in {"idle", "overflow", "crashed"}
    BY <1>8, OffCourse DEF Building
<1>9. CASE UNCHANGED vars
    BY <1>9 DEF vars, Course, Building
<1>10. QED
    BY <1>1, <1>2, <1>3, <1>4, <1>5, <1>6, <1>7, <1>8, <1>9
       DEF Next, BadUri, Plain, NewBuild, Serialize, FinishPropfind, FinishAllprop,
           FinishProppatch, FinishLock, Finished, AddLockToken, Crashed

-----------------------------------------------------------------------------
(* How a build ends                                                        *)

\* A crashed program does nothing.
LEMMA CrashedRests ==
    ASSUME [Next]_vars, pc \in {"crashed", "overflow"}
    PROVE  UNCHANGED vars
BY DEF Next, vars, AddType, Add, Instruct, InApplication, SetNamesOnly, SetPrefix,
       BadUri, Plain, Start, DeclareDav, Collect, Serialize, SwitchToNames,
       FinishPropfind, FinishAllprop, FinishProppatch, FinishLock, Collected,
       AddLockToken, Crashed

\* A refused declaration needs another namespace that held the prefix.
LEMMA RefusedClash ==
    ASSUME TypeOK, Declarations, Building, NEW n \in Namespace,
           Refused(n), decls[n] = None, prefixes[n] # None
    PROVE  Clash
<1>1. PICK d \in Namespace : decls[d] = prefixes[n]
    BY DEF Refused
<1>2. d # n /\ decls[d] # None
    BY <1>1
<1>3. decls[d] \in held[d] /\ prefixes[n] \in held[n]
    BY <1>2 DEF Declarations, FromRegistry, Recorded
<1>4. prefixes[n] \in (held[d] \cap held[n]) \ {None}
    BY <1>1, <1>3
<1>5. QED
    BY <1>2, <1>4 DEF Clash

LEMMA StepClash ==
    TypeOK /\ Declarations /\ CrashNeedsClash /\ [Next]_vars => CrashNeedsClash'
<1> SUFFICES ASSUME TypeOK, Declarations, CrashNeedsClash, [Next]_vars,
                    pc' = "crashed"
             PROVE  Clash'
    BY DEF CrashNeedsClash
<1>1. CASE pc = "crashed"
    <2>1. UNCHANGED vars
        BY <1>1, CrashedRests
    <2>2. QED
        BY <1>1, <2>1 DEF CrashNeedsClash, Clash, vars
<1>2. CASE pc # "crashed"
    <2>1. ~DeclareDav
        BY StepDav
    <2>2. PICK p \in PropertyType : Collect(p)
        BY <1>2, <2>1 DEF Next, vars, AddType, Add, Instruct, SetNamesOnly, SetPrefix,
               BadUri, Plain, Start, NewBuild, Serialize, SwitchToNames, FinishPropfind,
               FinishAllprop, FinishProppatch, FinishLock, Finished, AddLockToken,
               Crashed, builder
    <2>3. /\ Building /\ UNCHANGED held
          /\ Refused(NsOf[p]) /\ decls[NsOf[p]] = None /\ prefixes[NsOf[p]] # None
        BY <1>2, <2>2 DEF Collect, Declare, Building, Unrecorded
    <2>4. NsOf[p] \in Namespace
        OBVIOUS
    <2>5. Clash
        BY <2>3, <2>4, RefusedClash
    <2>6. QED
        BY <2>3, <2>5 DEF Clash
<1>3. QED
    BY <1>1, <1>2

LEMMA StepWritesNames ==
    TypeOK /\ Course /\ PropfindWritesNames /\ [Next]_vars => PropfindWritesNames'
<1> SUFFICES ASSUME TypeOK, Course, PropfindWritesNames, [Next]_vars,
                    pc' = "overflow", method' = "PROPFIND prop"
             PROVE  reset'
    BY DEF PropfindWritesNames
<1>1. CASE pc = "overflow"
    <2>1. UNCHANGED vars
        BY <1>1, CrashedRests
    <2>2. QED
        BY <1>1, <2>1 DEF PropfindWritesNames, vars
<1>2. CASE pc # "overflow"
    <2>1. FinishPropfind
        BY <1>2 DEF Next, vars, AddType, Add, Instruct, SetNamesOnly, SetPrefix, BadUri,
               Plain, Start, NewBuild, DeclareDav, Collect, Declare, Serialize,
               SwitchToNames, FinishAllprop, FinishProppatch, FinishLock, Finished,
               AddLockToken, Crashed, builder
    <2>2. pc \in {"notify", "serialize"} /\ Overflows(propset) /\ UNCHANGED reset
        BY <2>1 DEF FinishPropfind, Finished, Unrecorded
    <2>3. QED
        BY <2>2 DEF Overflows, Course
<1>3. QED
    BY <1>1, <1>2

-----------------------------------------------------------------------------
(* What a finished request contains                                        *)

\* Only the end of a PROPFIND makes a request with a body.
LEMMA BodyMade ==
    ASSUME TypeOK, Course, [Next]_vars, request'.made, method' = "PROPFIND prop"
    PROVE  \/ FinishPropfind
           \/ /\ ~Building
              /\ UNCHANGED <<method, collected, held>>
              /\ request.made /\ request'.body = request.body
<1>1. CASE Building
    <2>1. ~request.made
        BY <1>1 DEF Course
    <2>2. ~UNCHANGED request
        BY <2>1
    <2>3. QED
        BY <1>1, <2>2
           DEF Next, vars, AddType, Add, Instruct, SetNamesOnly, SetPrefix, BadUri,
               Plain, Start, NewBuild, DeclareDav, Collect, Serialize, SwitchToNames,
               FinishAllprop, FinishProppatch, FinishLock, Finished, Collected,
               AddLockToken, Crashed, builder, Building
<1>2. CASE ~Building
    <2>1. ASSUME NEW m \in BodyMethods \cup PlainMethods, BadUri(m) PROVE FALSE
        BY <2>1 DEF BadUri, Failure, NoRequest
    <2>2. ASSUME NEW m \in PlainMethods, Plain(m) PROVE FALSE
        BY <2>2 DEF Plain, PlainMethods
    <2>3. ASSUME NEW m \in BodyMethods, Start(m) PROVE FALSE
        BY <2>3 DEF Start, NoRequest
    <2>4. CASE AddLockToken
        BY <1>2, <2>4 DEF AddLockToken, Unrecorded, TypeOK
    <2>5. CASE UNCHANGED <<method, collected, held, request>>
        BY <1>2, <2>5
    <2>6. QED
        BY <1>2, <2>1, <2>2, <2>3, <2>4, <2>5
           DEF Next, vars, AddType, Add, Instruct, SetNamesOnly, SetPrefix,
               DeclareDav, Collect, Serialize, SwitchToNames, FinishPropfind,
               FinishAllprop, FinishProppatch, FinishLock, Collected,
               Crashed, builder, Building
<1>3. QED
    BY <1>1, <1>2

\* The body that the end of a PROPFIND makes.
LEMMA BodyIs ==
    ASSUME FinishPropfind, ~Overflows(propset)
    PROVE  /\ request'.made /\ request'.body = Serialized(propset)
           /\ UNCHANGED <<collected, held, propset>>
BY DEF FinishPropfind, Finished, Request, Prepared, Unrecorded

LEMMA StepQualified ==
    TypeOK /\ Declarations /\ Course /\ PropfindQualified /\ [Next]_vars
        => PropfindQualified'
<1> SUFFICES ASSUME TypeOK, Declarations, Course, PropfindQualified, [Next]_vars,
                    method' = "PROPFIND prop", request'.made,
                    NEW b \in request'.body, b.type \in collected'
             PROVE  b.prefix \in held'[NsOf[b.type]]
    BY DEF PropfindQualified
<1>1. CASE FinishPropfind
    <2>1. pc \in {"notify", "serialize"} /\ Building
        BY <1>1 DEF FinishPropfind, Building
    <2>2. ~request.made
        BY <2>1 DEF Course
    <2>3. ~Overflows(propset)
        BY <1>1, <2>2 DEF FinishPropfind
    <2>4. b \in Serialized(propset) /\ UNCHANGED <<collected, held>>
        BY <1>1, <2>3, BodyIs
    <2>5. PICK p \in propset.types : b = [type |-> p, prefix |-> decls[NsOf[p]]]
        BY <2>4 DEF Serialized
    <2>6. b.type = p /\ b.prefix = decls[NsOf[p]]
        BY <2>5
    <2>7. p \in collected \ todo
        BY <2>1, <2>4, <2>6 DEF Course
    <2>8. decls[NsOf[p]] \in held[NsOf[p]]
        BY <2>1, <2>7 DEF Declarations, Looked
    <2>9. QED
        BY <2>4, <2>6, <2>8
<1>2. CASE UNCHANGED <<method, collected, held>> /\ request.made
           /\ request'.body = request.body
    BY <1>2 DEF PropfindQualified
<1>3. QED
    BY <1>1, <1>2, BodyMade

\* The types that a body names are the ones that it was built from.
LEMMA TypesOfBody ==
    ASSUME NEW S
    PROVE  {b.type : b \in {[type |-> p, prefix |-> decls[NsOf[p]]] : p \in S}} = S
<1> DEFINE E(p) == [type |-> p, prefix |-> decls[NsOf[p]]]
           B == {E(p) : p \in S}
<1>1. \A p \in S : E(p).type = p
    OBVIOUS
<1> HIDE DEF E
<1>2. \A b \in B : b.type \in S
    BY <1>1
<1>3. \A p \in S : \E b \in B : b.type = p
    BY <1>1
<1> HIDE DEF B
<1>4. {b.type : b \in B} = S
    BY <1>2, <1>3
<1>5. QED
    BY <1>4 DEF B, E

-----------------------------------------------------------------------------
(* Theorems                                                                *)

\* Every reachable state satisfies the invariant.
THEOREM Invariance == Spec => []IInv
<1>1. IInv /\ [Next]_vars => IInv'
    BY StepTyped, StepDeclarations, StepCourse, StepClash, StepQualified,
       StepWritesNames DEF IInv
<1>2. QED
    BY <1>1, InitInvariant, PTL DEF Spec

\* The variables have their types, and no build (gdav_request_propfind and the
\* others) returns a request together with an error.
THEOREM TypeCorrect == Spec => []TypeOK
<1>1. IInv => TypeOK
    BY DEF IInv
<1>2. QED
    BY <1>1, Invariance, PTL

\* gdav_maybe_add_namespace dereferences NULL only after two namespaces had the
\* same prefix at moments of the build, and gdav_namespaces_ht_new never does.
THEOREM CrashesExplained == Spec => []CrashNeedsClash
<1>1. IInv => CrashNeedsClash
    BY DEF IInv
<1>2. QED
    BY <1>1, Invariance, PTL

\* Whatever prefixes other threads set between the look-ups, a PROPFIND names each
\* property that it was begun with by a prefix that the registry had for it during
\* the build (gdav_namespaces_ht_collect, gdav_property_set_serialize).
THEOREM PropertiesQualified == Spec => []PropfindQualified
<1>1. IInv => PropfindQualified
    BY DEF IInv
<1>2. QED
    BY <1>1, Invariance, PTL

\* PROPFIND gets into the endless recursion of gdav_property_set_serialize only if
\* a notify::names-only callback undoes what gdav_init_propfind_request has set.
THEOREM NamesWritten == Spec => []PropfindWritesNames
<1>1. IInv => PropfindWritesNames
    BY DEF IInv
<1>2. QED
    BY <1>1, Invariance, PTL

\* The body of a PROPFIND names the properties of the set, all and no others.
THEOREM BodiesComplete == Spec => PropfindComplete
<1>1. IInv /\ [Next]_vars =>
          [~reset /\ pc \in {"notify", "serialize"} /\ pc' = "idle" =>
              /\ request'.made
              /\ collected \subseteq Asked(request')
              /\ Asked(request') = propset.types]_vars
    <2> SUFFICES ASSUME IInv, Next, ~reset, pc \in {"notify", "serialize"}, pc' = "idle"
                 PROVE  /\ request'.made
                        /\ collected \subseteq Asked(request')
                        /\ Asked(request') = propset.types
        BY DEF vars
    <2>1. FinishPropfind
        BY DEF Next, AddType, Add, Instruct, SetNamesOnly, SetPrefix, BadUri, Plain,
               Start, DeclareDav, Collect, Serialize, SwitchToNames, FinishAllprop,
               FinishProppatch, FinishLock, AddLockToken, Crashed, Collected, builder
    <2>2. propset.namesOnly /\ collected \subseteq propset.types
        BY DEF IInv, Course, Building
    <2>3. ~Overflows(propset)
        BY <2>2 DEF Overflows
    <2>4. request'.made /\ request'.body = Serialized(propset)
        BY <2>1, <2>3, BodyIs
    <2>5. Serialized(propset)
              = {[type |-> p, prefix |-> decls[NsOf[p]]] : p \in propset.types}
        BY <2>2 DEF Serialized
    <2>6. Asked(request') = propset.types
        BY <2>4, <2>5, TypesOfBody DEF Asked
    <2>7. QED
        BY <2>2, <2>4, <2>6
<1>2. QED
    BY <1>1, Invariance, PTL DEF Spec, PropfindComplete

-----------------------------------------------------------------------------
(* The end of a build                                                      *)

\* The steps that the builder may still take: one for each type whose namespace
\* is still to be declared, one for DAV:, one for the switch to names or to finish,
\* and one to serialize the set.
StepsLeft ==
    Cardinality(todo) + (CASE pc = "nsdav"                 -> 3
                           [] pc = "collect"               -> 2
                           [] pc \in {"notify", "serialize"} -> 1
                           [] OTHER                        -> 0)

\* A step during a build brings it nearer to its end, or is that of another
\* thread or of the callback, which see nothing of the build; only the callback
\* touches the objects that it is made from.
BuildAdvances ==
    [][Building => \/ StepsLeft' < StepsLeft
                   \/ UNCHANGED <<propset, update, builder>>
                   \/ pc = "notify" /\ UNCHANGED builder]_vars

\* The builder has a namespace to declare or one way to finish.
BuilderMoves ==
    pc = "collect" => todo # {} \/ \E m \in BodyMethods : Collected(m)

\* Only requests with a body are built in steps.
BodyBuilt == Building => method \in BodyMethods

LEMMA BodyBuiltNext == TypeOK /\ BodyBuilt /\ [Next]_vars => BodyBuilt'
<1> SUFFICES ASSUME BodyBuilt, [Next]_vars PROVE BodyBuilt'
    OBVIOUS
<1>1. CASE \E m \in BodyMethods : Start(m)
    BY <1>1 DEF Start, BodyBuilt
<1>2. CASE Building /\ method' = method
    BY <1>2 DEF BodyBuilt
<1>3. CASE UNCHANGED <<pc, method>>
    BY <1>3 DEF BodyBuilt, Building
<1>4. CASE pc' \in {"idle", "overflow"}
    BY <1>4 DEF BodyBuilt, Building
<1>5. QED
    BY <1>1, <1>2, <1>3, <1>4
    DEF Next, AddType, Add, Instruct, SetNamesOnly, SetPrefix, BadUri, Plain,
        DeclareDav, Collect, Serialize, SwitchToNames, FinishPropfind, FinishAllprop,
        FinishProppatch, FinishLock, Finished, Collected, AddLockToken, Crashed, vars,
        builder, Building

\* One type less.
LEMMA OneLess ==
    ASSUME IsFiniteSet(PropertyType), TypeOK, NEW p \in todo, todo' = todo \ {p}
    PROVE  /\ Cardinality(todo) \in Nat /\ Cardinality(todo') \in Nat
           /\ Cardinality(todo) = Cardinality(todo') + 1
<1>1. IsFiniteSet(todo)
    BY FS_Subset DEF TypeOK
<1>2. Cardinality(todo) \in Nat
    BY <1>1, FS_CardinalityType
<1>3. /\ IsFiniteSet(todo \ {p})
      /\ Cardinality(todo \ {p}) = IF p \in todo THEN Cardinality(todo) - 1
                                   ELSE Cardinality(todo)
    BY <1>1, FS_RemoveElement
<1>4. Cardinality(todo \ {p}) \in Nat
    BY <1>3, FS_CardinalityType
<1>5. QED
    BY <1>2, <1>3, <1>4

\* A build for any number of properties takes one step for each and three more, and
\* is never without a next step, whatever prefixes other threads set meanwhile
\* (gdav_init_propfind_request, gdav_init_proppatch_request, gdav_init_lock_request).
THEOREM BuildsEnd ==
    ASSUME IsFiniteSet(PropertyType)
    PROVE  Spec => BuildAdvances /\ []BuilderMoves
<1> DEFINE Less == StepsLeft' < StepsLeft
           Goal == Building => \/ Less
                               \/ UNCHANGED <<propset, update, builder>>
                               \/ pc = "notify" /\ UNCHANGED builder
<1>1. ASSUME TypeOK, DeclareDav PROVE Less
    <2>1. pc = "nsdav" /\ pc' \in {"collect", "crashed"} /\ todo' = todo
        BY <1>1 DEF DeclareDav
    <2>2. Cardinality(todo) \in Nat
        BY <1>1, FS_Subset, FS_CardinalityType DEF TypeOK
    <2>3. StepsLeft = Cardinality(todo) + 3
          /\ StepsLeft' \in {Cardinality(todo) + 2, Cardinality(todo) + 0}
        BY <2>1 DEF StepsLeft
    <2>4. QED
        BY <2>2, <2>3
<1>2. ASSUME TypeOK, NEW p \in PropertyType, Collect(p) PROVE Less
    <2>1. pc = "collect" /\ pc' \in {"collect", "crashed"} /\ p \in todo /\ todo' = todo \ {p}
        BY <1>2 DEF Collect, Declare
    <2>2. /\ Cardinality(todo) \in Nat /\ Cardinality(todo') \in Nat
          /\ Cardinality(todo) = Cardinality(todo') + 1
        BY <1>2, <2>1, OneLess
    <2>3. StepsLeft = Cardinality(todo) + 2 /\ StepsLeft' \in {Cardinality(todo') + 2,
                                                                Cardinality(todo') + 0}
        BY <2>1 DEF StepsLeft
    <2>4. QED
        BY <2>2, <2>3
<1>3. ASSUME SwitchToNames \/ FinishAllprop \/ FinishProppatch \/ FinishLock PROVE Less
    <2>1. /\ pc = "collect" /\ pc' \in {"notify", "serialize", "idle"}
          /\ todo = {} /\ todo' = {}
        BY <1>3 DEF SwitchToNames, FinishAllprop, FinishProppatch, FinishLock,
                    Collected, Finished
    <2>2. StepsLeft = 2 /\ StepsLeft' \in {0, 1}
        BY <2>1, FS_EmptySet DEF StepsLeft
    <2>3. QED
        BY <2>2
<1>4. ASSUME TypeOK, FinishPropfind PROVE Less
    <2>1. pc \in {"notify", "serialize"} /\ pc' \in {"idle", "overflow"} /\ todo' = todo
        BY <1>4 DEF FinishPropfind, Finished
    <2>2. Cardinality(todo) \in Nat
        BY <1>4, FS_Subset, FS_CardinalityType DEF TypeOK
    <2>3. StepsLeft = Cardinality(todo) + 1 /\ StepsLeft' = Cardinality(todo) + 0
        BY <2>1 DEF StepsLeft
    <2>4. QED
        BY <2>2, <2>3
<1>5. ASSUME NEW n \in Namespace, NEW p \in Prefix, SetPrefix(n, p)
      PROVE  UNCHANGED <<propset, update, builder>>
    BY <1>5 DEF SetPrefix
<1>6. ASSUME Building, \/ \E p \in PropertyType : AddType(p) \/ Add(p) \/ Instruct(p)
                       \/ \E b \in BOOLEAN : SetNamesOnly(b)
      PROVE  pc = "notify" /\ UNCHANGED builder
    BY <1>6 DEF AddType, Add, Instruct, SetNamesOnly, InApplication, Building
<1>7. TypeOK /\ Next => Goal
    <2> SUFFICES ASSUME TypeOK, Next, Building PROVE Goal
        OBVIOUS
    <2> HIDE DEF Less
    <2>1. \/ DeclareDav \/ \E p \in PropertyType : Collect(p)
          \/ SwitchToNames \/ FinishAllprop \/ FinishProppatch \/ FinishLock
          \/ FinishPropfind
          \/ \E n \in Namespace, p \in Prefix : SetPrefix(n, p)
          \/ \E p \in PropertyType : AddType(p) \/ Add(p) \/ Instruct(p)
          \/ \E b \in BOOLEAN : SetNamesOnly(b)
        BY DEF Next, BadUri, Plain, Start, Serialize, AddLockToken, Crashed, Building
    <2>2. QED
        BY <1>1, <1>2, <1>3, <1>4, <1>5, <1>6, <2>1
<1>8. IInv /\ [Next]_vars => [Goal]_vars
    BY <1>7 DEF IInv
<1>9. Init => BodyBuilt
    BY DEF Init, BodyBuilt, Building
<1>10. IInv /\ BodyBuilt /\ [Next]_vars => BodyBuilt'
    BY BodyBuiltNext DEF IInv
<1>11. BodyBuilt => BuilderMoves
    BY DEF BodyBuilt, BuilderMoves, Building, Collected
<1>12. QED
    BY <1>8, <1>9, <1>10, <1>11, Invariance, PTL DEF Spec, BuildAdvances
=============================================================================
