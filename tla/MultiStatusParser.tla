------------------------- MODULE MultiStatusParser -------------------------
(***************************************************************************)
(* How the body of a 207 response becomes a GDavMultiStatus:               *)
(* gdav_parsable_new_from_data and gdav_parsable_new_from_xml_node         *)
(* (gdav-parsable.c) with the deserialize methods of the container         *)
(* classes, and the queries of GDavMultiStatus and GDavResponse.           *)
(*                                                                         *)
(* gdav_parsable_new_from_xml_node recurses over the document; its         *)
(* activations are the frames of a stack, the innermost first.  A frame    *)
(* holds the object under construction and, for the properties only, the   *)
(* children of its node so far.  The document is any, chosen child by      *)
(* child.  Nodes that are no elements, and elements whose text is only     *)
(* stored, are left out.                                                   *)
(***************************************************************************)
EXTENDS Naturals, Sequences, FiniteSets

CONSTANTS
    PropertyType,   \* the concrete subclasses of GDavProperty
    Href,           \* URIs valid for HTTP
    Status,         \* status codes of valid status lines
    Fallthrough,    \* values of a gboolean function that returns none
    None,
    MaxElements     \* bound on the elements of a document

Container == {"multistatus", "response", "propstat", "prop", "error"}

ASSUME TypesAssumption == PropertyType \cap Container = {}

ASSUME StatusAssumption == Status \subseteq Nat \ {0} /\ 200 \in Status

ASSUME FallthroughAssumption == Fallthrough \subseteq BOOLEAN

ASSUME BoundAssumption == MaxElements \in Nat

VARIABLES
    stack,      \* activations of gdav_parsable_new_from_xml_node
    mode,       \* "start", "parse", "unwind" or "done"
    error,      \* the GError
    errorSets,  \* how often an error was stored in it
    result,     \* what gdav_parsable_new_from_data returned
    elements    \* number of elements of the document so far

vars == <<stack, mode, error, errorSets, result, elements>>

\* g_object_new: an object of a class, before its node is read.
NewObject(type) ==
    CASE type = "multistatus" -> [type |-> type, responses |-> << >>]
      [] type = "response"    -> [type |-> type, hrefs |-> << >>, status |-> 0,
                                  propstats |-> << >>, error |-> FALSE]
      [] type = "propstat"    -> [type |-> type, prop |-> None, status |-> 0,
                                  error |-> FALSE]
      [] type = "prop"        -> [type |-> type, types |-> {}, values |-> << >>]
      [] OTHER                -> [type |-> type]

Frame(type) == [object |-> NewObject(type), children |-> << >>]

Top == Head(stack)

Init ==
    /\ stack = << >>
    /\ mode = "start"
    /\ error = "none"
    /\ errorSets = 0
    /\ result = None
    /\ elements = 0

SetError(code) == error' = code /\ errorSets' = errorSets + 1

NoError == UNCHANGED <<error, errorSets>>

-----------------------------------------------------------------------------
(* gdav_parsable_new_from_data                                             *)

\* xmlReadMemory fails, or the document has no root element.
NoDocument ==
    /\ mode = "start"
    /\ \E code \in {"parser_failed", "empty_document"} : SetError(code)
    /\ mode' = "done"
    /\ UNCHANGED <<stack, result, elements>>

\* Whatever the root element is, it is read as a multistatus.
Root ==
    /\ mode = "start"
    /\ stack' = <<Frame("multistatus")>>
    /\ mode' = "parse"
    /\ UNCHANGED <<error, errorSets, result, elements>>

-----------------------------------------------------------------------------
(* The children of a node                                                  *)

\* The document has another child for the node of the innermost activation.
Child(kind) ==
    /\ mode = "parse"
    /\ elements < MaxElements
    /\ elements' = elements + 1
    /\ UNCHANGED result

\* The containers that a deserialize method makes an object for.
Contains(type) ==
    CASE type = "multistatus" -> {"response"}
      [] type = "response"    -> {"propstat", "error"}
      [] type = "propstat"    -> {"prop", "error"}
      [] type = "prop"        -> PropertyType
      [] OTHER                -> {}

\* gdav_parsable_new_from_xml_node for a nested container or property.
Open(kind) ==
    /\ Child(kind)
    /\ kind \in Contains(Top.object.type)
    /\ stack' = <<Frame(kind)>> \o stack
    /\ NoError
    /\ UNCHANGED mode

\* The object reads a child with value v into its fields.
Read(object, kind, v) ==
    IF kind = "href" THEN [object EXCEPT !.hrefs = Append(@, v)]
                     ELSE [object EXCEPT !.status = v]

Reads(type) ==
    CASE type = "response" -> {"href", "status"}
      [] type = "propstat" -> {"status"}
      [] OTHER             -> {}

\* A valid href or status of a response, a valid status of a propstat.
Leaf(kind, v) ==
    /\ Child(kind)
    /\ kind \in Reads(Top.object.type)
    /\ v \in IF kind = "href" THEN Href ELSE Status
    /\ stack' = <<[object |-> Read(Top.object, kind, v),
                   children |-> Append(Top.children, [kind |-> kind, value |-> v])]>>
                \o Tail(stack)
    /\ NoError
    /\ UNCHANGED mode

\* Mutant of BadLeaf: the href is stored before it is checked.
BadLeafStored(kind) ==
    /\ Child(kind)
    /\ kind \in Reads(Top.object.type)
    /\ SetError("internal")
    /\ mode' = "unwind"
    /\ stack' = <<[Top EXCEPT !.object = Read(@, kind, None)]>> \o Tail(stack)

\* An href that is no URI for HTTP, a status line that cannot be parsed.
BadLeaf(kind) ==
    /\ Child(kind)
    /\ kind \in Reads(Top.object.type)
    /\ SetError("internal")
    /\ mode' = "unwind"
    /\ UNCHANGED stack

\* Any other element is chained up to gdav_parsable_real_deserialize, which
\* returns no value; nor does gdav_property_set_deserialize after it.
Unhandled ==
    /\ Child("other")
    /\ \E success \in Fallthrough : mode' = IF success THEN "parse" ELSE "unwind"
    /\ NoError
    /\ UNCHANGED stack

\* gdav_multi_status_deserialize_dav appends a response.
AddResponse(ms, item) == [ms EXCEPT !.responses = Append(@, item)]

\* gdav_response_deserialize_dav appends a propstat; an error replaces the one
\* of an earlier node.
AddToResponse(response, item) ==
    IF item.type = "propstat" THEN [response EXCEPT !.propstats = Append(@, item)]
                              ELSE [response EXCEPT !.error = TRUE]

\* gdav_prop_stat_deserialize_dav replaces prop and error.
AddToPropStat(propstat, item) ==
    IF item.type = "prop" THEN [propstat EXCEPT !.prop = item]
                          ELSE [propstat EXCEPT !.error = TRUE]

\* Mutant of AddProperty: the value is added, but not its type.
AddPropertyUntyped(set, item) == [set EXCEPT !.values = Append(@, item.type)]

\* gdav_property_set_deserialize adds a property and its type to the set.
AddProperty(set, item) ==
    [set EXCEPT !.types = @ \cup {item.type}, !.values = Append(@, item.type)]

\* The parent takes the object of a nested node.
Attach(object, item) ==
    CASE object.type = "multistatus" -> AddResponse(object, item)
      [] object.type = "response"    -> AddToResponse(object, item)
      [] object.type = "propstat"    -> AddToPropStat(object, item)
      [] object.type = "prop"        -> AddProperty(object, item)

\* The node has no more children: its object goes to the parent.
Close ==
    /\ mode = "parse"
    /\ Len(stack) > 1
    /\ LET parent == stack[2]
           node == [kind |-> Top.object.type, value |-> Top.children]
       IN  stack' = <<[object |-> Attach(parent.object, Top.object),
                       children |-> Append(parent.children, node)]>>
                    \o Tail(Tail(stack))
    /\ UNCHANGED <<mode, error, errorSets, result, elements>>

\* ... or, for the root, to the caller.
Finish ==
    /\ mode = "parse"
    /\ Len(stack) = 1
    /\ result' = Top
    /\ stack' = << >>
    /\ mode' = "done"
    /\ UNCHANGED <<error, errorSets, elements>>

\* Mutant of Unwind: the caller goes on after a failure.
UnwindContinues ==
    /\ mode = "unwind"
    /\ stack' = Tail(stack)
    /\ mode' = IF Len(stack) = 1 THEN "done" ELSE "parse"
    /\ UNCHANGED <<error, errorSets, result, elements>>

\* A child failed: the object is cleared, NULL is returned, and so the node
\* is a child that failed for its parent.
Unwind ==
    /\ mode = "unwind"
    /\ stack' = Tail(stack)
    /\ mode' = IF Len(stack) = 1 THEN "done" ELSE "unwind"
    /\ UNCHANGED <<error, errorSets, result, elements>>

\* The parser is done.
Done == mode = "done" /\ UNCHANGED vars

Next ==
    \/ NoDocument \/ Root
    \/ \E kind \in {"response", "propstat", "error", "prop"} \cup PropertyType :
         Open(kind)
    \/ \E kind \in {"href", "status"} :
         BadLeaf(kind) \/ \E v \in Href \cup Status : Leaf(kind, v)
    \/ Unhandled
    \/ Close \/ Finish \/ Unwind
    \/ Done

Spec == Init /\ [][Next]_vars

-----------------------------------------------------------------------------
(* Queries on a multistatus                                                *)

First(S) == CHOOSE i \in S : \A j \in S : i <= j

\* gdav_property_set_has_type, FALSE for a NULL property set
HasType(prop, p) == prop # None /\ p \in prop.types

\* Mutant of FindProperty: the search goes on after a match.
FindPropertyLast(response, p) ==
    LET hits == {i \in DOMAIN response.propstats :
                   HasType(response.propstats[i].prop, p)}
    IN  IF hits = {} THEN [status |-> 0, value |-> FALSE]
        ELSE LET ps == response.propstats[CHOOSE i \in hits : \A j \in hits : j <= i]
             IN  [status |-> ps.status, value |-> ps.status = 200]

\* gdav_response_find_property: the status of the first propstat that names
\* the property, and whether a value is stored.
FindProperty(response, p) ==
    LET hits == {i \in DOMAIN response.propstats :
                   HasType(response.propstats[i].prop, p)}
    IN  IF hits = {} THEN [status |-> 0, value |-> FALSE]
        ELSE LET ps == response.propstats[First(hits)]
             IN  [status |-> ps.status,
                  value  |-> /\ ps.status = 200
                             /\ \E i \in DOMAIN ps.prop.values :
                                  ps.prop.values[i] = p]

\* gdav_multi_status_get_response_by_href, by index (0 for NULL)
ResponseByHref(ms, h) ==
    LET hits == {i \in DOMAIN ms.responses :
                   \E j \in DOMAIN ms.responses[i].hrefs :
                     ms.responses[i].hrefs[j] = h}
    IN  IF hits = {} THEN 0 ELSE First(hits)

Elements(q) == {q[i] : i \in DOMAIN q}

ErrorType(object) == IF object.error THEN {"error"} ELSE {}

\* gdav_prop_stat_collect_types, with that of the property set.
PropStatTypes(propstat) ==
    {"propstat"} \cup ErrorType(propstat)
    \cup (IF propstat.prop = None THEN {} ELSE {"prop"} \cup propstat.prop.types)

\* gdav_response_collect_types
ResponseTypes(response) ==
    {"response"} \cup ErrorType(response)
    \cup UNION {PropStatTypes(ps) : ps \in Elements(response.propstats)}

\* gdav_parsable_collect_types on the multistatus.
CollectTypes(ms) ==
    {"multistatus"} \cup UNION {ResponseTypes(r) : r \in Elements(ms.responses)}

-----------------------------------------------------------------------------
(* The same questions asked of the document                                *)

\* The positions of the children of a kind.
Children(node, kind) == {i \in DOMAIN node : node[i].kind = kind}

\* The child at position i is the n-th one of its kind.
Place(node, i) == Cardinality({j \in Children(node, node[i].kind) : j <= i})

Last(S) == CHOOSE i \in S : \A j \in S : j <= i

LastValue(node, kind, default) ==
    LET S == Children(node, kind)
    IN  IF S = {} THEN default ELSE node[Last(S)].value

DocumentNames(propstat, p) ==
    \E c \in Elements(LastValue(propstat, "prop", << >>)) : c.kind = p

DocumentFind(response, p) ==
    LET hits == {i \in Children(response, "propstat") :
                   DocumentNames(response[i].value, p)}
        status == LastValue(response[First(hits)].value, "status", 0)
    IN  IF hits = {} THEN [status |-> 0, value |-> FALSE]
                     ELSE [status |-> status, value |-> status = 200]

DocumentByHref(ms, h) ==
    LET hits == {i \in Children(ms, "response") :
                   [kind |-> "href", value |-> h] \in Elements(ms[i].value)}
    IN  IF hits = {} THEN 0 ELSE Place(ms, First(hits))

-----------------------------------------------------------------------------
(* Properties                                                              *)

PropObject == [type : {"prop"}, types : SUBSET PropertyType,
               values : Seq(PropertyType)]

\* None is no property set.
ASSUME NoneAssumption == None \notin PropObject

PropStatObject == [type : {"propstat"}, prop : PropObject \cup {None},
                   status : Status \cup {0}, error : BOOLEAN]

ResponseObject == [type : {"response"}, hrefs : Seq(Href),
                   status : Status \cup {0}, propstats : Seq(PropStatObject),
                   error : BOOLEAN]

MultiStatusObject == [type : {"multistatus"}, responses : Seq(ResponseObject)]

Object == PropObject \cup PropStatObject \cup ResponseObject
          \cup MultiStatusObject \cup [type : PropertyType \cup {"error"}]

\* The variables have their types, and the activations nest as the elements.
TypeOK ==
    /\ \A i \in DOMAIN stack :
         /\ stack[i].object \in Object
         /\ IF i = Len(stack) THEN stack[i].object.type = "multistatus"
            ELSE stack[i].object.type \in Contains(stack[i + 1].object.type)
    /\ mode \in {"start", "parse", "unwind", "done"}
    /\ mode \in {"parse", "unwind"} <=> stack # << >>
    /\ error \in {"none", "parser_failed", "empty_document", "internal"}
    /\ result # None => result.object \in MultiStatusObject
    /\ elements \in 0 .. MaxElements

\* The result is an object or an error, never both and never neither: the
\* sanity check of gdav_propfind_request_cb (gdav-methods.c).
ObjectOrError == mode = "done" => (result # None <=> error = "none")

\* At most one error is stored, whatever the depth at which it occurs: a
\* second g_set_error on the same GError is an error of the program.
ErrorSetOnce == errorSets <= 1

\* Every query on the result answers what the document says, also with
\* repeated, reordered or replaced elements (find_property, by_href).
QueriesMatchDocument ==
    mode = "done" /\ result # None =>
        LET responses == Children(result.children, "response")
        IN  /\ Len(result.object.responses) = Cardinality(responses)
            /\ \A i \in responses, p \in PropertyType :
                 FindProperty(result.object.responses[Place(result.children, i)], p)
                   = DocumentFind(result.children[i].value, p)
            /\ \A h \in Href :
                 ResponseByHref(result.object, h)
                   = DocumentByHref(result.children, h)

\* collect_types does not look at values, since "when an item is added to
\* 'property_values', its type is also added to 'property_types'"
\* (gdav-property-set.c): it still finds the type of every value.
CollectTypesComplete ==
    mode = "done" /\ result # None =>
        \A r \in Elements(result.object.responses) :
            \A ps \in Elements(r.propstats) :
                ps.prop # None =>
                    Elements(ps.prop.values) \subseteq CollectTypes(result.object)
=============================================================================
