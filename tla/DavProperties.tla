---------------------------- MODULE DavProperties ----------------------------
(***************************************************************************)
(* The property objects of the library: GDavProperty (gdav-property.c),    *)
(* its fifteen classes, and how the class of an XML element is found       *)
(* (gdav_parsable_lookup_type).                                            *)
(*                                                                         *)
(* An application or the parser works with one object at a time: it is     *)
(* made, by a function of its class or for an element whose children       *)
(* follow, given other values, disposed of and finalized.  GValue and the  *)
(* type system are external and modelled by their rules.  Definitions have *)
(* names of their own, so that a module can extend this and another one.   *)
(***************************************************************************)
EXTENDS FiniteSets

CONSTANTS
    Datum,          \* what strings, numbers, dates and arrays hold
    Empty,          \* the default of such a value: NULL or zero
    Nothing,        \* no object, no value
    Transformable,  \* <<from, to>>: types that g_value_transform can convert
    Undefined,      \* outcomes of a function that returns no value
    Named           \* names of the classes whose types the application names

ValueType == {"string", "uint64", "datetime", "ptrarray", "flags"}

ASSUME DatumAssumption == Empty \notin Datum

ASSUME TransformableAssumption == Transformable \subseteq ValueType \X ValueType

ASSUME UndefinedAssumption == Undefined \subseteq BOOLEAN

-----------------------------------------------------------------------------
(* Classes: the element, the type of the value, and what the function that *)
(* makes an object takes: a value, a value that must not be NULL, or there *)
(* is no such function.                                                    *)

PropertyClass(name, ns, type, takes) ==
    [name |-> name, ns |-> ns, type |-> type, takes |-> takes]

CalendarDescription == PropertyClass("calendar-description", "CALDAV", "string", "nonnull")
CalendarTimezone    == PropertyClass("calendar-timezone", "CALDAV", "string", "nonnull")
CreationDate        == PropertyClass("creationdate", "DAV", "datetime", "nonnull")
DisplayName         == PropertyClass("displayname", "DAV", "string", "nonnull")
GetContentLanguage  == PropertyClass("getcontentlanguage", "DAV", "string", "nonnull")
GetContentLength    == PropertyClass("getcontentlength", "DAV", "uint64", "any")
GetContentType      == PropertyClass("getcontenttype", "DAV", "string", "nonnull")
GetETag             == PropertyClass("getetag", "DAV", "string", "any")
GetLastModified     == PropertyClass("getlastmodified", "DAV", "datetime", "nonnull")
LockDiscovery       == PropertyClass("lockdiscovery", "DAV", "ptrarray", "none")
MaxResourceSize     == PropertyClass("max-resource-size", "CALDAV", "uint64", "any")
ResourceTypeClass   == PropertyClass("resourcetype", "DAV", "flags", "any")
SupportedCalendarComponentSet ==
    PropertyClass("supported-calendar-component-set", "DAV", "ptrarray", "none")
SupportedCalendarData ==
    PropertyClass("supported-calendar-data", "CALDAV", "ptrarray", "none")
SupportedLock       == PropertyClass("supportedlock", "DAV", "ptrarray", "none")

\* Mutant of Ensured: another class is forgotten.
EnsuredLess ==
    {CalendarDescription, CalendarTimezone, CreationDate, DisplayName,
     GetContentLanguage, GetContentLength, GetETag, GetLastModified, LockDiscovery,
     MaxResourceSize, ResourceTypeClass, SupportedCalendarComponentSet,
     SupportedLock}

\* The classes that gdav_parsable_class_init registers; getcontenttype is not
\* among them.
Ensured == EnsuredLess \cup {SupportedCalendarData}

Classes == {CalendarDescription, CalendarTimezone, CreationDate, DisplayName,
            GetContentLanguage, GetContentLength, GetContentType, GetETag,
            GetLastModified, LockDiscovery, MaxResourceSize, ResourceTypeClass,
            SupportedCalendarComponentSet, SupportedCalendarData, SupportedLock}

VARIABLES
    registered,     \* classes that the type system knows
    object,         \* the object: [class, value, phase], or Nothing
    read,           \* the children of the element that were read
    given           \* history: the value that was given last, or Nothing

propertyVars == <<registered, object, read, given>>

-----------------------------------------------------------------------------
(* Values                                                                  *)

\* GDavResourceType has one flag; a value may hold other bits.
Flag == {"collection", "other"}

DataOf(type) == IF type = "flags" THEN SUBSET Flag ELSE Datum \cup {Empty}

DefaultOf(type) == IF type = "flags" THEN {} ELSE Empty

GValue(type, data) == [type |-> type, data |-> data]

GValues == UNION {{GValue(type, data) : data \in DataOf(type)} : type \in ValueType}

Phase == {"alive", "parsing", "disposed"}

ASSUME NothingAssumption ==
    Nothing \notin [class : Classes, value : GValues, phase : Phase]

\* The private data of a new instance: no GValue yet.
Unset == [type |-> "none", data |-> Empty]

\* Mutant of Copied: a value that was not initialised takes the type as well.
CopiedTyped(from, to) ==
    IF to.type \in {"none", from.type} THEN from ELSE to

\* g_value_copy refuses a value that was not initialised, with a warning.
Copied(from, to) == IF to.type = from.type THEN from ELSE to

\* g_value_init refuses a value that was.
Initialised(value, type) ==
    IF value.type = "none" THEN GValue(type, DefaultOf(type)) ELSE value

\* The construct-only property "value"; it is NULL if none is given.
MetaSetValue(value, v) == IF v = Nothing THEN value ELSE Copied(v, value)

\* g_object_new: the construct properties are set first, then
\* gdav_property_constructed initialises the value.
Construct(class, v) ==
    [class |-> class, value |-> Initialised(MetaSetValue(Unset, v), class.type),
     phase |-> "alive"]

-----------------------------------------------------------------------------
(* Life of an object                                                       *)

PropertiesInit ==
    /\ registered = {}
    /\ object = Nothing
    /\ read = {}
    /\ given = Nothing

\* GDAV_TYPE_..._PROPERTY, as in a call of gdav_property_set_add_type.
NameType(class) ==
    /\ class.name \in Named
    /\ registered' = registered \cup {class}
    /\ UNCHANGED <<object, read, given>>

\* The first object initialises the class of GDavParsable.
Registering(class) == registered' = registered \cup Ensured \cup {class}

\* gdav_..._property_new, which may refuse NULL.
NewProperty(class, v) ==
    /\ object = Nothing
    /\ class.takes # "none"
    /\ v.type = class.type
    /\ class.takes = "nonnull" => v.data # Empty
    /\ Registering(class)
    /\ object' = Construct(class, v)
    /\ given' = v
    /\ UNCHANGED read

\* gdav_parsable_lookup_type: the registered class with that element.
Lookup(known, element) ==
    {c \in known : c.name = element.name /\ c.ns = element.ns}

\* A property set meets an element and makes its object, without a value; an
\* element of no class is skipped.
OpenElement(element) ==
    /\ object = Nothing
    /\ registered' = registered \cup Ensured
    /\ object' = IF Lookup(registered', element) = {} THEN Nothing
                 ELSE [Construct(CHOOSE c \in Lookup(registered', element) : TRUE, Nothing)
                         EXCEPT !.phase = "parsing"]
    /\ given' = Nothing
    /\ UNCHANGED read

Child == [name : {"collection", "principal"}, ns : {"DAV", "other", "none"}]

\* Mutant of Flagged: the namespace is not looked at.
FlaggedAnywhere(child) == child.ns # "none" /\ child.name = "collection"

\* The child is in property_map.
Flagged(child) == child.name = "collection" /\ child.ns = "DAV"

\* gdav_parsable_deserialize of a child: resourcetype adds a flag to its value,
\* everything else ends in gdav_parsable_real_deserialize, without a result.
\* If that is a failure the object is dropped.
DeserializeChild(child) ==
    /\ object # Nothing
    /\ object.phase = "parsing"
    /\ \/ /\ object.class = ResourceTypeClass /\ Flagged(child)
          /\ object' = [object EXCEPT !.value.data = @ \cup {"collection"}]
          /\ read' = read \cup {child}
       \/ /\ ~(object.class = ResourceTypeClass /\ Flagged(child))
          /\ \E success \in Undefined :
               /\ object' = IF success THEN object ELSE Nothing
               /\ read' = IF success THEN read \cup {child} ELSE {}
    /\ UNCHANGED <<registered, given>>

\* The element has no more children.
CloseElement ==
    /\ object # Nothing
    /\ object.phase = "parsing"
    /\ object' = [object EXCEPT !.phase = "alive"]
    /\ read' = {}
    /\ UNCHANGED <<registered, given>>

\* gdav_property_set_value: g_value_transform copies between equal types and
\* converts between some others, to any value of the property's type here.
SetValue(v) ==
    /\ object # Nothing
    /\ object.phase # "parsing"
    /\ \/ /\ v.type = object.value.type
          /\ object' = [object EXCEPT !.value = v]
          /\ given' = v
       \/ /\ <<v.type, object.value.type>> \in Transformable
          /\ v.type # object.value.type
          /\ \E data \in DataOf(object.value.type) :
               /\ object' = [object EXCEPT !.value.data = data]
               /\ given' = GValue(object.value.type, data)
    /\ UNCHANGED <<registered, read>>

\* Mutant of Dispose: the value is unset, not reset.
DisposeUnset ==
    /\ object # Nothing
    /\ object.phase \in {"alive", "disposed"}
    /\ object' = [object EXCEPT !.value = Unset, !.phase = "disposed"]
    /\ given' = Nothing
    /\ UNCHANGED <<registered, read>>

\* g_object_run_dispose: g_value_reset keeps the type of the value.
Dispose ==
    /\ object # Nothing
    /\ object.phase \in {"alive", "disposed"}
    /\ object' = [object EXCEPT !.value.data = DefaultOf(object.value.type),
                                !.phase = "disposed"]
    /\ given' = Nothing
    /\ UNCHANGED <<registered, read>>

\* The last reference is dropped: gdav_property_finalize.
Finalize ==
    /\ object # Nothing
    /\ object.phase \in {"alive", "disposed"}
    /\ object' = Nothing
    /\ given' = Nothing
    /\ UNCHANGED <<registered, read>>

Element == [name : {c.name : c \in Classes} \cup {"executable"},
            ns : {"DAV", "CALDAV", "none"}]

PropertiesNext ==
    \/ \E class \in Classes :
         \/ NameType(class)
         \/ \E v \in GValues : NewProperty(class, v)
    \/ \E element \in Element : OpenElement(element)
    \/ \E child \in Child : DeserializeChild(child)
    \/ \E v \in GValues : SetValue(v)
    \/ CloseElement \/ Dispose \/ Finalize

PropertiesSpec == PropertiesInit /\ [][PropertiesNext]_propertyVars

-----------------------------------------------------------------------------
(* Properties                                                              *)

\* The variables have their types; from construction to the end the value of a
\* property is a GValue of the type of its class, whatever was copied, converted
\* or disposed of, so that gdav_property_get_value can always initialise with it.
PropertiesTypeOK ==
    /\ registered \subseteq Classes
    /\ object # Nothing =>
         /\ object.class \in Classes
         /\ object.value.type = object.class.type
         /\ object.value.data \in DataOf(object.class.type)
         /\ object.phase \in Phase
    /\ read \subseteq Child
    /\ given # Nothing => /\ given.type \in ValueType
                          /\ given.data \in DataOf(given.type)

\* A resourcetype that was read has a flag exactly if its element has the child
\* for it, in its namespace, wherever it stands among the others.
FlagsOfElement ==
    object # Nothing /\ object.phase = "parsing" /\ object.class = ResourceTypeClass =>
        ("collection" \in object.value.data
            <=> [name |-> "collection", ns |-> "DAV"] \in read)

\* As soon as there was an object, an element is looked up as the one class that
\* has it, whatever the application used before; getcontenttype alone depends on
\* whether its type was named already (gdav_parsable_class_init).
LookupStable ==
    object # Nothing =>
        \A c \in Classes \ {GetContentType} :
            Lookup(registered, [name |-> c.name, ns |-> c.ns]) = {c}

\* "A GValue containing the property value" (gdav-property.c): the value of a
\* property is the one that it was given.
ValueGiven ==
    object # Nothing /\ given # Nothing => object.value = given
=============================================================================
