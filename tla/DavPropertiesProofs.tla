------------------------- MODULE DavPropertiesProofs -------------------------
(***************************************************************************)
(* Proofs about DavProperties, for any data, any conversions of            *)
(* g_value_transform and any outcomes of the functions that return no      *)
(* value.                                                                  *)
(*                                                                         *)
(* LookupStable needs that an object does not exist before the classes are *)
(* registered (Known), and that no two classes have the same element;      *)
(* FlagsOfElement that nothing is read before there is an element.         *)
(***************************************************************************)
EXTENDS DavProperties, TLAPS

Known == object # Nothing => Ensured \subseteq registered

ReadOfElement ==
    object = Nothing \/ object.phase # "parsing" => read = {}

\* An object with value and phase.
Object(class, type, data, phase) ==
    [class |-> class, value |-> GValue(type, data), phase |-> phase]

\* The object has these fields and no others.
ShapeOK ==
    object # Nothing =>
        object = Object(object.class, object.value.type, object.value.data, object.phase)

IInv == PropertiesTypeOK /\ ShapeOK /\ Known /\ ReadOfElement /\ FlagsOfElement

-----------------------------------------------------------------------------
(* Classes and values                                                      *)

LEMMA ClassNames ==
    /\ CalendarDescription.name = "calendar-description"
    /\ CalendarTimezone.name = "calendar-timezone"
    /\ CreationDate.name = "creationdate"
    /\ DisplayName.name = "displayname"
    /\ GetContentLanguage.name = "getcontentlanguage"
    /\ GetContentLength.name = "getcontentlength"
    /\ GetContentType.name = "getcontenttype"
    /\ GetETag.name = "getetag"
    /\ GetLastModified.name = "getlastmodified"
    /\ LockDiscovery.name = "lockdiscovery"
    /\ MaxResourceSize.name = "max-resource-size"
    /\ ResourceTypeClass.name = "resourcetype"
    /\ SupportedCalendarComponentSet.name = "supported-calendar-component-set"
    /\ SupportedCalendarData.name = "supported-calendar-data"
    /\ SupportedLock.name = "supportedlock"
BY DEF CalendarDescription, CalendarTimezone, CreationDate, DisplayName,
       GetContentLanguage, GetContentLength, GetContentType, GetETag,
       GetLastModified, LockDiscovery, MaxResourceSize, ResourceTypeClass,
       SupportedCalendarComponentSet, SupportedCalendarData, SupportedLock,
       PropertyClass

\* No two classes have elements of the same name.
LEMMA ClassesDistinct ==
    ASSUME NEW c \in Classes, NEW d \in Classes, c.name = d.name
    PROVE  c = d
BY ClassNames DEF Classes

\* All classes but getcontenttype are registered with the first object.
LEMMA ClassesEnsured ==
    Ensured \subseteq Classes /\ Classes \ {GetContentType} \subseteq Ensured
BY DEF Ensured, EnsuredLess, Classes

LEMMA ClassTypes ==
    ASSUME NEW c \in Classes
    PROVE  c.type \in ValueType
BY DEF Classes, CalendarDescription, CalendarTimezone, CreationDate, DisplayName,
       GetContentLanguage, GetContentLength, GetContentType, GetETag,
       GetLastModified, LockDiscovery, MaxResourceSize, ResourceTypeClass,
       SupportedCalendarComponentSet, SupportedCalendarData, SupportedLock,
       PropertyClass, ValueType

\* A GValue has a type, and data of it.
LEMMA ValuesTyped ==
    ASSUME NEW v \in GValues
    PROVE  v.type \in ValueType /\ v.data \in DataOf(v.type)
BY DEF GValues, GValue

LEMMA DefaultTyped ==
    ASSUME NEW type
    PROVE  DefaultOf(type) \in DataOf(type)
BY DEF DefaultOf, DataOf

\* Whatever it was given, a new object has the default of its class.
LEMMA ConstructTyped ==
    ASSUME NEW c \in Classes, NEW v, v = Nothing \/ v.type \in ValueType
    PROVE  Construct(c, v) = Object(c, c.type, DefaultOf(c.type), "alive")
BY DEF Object, Construct, MetaSetValue, Copied, Initialised, Unset, ValueType

-----------------------------------------------------------------------------
(* The inductive invariant                                                 *)

\* An object has the fields that it was made of.
LEMMA ObjectFields ==
    ASSUME NEW c, NEW type, NEW data, NEW ph, NEW o, o = Object(c, type, data, ph)
    PROVE  /\ o.class = c /\ o.value.type = type /\ o.value.data = data /\ o.phase = ph
           /\ o = Object(o.class, o.value.type, o.value.data, o.phase)
BY DEF Object, GValue

\* What a step has to say of the object that it leaves.
LEMMA ObjectLeft ==
    ASSUME IInv, NEW c \in Classes, NEW data \in DataOf(c.type),
           NEW ph \in Phase,
           object' = Object(c, c.type, data, ph),
           registered' \subseteq Classes, Ensured \subseteq registered',
           read' \subseteq Child,
           ph # "parsing" => read' = {},
           ph = "parsing" /\ c = ResourceTypeClass =>
               ("collection" \in data <=> [name |-> "collection", ns |-> "DAV"] \in read'),
           given' # Nothing => given'.type \in ValueType /\ given'.data \in DataOf(given'.type)
    PROVE  IInv'
<1>1. PICK o : o = object'
  OBVIOUS
<1>2. /\ o.class = c /\ o.value.type = c.type /\ o.value.data = data /\ o.phase = ph
      /\ o = Object(o.class, o.value.type, o.value.data, o.phase)
  BY <1>1, ObjectFields
<1>3. PropertiesTypeOK'
  BY <1>1, <1>2 DEF PropertiesTypeOK
<1>4. ShapeOK'
  BY <1>1, <1>2 DEF ShapeOK
<1>5. Known' /\ ReadOfElement'
  <2>1. object' # Nothing
    BY ClassTypes, NothingAssumption DEF Object, GValues, GValue
  <2> QED  BY <1>1, <1>2, <2>1 DEF Known, ReadOfElement
<1>6. FlagsOfElement'
  BY <1>1, <1>2 DEF FlagsOfElement
<1> QED  BY <1>3, <1>4, <1>5, <1>6 DEF IInv

\* A step may leave no object.
LEMMA NothingLeft ==
    ASSUME IInv, object' = Nothing, registered' \subseteq Classes, read' = {},
           given' # Nothing => given'.type \in ValueType /\ given'.data \in DataOf(given'.type)
    PROVE  IInv'
BY DEF IInv, PropertiesTypeOK, ShapeOK, Known, ReadOfElement, FlagsOfElement

LEMMA IInvNext == IInv /\ [PropertiesNext]_propertyVars => IInv'
<1> SUFFICES ASSUME IInv, [PropertiesNext]_propertyVars PROVE IInv'
  OBVIOUS
<1>a. /\ registered \subseteq Classes /\ read \subseteq Child
      /\ given # Nothing => given.type \in ValueType /\ given.data \in DataOf(given.type)
      /\ object = Nothing \/ object.phase # "parsing" => read = {}
  BY DEF IInv, PropertiesTypeOK, ReadOfElement
<1>b. ASSUME object # Nothing
      PROVE  /\ object.class \in Classes /\ object.value.data \in DataOf(object.class.type)
             /\ object.phase \in Phase
             /\ object.value.type = object.class.type
             /\ Ensured \subseteq registered
             /\ object = Object(object.class, object.class.type, object.value.data,
                                object.phase)
  BY <1>b DEF IInv, PropertiesTypeOK, Known, ShapeOK
<1>1. ASSUME NEW class \in Classes, NameType(class) PROVE IInv'
  BY <1>1 DEF NameType, IInv, PropertiesTypeOK, ShapeOK, Known, ReadOfElement,
              FlagsOfElement
<1>2. ASSUME NEW class \in Classes, NEW v \in GValues, NewProperty(class, v) PROVE IInv'
  <2>1. v.type \in ValueType /\ v.data \in DataOf(v.type)
    BY ValuesTyped
  <2>2. /\ object' = Object(class, class.type, DefaultOf(class.type), "alive")
        /\ registered' = registered \cup Ensured \cup {class}
        /\ given' = v /\ read' = {}
    BY <1>2, <1>a, <2>1, ConstructTyped DEF NewProperty, Registering
  <2> QED  BY <1>a, <2>1, <2>2, ClassesEnsured, DefaultTyped, ObjectLeft DEF Phase
<1>3. ASSUME NEW element \in Element, OpenElement(element) PROVE IInv'
  <2>1. registered' = registered \cup Ensured /\ given' = Nothing /\ read' = {}
    BY <1>3, <1>a DEF OpenElement
  <2>2. registered' \subseteq Classes
    BY <1>a, <2>1, ClassesEnsured
  <2>3. CASE object' = Nothing
    BY <2>1, <2>2, <2>3, NothingLeft
  <2>4. CASE object' # Nothing
    <3>1. PICK c \in Lookup(registered', element) :
            object' = [Construct(c, Nothing) EXCEPT !.phase = "parsing"]
      BY <1>3, <2>4 DEF OpenElement
    <3>2. c \in Classes
      BY <2>2, <3>1 DEF Lookup
    <3>3. object' = Object(c, c.type, DefaultOf(c.type), "parsing")
      BY <3>1, <3>2, ConstructTyped DEF Object, GValue
    <3>4. c = ResourceTypeClass => DefaultOf(c.type) = {}
      BY DEF ResourceTypeClass, PropertyClass, DefaultOf
    <3> QED  BY <2>1, <2>2, <3>2, <3>3, <3>4, DefaultTyped, ObjectLeft DEF Phase
  <2> QED  BY <2>3, <2>4
<1>4. ASSUME NEW child \in Child, DeserializeChild(child) PROVE IInv'
  <2>1. /\ object # Nothing /\ object.phase = "parsing"
        /\ UNCHANGED <<registered, given>>
    BY <1>4 DEF DeserializeChild
  <2>2. object.class = ResourceTypeClass =>
          ("collection" \in object.value.data
              <=> [name |-> "collection", ns |-> "DAV"] \in read)
    BY <2>1 DEF IInv, FlagsOfElement
  <2>3. CASE object.class = ResourceTypeClass /\ Flagged(child)
    <3>1. /\ object' = [object EXCEPT !.value.data = object.value.data \cup {"collection"}]
          /\ read' = read \cup {child}
      BY <1>4, <2>3 DEF DeserializeChild
    <3>2. object' = Object(object.class, object.class.type,
                           object.value.data \cup {"collection"}, "parsing")
      <4>1. PICK x : x = object.value.data \cup {"collection"}
        OBVIOUS
      <4>2. object' = [object EXCEPT !.value.data = x]
        BY <3>1, <4>1
      <4> QED  BY <1>b, <2>1, <4>1, <4>2 DEF Object, GValue
    <3>3. object.value.data \cup {"collection"} \in DataOf(object.class.type)
      BY <1>b, <2>1, <2>3 DEF ResourceTypeClass, PropertyClass, DataOf, Flag
    <3>4. child = [name |-> "collection", ns |-> "DAV"]
      BY <2>3 DEF Flagged, Child
    <3> QED  BY <1>a, <1>b, <2>1, <3>1, <3>2, <3>3, <3>4, ObjectLeft
  <2>4. CASE ~(object.class = ResourceTypeClass /\ Flagged(child))
    <3>1. CASE object' = Nothing /\ read' = {}
      BY <1>a, <2>1, <3>1, NothingLeft
    <3>2. CASE object' = object /\ read' = read \cup {child}
      <4>1. object.class = ResourceTypeClass => child # [name |-> "collection", ns |-> "DAV"]
        BY <2>4 DEF Flagged
      <4> QED  BY <1>a, <1>b, <2>1, <2>2, <3>2, <4>1, ObjectLeft
    <3> QED  BY <1>4, <2>4, <3>1, <3>2 DEF DeserializeChild
  <2> QED  BY <2>3, <2>4
<1>5. CASE CloseElement
  <2>1. /\ object # Nothing /\ read' = {} /\ UNCHANGED <<registered, given>>
        /\ object' = [object EXCEPT !.phase = "alive"]
    BY <1>5 DEF CloseElement
  <2>2. object' = Object(object.class, object.class.type, object.value.data, "alive")
    BY <1>b, <2>1 DEF Object, GValue
  <2> QED  BY <1>a, <1>b, <2>1, <2>2, ObjectLeft DEF Phase
<1>6. ASSUME NEW v \in GValues, SetValue(v) PROVE IInv'
  <2>1. /\ object # Nothing /\ object.phase # "parsing"
        /\ UNCHANGED <<registered, read>> /\ read = {}
    BY <1>6, <1>a DEF SetValue
  <2>2. PICK data \in DataOf(object.class.type) :
          /\ object' = Object(object.class, object.class.type, data, object.phase)
          /\ given'.type = object.class.type /\ given'.data = data
    <3>1. CASE v.type = object.value.type /\ object' = [object EXCEPT !.value = v]
               /\ given' = v
      <4>1. v = GValue(v.type, v.data) /\ v.data \in DataOf(v.type)
        BY DEF GValues, GValue
      <4>2. object' = Object(object.class, v.type, v.data, object.phase)
        BY <1>b, <2>1, <3>1, <4>1 DEF Object
      <4> QED  BY <1>b, <2>1, <3>1, <4>1, <4>2
    <3>2. ASSUME NEW data \in DataOf(object.value.type),
                 object' = [object EXCEPT !.value.data = data],
                 given' = GValue(object.value.type, data)
          PROVE  /\ data \in DataOf(object.class.type)
                 /\ object' = Object(object.class, object.class.type, data, object.phase)
                 /\ given'.type = object.class.type /\ given'.data = data
      BY <1>b, <2>1, <3>2 DEF Object, GValue
    <3> QED  BY <1>6, <3>1, <3>2 DEF SetValue
  <2> QED  BY <1>a, <1>b, <2>1, <2>2, ClassTypes, ObjectLeft
<1>7. CASE Dispose
  <2>1. /\ object # Nothing /\ read = {} /\ UNCHANGED <<registered, read>>
        /\ given' = Nothing
        /\ object' = [object EXCEPT !.value.data = DefaultOf(object.value.type),
                                    !.phase = "disposed"]
    BY <1>7, <1>a DEF Dispose
  <2>2. object' = Object(object.class, object.class.type, DefaultOf(object.class.type),
                         "disposed")
    <3>1. PICK x : x = DefaultOf(object.value.type)
      OBVIOUS
    <3>2. PICK o : o = [object EXCEPT !.value.data = x]
      OBVIOUS
    <3>3. o = Object(object.class, object.class.type, x, object.phase)
      BY <1>b, <2>1, <3>2 DEF Object, GValue
    <3>4. object' = [o EXCEPT !.phase = "disposed"]
      BY <2>1, <3>1, <3>2
    <3> QED  BY <1>b, <2>1, <3>1, <3>3, <3>4 DEF Object
  <2> QED  BY <1>a, <1>b, <2>1, <2>2, DefaultTyped, ObjectLeft DEF Phase
<1>8. CASE Finalize
  <2>1. /\ object' = Nothing /\ given' = Nothing /\ read' = {} /\ registered' = registered
    BY <1>8, <1>a DEF Finalize
  <2> QED  BY <1>a, <2>1, NothingLeft
<1>9. CASE UNCHANGED propertyVars
  BY <1>9 DEF propertyVars, IInv, PropertiesTypeOK, ShapeOK, Known, ReadOfElement,
              FlagsOfElement
<1> QED  BY <1>1, <1>2, <1>3, <1>4, <1>5, <1>6, <1>7, <1>8, <1>9 DEF PropertiesNext

LEMMA Invariant == PropertiesSpec => []IInv
<1>1. PropertiesInit => IInv
  BY DEF PropertiesInit, IInv, PropertiesTypeOK, ShapeOK, Known, ReadOfElement,
         FlagsOfElement
<1> QED  BY <1>1, IInvNext, PTL DEF PropertiesSpec

-----------------------------------------------------------------------------
(* The theorems                                                            *)

\* From construction to finalization the value of a property has the type of its
\* class (gdav_property_constructed, g_value_copy, g_value_transform, g_value_reset).
THEOREM TypeCorrect == PropertiesSpec => []PropertiesTypeOK
<1>1. IInv => PropertiesTypeOK
  BY DEF IInv
<1> QED  BY <1>1, Invariant, PTL

\* A resourcetype has a flag exactly for the child read in its namespace.
THEOREM Flags == PropertiesSpec => []FlagsOfElement
<1>1. IInv => FlagsOfElement
  BY DEF IInv
<1> QED  BY <1>1, Invariant, PTL

\* The look-up of an element (gdav_parsable_lookup_type) does not depend on what
\* the application used before, but for getcontenttype.
THEOREM Lookups == PropertiesSpec => []LookupStable
<1>1. IInv => LookupStable
  <2> SUFFICES ASSUME IInv, object # Nothing, NEW c \in Classes \ {GetContentType}
               PROVE  Lookup(registered, [name |-> c.name, ns |-> c.ns]) = {c}
    BY DEF LookupStable
  <2>1. c \in registered /\ registered \subseteq Classes
    BY ClassesEnsured DEF IInv, Known, PropertiesTypeOK
  <2>2. ASSUME NEW d \in registered, d.name = c.name PROVE d = c
    BY <2>1, <2>2, ClassesDistinct
  <2> QED  BY <2>1, <2>2 DEF Lookup
<1> QED  BY <1>1, Invariant, PTL
=============================================================================
