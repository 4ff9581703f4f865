----------------------- MODULE MultiStatusParserProofs -----------------------
(***************************************************************************)
(* Proofs about MultiStatusParser, for documents of any size and depth.    *)
(*                                                                         *)
(* CollectTypesComplete speaks of the finished object.  What every step    *)
(* preserves is that each object under construction, and each that it      *)
(* contains, has the types of all its values (SoundObject); the activations *)
(* nest as the elements, so that each object is attached to one of its     *)
(* kind of parent.                                                         *)
(*                                                                         *)
(* QueriesMatchDocument compares the finished object with the document.    *)
(* What every step preserves is that each object under construction has    *)
(* read exactly the children of its node so far (ObjectRead): one item for *)
(* each child of a kind, in their order, and for a field the last child    *)
(* that sets it.                                                           *)
(***************************************************************************)
EXTENDS MultiStatusParser, FiniteSetTheorems, WellFoundedInduction, TLAPS

-----------------------------------------------------------------------------
(* The inductive invariant                                                 *)

SoundSet == {x \in PropObject : Elements(x.values) \subseteq x.types}

SoundPropStat == [type : {"propstat"}, prop : SoundSet \cup {None},
                  status : Status \cup {0}, error : BOOLEAN]

SoundResponse == [type : {"response"}, hrefs : Seq(Href),
                  status : Status \cup {0}, propstats : Seq(SoundPropStat),
                  error : BOOLEAN]

SoundMultiStatus == [type : {"multistatus"}, responses : Seq(SoundResponse)]

SoundLeaf == [type : PropertyType \cup {"error"}]

SoundObject ==
    SoundSet \cup SoundPropStat \cup SoundResponse \cup SoundMultiStatus \cup SoundLeaf

IsSequence(q) == q = [i \in 1 .. Len(q) |-> q[i]] /\ Len(q) \in Nat

\* The items q of an object are those of the children of a kind, one for each.
OneEach(q, node, kind) ==
    /\ Len(q) = Cardinality(Children(node, kind))
    /\ \A n \in DOMAIN q : \E i \in Children(node, kind) : Place(node, i) = n

\* What an object of each class has read from the children of its node so far.
PropRead(prop, node) ==
    /\ IsSequence(node)
    /\ prop.types = {c.kind : c \in Elements(node)}
    /\ Elements(prop.values) = prop.types

PropStatRead(ps, node) ==
    /\ IsSequence(node)
    /\ ps.status = LastValue(node, "status", 0)
    /\ IF Children(node, "prop") = {} THEN ps.prop = None
       ELSE ps.prop # None /\ PropRead(ps.prop, LastValue(node, "prop", << >>))

ResponseRead(r, node) ==
    /\ IsSequence(node)
    /\ \A h \in Href : h \in Elements(r.hrefs)
                         <=> [kind |-> "href", value |-> h] \in Elements(node)
    /\ OneEach(r.propstats, node, "propstat")
    /\ \A i \in Children(node, "propstat") :
         PropStatRead(r.propstats[Place(node, i)], node[i].value)

MultiStatusRead(ms, node) ==
    /\ IsSequence(node)
    /\ OneEach(ms.responses, node, "response")
    /\ \A i \in Children(node, "response") :
         ResponseRead(ms.responses[Place(node, i)], node[i].value)

ObjectRead(x, node) ==
    /\ IsSequence(node)
    /\ x.type = "prop" => PropRead(x, node)
    /\ x.type = "propstat" => PropStatRead(x, node)
    /\ x.type = "response" => ResponseRead(x, node)
    /\ x.type = "multistatus" => MultiStatusRead(x, node)

SoundFrame(f) ==
    /\ f = [object |-> f.object, children |-> f.children]
    /\ f.object \in SoundObject
    /\ ObjectRead(f.object, f.children)

\* Each activation is that of a child of the next one.
Nested(s) ==
    \A i \in DOMAIN s :
        IF i = Len(s) THEN s[i].object.type = "multistatus"
                      ELSE s[i].object.type \in Contains(s[i + 1].object.type)

StackOK ==
    /\ stack = [i \in 1 .. Len(stack) |-> stack[i]] /\ Len(stack) \in Nat
    /\ \A i \in DOMAIN stack : SoundFrame(stack[i])
    /\ Nested(stack)

ModeOK ==
    /\ mode \in {"start", "parse", "unwind", "done"}
    /\ mode \in {"parse", "unwind"} <=> stack # << >>

\* An error is stored once, and nothing is read after it.
ErrorOK ==
    /\ error \in {"none", "parser_failed", "empty_document", "internal"}
    /\ errorSets = IF error = "none" THEN 0 ELSE 1
    /\ mode \in {"start", "parse"} => error = "none"

ResultOK ==
    /\ result # None => /\ result.object \in SoundMultiStatus
                       /\ MultiStatusRead(result.object, result.children)
    /\ mode # "done" => result = None
    /\ mode = "done" /\ error # "none" => result = None

IInv == StackOK /\ ModeOK /\ ErrorOK /\ ResultOK /\ elements \in 0 .. MaxElements

-----------------------------------------------------------------------------
(* Objects                                                                 *)

Kinds == {"response", "propstat", "error", "prop"} \cup PropertyType

LEMMA KindsDistinct ==
    ASSUME NEW p \in PropertyType
    PROVE  p \notin Container
BY TypesAssumption

\* Which object can be in which other one.
LEMMA ContainsTyped ==
    /\ Contains("multistatus") = {"response"}
    /\ Contains("response") = {"propstat", "error"}
    /\ Contains("propstat") = {"prop", "error"}
    /\ Contains("prop") = PropertyType
    /\ Contains("error") = {}
    /\ \A p \in PropertyType : Contains(p) = {}
BY KindsDistinct DEF Contains, Container

\* A new object is sound.
LEMMA NewSound ==
    ASSUME NEW type \in Kinds \cup {"multistatus"}
    PROVE  NewObject(type) \in SoundObject /\ NewObject(type).type = type
<1>1. Elements(<< >>) = {}
  BY DEF Elements
<1>2. CASE type = "multistatus"
  BY <1>2 DEF NewObject, SoundObject, SoundMultiStatus
<1>3. CASE type = "response"
  BY <1>3 DEF NewObject, SoundObject, SoundResponse
<1>4. CASE type = "propstat"
  BY <1>4 DEF NewObject, SoundObject, SoundPropStat
<1>5. CASE type = "prop"
  BY <1>1, <1>5 DEF NewObject, SoundObject, SoundSet, PropObject
<1>6. CASE type = "error"
  BY <1>6 DEF NewObject, SoundObject, SoundLeaf
<1>7. CASE type \in PropertyType
  BY <1>7, KindsDistinct DEF NewObject, SoundObject, SoundLeaf, Container
<1> QED  BY <1>2, <1>3, <1>4, <1>5, <1>6, <1>7 DEF Kinds

\* The kind of an object is its type.
LEMMA SoundKinds ==
    ASSUME NEW x \in SoundObject
    PROVE  /\ x.type \in Kinds \cup {"multistatus"}
           /\ x.type = "multistatus" => x \in SoundMultiStatus
           /\ x.type = "response" => x \in SoundResponse
           /\ x.type = "propstat" => x \in SoundPropStat
           /\ x.type = "prop" => x \in SoundSet
           /\ x.type = "error" \/ x.type \in PropertyType => x \in SoundLeaf
<1>1. CASE x \in SoundSet
  BY <1>1, KindsDistinct DEF SoundSet, PropObject, Kinds, Container
<1>2. CASE x \in SoundPropStat
  BY <1>2, KindsDistinct DEF SoundPropStat, Kinds, Container
<1>3. CASE x \in SoundResponse
  BY <1>3, KindsDistinct DEF SoundResponse, Kinds, Container
<1>4. CASE x \in SoundMultiStatus
  BY <1>4, KindsDistinct DEF SoundMultiStatus, Kinds, Container
<1>5. CASE x \in SoundLeaf
  BY <1>5, KindsDistinct DEF SoundLeaf, Kinds, Container
<1> QED  BY <1>1, <1>2, <1>3, <1>4, <1>5 DEF SoundObject

\* The elements of a longer sequence.
LEMMA ElementsAppend ==
    ASSUME NEW S, NEW q \in Seq(S), NEW x \in S
    PROVE  Elements(Append(q, x)) = Elements(q) \cup {x}
<1>1. /\ DOMAIN Append(q, x) = 1 .. Len(q) + 1 /\ DOMAIN q = 1 .. Len(q)
      /\ Append(q, x)[Len(q) + 1] = x
      /\ \A i \in 1 .. Len(q) : Append(q, x)[i] = q[i]
  OBVIOUS
<1>2. Len(q) \in Nat
  OBVIOUS
<1>3. \A i : i \in 1 .. Len(q) + 1 <=> i \in 1 .. Len(q) \/ i = Len(q) + 1
  BY <1>2
<1> QED  BY <1>1, <1>3 DEF Elements

\* With another child that belongs to it, an object is sound and of its type.
LEMMA AttachSound ==
    ASSUME NEW x \in SoundObject, NEW y \in SoundObject, y.type \in Contains(x.type)
    PROVE  Attach(x, y) \in SoundObject /\ Attach(x, y).type = x.type
<1>1. CASE x.type = "multistatus"
  <2>1. x \in SoundMultiStatus /\ y \in SoundResponse
    BY <1>1, SoundKinds, ContainsTyped
  <2>2. [x EXCEPT !.responses = Append(x.responses, y)] \in SoundMultiStatus
    BY <2>1 DEF SoundMultiStatus
  <2> QED  BY <1>1, <2>1, <2>2 DEF Attach, AddResponse, SoundObject, SoundMultiStatus
<1>2. CASE x.type = "response"
  <2>1. x \in SoundResponse /\ (y.type = "propstat" => y \in SoundPropStat)
    BY <1>2, SoundKinds
  <2>2. CASE y.type = "propstat"
    <3>1. [x EXCEPT !.propstats = Append(x.propstats, y)] \in SoundResponse
      <4>1. PICK q \in Seq(SoundPropStat) : q = x.propstats
        BY <2>1 DEF SoundResponse
      <4>2. Append(q, y) \in Seq(SoundPropStat)
        BY <2>1, <2>2
      <4> QED  BY <2>1, <4>1, <4>2 DEF SoundResponse
    <3> QED  BY <1>2, <2>1, <2>2, <3>1 DEF Attach, AddToResponse, SoundObject, SoundResponse
  <2>3. CASE y.type # "propstat"
    <3>1. [x EXCEPT !.error = TRUE] \in SoundResponse
      BY <2>1 DEF SoundResponse
    <3> QED  BY <1>2, <2>1, <2>3, <3>1 DEF Attach, AddToResponse, SoundObject, SoundResponse
  <2> QED  BY <2>2, <2>3
<1>3. CASE x.type = "propstat"
  <2>1. x \in SoundPropStat /\ (y.type = "prop" => y \in SoundSet)
    BY <1>3, SoundKinds
  <2>2. CASE y.type = "prop"
    <3>1. [x EXCEPT !.prop = y] \in SoundPropStat
      BY <2>1, <2>2 DEF SoundPropStat
    <3> QED  BY <1>3, <2>1, <2>2, <3>1 DEF Attach, AddToPropStat, SoundObject, SoundPropStat
  <2>3. CASE y.type # "prop"
    <3>1. [x EXCEPT !.error = TRUE] \in SoundPropStat
      BY <2>1 DEF SoundPropStat
    <3> QED  BY <1>3, <2>1, <2>3, <3>1 DEF Attach, AddToPropStat, SoundObject, SoundPropStat
  <2> QED  BY <2>2, <2>3
<1>4. CASE x.type = "prop"
  <2>1. x \in PropObject /\ Elements(x.values) \subseteq x.types /\ y.type \in PropertyType
    BY <1>4, SoundKinds, ContainsTyped DEF SoundSet
  <2>2. PICK v : v = Append(x.values, y.type)
    OBVIOUS
  <2>3. v \in Seq(PropertyType) /\ Elements(v) = Elements(x.values) \cup {y.type}
    BY <2>1, <2>2, ElementsAppend DEF PropObject
  <2>4. PICK z : z = [x EXCEPT !.types = x.types \cup {y.type}, !.values = v]
    OBVIOUS
  <2>5. z \in PropObject /\ z.values = v /\ z.types = x.types \cup {y.type}
    BY <2>1, <2>3, <2>4 DEF PropObject
  <2>6. z \in SoundSet
    BY <2>1, <2>3, <2>5 DEF SoundSet
  <2>7. Attach(x, y) = z
    BY <1>4, <2>2, <2>4 DEF Attach, AddProperty
  <2> QED  BY <1>4, <2>5, <2>6, <2>7 DEF SoundObject, PropObject
<1> QED  BY <1>1, <1>2, <1>3, <1>4, SoundKinds, ContainsTyped DEF Kinds

\* What an object reads into its own fields leaves it sound.
LEMMA ReadSound ==
    ASSUME NEW x \in SoundObject, NEW kind \in Reads(x.type),
           NEW v \in IF kind = "href" THEN Href ELSE Status
    PROVE  Read(x, kind, v) \in SoundObject /\ Read(x, kind, v).type = x.type
<1>1. CASE x.type = "response"
  <2>1. x \in SoundResponse /\ kind \in {"href", "status"}
    BY <1>1, SoundKinds DEF Reads
  <2>2. CASE kind = "href"
    <3>1. [x EXCEPT !.hrefs = Append(x.hrefs, v)] \in SoundResponse
      <4>1. PICK q \in Seq(Href) : q = x.hrefs
        BY <2>1 DEF SoundResponse
      <4>2. Append(q, v) \in Seq(Href)
        BY <2>2
      <4> QED  BY <2>1, <4>1, <4>2 DEF SoundResponse
    <3> QED  BY <2>1, <2>2, <3>1 DEF Read, SoundObject, SoundResponse
  <2>3. CASE kind # "href"
    <3>1. [x EXCEPT !.status = v] \in SoundResponse
      BY <2>1, <2>3 DEF SoundResponse
    <3> QED  BY <2>1, <2>3, <3>1 DEF Read, SoundObject, SoundResponse
  <2> QED  BY <2>2, <2>3
<1>2. CASE x.type = "propstat"
  <2>1. x \in SoundPropStat /\ kind = "status"
    BY <1>2, SoundKinds DEF Reads
  <2>2. [x EXCEPT !.status = v] \in SoundPropStat
    BY <2>1 DEF SoundPropStat
  <2> QED  BY <2>1, <2>2 DEF Read, SoundObject, SoundPropStat
<1> QED  BY <1>1, <1>2 DEF Reads

-----------------------------------------------------------------------------
(* The places of the children                                              *)

\* Every nonempty set of naturals has a least element.
LEMMA LeastElement ==
    ASSUME NEW S \in SUBSET Nat, S # {}
    PROVE  \E i \in S : \A j \in S : i <= j
<1>1. \E x \in S : \A y \in S : ~ (<<y, x>> \in OpToRel(<, Nat))
  BY NatLessThanWellFounded, WFMin
<1>2. PICK x \in S : \A y \in S : ~ (<<y, x>> \in OpToRel(<, Nat))
  BY <1>1
<1>3. \A y \in S : ~ (y < x)
  BY <1>2 DEF OpToRel
<1> QED  BY <1>3

\* ... which First finds.
LEMMA FirstOf ==
    ASSUME NEW S \in SUBSET Nat, S # {}
    PROVE  /\ First(S) \in S /\ \A j \in S : First(S) <= j
           /\ \A i \in S : (\A j \in S : i <= j) => First(S) = i
<1>1. First(S) \in S /\ \A j \in S : First(S) <= j
  BY LeastElement DEF First
<1>2. ASSUME NEW i \in S, \A j \in S : i <= j PROVE First(S) = i
  <2>1. First(S) <= i /\ i <= First(S) /\ i \in Nat /\ First(S) \in Nat
    BY <1>1, <1>2
  <2> QED  BY <2>1
<1> QED  BY <1>1, <1>2

\* A nonempty set of bounded naturals has a greatest element, which Last finds.
LEMMA LastOf ==
    ASSUME NEW n \in Nat, NEW S \in SUBSET (1 .. n), S # {}
    PROVE  /\ Last(S) \in S /\ \A j \in S : j <= Last(S)
           /\ \A i \in S : (\A j \in S : j <= i) => Last(S) = i
<1> DEFINE B == {b \in Nat : \A j \in S : j <= b}
<1>1. n \in B
  OBVIOUS
<1>2. PICK b \in B : \A c \in B : b <= c
  BY <1>1, LeastElement
<1>3. b \in S
  <2> SUFFICES ASSUME b \notin S PROVE FALSE
    OBVIOUS
  <2>1. \A j \in S : j \in 1 .. n /\ j <= b /\ j # b
    OBVIOUS
  <2>2. PICK j \in S : TRUE
    OBVIOUS
  <2>3. b - 1 \in Nat
    BY <2>1, <2>2
  <2>4. \A i \in S : i <= b - 1
    BY <2>1
  <2>5. b - 1 \in B
    BY <2>3, <2>4
  <2> QED  BY <1>2, <2>3, <2>5
<1>4. \A j \in S : j <= b
  OBVIOUS
<1>5. Last(S) \in S /\ \A j \in S : j <= Last(S)
  BY <1>3, <1>4 DEF Last
<1>6. ASSUME NEW i \in S, \A j \in S : j <= i PROVE Last(S) = i
  <2>1. Last(S) \in S /\ Last(S) <= i /\ i <= Last(S)
    BY <1>5, <1>6
  <2>2. \A j \in S : j \in Nat
    OBVIOUS
  <2>3. PICK l \in Nat : l = Last(S)
    BY <2>1, <2>2
  <2> QED  BY <2>1, <2>2, <2>3
<1> QED  BY <1>5, <1>6

\* r is q with one more element, c.
Longer(r, q, c) ==
    /\ IsSequence(q) /\ Len(q) \in Nat /\ DOMAIN q = 1 .. Len(q)
    /\ IsSequence(r) /\ Len(r) = Len(q) + 1 /\ DOMAIN r = 1 .. Len(q) + 1
    /\ r[Len(q) + 1] = c
    /\ \A i \in 1 .. Len(q) : r[i] = q[i]

\* What Append does to a sequence.
LEMMA AppendOf ==
    ASSUME NEW q, IsSequence(q), NEW c
    PROVE  Longer(Append(q, c), q, c)
<1> DEFINE S == {q[i] : i \in 1 .. Len(q)} \cup {c}
<1>1. q \in Seq(S) /\ c \in S
  BY DEF IsSequence
<1> HIDE DEF S
<1>2. PICK r \in Seq(S) : r = Append(q, c)
  <2>1. Append(q, c) \in Seq(S)
    BY <1>1
  <2> QED  BY <2>1
<1>3. Len(r) = Len(q) + 1 /\ DOMAIN q = 1 .. Len(q) /\ Len(q) \in Nat
      /\ r[Len(q) + 1] = c /\ \A i \in 1 .. Len(q) : r[i] = q[i]
  BY <1>1, <1>2
<1>4. r = [i \in 1 .. Len(r) |-> r[i]] /\ DOMAIN r = 1 .. Len(r) /\ Len(r) \in Nat
  OBVIOUS
<1> QED  BY <1>2, <1>3, <1>4 DEF IsSequence, Longer

LEMMA EmptySequence ==
    IsSequence(<< >>) /\ \A kind : Children(<< >>, kind) = {}
BY DEF IsSequence, Children

\* The children of a kind are finitely many positions.
LEMMA ChildrenFinite ==
    ASSUME NEW q, IsSequence(q), NEW kind
    PROVE  /\ Children(q, kind) \in SUBSET (1 .. Len(q))
           /\ IsFiniteSet(Children(q, kind))
           /\ Cardinality(Children(q, kind)) \in Nat
<1>1. DOMAIN q = 1 .. Len(q) /\ Len(q) \in Nat
  BY DEF IsSequence
<1>2. Children(q, kind) \in SUBSET (1 .. Len(q))
  BY <1>1 DEF Children
<1>3. IsFiniteSet(1 .. Len(q))
  BY <1>1, FS_Interval
<1>4. IsFiniteSet(Children(q, kind))
  BY <1>2, <1>3, FS_Subset
<1> QED  BY <1>2, <1>4, FS_CardinalityType

LEMMA ChildrenAppend ==
    ASSUME NEW q, NEW c, NEW r, Longer(r, q, c), NEW kind
    PROVE  Children(r, kind) = IF c.kind = kind THEN Children(q, kind) \cup {Len(q) + 1}
                               ELSE Children(q, kind)
<1>1. /\ Len(q) \in Nat /\ DOMAIN r = 1 .. Len(q) + 1 /\ DOMAIN q = 1 .. Len(q)
      /\ r[Len(q) + 1] = c /\ \A i \in 1 .. Len(q) : r[i] = q[i]
  BY DEF Longer
<1>2. \A i : i \in 1 .. Len(q) + 1 <=> i \in 1 .. Len(q) \/ i = Len(q) + 1
  BY <1>1
<1>3. \A i : i \in Children(r, kind)
               <=> i \in Children(q, kind) \/ (i = Len(q) + 1 /\ c.kind = kind)
  BY <1>1, <1>2 DEF Children
<1> QED  BY <1>3

\* The last value of a kind, with one more child.
LEMMA LastValueAppend ==
    ASSUME NEW q, NEW c, NEW r, Longer(r, q, c), NEW kind, NEW d
    PROVE  LastValue(r, kind, d) = IF c.kind = kind THEN c.value ELSE LastValue(q, kind, d)
<1>1. /\ IsSequence(q) /\ IsSequence(r) /\ Len(r) = Len(q) + 1 /\ Len(q) \in Nat
      /\ r[Len(q) + 1] = c /\ \A i \in 1 .. Len(q) : r[i] = q[i]
  BY DEF Longer
<1>2. Children(q, kind) \in SUBSET (1 .. Len(q)) /\ Children(r, kind) \in SUBSET (1 .. Len(r))
  BY <1>1, ChildrenFinite
<1>3. CASE c.kind = kind
  <2>1. Children(r, kind) = Children(q, kind) \cup {Len(q) + 1}
    BY <1>3, ChildrenAppend
  <2>2. \A j \in Children(r, kind) : j <= Len(q) + 1
    BY <1>1, <1>2
  <2>3. PICK C \in SUBSET (1 .. Len(r)) : C = Children(r, kind)
    BY <1>2
  <2>4. Len(q) + 1 \in C /\ (\A j \in C : j <= Len(q) + 1) /\ Len(r) \in Nat /\ C # {}
    BY <1>1, <2>1, <2>2, <2>3
  <2>5. Last(C) = Len(q) + 1
    BY <2>4, LastOf
  <2> QED  BY <1>1, <1>3, <2>1, <2>3, <2>5 DEF LastValue
<1>4. CASE c.kind # kind
  <2>1. Children(r, kind) = Children(q, kind)
    BY <1>4, ChildrenAppend
  <2>2. Children(q, kind) # {} => Last(Children(q, kind)) \in 1 .. Len(q)
    BY <1>1, <1>2, LastOf
  <2> QED  BY <1>1, <1>4, <2>1, <2>2 DEF LastValue
<1> QED  BY <1>3, <1>4

\* The place of a child is its rank among the children of its kind.
LEMMA PlaceRange ==
    ASSUME NEW q, IsSequence(q), NEW kind, NEW i \in Children(q, kind)
    PROVE  /\ Place(q, i) \in 1 .. Cardinality(Children(q, kind))
           /\ \A j \in Children(q, kind) : i < j => Place(q, i) < Place(q, j)
<1> DEFINE C == Children(q, kind)
           Upto(j) == {k \in C : k <= j}
<1>1. C \in SUBSET (1 .. Len(q)) /\ IsFiniteSet(C) /\ Len(q) \in Nat
  BY ChildrenFinite DEF IsSequence
<1>2. \A j \in C : Place(q, j) = Cardinality(Upto(j))
  BY DEF Place, Children
<1> HIDE DEF C
<1>3. \A j \in C : /\ IsFiniteSet(Upto(j)) /\ Cardinality(Upto(j)) \in Nat
                   /\ Cardinality(Upto(j)) <= Cardinality(C)
  BY <1>1, FS_Subset, FS_CardinalityType
<1>4. Cardinality(C) \in Nat /\ i \in Upto(i) /\ i \in C
  BY <1>1, FS_CardinalityType DEF C
<1>5. Cardinality(Upto(i)) # 0
  BY <1>3, <1>4, FS_EmptySet
<1>6. ASSUME NEW j \in C, i < j PROVE Cardinality(Upto(i)) < Cardinality(Upto(j))
  <2>1. Upto(i) \in SUBSET Upto(j) /\ j \in Upto(j) /\ j \notin Upto(i)
    <3>1. \A k \in C : k \in Nat
      BY <1>1
    <3>2. i \in Nat /\ j \in Nat /\ i < j
      BY <1>4, <1>6, <3>1
    <3>3. \A k \in C : k <= i => k <= j
      BY <3>1, <3>2
    <3>4. ~ (j <= i)
      BY <3>2
    <3>5. Upto(i) \in SUBSET Upto(j)
      BY <3>3
    <3>6. j <= j
      BY <3>2
    <3> QED  BY <3>4, <3>5, <3>6
  <2> HIDE DEF Upto
  <2>2. /\ Cardinality(Upto(i)) <= Cardinality(Upto(j))
        /\ Cardinality(Upto(j)) = Cardinality(Upto(i)) => Upto(j) = Upto(i)
    BY <1>3, <2>1, FS_Subset
  <2> QED  BY <1>3, <1>4, <2>1, <2>2
<1>7. PICK n : n = Cardinality(Upto(i))
  OBVIOUS
<1>8. n \in Nat /\ n # 0 /\ n <= Cardinality(C)
  BY <1>3, <1>4, <1>5, <1>7
<1>9. Place(q, i) \in 1 .. Cardinality(C)
  BY <1>2, <1>4, <1>7, <1>8
<1> QED  BY <1>2, <1>4, <1>6, <1>9 DEF C

LEMMA PlaceAppend ==
    ASSUME NEW q, NEW c, NEW r, Longer(r, q, c)
    PROVE  /\ \A i \in 1 .. Len(q) : Place(r, i) = Place(q, i)
           /\ Place(r, Len(q) + 1) = Cardinality(Children(q, c.kind)) + 1
           /\ Cardinality(Children(r, c.kind)) = Cardinality(Children(q, c.kind)) + 1
<1>1. /\ Len(q) \in Nat /\ r[Len(q) + 1] = c /\ \A i \in 1 .. Len(q) : r[i] = q[i]
  BY DEF Longer
<1>2. \A kind : /\ Children(q, kind) \in SUBSET (1 .. Len(q)) /\ IsFiniteSet(Children(q, kind))
                /\ Children(r, kind) = IF c.kind = kind THEN Children(q, kind) \cup {Len(q) + 1}
                                       ELSE Children(q, kind)
  <2> TAKE kind
  <2>1. Children(q, kind) \in SUBSET (1 .. Len(q)) /\ IsFiniteSet(Children(q, kind))
    BY ChildrenFinite DEF Longer
  <2>2. Children(r, kind) = IF c.kind = kind THEN Children(q, kind) \cup {Len(q) + 1}
                            ELSE Children(q, kind)
    BY ChildrenAppend
  <2> QED  BY <2>1, <2>2
<1>3. ASSUME NEW i \in 1 .. Len(q) PROVE Place(r, i) = Place(q, i)
  <2>1. {j \in Children(r, q[i].kind) : j <= i} = {j \in Children(q, q[i].kind) : j <= i}
    BY <1>1, <1>2
  <2> QED  BY <1>1, <2>1 DEF Place
<1>4. /\ Cardinality(Children(q, c.kind) \cup {Len(q) + 1}) = Cardinality(Children(q, c.kind)) + 1
  <2>1. Len(q) + 1 \notin Children(q, c.kind)
    BY <1>1, <1>2
  <2> QED  BY <1>2, <2>1, FS_AddElement
<1>5. {j \in Children(r, c.kind) : j <= Len(q) + 1} = Children(q, c.kind) \cup {Len(q) + 1}
  BY <1>1, <1>2
<1> QED  BY <1>1, <1>2, <1>3, <1>4, <1>5 DEF Place

\* With one more child of another kind, the items stay those of the children.
LEMMA OneEachOther ==
    ASSUME NEW q, NEW c, NEW r, Longer(r, q, c), NEW kind, c.kind # kind,
           NEW items, OneEach(items, q, kind)
    PROVE  OneEach(items, r, kind)
<1>1. Children(r, kind) = Children(q, kind) /\ Children(q, kind) \in SUBSET (1 .. Len(q))
  <2>1. Children(r, kind) = Children(q, kind)
    BY ChildrenAppend
  <2>2. Children(q, kind) \in SUBSET (1 .. Len(q))
    BY ChildrenFinite DEF Longer
  <2> QED  BY <2>1, <2>2
<1>2. \A i \in Children(q, kind) : Place(r, i) = Place(q, i)
  BY <1>1, PlaceAppend
<1> QED  BY <1>1, <1>2 DEF OneEach

\* With one more child of the kind and one more item for it, too.
LEMMA OneEachAppend ==
    ASSUME NEW q, NEW c, NEW r, Longer(r, q, c),
           NEW items, OneEach(items, q, c.kind), NEW y, NEW more, Longer(more, items, y)
    PROVE  /\ OneEach(more, r, c.kind)
           /\ \A i \in Children(q, c.kind) : Place(r, i) = Place(q, i) /\ more[Place(r, i)] = items[Place(q, i)]
           /\ more[Place(r, Len(q) + 1)] = y
           /\ Children(r, c.kind) = Children(q, c.kind) \cup {Len(q) + 1}
<1>1. /\ Children(r, c.kind) = Children(q, c.kind) \cup {Len(q) + 1}
      /\ Children(q, c.kind) \in SUBSET (1 .. Len(q))
      /\ Cardinality(Children(q, c.kind)) \in Nat
  <2>1. IsFiniteSet(Children(q, c.kind)) /\ Children(q, c.kind) \in SUBSET (1 .. Len(q))
    BY ChildrenFinite DEF Longer
  <2>2. Children(r, c.kind) = Children(q, c.kind) \cup {Len(q) + 1}
    BY ChildrenAppend
  <2> QED  BY <2>1, <2>2, FS_CardinalityType
<1>2. /\ \A i \in Children(q, c.kind) : /\ Place(r, i) = Place(q, i)
                                        /\ Place(q, i) \in 1 .. Cardinality(Children(q, c.kind))
      /\ Place(r, Len(q) + 1) = Cardinality(Children(q, c.kind)) + 1
      /\ Cardinality(Children(r, c.kind)) = Cardinality(Children(q, c.kind)) + 1
  <2>1. IsSequence(q)
    BY DEF Longer
  <2>2. \A i \in Children(q, c.kind) : Place(q, i) \in 1 .. Cardinality(Children(q, c.kind))
    BY <2>1, PlaceRange
  <2>3. \A i \in Children(q, c.kind) : Place(r, i) = Place(q, i)
    BY <1>1, PlaceAppend
  <2>4. /\ Place(r, Len(q) + 1) = Cardinality(Children(q, c.kind)) + 1
        /\ Cardinality(Children(r, c.kind)) = Cardinality(Children(q, c.kind)) + 1
    BY PlaceAppend
  <2> QED  BY <2>2, <2>3, <2>4
<1>3. /\ Len(more) = Len(items) + 1 /\ DOMAIN more = 1 .. Len(items) + 1
      /\ DOMAIN items = 1 .. Len(items) /\ Len(items) \in Nat
      /\ more[Len(items) + 1] = y /\ \A n \in 1 .. Len(items) : more[n] = items[n]
  BY DEF Longer
<1>4. Len(items) = Cardinality(Children(q, c.kind))
  BY DEF OneEach
<1>5. \A i \in Children(q, c.kind) : more[Place(r, i)] = items[Place(q, i)]
  BY <1>2, <1>3, <1>4
<1>6. more[Place(r, Len(q) + 1)] = y
  BY <1>2, <1>3, <1>4
<1>7. ASSUME NEW n \in DOMAIN more PROVE \E i \in Children(r, c.kind) : Place(r, i) = n
  <2>1. CASE n = Len(items) + 1
    BY <1>1, <1>2, <1>4, <2>1
  <2>2. CASE n # Len(items) + 1
    <3>1. n \in DOMAIN items
      BY <1>3, <2>2
    <3>2. PICK i \in Children(q, c.kind) : Place(q, i) = n
      BY <3>1 DEF OneEach
    <3> QED  BY <1>1, <1>2, <3>2
  <2> QED  BY <2>1, <2>2
<1> QED  BY <1>1, <1>2, <1>3, <1>4, <1>5, <1>6, <1>7 DEF OneEach

-----------------------------------------------------------------------------
(* What is read                                                            *)

LEMMA ElementsLonger ==
    ASSUME NEW q, NEW c, NEW r, Longer(r, q, c)
    PROVE  Elements(r) = Elements(q) \cup {c}
<1>1. \A i : i \in 1 .. Len(q) + 1 <=> i \in 1 .. Len(q) \/ i = Len(q) + 1
  BY DEF Longer
<1> QED  BY <1>1 DEF Elements, Longer

\* An object whose node has no child yet has read what there is.
LEMMA NewRead ==
    ASSUME NEW type \in Kinds \cup {"multistatus"}
    PROVE  ObjectRead(NewObject(type), << >>)
<1>1. IsSequence(<< >>) /\ \A kind : Children(<< >>, kind) = {}
  BY EmptySequence
<1>2. Cardinality({}) = 0 /\ Elements(<< >>) = {}
  BY FS_EmptySet DEF Elements
<1>3. \A kind, d : LastValue(<< >>, kind, d) = d
  BY <1>1 DEF LastValue
<1>4. \A kind : OneEach(<< >>, << >>, kind)
  <2>1. Len(<< >>) = 0 /\ DOMAIN << >> = {}
    OBVIOUS
  <2> QED  BY <1>1, <1>2, <2>1 DEF OneEach
<1>5. CASE type = "multistatus"
  BY <1>1, <1>4, <1>5 DEF NewObject, ObjectRead, MultiStatusRead
<1>6. CASE type = "response"
  BY <1>1, <1>2, <1>4, <1>6 DEF NewObject, ObjectRead, ResponseRead
<1>7. CASE type = "propstat"
  BY <1>1, <1>3, <1>7 DEF NewObject, ObjectRead, PropStatRead
<1>8. CASE type = "prop"
  BY <1>1, <1>2, <1>8 DEF NewObject, ObjectRead, PropRead
<1>9. CASE type = "error" \/ type \in PropertyType
  BY <1>1, <1>9, KindsDistinct DEF NewObject, ObjectRead, Container
<1> QED  BY <1>5, <1>6, <1>7, <1>8, <1>9 DEF Kinds

\* A response whose node has one more child, which is no propstat.
LEMMA ResponseLonger ==
    ASSUME NEW x, NEW y, NEW node, NEW c, NEW r, Longer(r, node, c),
           ResponseRead(x, node), c.kind # "propstat", y.propstats = x.propstats,
           \A h \in Href : h \in Elements(y.hrefs)
                             <=> h \in Elements(x.hrefs) \/ c = [kind |-> "href", value |-> h]
    PROVE  ResponseRead(y, r)
<1>1. IsSequence(r) /\ Elements(r) = Elements(node) \cup {c} /\ OneEach(y.propstats, r, "propstat")
  BY ElementsLonger, OneEachOther DEF ResponseRead, Longer
<1>2. Children(r, "propstat") = Children(node, "propstat")
      /\ Children(node, "propstat") \in SUBSET (1 .. Len(node))
  <2>1. Children(r, "propstat") = Children(node, "propstat")
    BY ChildrenAppend
  <2>2. Children(node, "propstat") \in SUBSET (1 .. Len(node))
    BY ChildrenFinite DEF Longer
  <2> QED  BY <2>1, <2>2
<1>3. \A i \in Children(r, "propstat") : Place(r, i) = Place(node, i) /\ r[i] = node[i]
  BY <1>2, PlaceAppend DEF Longer
<1>4. \A i \in Children(r, "propstat") : PropStatRead(y.propstats[Place(r, i)], r[i].value)
  BY <1>2, <1>3 DEF ResponseRead
<1> QED  BY <1>1, <1>4 DEF ResponseRead

\* A propstat whose node has one more child, which is no prop.
LEMMA PropStatLonger ==
    ASSUME NEW x, NEW y, NEW node, NEW c, NEW r, Longer(r, node, c),
           PropStatRead(x, node), c.kind # "prop", y.prop = x.prop,
           y.status = IF c.kind = "status" THEN c.value ELSE x.status
    PROVE  PropStatRead(y, r)
<1>1. /\ LastValue(r, "status", 0) = IF c.kind = "status" THEN c.value ELSE LastValue(node, "status", 0)
      /\ LastValue(r, "prop", << >>) = LastValue(node, "prop", << >>)
  BY LastValueAppend
<1>2. Children(r, "prop") = Children(node, "prop")
  BY ChildrenAppend
<1> QED  BY <1>1, <1>2 DEF PropStatRead, Longer

\* What is read from a child without a nested object.
LEMMA ReadRead ==
    ASSUME NEW x \in SoundObject, NEW kind \in Reads(x.type),
           NEW v \in IF kind = "href" THEN Href ELSE Status,
           NEW node, ObjectRead(x, node),
           NEW r, Longer(r, node, [kind |-> kind, value |-> v])
    PROVE  ObjectRead(Read(x, kind, v), r)
<1> DEFINE c == [kind |-> kind, value |-> v]
           y == Read(x, kind, v)
<1>1. y.type = x.type /\ IsSequence(r)
  BY ReadSound DEF Longer
<1>2. c.kind = kind /\ c.value = v /\ \A h : c = [kind |-> "href", value |-> h] <=> kind = "href" /\ v = h
  OBVIOUS
<1>3. CASE x.type = "response"
  <2>1. x \in SoundResponse /\ kind \in {"href", "status"} /\ ResponseRead(x, node)
    BY <1>3, SoundKinds DEF Reads, ObjectRead
  <2>2. y.propstats = x.propstats
    BY <2>1 DEF Read, SoundResponse
  <2>3. Elements(y.hrefs) = IF kind = "href" THEN Elements(x.hrefs) \cup {v} ELSE Elements(x.hrefs)
    <3>1. PICK q \in Seq(Href) : q = x.hrefs
      BY <2>1 DEF SoundResponse
    <3>2. y.hrefs = IF kind = "href" THEN Append(q, v) ELSE q
      BY <2>1, <3>1 DEF Read, SoundResponse
    <3>3. kind = "href" => Elements(Append(q, v)) = Elements(q) \cup {v}
      BY <3>1, ElementsAppend
    <3> QED  BY <3>1, <3>2, <3>3
  <2> HIDE DEF y, c
  <2>4. c.kind # "propstat"
    BY <1>2, <2>1
  <2>5. \A h \in Href : h \in Elements(y.hrefs)
                          <=> h \in Elements(x.hrefs) \/ c = [kind |-> "href", value |-> h]
    BY <1>2, <2>3
  <2>6. Longer(r, node, c)
    BY DEF c
  <2>7. ResponseRead(y, r)
    BY <2>1, <2>2, <2>4, <2>5, <2>6, ResponseLonger
  <2>8. ObjectRead(y, r)
    BY <1>1, <1>3, <2>7 DEF ObjectRead
  <2> QED  BY <2>8 DEF y
<1>4. CASE x.type = "propstat"
  <2>1. x \in SoundPropStat /\ kind = "status" /\ PropStatRead(x, node)
    BY <1>4, SoundKinds DEF Reads, ObjectRead
  <2>2. y.prop = x.prop /\ y.status = v
    BY <2>1 DEF Read, SoundPropStat
  <2> HIDE DEF y, c
  <2>3. Longer(r, node, c)
    BY DEF c
  <2>4. PropStatRead(y, r)
    BY <1>2, <2>1, <2>2, <2>3, PropStatLonger
  <2>5. ObjectRead(y, r)
    BY <1>1, <1>4, <2>4 DEF ObjectRead
  <2> QED  BY <2>5 DEF y
<1> QED  BY <1>3, <1>4 DEF Reads

\* What is read from a child with a nested object.
LEMMA AttachRead ==
    ASSUME NEW x \in SoundObject, NEW y \in SoundObject, y.type \in Contains(x.type),
           NEW node, ObjectRead(x, node), NEW below, ObjectRead(y, below),
           NEW r, Longer(r, node, [kind |-> y.type, value |-> below])
    PROVE  ObjectRead(Attach(x, y), r)
<1> DEFINE z == Attach(x, y)
<1>0. PICK c : c = [kind |-> y.type, value |-> below]
  OBVIOUS
<1>1. z.type = x.type /\ IsSequence(r) /\ Longer(r, node, c)
  BY <1>0, AttachSound DEF Longer
<1>2. c.kind = y.type /\ c.value = below
  BY <1>0
<1>3. CASE x.type = "multistatus"
  <2>1. x \in SoundMultiStatus /\ y.type = "response" /\ y \in SoundResponse
        /\ ResponseRead(y, below) /\ MultiStatusRead(x, node)
    BY <1>3, SoundKinds, ContainsTyped DEF ObjectRead
  <2>2. PICK q \in Seq(SoundResponse) : q = x.responses
    BY <2>1 DEF SoundMultiStatus
  <2>3. PICK more : more = Append(q, y)
    OBVIOUS
  <2>13. Longer(more, q, y)
    <3>1. IsSequence(q)
      BY DEF IsSequence
    <3> QED  BY <2>3, <3>1, AppendOf
  <2>4. z.responses = more
    BY <1>3, <2>1, <2>2, <2>3 DEF Attach, AddResponse, SoundMultiStatus
  <2>5. OneEach(q, node, c.kind)
    BY <1>2, <2>1, <2>2 DEF MultiStatusRead
  <2>6. /\ OneEach(more, r, c.kind)
        /\ \A i \in Children(node, c.kind) : more[Place(r, i)] = q[Place(node, i)]
        /\ more[Place(r, Len(node) + 1)] = y
        /\ Children(r, c.kind) = Children(node, c.kind) \cup {Len(node) + 1}
    BY <1>1, <2>5, <2>13, OneEachAppend
  <2>7. Children(node, c.kind) \in SUBSET (1 .. Len(node))
    BY <1>1, ChildrenFinite DEF Longer
  <2>8. ASSUME NEW i \in Children(r, "response")
        PROVE  ResponseRead(more[Place(r, i)], r[i].value)
    <3>1. CASE i = Len(node) + 1
      BY <1>1, <1>2, <2>1, <2>6, <3>1 DEF Longer
    <3>2. CASE i # Len(node) + 1
      <4>1. i \in Children(node, "response") /\ i \in 1 .. Len(node)
        BY <1>2, <2>1, <2>6, <2>7, <3>2
      <4>2. r[i] = node[i] /\ more[Place(r, i)] = q[Place(node, i)]
        BY <1>1, <1>2, <2>1, <2>6, <4>1 DEF Longer
      <4> QED  BY <2>1, <2>2, <4>1, <4>2 DEF MultiStatusRead
    <3> QED  BY <3>1, <3>2
  <2> HIDE DEF z
  <2>9. MultiStatusRead(z, r)
    BY <1>1, <1>2, <2>1, <2>4, <2>6, <2>8 DEF MultiStatusRead
  <2>10. ObjectRead(z, r)
    BY <1>1, <1>3, <2>9 DEF ObjectRead
  <2> QED  BY <2>10 DEF z
<1>4. CASE x.type = "response" /\ y.type = "propstat"
  <2>1. x \in SoundResponse /\ y \in SoundPropStat
        /\ PropStatRead(y, below) /\ ResponseRead(x, node)
    BY <1>4, SoundKinds DEF ObjectRead
  <2>2. PICK q \in Seq(SoundPropStat) : q = x.propstats
    BY <2>1 DEF SoundResponse
  <2>3. PICK more : more = Append(q, y)
    OBVIOUS
  <2>13. Longer(more, q, y)
    <3>1. IsSequence(q)
      BY DEF IsSequence
    <3> QED  BY <2>3, <3>1, AppendOf
  <2>4. z.propstats = more /\ z.hrefs = x.hrefs
    BY <1>4, <2>1, <2>2, <2>3 DEF Attach, AddToResponse, SoundResponse
  <2>5. OneEach(q, node, c.kind)
    BY <1>2, <1>4, <2>1, <2>2 DEF ResponseRead
  <2>6. /\ OneEach(more, r, c.kind)
        /\ \A i \in Children(node, c.kind) : more[Place(r, i)] = q[Place(node, i)]
        /\ more[Place(r, Len(node) + 1)] = y
        /\ Children(r, c.kind) = Children(node, c.kind) \cup {Len(node) + 1}
    BY <1>1, <2>5, <2>13, OneEachAppend
  <2>7. Children(node, c.kind) \in SUBSET (1 .. Len(node))
    BY <1>1, ChildrenFinite DEF Longer
  <2>8. ASSUME NEW i \in Children(r, "propstat")
        PROVE  PropStatRead(more[Place(r, i)], r[i].value)
    <3>1. CASE i = Len(node) + 1
      BY <1>1, <1>2, <1>4, <2>1, <2>6, <3>1 DEF Longer
    <3>2. CASE i # Len(node) + 1
      <4>1. i \in Children(node, "propstat") /\ i \in 1 .. Len(node)
        BY <1>2, <1>4, <2>6, <2>7, <3>2
      <4>2. r[i] = node[i] /\ more[Place(r, i)] = q[Place(node, i)]
        BY <1>1, <1>2, <1>4, <2>6, <4>1 DEF Longer
      <4> QED  BY <2>1, <2>2, <4>1, <4>2 DEF ResponseRead
    <3> QED  BY <3>1, <3>2
  <2>9. \A h : c # [kind |-> "href", value |-> h]
    BY <1>2, <1>4
  <2>10. Elements(r) = Elements(node) \cup {c}
    BY <1>1, ElementsLonger
  <2> HIDE DEF z
  <2>11. ResponseRead(z, r)
    BY <1>1, <1>2, <1>4, <2>1, <2>4, <2>6, <2>8, <2>9, <2>10 DEF ResponseRead
  <2>12. ObjectRead(z, r)
    BY <1>1, <1>4, <2>11 DEF ObjectRead
  <2> QED  BY <2>12 DEF z
<1>5. CASE x.type = "response" /\ y.type # "propstat"
  <2>1. x \in SoundResponse /\ y.type = "error" /\ ResponseRead(x, node)
    BY <1>5, SoundKinds, ContainsTyped DEF ObjectRead
  <2>2. z.propstats = x.propstats /\ z.hrefs = x.hrefs
    BY <1>5, <2>1 DEF Attach, AddToResponse, SoundResponse
  <2>3. \A h : c # [kind |-> "href", value |-> h]
    BY <1>2, <2>1
  <2> HIDE DEF z
  <2>4. ResponseRead(z, r)
    BY <1>1, <1>2, <2>1, <2>2, <2>3, ResponseLonger
  <2>5. ObjectRead(z, r)
    BY <1>1, <1>5, <2>4 DEF ObjectRead
  <2> QED  BY <2>5 DEF z
<1>6. CASE x.type = "propstat" /\ y.type = "prop"
  <2>1. x \in SoundPropStat /\ y \in PropObject /\ PropRead(y, below) /\ PropStatRead(x, node)
    BY <1>6, SoundKinds DEF ObjectRead, SoundSet
  <2>2. z.prop = y /\ z.status = x.status
    BY <1>6, <2>1 DEF Attach, AddToPropStat, SoundPropStat
  <2>3. /\ LastValue(r, "status", 0) = LastValue(node, "status", 0)
        /\ LastValue(r, "prop", << >>) = below
    BY <1>1, <1>2, <1>6, LastValueAppend
  <2>4. Children(r, "prop") # {}
    <3>1. Children(r, "prop") = Children(node, "prop") \cup {Len(node) + 1}
      BY <1>1, <1>2, <1>6, ChildrenAppend
    <3> QED  BY <3>1
  <2> HIDE DEF z
  <2>5. PropStatRead(z, r)
    BY <1>1, <2>1, <2>2, <2>3, <2>4, NoneAssumption DEF PropStatRead
  <2>6. ObjectRead(z, r)
    BY <1>1, <1>6, <2>5 DEF ObjectRead
  <2> QED  BY <2>6 DEF z
<1>7. CASE x.type = "propstat" /\ y.type # "prop"
  <2>1. x \in SoundPropStat /\ y.type = "error" /\ PropStatRead(x, node)
    BY <1>7, SoundKinds, ContainsTyped DEF ObjectRead
  <2>2. z.prop = x.prop /\ z.status = x.status
    BY <1>7, <2>1 DEF Attach, AddToPropStat, SoundPropStat
  <2> HIDE DEF z
  <2>3. PropStatRead(z, r)
    BY <1>1, <1>2, <2>1, <2>2, PropStatLonger
  <2>4. ObjectRead(z, r)
    BY <1>1, <1>7, <2>3 DEF ObjectRead
  <2> QED  BY <2>4 DEF z
<1>8. CASE x.type = "prop"
  <2>1. x \in PropObject /\ y.type \in PropertyType /\ PropRead(x, node)
    BY <1>8, SoundKinds, ContainsTyped DEF ObjectRead, SoundSet
  <2>2. PICK v : v = Append(x.values, y.type)
    OBVIOUS
  <2>3. Elements(v) = Elements(x.values) \cup {y.type}
    BY <2>1, <2>2, ElementsAppend DEF PropObject
  <2>4. z.types = x.types \cup {y.type} /\ z.values = v
    BY <1>8, <2>1, <2>2 DEF Attach, AddProperty, PropObject
  <2>5. Elements(r) = Elements(node) \cup {c}
    BY <1>1, ElementsLonger
  <2> HIDE DEF z
  <2>6. z.types = {d.kind : d \in Elements(r)}
    BY <1>2, <2>1, <2>4, <2>5 DEF PropRead
  <2>7. PropRead(z, r)
    BY <1>1, <2>1, <2>3, <2>4, <2>6 DEF PropRead
  <2>8. ObjectRead(z, r)
    BY <1>1, <1>8, <2>7 DEF ObjectRead
  <2> QED  BY <2>8 DEF z
<1>9. x.type \in {"multistatus", "response", "propstat", "prop"}
  BY SoundKinds, ContainsTyped DEF Kinds
<1> QED  BY <1>3, <1>4, <1>5, <1>6, <1>7, <1>8, <1>9

-----------------------------------------------------------------------------
(* Steps                                                                   *)

\* The tail of a sequence.
LEMMA TailOf ==
    ASSUME NEW s, Len(s) \in Nat \ {0}, s = [i \in 1 .. Len(s) |-> s[i]]
    PROVE  /\ Len(Tail(s)) = Len(s) - 1 /\ DOMAIN Tail(s) = 1 .. Len(s) - 1
           /\ Tail(s) = [i \in 1 .. Len(s) - 1 |-> Tail(s)[i]]
           /\ \A i \in 1 .. Len(s) - 1 : /\ Tail(s)[i] = s[i + 1]
                                        /\ i + 1 \in 1 .. Len(s)
<1> DEFINE S == {s[i] : i \in 1 .. Len(s)}
<1>1. s \in Seq(S)
  OBVIOUS
<1> HIDE DEF S
<1>2. Tail(s) \in Seq(S) /\ Len(Tail(s)) = Len(s) - 1
      /\ \A i \in 1 .. Len(s) - 1 : Tail(s)[i] = s[i + 1]
  BY <1>1
<1>3. PICK t \in Seq(S) : t = Tail(s)
  BY <1>2
<1>4. t = [i \in 1 .. Len(t) |-> t[i]] /\ DOMAIN t = 1 .. Len(t)
  OBVIOUS
<1>5. Len(s) - 1 \in Nat /\ \A i \in 1 .. Len(s) - 1 : i + 1 \in 1 .. Len(s)
  OBVIOUS
<1> QED  BY <1>2, <1>3, <1>4, <1>5

\* One more element at the head of a sequence.
LEMMA PushOf ==
    ASSUME NEW t, Len(t) \in Nat, t = [i \in 1 .. Len(t) |-> t[i]], NEW f
    PROVE  LET s == <<f>> \o t
           IN  /\ Len(s) = Len(t) + 1 /\ DOMAIN s = 1 .. Len(t) + 1
               /\ s = [i \in 1 .. Len(t) + 1 |-> s[i]]
               /\ s[1] = f
               /\ \A i \in 1 .. Len(t) : s[i + 1] = t[i]
<1> DEFINE S == {t[i] : i \in 1 .. Len(t)} \cup {f}
<1>1. t \in Seq(S) /\ f \in S
  OBVIOUS
<1> HIDE DEF S
<1>2. <<f>> \in Seq(S) /\ Len(<<f>>) = 1
  BY <1>1
<1>3. PICK s \in Seq(S) : s = <<f>> \o t
  <2>1. PICK g \in Seq(S) : g = <<f>>
    BY <1>2
  <2>2. g \o t \in Seq(S)
    BY <1>1
  <2> QED  BY <2>1, <2>2
<1>4. Len(s) = Len(t) + 1 /\ s[1] = f /\ \A i \in 1 .. Len(t) : s[i + 1] = t[i]
  BY <1>1, <1>2, <1>3
<1>5. s = [i \in 1 .. Len(s) |-> s[i]] /\ DOMAIN s = 1 .. Len(s)
  OBVIOUS
<1> QED  BY <1>3, <1>4, <1>5

\* A step of the innermost activation alone.
LEMMA TopReplaced ==
    ASSUME StackOK, stack # << >>, NEW f, SoundFrame(f), f.object.type = Top.object.type,
           stack' = <<f>> \o Tail(stack)
    PROVE  StackOK' /\ stack' # << >>
<1>1. Len(stack) \in Nat \ {0} /\ stack = [i \in 1 .. Len(stack) |-> stack[i]]
  BY DEF StackOK
<1>2. /\ Len(stack') = Len(stack) /\ DOMAIN stack' = 1 .. Len(stack)
      /\ stack' = [i \in 1 .. Len(stack) |-> stack'[i]]
      /\ stack'[1] = f
      /\ \A i \in 2 .. Len(stack) : stack'[i] = stack[i]
  BY <1>1
<1>3. \A i \in 1 .. Len(stack) : SoundFrame(stack'[i])
  BY <1>1, <1>2 DEF StackOK
<1>4. \A i \in 1 .. Len(stack) : stack'[i].object.type = stack[i].object.type
  BY <1>1, <1>2 DEF Top
<1>5. Nested(stack')
  BY <1>1, <1>2, <1>4 DEF StackOK, Nested
<1> QED  BY <1>1, <1>2, <1>3, <1>5 DEF StackOK

\* Another activation for a child.
LEMMA TopPushed ==
    ASSUME StackOK, stack # << >>, NEW f, SoundFrame(f),
           f.object.type \in Contains(Top.object.type),
           stack' = <<f>> \o stack
    PROVE  StackOK' /\ stack' # << >>
<1>1. Len(stack) \in Nat \ {0} /\ stack = [i \in 1 .. Len(stack) |-> stack[i]]
  BY DEF StackOK
<1>2. /\ Len(stack') = Len(stack) + 1 /\ DOMAIN stack' = 1 .. Len(stack) + 1
      /\ stack' = [i \in 1 .. Len(stack) + 1 |-> stack'[i]]
      /\ stack'[1] = f
      /\ \A i \in 1 .. Len(stack) : stack'[i + 1] = stack[i]
  BY <1>1
<1>3. \A i \in 2 .. Len(stack) + 1 : i - 1 \in 1 .. Len(stack) /\ stack'[i] = stack[i - 1]
                                   /\ (i # Len(stack) + 1 => stack'[i + 1] = stack[(i - 1) + 1])
  BY <1>1, <1>2
<1>4. \A i \in 1 .. Len(stack) + 1 : SoundFrame(stack'[i])
  BY <1>1, <1>2, <1>3 DEF StackOK
<1>5. Nested(stack')
  <2> SUFFICES ASSUME NEW i \in 1 .. Len(stack) + 1
               PROVE  IF i = Len(stack) + 1 THEN stack'[i].object.type = "multistatus"
                      ELSE stack'[i].object.type \in Contains(stack'[i + 1].object.type)
    BY <1>2 DEF Nested
  <2>1. CASE i = 1
    BY <1>1, <1>2, <2>1 DEF Top
  <2>2. CASE i # 1
    BY <1>1, <1>2, <1>3, <2>2, SMTT(30) DEF StackOK, Nested
  <2> QED  BY <2>1, <2>2
<1> QED  BY <1>1, <1>2, <1>4, <1>5 DEF StackOK

\* The innermost activation ends.
LEMMA TopPopped ==
    ASSUME StackOK, stack # << >>, stack' = Tail(stack)
    PROVE  StackOK' /\ (stack' = << >> <=> Len(stack) = 1)
<1>1. Len(stack) \in Nat \ {0} /\ stack = [i \in 1 .. Len(stack) |-> stack[i]]
  BY DEF StackOK
<1>2. /\ Len(stack') = Len(stack) - 1 /\ DOMAIN stack' = 1 .. Len(stack) - 1
      /\ stack' = [i \in 1 .. Len(stack) - 1 |-> stack'[i]]
      /\ \A i \in 1 .. Len(stack) - 1 : stack'[i] = stack[i + 1] /\ i + 1 \in 1 .. Len(stack)
  BY <1>1, TailOf
<1>3. \A i \in 1 .. Len(stack) - 1 : SoundFrame(stack'[i])
  BY <1>1, <1>2 DEF StackOK
<1>4. Nested(stack')
  BY <1>1, <1>2 DEF StackOK, Nested
<1> QED  BY <1>1, <1>2, <1>3, <1>4 DEF StackOK

LEMMA RootStep == ASSUME IInv, Root PROVE IInv'
<1>1. /\ stack' = <<Frame("multistatus")>> /\ mode' = "parse" /\ mode = "start"
      /\ UNCHANGED <<error, errorSets, result, elements>>
  BY DEF Root
<1>2. /\ SoundFrame(Frame("multistatus"))
      /\ Frame("multistatus").object.type = "multistatus"
  BY NewSound, NewRead DEF Frame, SoundFrame
<1>3. StackOK'
  BY <1>1, <1>2 DEF StackOK, Nested
<1> QED  BY <1>1, <1>3 DEF IInv, ModeOK, ErrorOK, ResultOK

LEMMA NoDocumentStep == ASSUME IInv, NoDocument PROVE IInv'
BY DEF NoDocument, SetError, IInv, StackOK, ModeOK, ErrorOK, ResultOK

LEMMA OpenStep == ASSUME IInv, NEW kind \in Kinds, Open(kind) PROVE IInv'
<1>1. /\ mode = "parse" /\ elements' = elements + 1 /\ elements < MaxElements
      /\ kind \in Contains(Top.object.type) /\ stack' = <<Frame(kind)>> \o stack
      /\ UNCHANGED <<error, errorSets, mode, result>> /\ stack # << >>
  BY DEF Open, Child, NoError, IInv, ModeOK
<1>2. SoundFrame(Frame(kind)) /\ Frame(kind).object.type = kind
  BY NewSound, NewRead DEF Frame, SoundFrame, Kinds
<1>3. StackOK' /\ stack' # << >>
  BY <1>1, <1>2, TopPushed DEF IInv
<1> QED  BY <1>1, <1>3, BoundAssumption DEF IInv, ModeOK, ErrorOK, ResultOK

LEMMA LeafStep ==
    ASSUME IInv, NEW kind \in {"href", "status"}, NEW v, Leaf(kind, v)
    PROVE  IInv'
<1> DEFINE f == [object |-> Read(Top.object, kind, v),
                 children |-> Append(Top.children, [kind |-> kind, value |-> v])]
<1>1. /\ mode = "parse" /\ elements' = elements + 1 /\ elements < MaxElements
      /\ kind \in Reads(Top.object.type)
      /\ v \in IF kind = "href" THEN Href ELSE Status
      /\ stack' = <<f>> \o Tail(stack)
      /\ UNCHANGED <<error, errorSets, mode, result>> /\ stack # << >>
  BY DEF Leaf, Child, NoError, IInv, ModeOK
<1>2. Top.object \in SoundObject /\ ObjectRead(Top.object, Top.children)
  BY <1>1 DEF IInv, StackOK, SoundFrame, Top
<1>3. f.object \in SoundObject /\ f.object.type = Top.object.type
  BY <1>1, <1>2, ReadSound
<1>4. ObjectRead(f.object, f.children)
  <2>1. Longer(f.children, Top.children, [kind |-> kind, value |-> v])
    BY <1>2, AppendOf DEF ObjectRead
  <2> QED  BY <1>1, <1>2, <2>1, ReadRead
<1>5. SoundFrame(f)
  BY <1>3, <1>4 DEF SoundFrame
<1> HIDE DEF f
<1>6. StackOK' /\ stack' # << >>
  BY <1>1, <1>3, <1>5, TopReplaced DEF IInv
<1> QED  BY <1>1, <1>6, BoundAssumption DEF IInv, ModeOK, ErrorOK, ResultOK

LEMMA BadLeafStep == ASSUME IInv, NEW kind, BadLeaf(kind) PROVE IInv'
<1>1. /\ mode = "parse" /\ mode' = "unwind" /\ error' = "internal"
      /\ errorSets' = errorSets + 1 /\ UNCHANGED <<stack, result>>
      /\ elements' = elements + 1 /\ elements < MaxElements
  BY DEF BadLeaf, Child, SetError
<1> QED  BY <1>1, BoundAssumption DEF IInv, StackOK, ModeOK, ErrorOK, ResultOK

LEMMA UnhandledStep == ASSUME IInv, Unhandled PROVE IInv'
<1>1. /\ mode = "parse" /\ mode' \in {"parse", "unwind"}
      /\ UNCHANGED <<stack, result, error, errorSets>>
      /\ elements' = elements + 1 /\ elements < MaxElements
  BY DEF Unhandled, Child, NoError
<1> QED  BY <1>1, BoundAssumption DEF IInv, StackOK, ModeOK, ErrorOK, ResultOK

LEMMA CloseStep == ASSUME IInv, Close PROVE IInv'
<1>1. /\ StackOK /\ mode = "parse" /\ Len(stack) > 1
      /\ UNCHANGED <<mode, error, errorSets, result, elements>>
  BY DEF IInv, Close
<1> DEFINE parent == stack[2]
           node == [kind |-> Top.object.type, value |-> Top.children]
           f == [object |-> Attach(parent.object, Top.object),
                 children |-> Append(parent.children, node)]
<1>2. stack' = <<f>> \o Tail(Tail(stack))
  BY DEF Close
<1>3. /\ SoundFrame(parent) /\ SoundFrame(Top)
      /\ Top.object.type \in Contains(parent.object.type)
  BY <1>1 DEF StackOK, Nested, Top
<1>4. f.object \in SoundObject /\ f.object.type = parent.object.type
  BY <1>3, AttachSound DEF SoundFrame
<1>4a. ObjectRead(f.object, f.children)
  <2>1. IsSequence(parent.children) /\ ObjectRead(parent.object, parent.children)
        /\ ObjectRead(Top.object, Top.children)
    BY <1>3 DEF SoundFrame, ObjectRead
  <2>2. Longer(f.children, parent.children, node)
    BY <2>1, AppendOf
  <2> QED  BY <1>3, <2>1, <2>2, AttachRead DEF SoundFrame
<1>5. SoundFrame(f)
  BY <1>4, <1>4a DEF SoundFrame
<1> HIDE DEF f, parent, node
<1>6. /\ Len(stack) \in Nat /\ stack = [i \in 1 .. Len(stack) |-> stack[i]]
  BY <1>1 DEF StackOK
<1>7. /\ Len(stack') = Len(stack) - 1 /\ DOMAIN stack' = 1 .. Len(stack) - 1
      /\ stack' = [i \in 1 .. Len(stack) - 1 |-> stack'[i]]
      /\ stack'[1] = f
      /\ \A i \in 2 .. Len(stack) - 1 : stack'[i] = stack[i + 1]
  <2>1. PICK s : s = Tail(stack)
    OBVIOUS
  <2>2. /\ Len(s) = Len(stack) - 1 /\ s = [i \in 1 .. Len(s) |-> s[i]]
        /\ \A i \in 1 .. Len(stack) - 1 : s[i] = stack[i + 1]
    BY <1>1, <1>6, <2>1, TailOf
  <2>3. PICK t : t = Tail(s)
    OBVIOUS
  <2>4. /\ Len(t) = Len(stack) - 2 /\ t = [i \in 1 .. Len(t) |-> t[i]]
        /\ \A i \in 1 .. Len(stack) - 2 : t[i] = s[i + 1] /\ i + 1 \in 1 .. Len(s)
    <3>1. Len(s) \in Nat \ {0} /\ Len(s) - 1 = Len(stack) - 2
      BY <1>1, <1>6, <2>2
    <3>2. /\ Len(Tail(s)) = Len(s) - 1
          /\ Tail(s) = [i \in 1 .. Len(s) - 1 |-> Tail(s)[i]]
          /\ \A i \in 1 .. Len(s) - 1 : /\ Tail(s)[i] = s[i + 1]
                                       /\ i + 1 \in 1 .. Len(s)
      BY <2>2, <3>1, TailOf
    <3> QED  BY <2>3, <3>1, <3>2
  <2>5. stack' = <<f>> \o t
    BY <1>2, <2>1, <2>3
  <2>6. /\ Len(stack') = Len(t) + 1 /\ stack'[1] = f
        /\ stack' = [i \in 1 .. Len(t) + 1 |-> stack'[i]]
        /\ \A i \in 1 .. Len(t) : stack'[i + 1] = t[i]
    <3>1. Len(t) \in Nat /\ t = [i \in 1 .. Len(t) |-> t[i]]
      BY <1>1, <1>6, <2>4
    <3> QED  BY <2>5, <3>1, PushOf
  <2>7. ASSUME NEW i \in 2 .. Len(stack) - 1 PROVE stack'[i] = stack[i + 1]
    <3>1. /\ i - 1 \in 1 .. Len(t) /\ (i - 1) + 1 = i /\ i \in 1 .. Len(stack) - 1
          /\ Len(t) = Len(stack) - 2
      BY <1>1, <1>6, <2>4
    <3> QED  BY <2>2, <2>4, <2>6, <3>1
  <2> QED  BY <1>1, <1>6, <2>4, <2>6, <2>7
<1>8. \A i \in 1 .. Len(stack) - 1 : /\ SoundFrame(stack'[i])
                                     /\ stack'[i].object.type = stack[i + 1].object.type
  BY <1>1, <1>4, <1>5, <1>6, <1>7 DEF StackOK, parent
<1>9. Nested(stack')
  <2> SUFFICES ASSUME NEW i \in 1 .. Len(stack) - 1
               PROVE  IF i = Len(stack) - 1 THEN stack'[i].object.type = "multistatus"
                      ELSE stack'[i].object.type \in Contains(stack'[i + 1].object.type)
    BY <1>7 DEF Nested
  <2>1. i + 1 \in DOMAIN stack /\ (i + 1 = Len(stack) <=> i = Len(stack) - 1)
    BY <1>1, <1>6
  <2>2. i # Len(stack) - 1 => i + 1 \in 1 .. Len(stack) - 1
    BY <1>6
  <2> QED  BY <1>1, <1>8, <2>1, <2>2 DEF StackOK, Nested
<1>10. StackOK' /\ stack' # << >>
  BY <1>1, <1>6, <1>7, <1>8, <1>9 DEF StackOK
<1> QED  BY <1>1, <1>10 DEF IInv, ModeOK, ErrorOK, ResultOK

LEMMA FinishStep == ASSUME IInv, Finish PROVE IInv'
<1>1. /\ mode = "parse" /\ Len(stack) = 1 /\ result' = Top /\ stack' = << >>
      /\ mode' = "done" /\ UNCHANGED <<error, errorSets, elements>>
  BY DEF Finish
<1>2. /\ Top.object \in SoundObject /\ Top.object.type = "multistatus"
      /\ ObjectRead(Top.object, Top.children)
  BY <1>1 DEF IInv, StackOK, Nested, SoundFrame, Top
<1>3. result'.object \in SoundMultiStatus /\ MultiStatusRead(result'.object, result'.children)
  BY <1>1, <1>2, SoundKinds DEF ObjectRead
<1>4. StackOK'
  BY <1>1 DEF StackOK, Nested
<1> QED  BY <1>1, <1>3, <1>4 DEF IInv, ModeOK, ErrorOK, ResultOK

LEMMA UnwindStep == ASSUME IInv, Unwind PROVE IInv'
<1>1. /\ mode = "unwind" /\ stack' = Tail(stack) /\ stack # << >>
      /\ mode' = IF Len(stack) = 1 THEN "done" ELSE "unwind"
      /\ UNCHANGED <<error, errorSets, result, elements>>
  BY DEF Unwind, IInv, ModeOK
<1>2. StackOK' /\ (stack' = << >> <=> Len(stack) = 1)
  BY <1>1, TopPopped DEF IInv
<1> QED  BY <1>1, <1>2 DEF IInv, ModeOK, ErrorOK, ResultOK

LEMMA IInvNext == IInv /\ [Next]_vars => IInv'
<1> SUFFICES ASSUME IInv, [Next]_vars PROVE IInv'
  OBVIOUS
<1>1. CASE NoDocument \/ Root \/ Unhandled \/ Close \/ Finish \/ Unwind
  BY <1>1, NoDocumentStep, RootStep, UnhandledStep, CloseStep, FinishStep, UnwindStep
<1>2. ASSUME NEW kind \in Kinds, Open(kind) PROVE IInv'
  BY <1>2, OpenStep
<1>3. ASSUME NEW kind \in {"href", "status"},
             BadLeaf(kind) \/ \E v \in Href \cup Status : Leaf(kind, v)
      PROVE  IInv'
  BY <1>3, BadLeafStep, LeafStep
<1>4. CASE UNCHANGED vars
  BY <1>4 DEF vars, IInv, StackOK, ModeOK, ErrorOK, ResultOK
<1> QED  BY <1>1, <1>2, <1>3, <1>4 DEF Next, Done, Kinds

LEMMA Invariant == Spec => []IInv
<1>1. Init => IInv
  BY BoundAssumption DEF Init, IInv, StackOK, Nested, ModeOK, ErrorOK, ResultOK
<1> QED  BY <1>1, IInvNext, PTL DEF Spec

-----------------------------------------------------------------------------
(* The theorems                                                            *)

\* A sound object has its type.
LEMMA SoundTyped == SoundObject \subseteq Object /\ SoundMultiStatus \subseteq MultiStatusObject
<1>1. SoundSet \subseteq PropObject
  BY DEF SoundSet
<1>2. SoundPropStat \subseteq PropStatObject
  BY <1>1 DEF SoundPropStat, PropStatObject
<1>3. SoundResponse \subseteq ResponseObject
  BY <1>2 DEF SoundResponse, ResponseObject
<1>4. SoundMultiStatus \subseteq MultiStatusObject
  BY <1>3 DEF SoundMultiStatus, MultiStatusObject
<1> QED  BY <1>1, <1>2, <1>3, <1>4 DEF SoundObject, Object, SoundLeaf

\* The objects under construction have their types and the activations nest as
\* the elements do, for documents of any size (gdav_parsable_new_from_xml_node).
THEOREM TypeCorrect == Spec => []TypeOK
<1>1. IInv => TypeOK
  BY SoundTyped DEF IInv, StackOK, SoundFrame, Nested, ModeOK, ErrorOK, ResultOK, TypeOK
<1> QED  BY <1>1, Invariant, PTL

\* A failure at any depth leaves one error, whatever a function without a return
\* statement yields (gdav_parsable_real_deserialize).
THEOREM OneError == Spec => []ErrorSetOnce
<1>1. IInv => ErrorSetOnce
  BY DEF IInv, ErrorOK, ErrorSetOnce
<1> QED  BY <1>1, Invariant, PTL

\* The types of all stored values are collected (gdav_property_set_collect_types).
THEOREM TypesCollected == Spec => []CollectTypesComplete
<1>1. IInv => CollectTypesComplete
  <2> SUFFICES ASSUME IInv, result # None,
                      NEW r \in Elements(result.object.responses),
                      NEW ps \in Elements(r.propstats), ps.prop # None
               PROVE  Elements(ps.prop.values) \subseteq CollectTypes(result.object)
    BY DEF CollectTypesComplete
  <2>1. result.object \in SoundMultiStatus
    BY DEF IInv, ResultOK
  <2>2. r \in SoundResponse
    BY <2>1 DEF SoundMultiStatus, Elements
  <2>3. ps \in SoundPropStat
    BY <2>2 DEF SoundResponse, Elements
  <2>4. Elements(ps.prop.values) \subseteq ps.prop.types
    BY <2>3 DEF SoundPropStat, SoundSet
  <2>5. ps.prop.types \subseteq PropStatTypes(ps)
    BY DEF PropStatTypes
  <2>6. PropStatTypes(ps) \subseteq ResponseTypes(r)
    BY DEF ResponseTypes
  <2>7. ResponseTypes(r) \subseteq CollectTypes(result.object)
    BY DEF CollectTypes
  <2> QED  BY <2>4, <2>5, <2>6, <2>7
<1> QED  BY <1>1, Invariant, PTL

-----------------------------------------------------------------------------
(* Queries                                                                 *)

\* The items in H are those for the children in D.
Corresponds(D, H, items, node, kind) ==
    /\ IsSequence(node) /\ OneEach(items, node, kind) /\ DOMAIN items = 1 .. Len(items)
    /\ D \in SUBSET Children(node, kind) /\ H \in SUBSET DOMAIN items
    /\ \A i \in Children(node, kind) : i \in D <=> Place(node, i) \in H

\* A search of the items finds the one for the child that the same search of
\* the document finds.
LEMMA FirstHit ==
    ASSUME NEW node, NEW kind, NEW items, NEW D, NEW H, Corresponds(D, H, items, node, kind)
    PROVE  /\ D = {} <=> H = {}
           /\ D # {} => First(D) \in D /\ First(H) = Place(node, First(D))
<1> /\ IsSequence(node) /\ OneEach(items, node, kind) /\ DOMAIN items = 1 .. Len(items)
    /\ D \in SUBSET Children(node, kind) /\ H \in SUBSET DOMAIN items
    /\ \A i \in Children(node, kind) : i \in D <=> Place(node, i) \in H
  BY DEF Corresponds
<1>1. /\ Children(node, kind) \in SUBSET (1 .. Len(node)) /\ Len(node) \in Nat
      /\ Cardinality(Children(node, kind)) \in Nat /\ Len(items) = Cardinality(Children(node, kind))
  BY ChildrenFinite DEF IsSequence, OneEach
<1>2. \A n \in H : \E i \in D : Place(node, i) = n
  BY DEF OneEach
<1>3. \A i \in D : Place(node, i) \in H
  OBVIOUS
<1>4. ASSUME D # {} PROVE First(D) \in D /\ First(H) = Place(node, First(D))
  <2>1. D \in SUBSET Nat /\ H \in SUBSET Nat
    BY <1>1
  <2>2. PICK i \in D : i = First(D) /\ \A j \in D : i <= j
    BY <1>4, <2>1, FirstOf
  <2>3. ASSUME NEW n \in H PROVE Place(node, i) <= n
    <3>1. PICK j \in D : Place(node, j) = n
      BY <1>2
    <3>2. i = j \/ i < j
      BY <2>1, <2>2
    <3>3. i < j => Place(node, i) < Place(node, j)
      BY PlaceRange
    <3>4. Place(node, i) \in Nat /\ n \in Nat
      BY <1>3, <2>1
    <3> QED  BY <3>1, <3>2, <3>3, <3>4
  <2>4. Place(node, i) \in H
    BY <1>3
  <2>5. First(H) = Place(node, i)
    BY <2>1, <2>3, <2>4, FirstOf
  <2> QED  BY <2>2, <2>5
<1> QED  BY <1>2, <1>3, <1>4

\* A propstat names the properties of the last prop element in its node.
LEMMA NamesMatch ==
    ASSUME NEW ps, NEW node, PropStatRead(ps, node), NEW p
    PROVE  HasType(ps.prop, p) <=> DocumentNames(node, p)
<1>1. CASE Children(node, "prop") = {}
  <2>1. Elements(LastValue(node, "prop", << >>)) = {}
    BY <1>1 DEF LastValue, Elements
  <2> QED  BY <1>1, <2>1 DEF PropStatRead, HasType, DocumentNames
<1>2. CASE Children(node, "prop") # {}
  <2>1. ps.prop # None /\ ps.prop.types = {c.kind : c \in Elements(LastValue(node, "prop", << >>))}
    BY <1>2 DEF PropStatRead, PropRead
  <2> QED  BY <2>1 DEF HasType, DocumentNames
<1> QED  BY <1>1, <1>2

\* ... and stores a value of each of them.
LEMMA ValuesStored ==
    ASSUME NEW ps, NEW node, PropStatRead(ps, node), NEW p, HasType(ps.prop, p)
    PROVE  \E i \in DOMAIN ps.prop.values : ps.prop.values[i] = p
<1>1. Elements(ps.prop.values) = ps.prop.types /\ p \in ps.prop.types
  BY DEF PropStatRead, PropRead, HasType
<1> QED  BY <1>1 DEF Elements

LEMMA FindMatches ==
    ASSUME NEW r \in SoundResponse, NEW node, ResponseRead(r, node), NEW p
    PROVE  FindProperty(r, p) = DocumentFind(node, p)
<1> DEFINE D == {i \in Children(node, "propstat") : DocumentNames(node[i].value, p)}
           H == {n \in DOMAIN r.propstats : HasType(r.propstats[n].prop, p)}
<1>1. /\ IsSequence(node) /\ OneEach(r.propstats, node, "propstat")
      /\ DOMAIN r.propstats = 1 .. Len(r.propstats)
      /\ \A i \in Children(node, "propstat") :
           PropStatRead(r.propstats[Place(node, i)], node[i].value)
  BY DEF ResponseRead, SoundResponse
<1>2. \A i \in Children(node, "propstat") : Place(node, i) \in DOMAIN r.propstats
  BY <1>1, PlaceRange DEF OneEach
<1>3. \A i \in Children(node, "propstat") :
        HasType(r.propstats[Place(node, i)].prop, p) <=> DocumentNames(node[i].value, p)
  BY <1>1, NamesMatch
<1>4. \A i \in Children(node, "propstat") : i \in D <=> Place(node, i) \in H
  BY <1>2, <1>3
<1>5. D \in SUBSET Children(node, "propstat") /\ H \in SUBSET DOMAIN r.propstats
  OBVIOUS
<1>6. FindProperty(r, p) =
        IF H = {} THEN [status |-> 0, value |-> FALSE]
        ELSE [status |-> r.propstats[First(H)].status,
              value  |-> /\ r.propstats[First(H)].status = 200
                         /\ \E i \in DOMAIN r.propstats[First(H)].prop.values :
                              r.propstats[First(H)].prop.values[i] = p]
  BY DEF FindProperty
<1>7. DocumentFind(node, p) =
        IF D = {} THEN [status |-> 0, value |-> FALSE]
        ELSE [status |-> LastValue(node[First(D)].value, "status", 0),
              value  |-> LastValue(node[First(D)].value, "status", 0) = 200]
  BY DEF DocumentFind
<1>9. \A n \in H : HasType(r.propstats[n].prop, p)
  OBVIOUS
<1> HIDE DEF D, H
<1>8. /\ D = {} <=> H = {}
      /\ D # {} => First(D) \in D /\ First(H) = Place(node, First(D))
  <2>1. Corresponds(D, H, r.propstats, node, "propstat")
    BY <1>1, <1>4, <1>5 DEF Corresponds
  <2> QED  BY <2>1, FirstHit
<1>10. CASE D = {}
  BY <1>6, <1>7, <1>8, <1>10
<1>11. CASE D # {}
  <2>1. PICK ps, n : ps = r.propstats[First(H)] /\ n = node[First(D)].value
    OBVIOUS
  <2>2. First(D) \in Children(node, "propstat") /\ First(H) = Place(node, First(D)) /\ First(H) \in H
    BY <1>4, <1>5, <1>8, <1>11
  <2>3. PropStatRead(ps, n)
    BY <1>1, <2>1, <2>2
  <2>4. HasType(ps.prop, p)
    BY <1>9, <2>1, <2>2
  <2>5. \E i \in DOMAIN ps.prop.values : ps.prop.values[i] = p
    BY <2>3, <2>4, ValuesStored
  <2>6. ps.status = LastValue(n, "status", 0)
    BY <2>3 DEF PropStatRead
  <2>7. FindProperty(r, p) = [status |-> ps.status, value |-> ps.status = 200]
    BY <1>6, <1>8, <1>11, <2>1, <2>5
  <2>8. DocumentFind(node, p) = [status |-> ps.status, value |-> ps.status = 200]
    BY <1>7, <1>11, <2>1, <2>6
  <2> QED  BY <2>7, <2>8
<1> QED  BY <1>10, <1>11

LEMMA HrefMatches ==
    ASSUME NEW ms \in SoundMultiStatus, NEW node, MultiStatusRead(ms, node), NEW h \in Href
    PROVE  ResponseByHref(ms, h) = DocumentByHref(node, h)
<1> DEFINE D == {i \in Children(node, "response") :
                   [kind |-> "href", value |-> h] \in Elements(node[i].value)}
           H == {n \in DOMAIN ms.responses :
                   \E j \in DOMAIN ms.responses[n].hrefs : ms.responses[n].hrefs[j] = h}
<1>1. /\ IsSequence(node) /\ OneEach(ms.responses, node, "response")
      /\ DOMAIN ms.responses = 1 .. Len(ms.responses)
      /\ \A i \in Children(node, "response") :
           ResponseRead(ms.responses[Place(node, i)], node[i].value)
  BY DEF MultiStatusRead, SoundMultiStatus
<1>2. \A i \in Children(node, "response") : Place(node, i) \in DOMAIN ms.responses
  BY <1>1, PlaceRange DEF OneEach
<1>3. \A i \in Children(node, "response") :
        h \in Elements(ms.responses[Place(node, i)].hrefs)
          <=> [kind |-> "href", value |-> h] \in Elements(node[i].value)
  BY <1>1 DEF ResponseRead
<1>4. \A i \in Children(node, "response") : i \in D <=> Place(node, i) \in H
  BY <1>2, <1>3 DEF Elements
<1>5. D \in SUBSET Children(node, "response") /\ H \in SUBSET DOMAIN ms.responses
  OBVIOUS
<1>6. ResponseByHref(ms, h) = IF H = {} THEN 0 ELSE First(H)
  BY DEF ResponseByHref
<1>7. DocumentByHref(node, h) = IF D = {} THEN 0 ELSE Place(node, First(D))
  BY DEF DocumentByHref
<1> HIDE DEF D, H
<1>8. /\ D = {} <=> H = {}
      /\ D # {} => First(D) \in D /\ First(H) = Place(node, First(D))
  <2>1. Corresponds(D, H, ms.responses, node, "response")
    BY <1>1, <1>4, <1>5 DEF Corresponds
  <2> QED  BY <2>1, FirstHit
<1> QED  BY <1>6, <1>7, <1>8

LEMMA QueriesMatch == IInv => QueriesMatchDocument
<1> SUFFICES ASSUME IInv, mode = "done", result # None
             PROVE  /\ Len(result.object.responses)
                         = Cardinality(Children(result.children, "response"))
                    /\ \A i \in Children(result.children, "response"), p \in PropertyType :
                         FindProperty(result.object.responses[Place(result.children, i)], p)
                           = DocumentFind(result.children[i].value, p)
                    /\ \A h \in Href :
                         ResponseByHref(result.object, h)
                           = DocumentByHref(result.children, h)
  BY DEF QueriesMatchDocument
<1>1. result.object \in SoundMultiStatus /\ MultiStatusRead(result.object, result.children)
  BY DEF IInv, ResultOK
<1>2. PICK ms, node : ms = result.object /\ node = result.children
  OBVIOUS
<1>3. ms \in SoundMultiStatus /\ MultiStatusRead(ms, node)
  BY <1>1, <1>2
<1>4. /\ IsSequence(node) /\ OneEach(ms.responses, node, "response")
      /\ Len(ms.responses) = Cardinality(Children(node, "response"))
  BY <1>3 DEF MultiStatusRead, OneEach
<1>5. ASSUME NEW i \in Children(node, "response"), NEW p \in PropertyType
      PROVE  FindProperty(ms.responses[Place(node, i)], p) = DocumentFind(node[i].value, p)
  <2>1. Place(node, i) \in 1 .. Len(ms.responses)
    BY <1>4, PlaceRange
  <2>2. ms.responses[Place(node, i)] \in SoundResponse
    BY <1>3, <2>1 DEF SoundMultiStatus
  <2>3. ResponseRead(ms.responses[Place(node, i)], node[i].value)
    BY <1>3 DEF MultiStatusRead
  <2> QED  BY <2>2, <2>3, FindMatches
<1> QED  BY <1>2, <1>3, <1>4, <1>5, HrefMatches

\* Whatever the order, repetition or replacement of elements in the document,
\* find_property and get_response_by_href answer what it says
\* (gdav_response_deserialize_dav, gdav_response_find_property).
THEOREM QueriesAnswered == Spec => []QueriesMatchDocument
BY Invariant, QueriesMatch, PTL

-----------------------------------------------------------------------------
(* Objects and errors                                                      *)

\* Unwinding starts with an error; what is finished is a frame.
Accounted ==
    /\ mode = "unwind" => error # "none"
    /\ mode = "done" /\ error = "none" => result # None

LEMMA AccountedNext ==
    ASSUME FALSE \notin Fallthrough, IInv, Accounted, [Next]_vars,
           \A x, y : None # [object |-> x, children |-> y]
    PROVE  Accounted'
<1>1. CASE NoDocument
  BY <1>1 DEF NoDocument, SetError, Accounted
<1>2. CASE Root \/ Close
  BY <1>2 DEF Root, Close, Accounted
<1>3. ASSUME NEW kind, Open(kind) PROVE Accounted'
  BY <1>3 DEF Open, Child, Accounted
<1>4. ASSUME NEW kind, NEW v, Leaf(kind, v) PROVE Accounted'
  BY <1>4 DEF Leaf, Child, Accounted
<1>5. ASSUME NEW kind, BadLeaf(kind) PROVE Accounted'
  BY <1>5 DEF BadLeaf, Child, SetError, Accounted
<1>6. CASE Unhandled
  BY <1>6, FallthroughAssumption DEF Unhandled, Child, Accounted
<1>7. CASE Finish
  <2>1. SoundFrame(Top)
    BY <1>7 DEF Finish, IInv, StackOK, Top
  <2> QED  BY <1>7, <2>1 DEF Finish, SoundFrame, Accounted
<1>8. CASE Unwind
  BY <1>8 DEF Unwind, Accounted
<1>9. CASE UNCHANGED vars
  BY <1>9 DEF vars, Accounted
<1> QED  BY <1>1, <1>2, <1>3, <1>4, <1>5, <1>6, <1>7, <1>8, <1>9 DEF Next, Done

\* In a build in which no function without a return statement yields FALSE, the
\* parser returns an object or an error, as its caller asserts
\* (gdav_propfind_request_cb): the missing return is all that is wrong.
THEOREM ObjectsOrErrors ==
    ASSUME FALSE \notin Fallthrough, \A x, y : None # [object |-> x, children |-> y]
    PROVE  Spec => []ObjectOrError
<1>1. Init => Accounted
  BY DEF Init, Accounted
<1>2. IInv /\ Accounted /\ [Next]_vars => Accounted'
  BY AccountedNext
<1>3. IInv /\ Accounted => ObjectOrError
  BY DEF IInv, ResultOK, Accounted, ObjectOrError
<1> QED  BY <1>1, <1>2, <1>3, Invariant, PTL DEF Spec

-----------------------------------------------------------------------------
(* The end of a parse                                                      *)

\* The steps that a parse may still take: two for each element that is left,
\* one to read it and one to leave it, and one for each activation.
StepsLeft ==
    2 * (MaxElements - elements) + Len(stack) + (IF mode = "start" THEN 2 ELSE 0)

\* Every step brings the parse nearer to its end, and the first error is final:
\* no element is read after it, it is neither replaced nor cleared, and no
\* object comes out of the activations that are left.
ParseAdvances ==
    [][mode # "done" =>
         /\ StepsLeft' < StepsLeft
         /\ error # "none" => UNCHANGED <<error, errorSets, elements, result>>]_vars

\* The step takes n activations off or puts one on.
LEMMA Nearer ==
    ASSUME IInv, mode # "start", mode' # "start", elements' \in Nat, Len(stack') \in Nat,
           \/ elements' = elements + 1 /\ Len(stack') <= Len(stack) + 1
           \/ elements' = elements /\ Len(stack') < Len(stack)
    PROVE  StepsLeft' < StepsLeft
<1>1. /\ elements \in Nat /\ MaxElements \in Nat /\ Len(stack) \in Nat
  BY BoundAssumption DEF IInv, StackOK
<1>2. StepsLeft = 2 * (MaxElements - elements) + Len(stack)
      /\ StepsLeft' = 2 * (MaxElements - elements') + Len(stack')
  BY <1>1 DEF StepsLeft
<1> QED  BY <1>1, <1>2

\* What the steps of a parse do to the number of activations.
LEMMA Lengths ==
    ASSUME IInv, stack # << >>, NEW f
    PROVE  /\ Len(stack) \in Nat \ {0}
           /\ Len(<<f>> \o stack) = Len(stack) + 1
           /\ Len(Tail(stack)) = Len(stack) - 1
           /\ Len(<<f>> \o Tail(stack)) = Len(stack)
           /\ Len(stack) > 1 => Len(<<f>> \o Tail(Tail(stack))) = Len(stack) - 1
<1>1. Len(stack) \in Nat \ {0} /\ stack = [i \in 1 .. Len(stack) |-> stack[i]]
  BY DEF IInv, StackOK
<1>2. /\ Len(Tail(stack)) = Len(stack) - 1
      /\ Tail(stack) = [i \in 1 .. Len(stack) - 1 |-> Tail(stack)[i]]
  BY <1>1, TailOf
<1>3. PICK t : t = Tail(stack) /\ Len(t) \in Nat /\ t = [i \in 1 .. Len(t) |-> t[i]]
  <2>1. Len(Tail(stack)) \in Nat
    BY <1>1, <1>2
  <2>2. Tail(stack) = [i \in 1 .. Len(Tail(stack)) |-> Tail(stack)[i]]
    BY <1>2
  <2> QED  BY <2>1, <2>2
<1>4. Len(<<f>> \o stack) = Len(stack) + 1
  BY <1>1, PushOf
<1>5. Len(<<f>> \o t) = Len(t) + 1
  BY <1>3, PushOf
<1>6. Len(stack) > 1 => Len(<<f>> \o Tail(t)) = Len(stack) - 1
  <2> SUFFICES ASSUME Len(stack) > 1 PROVE Len(<<f>> \o Tail(t)) = Len(stack) - 1
    OBVIOUS
  <2>1. Len(t) \in Nat \ {0}
    BY <1>1, <1>2, <1>3
  <2>2. PICK u : u = Tail(t) /\ Len(u) = Len(t) - 1 /\ Len(u) \in Nat
                 /\ u = [i \in 1 .. Len(u) |-> u[i]]
    <3>1. Len(Tail(t)) = Len(t) - 1 /\ Tail(t) = [i \in 1 .. Len(t) - 1 |-> Tail(t)[i]]
      BY <1>3, <2>1, TailOf
    <3>2. Len(Tail(t)) \in Nat
      BY <2>1, <3>1
    <3>3. Tail(t) = [i \in 1 .. Len(Tail(t)) |-> Tail(t)[i]]
      BY <3>1
    <3> QED  BY <3>1, <3>2, <3>3
  <2>3. Len(<<f>> \o u) = Len(u) + 1
    BY <2>2, PushOf
  <2> QED  BY <1>1, <1>2, <1>3, <2>2, <2>3
<1> QED  BY <1>1, <1>2, <1>3, <1>4, <1>5, <1>6

LEMMA ChildNearer ==
    ASSUME IInv, NEW kind, Child(kind), mode' # "start", Len(stack') \in Nat,
           Len(stack') <= Len(stack) + 1
    PROVE  StepsLeft' < StepsLeft /\ error = "none"
<1>1. /\ mode = "parse" /\ error = "none" /\ elements' = elements + 1
      /\ elements \in Nat
  BY BoundAssumption DEF Child, IInv, ErrorOK
<1>2. elements' \in Nat
  BY <1>1
<1> QED  BY <1>1, <1>2, Nearer

\* The body of a response, whatever it is, is parsed in at most two steps for each
\* of its elements and two more (gdav_parsable_new_from_data), and after a failure
\* all callers of gdav_parsable_new_from_xml_node return without reading on.
THEOREM ParsesEnd == Spec => ParseAdvances
<1> DEFINE Final == error # "none" => UNCHANGED <<error, errorSets, elements, result>>
           Goal == mode # "done" => StepsLeft' < StepsLeft /\ Final
<1>1. ASSUME IInv, NoDocument PROVE Goal
  <2>1. /\ mode = "start" /\ mode' = "done" /\ UNCHANGED <<stack, elements>>
        /\ error = "none"
    BY <1>1 DEF NoDocument, IInv, ErrorOK
  <2>2. elements \in Nat /\ MaxElements \in Nat /\ Len(stack) \in Nat
    BY <1>1, BoundAssumption DEF IInv, StackOK
  <2> QED  BY <2>1, <2>2 DEF StepsLeft
<1>2. ASSUME IInv, Root PROVE Goal
  <2>1. /\ mode = "start" /\ mode' = "parse" /\ elements' = elements
        /\ error = "none" /\ stack = << >> /\ Len(stack') = 1
    BY <1>2 DEF Root, IInv, ModeOK, ErrorOK
  <2>2. elements \in Nat /\ MaxElements \in Nat
    BY <1>2, BoundAssumption DEF IInv
  <2>3. Len(stack) = 0
    BY <2>1
  <2>4. StepsLeft = 2 * (MaxElements - elements) + 2
        /\ StepsLeft' = 2 * (MaxElements - elements) + 1
    BY <2>1, <2>2, <2>3 DEF StepsLeft
  <2> QED  BY <2>1, <2>2, <2>4
<1>3. ASSUME IInv, NEW kind, Open(kind) PROVE Goal
  <2>1. Child(kind) /\ mode' = "parse" /\ stack' = <<Frame(kind)>> \o stack /\ stack # << >>
    BY <1>3 DEF Open, Child, IInv, ModeOK
  <2>2. Len(stack') = Len(stack) + 1 /\ Len(stack) \in Nat
    BY <1>3, <2>1, Lengths
  <2> QED  BY <1>3, <2>1, <2>2, ChildNearer
<1>4. ASSUME IInv, NEW kind, NEW v, Leaf(kind, v) PROVE Goal
  <2>1. PICK f : stack' = <<f>> \o Tail(stack)
    BY <1>4 DEF Leaf
  <2>2. Child(kind) /\ mode' = "parse" /\ stack # << >>
    BY <1>4 DEF Leaf, Child, IInv, ModeOK
  <2>3. Len(stack') = Len(stack) /\ Len(stack) \in Nat
    BY <1>4, <2>1, <2>2, Lengths
  <2> QED  BY <1>4, <2>2, <2>3, ChildNearer
<1>5. ASSUME IInv, NEW kind, BadLeaf(kind) PROVE Goal
  <2>1. Child(kind) /\ mode' = "unwind" /\ stack' = stack /\ Len(stack) \in Nat
    BY <1>5 DEF BadLeaf, IInv, StackOK
  <2> QED  BY <1>5, <2>1, ChildNearer
<1>6. ASSUME IInv, Unhandled PROVE Goal
  <2>1. Child("other") /\ mode' # "start" /\ stack' = stack /\ Len(stack) \in Nat
    BY <1>6 DEF Unhandled, IInv, StackOK
  <2> QED  BY <1>6, <2>1, ChildNearer
<1>7. ASSUME IInv, Close PROVE Goal
  <2>1. PICK f : stack' = <<f>> \o Tail(Tail(stack))
    BY <1>7 DEF Close
  <2>2. /\ mode = "parse" /\ mode' = "parse" /\ Len(stack) > 1 /\ stack # << >>
        /\ UNCHANGED <<error, errorSets, elements, result>>
    BY <1>7 DEF Close, IInv, ModeOK
  <2>3. Len(stack') = Len(stack) - 1 /\ Len(stack) \in Nat \ {0}
    BY <1>7, <2>1, <2>2, Lengths
  <2>4. elements \in Nat
    BY <1>7, BoundAssumption DEF IInv
  <2> QED  BY <1>7, <2>2, <2>3, <2>4, Nearer
<1>8. ASSUME IInv, Finish PROVE Goal
  <2>1. /\ mode = "parse" /\ mode' = "done" /\ Len(stack) = 1 /\ stack' = << >>
        /\ UNCHANGED elements /\ error = "none"
    BY <1>8 DEF Finish, IInv, ErrorOK
  <2>2. elements \in Nat /\ Len(stack') = 0
    BY <1>8, <2>1, BoundAssumption DEF IInv
  <2> QED  BY <1>8, <2>1, <2>2, Nearer
<1>9. ASSUME IInv, Unwind PROVE Goal
  <2>1. /\ mode = "unwind" /\ mode' # "start" /\ stack' = Tail(stack) /\ stack # << >>
        /\ UNCHANGED <<error, errorSets, elements, result>>
    BY <1>9 DEF Unwind, IInv, ModeOK
  <2>2. Len(stack') = Len(stack) - 1 /\ Len(stack) \in Nat \ {0}
    BY <1>9, <2>1, Lengths
  <2>3. elements \in Nat
    BY <1>9, BoundAssumption DEF IInv
  <2> QED  BY <1>9, <2>1, <2>2, <2>3, Nearer
<1>10. ASSUME Done PROVE UNCHANGED vars
  BY <1>10 DEF Done
<1>11. IInv /\ [Next]_vars => Goal \/ UNCHANGED vars
  <2> HIDE DEF Goal
  <2> QED  BY <1>1, <1>2, <1>3, <1>4, <1>5, <1>6, <1>7, <1>8, <1>9, <1>10 DEF Next
<1>12. IInv /\ [Next]_vars => [Goal]_vars
  BY <1>11
<1> QED  BY <1>12, Invariant, PTL DEF Spec, ParseAdvances
=============================================================================
