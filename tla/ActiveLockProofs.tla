-------------------------- MODULE ActiveLockProofs --------------------------
(***************************************************************************)
(* Proofs about ActiveLock, for any strings, G_MAXINT32, properties that   *)
(* the application changes and bounds: the fields stay legal, and two      *)
(* locks bound to one another agree at rest.                               *)
(*                                                                         *)
(* PeersAgree is not inductive.  What a step preserves is that any         *)
(* difference between the locks is still to be notified (Pending), by the  *)
(* lock that has the later value: it is collected while notifications are  *)
(* frozen, waits in a dispatch, is about to be followed, or is the reason  *)
(* for an emission to restart.                                             *)
(***************************************************************************)
EXTENDS ActiveLock, FiniteSetTheorems, TLAPS

-----------------------------------------------------------------------------
(* The inductive invariant                                                 *)

\* A frame emits a property, or dispatches.
GoodFrame == {f \in FrameType : f.handler = "next" <=> f.prop = "none"}

\* The frame will yet have the change of p on o followed.
Follows(f, o, p) ==
    /\ f.object = o
    /\ p \in f.todo \/ (f.prop = p /\ (f.handler = "follow" \/ f.restart))

OnStack(o, p, s) == \E i \in DOMAIN s : Follows(s[i], o, p)

Pending(o, p) == p \in queue[o] \/ OnStack(o, p, stack)

\* Functions of the right shape; their values are in TypeOK.
ShapeOK ==
    /\ lock = [o \in Lock |-> lock[o]]
    /\ \A o \in Lock : lock[o] = [p \in Prop |-> lock[o][p]]

FramesOK == stack \in Seq(GoodFrame)

\* Only frozen notifications are collected.
QueueOK == \A o \in Lock : frozen[o] = 0 => queue[o] = {}

\* Handlers run while the locks exist.
MadeOK == stack # << >> => made # "none"

DifferencesPending ==
    \A p \in Prop :
        lock[A][p] # lock[B][p] =>
            \E o \in Lock : Pending(o, p) /\ Accepts(p, lock[o][p])

IInv ==
    /\ TypeOK /\ ShapeOK /\ FramesOK /\ QueueOK /\ MadeOK
    /\ RootKnown /\ TimeoutMeaning /\ DifferencesPending

-----------------------------------------------------------------------------
(* Fields                                                                  *)

\* A legal value is a legal argument, and is stored as it is.
LEMMA ValueStored ==
    ASSUME NEW p \in Prop, NEW v \in Value[p]
    PROVE  v \in Argument(p) /\ Stored(p, v) = v
BY BoundsAssumption DEF Value, Argument, Stored, Clamp, Prop

\* Whatever a setter is called with, it stores a legal value.
LEMMA StoredLegal ==
    ASSUME NEW p \in Prop, NEW v \in Argument(p)
    PROVE  Stored(p, v) \in Value[p]
BY BoundsAssumption DEF Value, Argument, Stored, Clamp, Prop

\* An infinite timeout is stored as -1, any other as it is.
LEMMA StoredTimeout ==
    ASSUME NEW v \in Argument("timeout")
    PROVE  v \in Int /\ Stored("timeout", v) = IF v < 0 THEN -1 ELSE v
BY BoundsAssumption DEF Argument, Stored, Clamp

LEMMA LegalRoot == Accepts("lock_root", Null) = FALSE
BY DEF Accepts

-----------------------------------------------------------------------------
(* Stacks of frames                                                        *)

\* What is on a stack with another frame on top.
LEMMA Pushed ==
    ASSUME NEW s \in Seq(GoodFrame), NEW f \in GoodFrame, NEW o, NEW p
    PROVE  /\ <<f>> \o s \in Seq(GoodFrame)
           /\ <<f>> \o s # << >>
           /\ OnStack(o, p, <<f>> \o s) <=> Follows(f, o, p) \/ OnStack(o, p, s)
<1> DEFINE t == <<f>> \o s
<1>1. t \in Seq(GoodFrame) /\ Len(t) = Len(s) + 1 /\ t[1] = f
  OBVIOUS
<1>2. \A i \in 1 .. Len(s) : t[i + 1] = s[i]
  OBVIOUS
<1>3. \A i \in 2 .. Len(t) : i - 1 \in 1 .. Len(s) /\ t[i] = s[i - 1]
  BY <1>1, <1>2
<1> HIDE DEF t
<1>4. OnStack(o, p, t) <=> Follows(f, o, p) \/ OnStack(o, p, s)
  <2>1. ASSUME OnStack(o, p, t) PROVE Follows(f, o, p) \/ OnStack(o, p, s)
    <3>1. PICK i \in 1 .. Len(t) : Follows(t[i], o, p)
      BY <1>1, <2>1 DEF OnStack
    <3>2. CASE i = 1
      BY <3>1, <3>2, <1>1
    <3>3. CASE i # 1
      BY <3>1, <3>3, <1>1, <1>3 DEF OnStack
    <3> QED  BY <3>2, <3>3
  <2>2. ASSUME Follows(f, o, p) PROVE OnStack(o, p, t)
    BY <2>2, <1>1 DEF OnStack
  <2>3. ASSUME OnStack(o, p, s) PROVE OnStack(o, p, t)
    BY <2>3, <1>1, <1>2 DEF OnStack
  <2> QED  BY <2>1, <2>2, <2>3
<1>5. t # << >>
  BY <1>1
<1> QED  BY <1>1, <1>4, <1>5 DEF t

\* What is on a stack is on its top or below.
LEMMA Popped ==
    ASSUME NEW s \in Seq(GoodFrame), s # << >>, NEW o, NEW p
    PROVE  /\ Head(s) \in GoodFrame /\ Tail(s) \in Seq(GoodFrame)
           /\ OnStack(o, p, s) <=> Follows(Head(s), o, p) \/ OnStack(o, p, Tail(s))
<1>1. Head(s) \in GoodFrame /\ Tail(s) \in Seq(GoodFrame) /\ s = <<Head(s)>> \o Tail(s)
  OBVIOUS
<1> QED  BY <1>1, Pushed

\* An emission that restarts will follow the property; nothing else is lost.
LEMMA RestartedFrames ==
    ASSUME NEW s \in Seq(GoodFrame), NEW o, NEW p
    PROVE  /\ Restarted(o, p, s) \in Seq(GoodFrame)
           /\ Emitting(o, p, s) => OnStack(o, p, Restarted(o, p, s))
           /\ \A q, r : OnStack(q, r, s) => OnStack(q, r, Restarted(o, p, s))
<1> DEFINE t == Restarted(o, p, s)
<1>1. DOMAIN t = DOMAIN s /\ DOMAIN s = 1 .. Len(s) /\ Len(s) \in Nat
  BY DEF Restarted
<1>2. \A i \in DOMAIN s :
        t[i] = IF s[i].object = o /\ s[i].prop = p
               THEN [s[i] EXCEPT !.restart = TRUE] ELSE s[i]
  BY DEF Restarted
<1>3. \A i \in DOMAIN s : s[i] \in GoodFrame
  BY <1>1
<1>4. ASSUME NEW i \in DOMAIN s
      PROVE  /\ t[i] \in GoodFrame
             /\ s[i].object = o /\ s[i].prop = p => Follows(t[i], o, p)
             /\ \A q, r : Follows(s[i], q, r) => Follows(t[i], q, r)
  <2> HIDE DEF t
  <2>1. CASE s[i].object = o /\ s[i].prop = p
    <3>1. t[i] = [s[i] EXCEPT !.restart = TRUE]
      BY <1>2, <2>1
    <3> QED  BY <1>3, <2>1, <3>1 DEF GoodFrame, FrameType, Follows
  <2>2. CASE ~(s[i].object = o /\ s[i].prop = p)
    BY <1>2, <1>3, <2>2
  <2> QED  BY <2>1, <2>2
<1>5. t \in Seq(GoodFrame)
  <2>1. t = [i \in 1 .. Len(s) |-> t[i]]
    BY <1>1 DEF Restarted
  <2> HIDE DEF t
  <2> QED  BY <2>1, <1>1, <1>4
<1> HIDE DEF t
<1> QED  BY <1>1, <1>4, <1>5 DEF OnStack, Emitting, t

LEMMA FollowFrame ==
    ASSUME NEW o \in Lock, NEW p \in Prop, NEW T \in SUBSET Prop
    PROVE  /\ Frame(o, p, T, "follow") \in GoodFrame
           /\ \A q \in T \cup {p} : Follows(Frame(o, p, T, "follow"), o, q)
BY DEF Frame, GoodFrame, FrameType, Follows, Prop

LEMMA DispatchFrame ==
    ASSUME NEW o \in Lock, NEW T \in SUBSET Prop
    PROVE  /\ Dispatch(o, T) \in GoodFrame
           /\ \A p \in T : Follows(Dispatch(o, T), o, p)
           /\ \A q, p : Follows(Dispatch(o, T), q, p) /\ p \in Prop => q = o /\ p \in T
BY DEF Dispatch, Frame, GoodFrame, FrameType, Follows, Prop

\* After an emission the change of its property will be followed, and so will
\* all that would have been before.
LEMMA EmittedFrames ==
    ASSUME NEW s \in Seq(GoodFrame), NEW o \in Lock, NEW p \in Prop
    PROVE  /\ Emitted(o, p, s) \in Seq(GoodFrame)
           /\ OnStack(o, p, Emitted(o, p, s))
           /\ \A q, r : OnStack(q, r, s) => OnStack(q, r, Emitted(o, p, s))
<1>1. CASE Emitting(o, p, s)
  BY <1>1, RestartedFrames DEF Emitted
<1>2. CASE ~Emitting(o, p, s)
  <2>1. Emitted(o, p, s) = <<Frame(o, p, {}, "follow")>> \o s
    BY <1>2 DEF Emitted
  <2>2. Frame(o, p, {}, "follow") \in GoodFrame /\ Follows(Frame(o, p, {}, "follow"), o, p)
    BY FollowFrame
  <2> QED  BY <2>1, <2>2, Pushed
<1> QED  BY <1>1, <1>2

-----------------------------------------------------------------------------
(* What a setter does                                                      *)

\* Whether notifications are frozen or not, the change will be followed.
LEMMA Notified ==
    ASSUME TypeOK, QueueOK, NEW o \in Lock, NEW p \in Prop,
           NEW s \in Seq(GoodFrame), Notify(o, p, s), UNCHANGED frozen
    PROVE  /\ stack' \in Seq(GoodFrame)
           /\ queue' \in [Lock -> SUBSET Prop]
           /\ QueueOK'
           /\ Pending(o, p)'
           /\ \A q, r : OnStack(q, r, s) => OnStack(q, r, stack')
           /\ \A q \in Lock : queue[q] \subseteq queue'[q]
<1>1. CASE frozen[o] > 0
  <2>1. stack' = s /\ queue' = [queue EXCEPT ![o] = @ \cup {p}]
    BY <1>1 DEF Notify
  <2>2. frozen[o] # 0 /\ queue \in [Lock -> SUBSET Prop]
    BY <1>1 DEF TypeOK
  <2> QED  BY <2>1, <2>2 DEF QueueOK, Pending
<1>2. CASE ~(frozen[o] > 0)
  <2>1. stack' = Emitted(o, p, s) /\ queue' = queue
    BY <1>2 DEF Notify
  <2> QED  BY <2>1, EmittedFrames DEF TypeOK, QueueOK, Pending
<1> QED  BY <1>1, <1>2

\* The setter stores a legal value that differs and has it notified, or does
\* nothing.
LEMMA FieldStored ==
    ASSUME TypeOK, ShapeOK, QueueOK, NEW o \in Lock, NEW p \in Prop,
           NEW v \in Argument(p), NEW s \in Seq(GoodFrame),
           SetField(o, p, v, s), UNCHANGED frozen
    PROVE  /\ ShapeOK' /\ QueueOK'
           /\ stack' \in Seq(GoodFrame)
           /\ queue' \in [Lock -> SUBSET Prop]
           /\ \A q \in Lock, r \in Prop :
                lock'[q][r] = IF q = o /\ r = p /\ Changes(o, p, v)
                              THEN Stored(p, v) ELSE lock[q][r]
           /\ Changes(o, p, v) => Pending(o, p)'
           /\ \A q, r : OnStack(q, r, s) => OnStack(q, r, stack')
           /\ \A q \in Lock : queue[q] \subseteq queue'[q]
<1>1. CASE Changes(o, p, v)
  <2>1. lock' = [lock EXCEPT ![o][p] = Stored(p, v)] /\ Notify(o, p, s)
    BY <1>1 DEF SetField
  <2>2. ShapeOK' /\ \A q \in Lock, r \in Prop :
          lock'[q][r] = IF q = o /\ r = p THEN Stored(p, v) ELSE lock[q][r]
    BY <2>1 DEF ShapeOK
  <2>3. /\ stack' \in Seq(GoodFrame) /\ queue' \in [Lock -> SUBSET Prop]
        /\ QueueOK' /\ Pending(o, p)'
        /\ \A q, r : OnStack(q, r, s) => OnStack(q, r, stack')
        /\ \A q \in Lock : queue[q] \subseteq queue'[q]
    BY <2>1, Notified
  <2> QED  BY <1>1, <2>2, <2>3
<1>2. CASE ~Changes(o, p, v)
  <2>1. lock' = lock /\ queue' = queue /\ stack' = s
    BY <1>2 DEF SetField
  <2> QED  BY <1>2, <2>1 DEF ShapeOK, QueueOK, TypeOK
<1> QED  BY <1>1, <1>2

\* A property that no step touched keeps what is pending for it.
LEMMA PendingKept ==
    ASSUME DifferencesPending, NEW p \in Prop,
           lock'[A][p] = lock[A][p], lock'[B][p] = lock[B][p],
           \A o \in Lock : Pending(o, p) => Pending(o, p)'
    PROVE  lock'[A][p] # lock'[B][p] =>
               \E o \in Lock : Pending(o, p)' /\ Accepts(p, lock'[o][p])
BY DEF DifferencesPending, Lock

\* The bound on the calls.
LEMMA Counted ==
    ASSUME calls \in 0 .. MaxCalls, NEW n \in {0, 1}, n = 1 => calls < MaxCalls,
           Count(n)
    PROVE  calls' \in 0 .. MaxCalls
BY BoundsAssumption DEF Count

\* Good frames are frames.
LEMMA FramesTyped == ASSUME NEW s \in Seq(GoodFrame) PROVE s \in Seq(FrameType)
BY DEF GoodFrame

\* The stored timeout, if one was asked for.
LEMMA TimeoutKept ==
    ASSUME NEW o \in Lock, NEW p \in Prop, NEW v \in Argument(p),
           TypeOK, ShapeOK, TimeoutMeaning, made' = made, Ask(o, p, v),
           \A q \in Lock, r \in Prop :
               lock'[q][r] = IF q = o /\ r = p /\ Changes(o, p, v)
                             THEN Stored(p, v) ELSE lock[q][r]
    PROVE  TimeoutMeaning' /\ asked' \in [Lock -> Int]
<1>1. asked \in [Lock -> Int] /\ "timeout" \in Prop
  BY DEF TypeOK, Prop
<1>2. CASE p = "timeout"
  <2>1. v \in Int /\ asked' = [asked EXCEPT ![o] = v]
    BY <1>2, StoredTimeout DEF Ask
  <2>2. lock'[o]["timeout"] = Stored("timeout", v)
    BY <1>1, <1>2 DEF Changes, Accepts
  <2>3. \A q \in Lock : q # o => lock'[q]["timeout"] = lock[q]["timeout"]
    BY <1>1
  <2> QED  BY <1>1, <1>2, <2>1, <2>2, <2>3, StoredTimeout DEF TimeoutMeaning
<1>3. CASE p # "timeout"
  <2>1. asked' = asked
    BY <1>3 DEF Ask
  <2>2. \A q \in Lock : lock'[q]["timeout"] = lock[q]["timeout"]
    BY <1>1, <1>3
  <2> QED  BY <1>1, <2>1, <2>2 DEF TimeoutMeaning
<1> QED  BY <1>2, <1>3

\* The setter stores legal values and keeps a root.
LEMMA LegalKept ==
    ASSUME NEW o \in Lock, NEW p \in Prop, NEW v \in Argument(p),
           TypeOK, RootKnown, made' = made, made # "none",
           \A q \in Lock, r \in Prop :
               lock'[q][r] = IF q = o /\ r = p /\ Changes(o, p, v)
                             THEN Stored(p, v) ELSE lock[q][r]
    PROVE  /\ \A q \in Lock, r \in Prop : lock'[q][r] \in Value[r]
           /\ RootKnown'
<1>1. \A q \in Lock, r \in Prop : lock'[q][r] \in Value[r]
  BY StoredLegal DEF TypeOK
<1>2. RootKnown'
  <2>1. "lock_root" \in Prop
    BY DEF Prop
  <2>2. p = "lock_root" /\ Changes(o, p, v) => Stored(p, v) # Null
    BY DEF Changes, Accepts, Stored
  <2> QED  BY <2>1, <2>2 DEF RootKnown
<1> QED  BY <1>1, <1>2

-----------------------------------------------------------------------------
(* The steps of the application                                            *)

LEMMA SetStep ==
    ASSUME IInv, NEW o \in Lock, NEW p \in Prop, NEW v \in Argument(p), Set(o, p, v)
    PROVE  IInv'
<1>1. /\ SetField(o, p, v, stack) /\ Ask(o, p, v) /\ Count(1)
      /\ UNCHANGED <<made, entry, frozen>> /\ made # "none" /\ calls < MaxCalls
  BY DEF Set, Calling, InUserCode
<1>2. TypeOK /\ ShapeOK /\ QueueOK /\ RootKnown /\ TimeoutMeaning
      /\ DifferencesPending /\ stack \in Seq(GoodFrame)
  BY DEF IInv, FramesOK
<1>3. /\ ShapeOK' /\ QueueOK'
      /\ stack' \in Seq(GoodFrame)
      /\ queue' \in [Lock -> SUBSET Prop]
      /\ \A q \in Lock, r \in Prop :
           lock'[q][r] = IF q = o /\ r = p /\ Changes(o, p, v)
                         THEN Stored(p, v) ELSE lock[q][r]
      /\ Changes(o, p, v) => Pending(o, p)'
      /\ \A q, r : OnStack(q, r, stack) => OnStack(q, r, stack')
      /\ \A q \in Lock : queue[q] \subseteq queue'[q]
  BY <1>1, <1>2, FieldStored
<1>4. TimeoutMeaning' /\ asked' \in [Lock -> Int]
  BY <1>1, <1>2, <1>3, TimeoutKept
<1>5. RootKnown' /\ \A q \in Lock, r \in Prop : lock'[q][r] \in Value[r]
  BY <1>1, <1>2, <1>3, LegalKept
<1>6. calls' \in 0 .. MaxCalls
  BY <1>1, <1>2, Counted DEF TypeOK
<1>7. FramesOK' /\ TypeOK'
  <2>1. \A q \in Lock : DOMAIN lock'[q] = Prop
    BY <1>3 DEF ShapeOK
  <2>2. stack' \in Seq(FrameType)
    BY <1>3, FramesTyped
  <2> QED  BY <1>1, <1>2, <1>3, <1>4, <1>5, <1>6, <2>1, <2>2 DEF TypeOK, FramesOK
<1>8. DifferencesPending'
  <2> SUFFICES ASSUME NEW r \in Prop
               PROVE  lock'[A][r] # lock'[B][r] =>
                        \E q \in Lock : Pending(q, r)' /\ Accepts(r, lock'[q][r])
    BY DEF DifferencesPending
  <2>1. CASE r = p /\ Changes(o, p, v)
    <3>1. Accepts(p, Stored(p, v))
      BY <2>1 DEF Changes, Accepts, Stored
    <3> QED  BY <1>3, <2>1, <3>1
  <2>2. CASE ~(r = p /\ Changes(o, p, v))
    <3>1. \A q \in Lock : Pending(q, r) => Pending(q, r)'
      BY <1>3 DEF Pending
    <3>2. lock'[A][r] = lock[A][r] /\ lock'[B][r] = lock[B][r]
      BY <1>3, <2>2 DEF Lock
    <3> QED  BY <1>2, <3>1, <3>2, PendingKept
  <2> QED  BY <2>1, <2>2
<1> QED  BY <1>1, <1>3, <1>4, <1>5, <1>7, <1>8 DEF IInv, MadeOK

\* g_object_set: the fields of f that are accepted are replaced together, and
\* all of f is notified.
LEMMA ObjectSetStep ==
    ASSUME IInv, NEW o \in Lock, NEW p \in Prop, NEW q \in Prop,
           NEW v \in Value[p], NEW w \in Value[q],
           ObjectSet(o, [r \in {p, q} |-> IF r = p THEN v ELSE w])
    PROVE  IInv'
<1> DEFINE f == [r \in {p, q} |-> IF r = p THEN v ELSE w]
<1>1. DOMAIN f \subseteq Prop /\ \A r \in DOMAIN f : f[r] \in Value[r]
  OBVIOUS
<1>2. ObjectSet(o, f)
  OBVIOUS
<1> HIDE DEF f
<1>3. /\ lock' = [lock EXCEPT ![o] =
                    [r \in Prop |-> IF r \in DOMAIN f /\ Accepts(r, f[r])
                                    THEN Stored(r, f[r]) ELSE lock[o][r]]]
      /\ UNCHANGED <<made, entry, frozen>> /\ Count(1)
      /\ made # "none" /\ calls < MaxCalls
      /\ asked' = IF "timeout" \in DOMAIN f THEN [asked EXCEPT ![o] = f["timeout"]]
                                            ELSE asked
  BY <1>2 DEF ObjectSet, Calling, InUserCode
<1>4. TypeOK /\ ShapeOK /\ QueueOK /\ RootKnown /\ TimeoutMeaning
      /\ DifferencesPending /\ stack \in Seq(GoodFrame)
  BY DEF IInv, FramesOK
<1>5. \A r \in DOMAIN f : Stored(r, f[r]) = f[r] /\ f[r] \in Argument(r)
  BY <1>1, ValueStored
<1>6. ShapeOK' /\ \A x \in Lock, r \in Prop :
        lock'[x][r] = IF x = o /\ r \in DOMAIN f /\ Accepts(r, f[r])
                      THEN f[r] ELSE lock[x][r]
  BY <1>3, <1>4, <1>5 DEF ShapeOK
<1>7. /\ stack' \in Seq(GoodFrame) /\ queue' \in [Lock -> SUBSET Prop] /\ QueueOK'
      /\ \A r \in DOMAIN f : Pending(o, r)'
      /\ \A x, r : OnStack(x, r, stack) => OnStack(x, r, stack')
      /\ \A x \in Lock : queue[x] \subseteq queue'[x]
  <2>1. CASE frozen[o] > 0
    <3>1. queue' = [queue EXCEPT ![o] = @ \cup DOMAIN f] /\ stack' = stack
      BY <1>2, <2>1 DEF ObjectSet
    <3>2. frozen[o] # 0 /\ queue \in [Lock -> SUBSET Prop]
      BY <1>4, <2>1 DEF TypeOK
    <3> QED  BY <1>1, <1>3, <1>4, <3>1, <3>2 DEF QueueOK, Pending
  <2>2. CASE ~(frozen[o] > 0)
    <3>1. queue' = queue /\ stack' = <<Dispatch(o, DOMAIN f)>> \o stack
      BY <1>2, <2>2 DEF ObjectSet
    <3>2. /\ Dispatch(o, DOMAIN f) \in GoodFrame
          /\ \A r \in DOMAIN f : Follows(Dispatch(o, DOMAIN f), o, r)
      BY <1>1, DispatchFrame
    <3> QED  BY <1>3, <1>4, <3>1, <3>2, Pushed DEF QueueOK, Pending, TypeOK
  <2> QED  BY <2>1, <2>2
<1>8. \A x \in Lock, r \in Prop : lock'[x][r] \in Value[r]
  BY <1>1, <1>3, <1>4, <1>6 DEF TypeOK
<1>9. RootKnown'
  <2>1. \A x \in Lock : lock'[x]["lock_root"] = lock[x]["lock_root"]
                         \/ lock'[x]["lock_root"] # Null
    BY <1>6 DEF Accepts, Prop
  <2> QED  BY <1>3, <1>4, <2>1 DEF RootKnown
<1>10. TimeoutMeaning' /\ asked' \in [Lock -> Int]
  <2>1. "timeout" \in Prop /\ asked \in [Lock -> Int]
        /\ \A x : Accepts("timeout", x)
    BY <1>4 DEF Prop, TypeOK, Accepts
  <2>2. CASE "timeout" \in DOMAIN f
    <3>1. f["timeout"] \in Int
          /\ f["timeout"] = IF f["timeout"] < 0 THEN -1 ELSE f["timeout"]
      BY <1>5, <2>2, StoredTimeout
    <3>2. /\ lock'[o]["timeout"] = f["timeout"]
          /\ \A x \in Lock : x # o => lock'[x]["timeout"] = lock[x]["timeout"]
      BY <1>6, <2>1, <2>2
    <3> QED  BY <1>3, <1>4, <2>1, <2>2, <3>1, <3>2 DEF TimeoutMeaning
  <2>3. CASE "timeout" \notin DOMAIN f
    <3>1. asked' = asked /\ \A x \in Lock : lock'[x]["timeout"] = lock[x]["timeout"]
      BY <1>3, <1>6, <2>1, <2>3
    <3> QED  BY <1>3, <1>4, <2>1, <3>1 DEF TimeoutMeaning
  <2> QED  BY <2>2, <2>3
<1>11. FramesOK' /\ TypeOK'
  <2>1. \A x \in Lock : DOMAIN lock'[x] = Prop
    BY <1>6 DEF ShapeOK
  <2>2. stack' \in Seq(FrameType)
    BY <1>7, FramesTyped
  <2>3. calls' \in 0 .. MaxCalls
    BY <1>3, <1>4, Counted DEF TypeOK
  <2> QED  BY <1>3, <1>4, <1>7, <1>8, <1>10, <2>1, <2>2, <2>3 DEF TypeOK, FramesOK
<1>12. DifferencesPending'
  <2> SUFFICES ASSUME NEW r \in Prop
               PROVE  lock'[A][r] # lock'[B][r] =>
                        \E x \in Lock : Pending(x, r)' /\ Accepts(r, lock'[x][r])
    BY DEF DifferencesPending
  <2>1. CASE r \in DOMAIN f /\ Accepts(r, f[r])
    BY <1>6, <1>7, <2>1
  <2>2. CASE ~(r \in DOMAIN f /\ Accepts(r, f[r]))
    <3>1. \A x \in Lock : Pending(x, r) => Pending(x, r)'
      BY <1>7 DEF Pending
    <3>2. lock'[A][r] = lock[A][r] /\ lock'[B][r] = lock[B][r]
      BY <1>6, <2>2 DEF Lock
    <3> QED  BY <1>4, <3>1, <3>2, PendingKept
  <2> QED  BY <2>1, <2>2
<1> QED  BY <1>3, <1>6, <1>7, <1>9, <1>10, <1>11, <1>12 DEF IInv, MadeOK

\* A step that leaves the fields alone has to keep what is pending.
LEMMA FieldsKept ==
    ASSUME IInv, UNCHANGED <<lock, made, entry, asked>>, made # "none",
           stack' \in Seq(GoodFrame),
           frozen' \in [Lock -> 0 .. MaxFreeze],
           queue' \in [Lock -> SUBSET Prop],
           QueueOK',
           calls' \in 0 .. MaxCalls,
           \A o \in Lock, p \in Prop : Pending(o, p) => Pending(o, p)'
    PROVE  IInv'
<1>1. TypeOK /\ ShapeOK /\ RootKnown /\ TimeoutMeaning /\ DifferencesPending
  BY DEF IInv
<1>2. TypeOK' /\ ShapeOK' /\ FramesOK'
  <2>1. stack' \in Seq(FrameType)
    BY FramesTyped
  <2> QED  BY <1>1, <2>1 DEF TypeOK, ShapeOK, FramesOK
<1>3. RootKnown' /\ TimeoutMeaning' /\ DifferencesPending'
  BY <1>1 DEF RootKnown, TimeoutMeaning, DifferencesPending
<1> QED  BY <1>2, <1>3 DEF IInv, MadeOK

LEMMA FreezeStep == ASSUME IInv, NEW o \in Lock, Freeze(o) PROVE IInv'
<1>1. TypeOK /\ QueueOK /\ stack \in Seq(GoodFrame)
  BY DEF IInv, FramesOK
<1>2. /\ calls < MaxCalls /\ Count(1) /\ made # "none"
      /\ frozen[o] < MaxFreeze /\ frozen' = [frozen EXCEPT ![o] = @ + 1]
      /\ UNCHANGED <<lock, made, entry, stack, queue, asked>>
  BY DEF Freeze, Calling, InUserCode
<1>3. frozen' \in [Lock -> 0 .. MaxFreeze] /\ QueueOK'
  BY <1>1, <1>2, BoundsAssumption DEF TypeOK, QueueOK
<1>4. calls' \in 0 .. MaxCalls
  BY <1>1, <1>2, Counted DEF TypeOK
<1>5. \A x \in Lock, p \in Prop : Pending(x, p) => Pending(x, p)'
  BY <1>2 DEF Pending
<1> QED  BY <1>1, <1>2, <1>3, <1>4, <1>5, FieldsKept DEF TypeOK

LEMMA ThawStep == ASSUME IInv, NEW o \in Lock, Thaw(o) PROVE IInv'
<1>1. TypeOK /\ QueueOK /\ stack \in Seq(GoodFrame) /\ queue \in [Lock -> SUBSET Prop]
  BY DEF IInv, FramesOK, TypeOK
<1>2. /\ Count(0) /\ frozen[o] > 0 /\ frozen' = [frozen EXCEPT ![o] = @ - 1]
      /\ UNCHANGED <<lock, made, entry, asked>> /\ made # "none"
  BY DEF Thaw, InUserCode
<1>3. frozen' \in [Lock -> 0 .. MaxFreeze]
  BY <1>1, <1>2, BoundsAssumption DEF TypeOK
<1>4. calls' \in 0 .. MaxCalls
  BY <1>1, <1>2, Counted DEF TypeOK
<1>5. CASE frozen[o] = 1
  <2>1. stack' = <<Dispatch(o, queue[o])>> \o stack /\ queue' = [queue EXCEPT ![o] = {}]
    BY <1>5 DEF Thaw
  <2>2. PICK T \in SUBSET Prop : T = queue[o]
    BY <1>1
  <2>3. Dispatch(o, T) \in GoodFrame /\ \A p \in T : Follows(Dispatch(o, T), o, p)
    BY DispatchFrame
  <2>4. PICK s \in Seq(GoodFrame) : s = stack
    BY <1>1
  <2>5. /\ stack' \in Seq(GoodFrame)
        /\ \A x, p : OnStack(x, p, stack')
                     <=> Follows(Dispatch(o, T), x, p) \/ OnStack(x, p, stack)
    BY <2>1, <2>2, <2>3, <2>4, Pushed
  <2>6. queue' \in [Lock -> SUBSET Prop] /\ QueueOK'
    BY <1>1, <1>2, <2>1 DEF QueueOK, TypeOK
  <2>7. \A x \in Lock, p \in Prop : Pending(x, p) => Pending(x, p)'
    BY <1>1, <2>1, <2>2, <2>3, <2>5 DEF Pending
  <2> QED  BY <1>2, <1>3, <1>4, <2>5, <2>6, <2>7, FieldsKept
<1>6. CASE frozen[o] # 1
  <2>1. UNCHANGED <<stack, queue>>
    BY <1>6 DEF Thaw
  <2>2. QueueOK' /\ \A x \in Lock, p \in Prop : Pending(x, p) => Pending(x, p)'
    BY <1>1, <1>2, <1>6, <2>1 DEF QueueOK, Pending, TypeOK
  <2> QED  BY <1>1, <1>2, <1>3, <1>4, <2>1, <2>2, FieldsKept
<1> QED  BY <1>5, <1>6

LEMMA NewEntryStep ==
    ASSUME IInv, NEW e \in Entry, NewEntry(e.lock_scope, e.lock_type)
    PROVE  IInv'
<1>1. /\ UNCHANGED <<lock, made, stack, frozen, queue, asked, calls>>
      /\ entry' = [lock_scope |-> e.lock_scope, lock_type |-> e.lock_type]
  BY DEF NewEntry
<1>2. entry' \in Entry
  BY <1>1 DEF Entry
<1>3. TypeOK' /\ ShapeOK' /\ FramesOK' /\ QueueOK' /\ MadeOK'
  BY <1>1, <1>2 DEF IInv, TypeOK, ShapeOK, FramesOK, QueueOK, MadeOK
<1>4. RootKnown' /\ TimeoutMeaning' /\ DifferencesPending'
  BY <1>1 DEF IInv, RootKnown, TimeoutMeaning, DifferencesPending, Pending
<1> QED  BY <1>3, <1>4 DEF IInv

\* A new lock has legal values; the one that gdav_active_lock_new makes a root.
LEMMA ConstructedLegal ==
    ASSUME NEW given \in Given
    PROVE  /\ \A p \in Prop : Constructed(given)[p] \in Value[p]
           /\ Constructed(given)["timeout"] = -1
           /\ given # << >> => Constructed(given)["lock_root"] # Null
<1>1. -1 \in Value["timeout"]
  BY BoundsAssumption DEF Value
<1>2. CASE given = << >>
  <2>1. DOMAIN given = {}
    BY <1>2
  <2>2. Constructed(given) =
          [p \in Prop |-> IF p \in DOMAIN ConstructDefault THEN ConstructDefault[p]
                          ELSE Zeroed[p]]
    BY <2>1 DEF Constructed
  <2> QED  BY <1>1, <1>2, <2>2 DEF ConstructDefault, Zeroed, Value, Prop
<1>3. CASE given # << >>
  <2>1. given \in [depth : Value["depth"], lock_scope : Value["lock_scope"],
                   lock_type : {"write"}, lock_root : Text]
    BY <1>3 DEF Given, Value
  <2> QED  BY <1>1, <2>1, TextAssumption
           DEF Constructed, ConstructDefault, Zeroed, Value, Prop
<1> QED  BY <1>2, <1>3

LEMMA NewStep == ASSUME IInv, NEW given \in Given, New(given) PROVE IInv'
<1>1. /\ lock' = [o \in Lock |-> Constructed(given)]
      /\ made' = IF given = << >> THEN "object_new" ELSE "lock_new"
      /\ entry' = Null /\ asked' = [o \in Lock |-> -1]
      /\ UNCHANGED <<stack, frozen, queue, calls>>
  BY DEF New
<1>2. Constructed(given) = [p \in Prop |-> Constructed(given)[p]]
  BY DEF Constructed
<1>3. ShapeOK' /\ FramesOK' /\ QueueOK' /\ MadeOK'
  BY <1>1, <1>2 DEF IInv, ShapeOK, FramesOK, QueueOK, MadeOK
<1>4. TypeOK'
  <2>1. \A o \in Lock, p \in Prop : lock'[o][p] \in Value[p]
    BY <1>1, ConstructedLegal
  <2>2. \A o \in Lock : DOMAIN lock'[o] = Prop
    BY <1>1, <1>2
  <2> QED  BY <1>1, <2>1, <2>2 DEF IInv, TypeOK
<1>5. RootKnown' /\ TimeoutMeaning'
  BY <1>1, ConstructedLegal DEF RootKnown, TimeoutMeaning
<1>6. DifferencesPending'
  BY <1>1 DEF DifferencesPending, Lock
<1> QED  BY <1>3, <1>4, <1>5, <1>6 DEF IInv

\* The fields of a lock that was finalized.
LEMMA ZeroedShape == Zeroed = [p \in Prop |-> Zeroed[p]]
BY DEF Zeroed, Prop

LEMMA UnrefStep == ASSUME IInv, Unref PROVE IInv'
<1>1. /\ made' = "none" /\ lock' = [o \in Lock |-> Zeroed]
      /\ asked' = [o \in Lock |-> -1]
      /\ UNCHANGED <<entry, stack, frozen, queue, calls>> /\ stack = << >>
  BY DEF Unref, AtRest
<1>2. ShapeOK' /\ FramesOK' /\ QueueOK' /\ MadeOK'
  BY <1>1, ZeroedShape DEF IInv, ShapeOK, FramesOK, QueueOK, MadeOK
<1>3. TypeOK'
  <2>1. \A o \in Lock : DOMAIN lock'[o] = Prop
    BY <1>1, ZeroedShape
  <2> QED  BY <1>1, <2>1 DEF IInv, TypeOK
<1>4. RootKnown' /\ TimeoutMeaning' /\ DifferencesPending'
  BY <1>1 DEF RootKnown, TimeoutMeaning, DifferencesPending, Lock
<1> QED  BY <1>2, <1>3, <1>4 DEF IInv

-----------------------------------------------------------------------------
(* The steps of the handlers                                               *)

\* The other lock has the value now, unless it is a root that is not known;
\* then the other lock has one, and that is still to be notified.
LEMMA FollowStep == ASSUME IInv, Follow PROVE IInv'
<1>1. /\ TypeOK /\ ShapeOK /\ QueueOK /\ RootKnown /\ TimeoutMeaning
      /\ DifferencesPending /\ stack \in Seq(GoodFrame)
      /\ stack # << >> /\ Top.handler = "follow" /\ made # "none"
      /\ Count(0) /\ UNCHANGED <<made, entry, frozen>>
  BY DEF Follow, IInv, FramesOK, MadeOK
<1>2. PICK t \in GoodFrame, s \in Seq(GoodFrame) :
        /\ t = Top /\ s = Tail(stack)
        /\ \A q, r : OnStack(q, r, stack) <=> Follows(t, q, r) \/ OnStack(q, r, s)
  BY <1>1, Popped DEF Top
<1> DEFINE o == t.object
           p == t.prop
           f == [t EXCEPT !.handler = "followed"]
<1>3. o \in Lock /\ p \in Prop /\ f \in GoodFrame
  BY <1>1, <1>2 DEF GoodFrame, FrameType
<1>4. \A q, r : Follows(t, q, r) => Follows(f, q, r) \/ (q = o /\ r = p)
  BY <1>1, <1>2 DEF GoodFrame, FrameType, Follows
<1>5. PICK v \in Value[p] : v = lock[o][p]
  BY <1>1, <1>3 DEF TypeOK
<1>6. SetField(Peer(o), p, v, <<f>> \o s) /\ Ask(Peer(o), p, v)
  BY <1>2, <1>5 DEF Follow, WithTop
<1> HIDE DEF o, p, f
<1>7. PICK x \in Lock : x = Peer(o) /\ Lock = {x, o}
  BY <1>3 DEF Peer, Lock
<1>8. PICK u \in Seq(GoodFrame) :
        /\ u = <<f>> \o s
        /\ \A q, r : OnStack(q, r, u) <=> Follows(f, q, r) \/ OnStack(q, r, s)
  BY <1>3, Pushed
<1>9. v \in Argument(p) /\ Stored(p, v) = v
  BY <1>3, <1>5, ValueStored
<1>10. SetField(x, p, v, u) /\ Ask(x, p, v)
  BY <1>6, <1>7, <1>8
<1>11. /\ ShapeOK' /\ QueueOK'
       /\ stack' \in Seq(GoodFrame)
       /\ queue' \in [Lock -> SUBSET Prop]
       /\ \A q \in Lock, r \in Prop :
            lock'[q][r] = IF q = x /\ r = p /\ Changes(x, p, v)
                          THEN Stored(p, v) ELSE lock[q][r]
       /\ \A q, r : OnStack(q, r, u) => OnStack(q, r, stack')
       /\ \A q \in Lock : queue[q] \subseteq queue'[q]
  BY <1>1, <1>3, <1>9, <1>10, FieldStored
<1>12. TimeoutMeaning' /\ asked' \in [Lock -> Int]
  BY <1>1, <1>3, <1>9, <1>10, <1>11, TimeoutKept
<1>13. RootKnown' /\ \A q \in Lock, r \in Prop : lock'[q][r] \in Value[r]
  BY <1>1, <1>3, <1>9, <1>11, LegalKept
<1>14. TypeOK' /\ FramesOK' /\ MadeOK'
  <2>1. \A q \in Lock : DOMAIN lock'[q] = Prop
    BY <1>11 DEF ShapeOK
  <2>2. stack' \in Seq(FrameType)
    BY <1>11, FramesTyped
  <2>3. calls' \in 0 .. MaxCalls
    BY <1>1, Counted DEF TypeOK
  <2> QED  BY <1>1, <1>11, <1>12, <1>13, <2>1, <2>2, <2>3 DEF TypeOK, FramesOK, MadeOK
<1>15. DifferencesPending'
  <2> SUFFICES ASSUME NEW r \in Prop, lock'[A][r] # lock'[B][r]
               PROVE  \E q \in Lock : Pending(q, r)' /\ Accepts(r, lock'[q][r])
    BY DEF DifferencesPending
  <2>1. \A q \in Lock : Pending(q, r) => Pending(q, r)' \/ (q = o /\ r = p)
    BY <1>2, <1>4, <1>8, <1>11 DEF Pending
  <2>2. CASE r # p
    <3>1. lock'[A][r] = lock[A][r] /\ lock'[B][r] = lock[B][r]
      BY <1>11, <2>2 DEF Lock
    <3>2. \A q \in Lock : Pending(q, r) => Pending(q, r)'
      BY <2>1, <2>2
    <3> QED  BY <1>1, <3>1, <3>2, PendingKept
  <2>3. CASE r = p
    <3>1. lock'[x][p] # lock'[o][p] /\ x # o
      BY <1>7, <2>3 DEF Lock
    <3>2. lock'[o][p] = v
      BY <1>3, <1>5, <1>11, <3>1
    <3>3. ~Changes(x, p, v) /\ lock'[x][p] = lock[x][p]
      BY <1>3, <1>9, <1>11, <3>1, <3>2
    <3>4. ~Accepts(p, v)
      BY <1>9, <3>1, <3>2, <3>3 DEF Changes
    <3>5. lock[A][p] # lock[B][p]
      BY <1>5, <1>7, <3>1, <3>2, <3>3 DEF Lock
    <3>6. Pending(x, p) /\ Accepts(p, lock[x][p])
      BY <1>1, <1>3, <1>5, <1>7, <3>4, <3>5 DEF DifferencesPending
    <3> QED  BY <2>1, <2>3, <3>1, <3>3, <3>6
  <2> QED  BY <2>2, <2>3
<1> QED  BY <1>11, <1>12, <1>13, <1>14, <1>15 DEF IInv

\* A step of the innermost frame that keeps what it will have followed.
LEMMA FrameStep ==
    ASSUME IInv, stack # << >>, NEW f \in GoodFrame, stack' = WithTop(f),
           UNCHANGED <<lock, made, entry, frozen, queue, asked>>, Count(0),
           \A o \in Lock, p \in Prop : Follows(Top, o, p) => Follows(f, o, p)
    PROVE  IInv'
<1>1. TypeOK /\ QueueOK /\ MadeOK /\ stack \in Seq(GoodFrame)
  BY DEF IInv, FramesOK
<1>2. PICK s \in Seq(GoodFrame) :
        /\ s = Tail(stack)
        /\ \A o, p : OnStack(o, p, stack) <=> Follows(Top, o, p) \/ OnStack(o, p, s)
  BY <1>1, Popped DEF Top
<1>3. /\ stack' \in Seq(GoodFrame)
      /\ \A o, p : OnStack(o, p, stack') <=> Follows(f, o, p) \/ OnStack(o, p, s)
  BY <1>2, Pushed DEF WithTop
<1>4. calls' \in 0 .. MaxCalls
  BY <1>1, Counted DEF TypeOK
<1>5. \A o \in Lock, p \in Prop : Pending(o, p) => Pending(o, p)'
  BY <1>2, <1>3 DEF Pending
<1>6. QueueOK' /\ made # "none"
  BY <1>1 DEF QueueOK, MadeOK
<1> QED  BY <1>1, <1>3, <1>4, <1>5, <1>6, FieldsKept DEF TypeOK

LEMMA FollowReturnsStep == ASSUME IInv, FollowReturns PROVE IInv'
<1> DEFINE f == IF Top.restart THEN [Top EXCEPT !.handler = "follow", !.restart = FALSE]
                               ELSE [Top EXCEPT !.handler = "app"]
<1>1. /\ stack # << >> /\ Top.handler = "followed" /\ stack' = WithTop(f)
      /\ UNCHANGED <<lock, made, entry, frozen, queue, asked>> /\ Count(0)
  BY DEF FollowReturns, Return
<1>2. Top \in GoodFrame
  BY <1>1, Popped DEF IInv, FramesOK, Top
<1>3. f \in GoodFrame /\ \A o \in Lock, p \in Prop : Follows(Top, o, p) => Follows(f, o, p)
  BY <1>1, <1>2 DEF GoodFrame, FrameType, Follows
<1>4. PICK g \in GoodFrame : g = f
  BY <1>3
<1> HIDE DEF f
<1> QED  BY <1>1, <1>3, <1>4, FrameStep

LEMMA AppReturnsStep == ASSUME IInv, AppReturns PROVE IInv'
<1> DEFINE f == IF Top.restart THEN [Top EXCEPT !.handler = "follow", !.restart = FALSE]
                               ELSE [Top EXCEPT !.handler = "next", !.prop = "none"]
<1>1. /\ stack # << >> /\ Top.handler = "app" /\ stack' = WithTop(f)
      /\ UNCHANGED <<lock, made, entry, frozen, queue, asked>> /\ Count(0)
  BY DEF AppReturns, Return
<1>2. Top \in GoodFrame
  BY <1>1, Popped DEF IInv, FramesOK, Top
<1>3. f \in GoodFrame /\ \A o \in Lock, p \in Prop : Follows(Top, o, p) => Follows(f, o, p)
  BY <1>1, <1>2 DEF GoodFrame, FrameType, Follows, Prop
<1>4. PICK g \in GoodFrame : g = f
  BY <1>3
<1> HIDE DEF f
<1> QED  BY <1>1, <1>3, <1>4, FrameStep

LEMMA DispatchNextStep == ASSUME IInv, DispatchNext PROVE IInv'
<1>1. /\ TypeOK /\ QueueOK /\ made # "none" /\ stack \in Seq(GoodFrame)
      /\ stack # << >> /\ Top.handler = "next"
      /\ UNCHANGED <<lock, made, entry, frozen, queue, asked>> /\ Count(0)
  BY DEF DispatchNext, IInv, FramesOK, MadeOK
<1>2. PICK t \in GoodFrame, s \in Seq(GoodFrame) :
        /\ t = Top /\ s = Tail(stack)
        /\ \A o, p : OnStack(o, p, stack) <=> Follows(t, o, p) \/ OnStack(o, p, s)
  BY <1>1, Popped DEF Top
<1>3. /\ t.object \in Lock /\ t.todo \in SUBSET Prop
      /\ \A o \in Lock, p \in Prop : Follows(t, o, p) <=> o = t.object /\ p \in t.todo
  BY <1>1, <1>2 DEF GoodFrame, FrameType, Follows, Prop
<1>4. calls' \in 0 .. MaxCalls /\ QueueOK'
  BY <1>1, Counted DEF TypeOK, QueueOK
<1>5. SUFFICES /\ stack' \in Seq(GoodFrame)
               /\ \A o \in Lock, p \in Prop :
                    OnStack(o, p, stack) => OnStack(o, p, stack')
  BY <1>1, <1>4, FieldsKept DEF TypeOK, Pending
<1>6. CASE t.todo = {}
  <2>1. stack' = s
    BY <1>2, <1>6 DEF DispatchNext
  <2> QED  BY <1>2, <1>3, <1>6, <2>1
<1>7. CASE t.todo # {}
  <2>1. PICK p \in t.todo, T \in SUBSET Prop :
          /\ T = t.todo \ {p}
          /\ stack' = IF Emitting(t.object, p, s)
                      THEN <<Dispatch(t.object, T)>> \o Restarted(t.object, p, s)
                      ELSE <<Frame(t.object, p, T, "follow")>> \o s
    BY <1>2, <1>3, <1>7 DEF DispatchNext, WithTop
  <2>2. CASE Emitting(t.object, p, s)
    <3>1. /\ Dispatch(t.object, T) \in GoodFrame
          /\ \A q \in T : Follows(Dispatch(t.object, T), t.object, q)
      BY <1>3, DispatchFrame
    <3>2. PICK u \in Seq(GoodFrame) :
            /\ u = Restarted(t.object, p, s)
            /\ OnStack(t.object, p, u)
            /\ \A o, r : OnStack(o, r, s) => OnStack(o, r, u)
      BY <2>2, RestartedFrames
    <3>3. /\ stack' \in Seq(GoodFrame)
          /\ \A o, r : OnStack(o, r, stack')
                       <=> Follows(Dispatch(t.object, T), o, r) \/ OnStack(o, r, u)
      BY <2>1, <2>2, <3>1, <3>2, Pushed
    <3> QED  BY <1>2, <1>3, <2>1, <3>1, <3>2, <3>3
  <2>3. CASE ~Emitting(t.object, p, s)
    <3>1. PICK f \in GoodFrame :
            /\ f = Frame(t.object, p, T, "follow")
            /\ \A q \in T \cup {p} : Follows(f, t.object, q)
      BY <1>3, <2>1, FollowFrame
    <3>2. /\ stack' \in Seq(GoodFrame)
          /\ \A o, r : OnStack(o, r, stack') <=> Follows(f, o, r) \/ OnStack(o, r, s)
      BY <2>1, <2>3, <3>1, Pushed
    <3> QED  BY <1>2, <1>3, <2>1, <3>1, <3>2
  <2> QED  BY <2>2, <2>3
<1> QED  BY <1>6, <1>7

-----------------------------------------------------------------------------
(* The theorems                                                            *)

LEMMA IInvInit == Init => IInv
<1> SUFFICES ASSUME Init PROVE IInv
  OBVIOUS
<1>1. ShapeOK /\ \A o \in Lock : DOMAIN lock[o] = Prop
  BY ZeroedShape DEF Init, ShapeOK
<1>2. TypeOK
  BY <1>1, BoundsAssumption DEF Init, TypeOK
<1> QED  BY <1>1, <1>2 DEF Init, IInv, FramesOK, QueueOK, MadeOK, RootKnown,
             TimeoutMeaning, DifferencesPending, Lock

LEMMA IInvNext == IInv /\ [Next]_vars => IInv'
<1> SUFFICES ASSUME IInv, [Next]_vars PROVE IInv'
  OBVIOUS
<1>1. ASSUME NEW given \in Given, New(given) PROVE IInv'
  BY <1>1, NewStep
<1>2. ASSUME NEW e \in Entry, NewEntry(e.lock_scope, e.lock_type) PROVE IInv'
  BY <1>2, NewEntryStep
<1>3. CASE Unref
  BY <1>3, UnrefStep
<1>4. ASSUME NEW o \in Lock, NEW p \in Used, NEW v \in Argument(p), Set(o, p, v)
      PROVE  IInv'
  BY <1>4, SetStep, BoundsAssumption
<1>5. ASSUME NEW o \in Lock, NEW p \in Used, NEW q \in Used,
             NEW v \in Value[p], NEW w \in Value[q],
             ObjectSet(o, [r \in {p, q} |-> IF r = p THEN v ELSE w])
      PROVE  IInv'
  <2>1. p \in Prop /\ q \in Prop
    BY BoundsAssumption
  <2> QED  BY <1>5, <2>1, ObjectSetStep
<1>6. ASSUME NEW o \in Lock, Freeze(o) \/ Thaw(o) PROVE IInv'
  BY <1>6, FreezeStep, ThawStep
<1>7. CASE Handlers
  BY <1>7, FollowStep, FollowReturnsStep, AppReturnsStep, DispatchNextStep DEF Handlers
<1>8. CASE UNCHANGED vars
  BY <1>8 DEF vars, IInv, TypeOK, ShapeOK, FramesOK, QueueOK, MadeOK, RootKnown,
              TimeoutMeaning, DifferencesPending, Pending
<1> QED  BY <1>1, <1>2, <1>3, <1>4, <1>5, <1>6, <1>7, <1>8 DEF Next

LEMMA Invariant == Spec => []IInv
BY IInvInit, IInvNext, PTL DEF Spec

\* The variables of the locks keep their types, and the fields legal values, for
\* any strings, any G_MAXINT32 and any sequence of calls (the setters, g_object_set).
THEOREM TypeCorrect == Spec => []TypeOK
<1>1. IInv => TypeOK
  BY DEF IInv
<1> QED  BY <1>1, Invariant, PTL

\* At rest no difference is pending, so there is none: two locks whose handlers
\* copy what the setters notify agree, whatever was nested or frozen meanwhile.
THEOREM Agreement == Spec => []PeersAgree
<1>1. IInv => PeersAgree
  <2> SUFFICES ASSUME IInv, AtRest PROVE lock[A] = lock[B]
    BY DEF PeersAgree
  <2>1. \A o \in Lock, p \in Prop : ~Pending(o, p)
    BY DEF IInv, QueueOK, AtRest, Pending, OnStack
  <2>2. \A p \in Prop : lock[A][p] = lock[B][p]
    BY <2>1 DEF IInv, DifferencesPending
  <2> QED  BY <2>2 DEF IInv, ShapeOK, Lock
<1> QED  BY <1>1, Invariant, PTL

\* A lock made by gdav_active_lock_new keeps a root.
THEOREM Roots == Spec => []RootKnown
<1>1. IInv => RootKnown
  BY DEF IInv
<1> QED  BY <1>1, Invariant, PTL

\* Any negative timeout is stored as -1 and every other one as it is asked for,
\* by the setter, by g_object_set and from lock to lock.
THEOREM Timeouts == Spec => []TimeoutMeaning
<1>1. IInv => TimeoutMeaning
  BY DEF IInv
<1> QED  BY <1>1, Invariant, PTL

-----------------------------------------------------------------------------
(* Notifications end                                                       *)
(*                                                                         *)
(* Every step lowers what is left to do, in two parts: the calls that the  *)
(* application may still make before notifications have ended, and the     *)
(* load of its handlers.  A frame weighs as many steps as it may cause:    *)
(* those of its handlers, once more if it is to restart, and an emission   *)
(* for each property to be dispatched.  Each difference between the locks  *)
(* weighs as much as the emission that removes it.                         *)

HandlerWeight(h) ==
    CASE h = "follow" -> 3 [] h = "followed" -> 2 [] h = "app" -> 1 [] OTHER -> 0

Weight(f) ==
    4 * Cardinality(f.todo) + HandlerWeight(f.handler) + (IF f.restart THEN 3 ELSE 0) + 1

MaxWeight == 4 * Cardinality(Prop) + 7

\* The weights of the frames of s, added up: pairs of a frame, numbered from
\* the outermost, and a unit of its weight.
Units(s) ==
    {u \in (1 .. Len(s)) \X (1 .. MaxWeight) : u[2] <= Weight(s[Len(s) + 1 - u[1]])}

Total(s) == Cardinality(Units(s))

Differing == {p \in Prop : lock[A][p] # lock[B][p]}

Load == 4 * Cardinality(Differing) + Total(stack)

\* Thawing is bounded by freezing, which is a call.
Budget == 2 * (MaxCalls - calls) + frozen[A] + frozen[B]

\* No chain of setters and handlers goes on for ever: between two states of
\* rest every step lowers Budget, or else Load.
CascadesEnd ==
    /\ [](Budget \in Nat /\ Load \in Nat)
    /\ [][AtRest' \/ Budget' < Budget \/ (Budget' = Budget /\ Load' < Load)]_vars

-----------------------------------------------------------------------------

LEMMA PropFinite == IsFiniteSet(Prop) /\ Cardinality(Prop) \in Nat
<1> DEFINE P1 == {} \cup {"depth"}
           P2 == P1 \cup {"lock_root"}
           P3 == P2 \cup {"lock_scope"}
           P4 == P3 \cup {"lock_token"}
           P5 == P4 \cup {"lock_type"}
           P6 == P5 \cup {"owner"}
           P7 == P6 \cup {"timeout"}
<1>1. P7 = Prop
  BY DEF Prop
<1> HIDE DEF P1, P2, P3, P4, P5, P6, P7
<1>2. IsFiniteSet(P1)
  BY FS_EmptySet, FS_AddElement DEF P1
<1>3. IsFiniteSet(P2)
  BY <1>2, FS_AddElement DEF P2
<1>4. IsFiniteSet(P3)
  BY <1>3, FS_AddElement DEF P3
<1>5. IsFiniteSet(P4)
  BY <1>4, FS_AddElement DEF P4
<1>6. IsFiniteSet(P5)
  BY <1>5, FS_AddElement DEF P5
<1>7. IsFiniteSet(P6)
  BY <1>6, FS_AddElement DEF P6
<1>8. IsFiniteSet(P7)
  BY <1>7, FS_AddElement DEF P7
<1> QED  BY <1>1, <1>8, FS_CardinalityType

LEMMA SomeProps ==
    ASSUME NEW T \in SUBSET Prop
    PROVE  /\ IsFiniteSet(T) /\ Cardinality(T) \in Nat /\ Cardinality(T) <= Cardinality(Prop)
           /\ \A p \in T : Cardinality(T \ {p}) = Cardinality(T) - 1
<1>1. IsFiniteSet(T) /\ Cardinality(T) <= Cardinality(Prop)
  BY PropFinite, FS_Subset
<1>2. Cardinality(T) \in Nat
  BY <1>1, FS_CardinalityType
<1>3. \A p \in T : Cardinality(T \ {p}) = Cardinality(T) - 1
  BY <1>1, FS_RemoveElement
<1> QED  BY <1>1, <1>2, <1>3

LEMMA WeightTyped ==
    ASSUME NEW f \in GoodFrame
    PROVE  /\ MaxWeight \in Nat /\ Weight(f) \in 1 .. MaxWeight
           /\ Cardinality(f.todo) \in Nat
<1>1. /\ Cardinality(f.todo) \in Nat /\ Cardinality(f.todo) <= Cardinality(Prop)
      /\ Cardinality(Prop) \in Nat
  <2>1. f.todo \in SUBSET Prop
    BY DEF GoodFrame, FrameType
  <2> QED  BY <2>1, SomeProps, PropFinite
<1>2. HandlerWeight(f.handler) \in 0 .. 3 /\ f.restart \in BOOLEAN
  BY DEF GoodFrame, FrameType, HandlerWeight
<1> QED  BY <1>1, <1>2 DEF Weight, MaxWeight

LEMMA UnitsFinite ==
    ASSUME NEW s \in Seq(GoodFrame)
    PROVE  IsFiniteSet(Units(s)) /\ Total(s) \in Nat
<1>1. MaxWeight \in Nat
  BY PropFinite DEF MaxWeight
<1>2. Len(s) \in Nat
  OBVIOUS
<1>3. IsFiniteSet(1 .. Len(s)) /\ IsFiniteSet(1 .. MaxWeight)
  BY <1>1, <1>2, FS_Interval
<1>4. IsFiniteSet((1 .. Len(s)) \X (1 .. MaxWeight))
  BY <1>3, FS_Product
<1>5. Units(s) \in SUBSET ((1 .. Len(s)) \X (1 .. MaxWeight))
  BY DEF Units
<1>6. IsFiniteSet(Units(s))
  BY <1>4, <1>5, FS_Subset
<1> QED  BY <1>6, FS_CardinalityType DEF Total

\* The units of a stack with another frame on top.
LEMMA TotalPush ==
    ASSUME NEW s \in Seq(GoodFrame), NEW f \in GoodFrame
    PROVE  /\ Total(s) \in Nat /\ Total(<<f>> \o s) \in Nat
           /\ Total(<<f>> \o s) = Total(s) + Weight(f)
<1>0. MaxWeight \in Nat /\ Weight(f) \in 1 .. MaxWeight
  BY WeightTyped
<1> DEFINE t == <<f>> \o s
           n == Len(s)
           new == {n + 1} \X (1 .. Weight(f))
<1>1. /\ n \in Nat /\ Len(t) = n + 1 /\ t[1] = f
      /\ \A i \in 1 .. n : t[i + 1] = s[i]
  OBVIOUS
<1>2. IsFiniteSet(Units(s)) /\ IsFiniteSet(Units(t))
  <2>1. t \in Seq(GoodFrame)
    OBVIOUS
  <2> HIDE DEF t
  <2> QED  BY <2>1, UnitsFinite
<1>3. IsFiniteSet(new) /\ Cardinality(new) = Weight(f)
  <2>1. IsFiniteSet({n + 1}) /\ Cardinality({n + 1}) = 1
    BY FS_Singleton
  <2>2. IsFiniteSet(1 .. Weight(f)) /\ Cardinality(1 .. Weight(f)) = Weight(f)
    BY <1>0, FS_Interval
  <2>3. IsFiniteSet(new) /\ Cardinality(new) = 1 * Weight(f)
    BY <2>1, <2>2, FS_Product, ZenonT(40)
  <2> QED  BY <1>0, <2>3
<1>4. \A i \in 1 .. n : t[n + 2 - i] = s[n + 1 - i]
  BY <1>1
<1> HIDE DEF t, n
<1>5. Units(t) = Units(s) \cup new
  <2>1. ASSUME NEW d, NEW u
        PROVE  <<d, u>> \in Units(t) <=> <<d, u>> \in Units(s) \cup new
    <3>1. <<d, u>> \in Units(t) <=>
             d \in 1 .. n + 1 /\ u \in 1 .. MaxWeight /\ u <= Weight(t[n + 2 - d])
      BY <1>1 DEF Units
    <3>2. <<d, u>> \in Units(s) <=>
             d \in 1 .. n /\ u \in 1 .. MaxWeight /\ u <= Weight(s[n + 1 - d])
      BY <1>1 DEF Units, n
    <3>3. CASE d = n + 1
      BY <1>0, <1>1, <3>1, <3>2, <3>3
    <3>4. CASE d # n + 1
      BY <1>1, <1>4, <3>1, <3>2, <3>4
    <3> QED  BY <3>3, <3>4
  <2>2. \A x \in Units(t) : \E d, u : x = <<d, u>>
    BY DEF Units
  <2>3. \A x \in Units(s) \cup new : \E d, u : x = <<d, u>>
    BY DEF Units
  <2> QED  BY <2>1, <2>2, <2>3
<1>6. Units(s) \cap new = {}
  BY <1>1 DEF Units, n
<1> HIDE DEF new
<1>7. Cardinality(Units(t)) = Cardinality(Units(s)) + Weight(f) - Cardinality({})
  BY <1>2, <1>3, <1>5, <1>6, FS_Union
<1>8. Cardinality(Units(s)) \in Nat /\ Cardinality(Units(t)) \in Nat
  BY <1>2, FS_CardinalityType
<1>9. Cardinality({}) = 0
  BY FS_EmptySet
<1> QED  BY <1>0, <1>7, <1>8, <1>9 DEF Total, t

LEMMA TotalPop ==
    ASSUME NEW s \in Seq(GoodFrame), s # << >>
    PROVE  /\ Total(s) \in Nat /\ Total(Tail(s)) \in Nat
           /\ Total(s) = Total(Tail(s)) + Weight(Head(s))
<1>1. Head(s) \in GoodFrame /\ Tail(s) \in Seq(GoodFrame) /\ s = <<Head(s)>> \o Tail(s)
  OBVIOUS
<1> QED  BY <1>1, TotalPush

-----------------------------------------------------------------------------
(* G_SIGNAL_NO_RECURSE: a property of a lock is emitted by one frame only. *)

Once(s) ==
    \A i, j \in DOMAIN s :
        s[i].prop # "none" /\ s[i].object = s[j].object /\ s[i].prop = s[j].prop
          => i = j

LEMMA OncePush ==
    ASSUME NEW s \in Seq(GoodFrame), NEW f \in GoodFrame, Once(s),
           f.prop = "none" \/ ~Emitting(f.object, f.prop, s)
    PROVE  Once(<<f>> \o s)
<1> DEFINE t == <<f>> \o s
<1>1. t \in Seq(GoodFrame) /\ Len(t) = Len(s) + 1 /\ t[1] = f
  OBVIOUS
<1>2. \A i \in 1 .. Len(s) : t[i + 1] = s[i]
  OBVIOUS
<1>3. \A i \in 2 .. Len(t) : i - 1 \in 1 .. Len(s) /\ t[i] = s[i - 1]
  BY <1>1, <1>2
<1> HIDE DEF t
<1>4. SUFFICES ASSUME NEW i \in 1 .. Len(t), NEW j \in 1 .. Len(t),
                      t[i].prop # "none", t[i].object = t[j].object, t[i].prop = t[j].prop
               PROVE  i = j
  BY <1>1 DEF Once, t
<1>5. DOMAIN s = 1 .. Len(s)
  OBVIOUS
<1>6. CASE i = 1 /\ j # 1
  <2>1. j - 1 \in DOMAIN s /\ s[j - 1].object = f.object /\ s[j - 1].prop = f.prop
    BY <1>1, <1>3, <1>4, <1>5, <1>6
  <2> QED  BY <1>1, <1>4, <1>6, <2>1 DEF Emitting
<1>7. CASE i # 1 /\ j = 1
  <2>1. i - 1 \in DOMAIN s /\ s[i - 1].object = f.object /\ s[i - 1].prop = f.prop
    BY <1>1, <1>3, <1>4, <1>5, <1>7
  <2> QED  BY <1>1, <1>4, <1>7, <2>1 DEF Emitting
<1>8. CASE i # 1 /\ j # 1
  <2>1. /\ i - 1 \in DOMAIN s /\ t[i] = s[i - 1]
        /\ j - 1 \in DOMAIN s /\ t[j] = s[j - 1]
    BY <1>1, <1>3, <1>4, <1>5, <1>8
  <2>2. i - 1 = j - 1
    BY <1>4, <2>1 DEF Once
  <2> QED  BY <1>1, <2>2
<1> QED  BY <1>6, <1>7, <1>8

LEMMA OncePop ==
    ASSUME NEW s \in Seq(GoodFrame), s # << >>, Once(s)
    PROVE  /\ Once(Tail(s))
           /\ Head(s).prop # "none" => ~Emitting(Head(s).object, Head(s).prop, Tail(s))
<1> DEFINE t == Tail(s)
<1>1. /\ Len(s) \in Nat /\ Len(s) > 0 /\ DOMAIN s = 1 .. Len(s) /\ DOMAIN t = 1 .. Len(s) - 1
      /\ \A i \in DOMAIN t : t[i] = s[i + 1]
      /\ Head(s) = s[1]
  OBVIOUS
<1> HIDE DEF t
<1>2. Once(t)
  <2> SUFFICES ASSUME NEW i \in DOMAIN t, NEW j \in DOMAIN t,
                      t[i].prop # "none", t[i].object = t[j].object, t[i].prop = t[j].prop
               PROVE  i = j
    BY DEF Once
  <2>1. i + 1 = j + 1
    BY <1>1 DEF Once
  <2> QED  BY <1>1, <2>1
<1>3. ASSUME Head(s).prop # "none", Emitting(Head(s).object, Head(s).prop, t)
      PROVE  FALSE
  <2>1. PICK i \in DOMAIN t : t[i].object = s[1].object /\ t[i].prop = s[1].prop
    BY <1>1, <1>3 DEF Emitting
  <2>2. i + 1 \in DOMAIN s /\ 1 \in DOMAIN s /\ i + 1 # 1
    BY <1>1
  <2> QED  BY <1>1, <1>3, <2>1, <2>2 DEF Once
<1> QED  BY <1>2, <1>3 DEF t

\* A frame that is to restart is still the frame of its emission.
LEMMA RestartedSame ==
    ASSUME NEW s \in Seq(GoodFrame), NEW o, NEW p
    PROVE  /\ Once(s) => Once(Restarted(o, p, s))
           /\ \A q, r : Emitting(q, r, Restarted(o, p, s)) <=> Emitting(q, r, s)
<1> DEFINE t == Restarted(o, p, s)
<1>1. DOMAIN t = DOMAIN s
  BY DEF Restarted
<1>2. ASSUME NEW i \in DOMAIN s
      PROVE  t[i].object = s[i].object /\ t[i].prop = s[i].prop
  <2>1. s[i] \in FrameType
    BY DEF GoodFrame
  <2> QED  BY <2>1 DEF Restarted, FrameType
<1> HIDE DEF t
<1> QED  BY <1>1, <1>2 DEF Once, Emitting, t

\* One frame at most weighs more when its emission is to restart.
LEMMA TotalRestarted ==
    ASSUME NEW s \in Seq(GoodFrame), NEW o, NEW p, p # "none", Once(s)
    PROVE  Total(Restarted(o, p, s)) \in Nat /\ Total(Restarted(o, p, s)) <= Total(s) + 3
<1> DEFINE t == Restarted(o, p, s)
           n == Len(s)
<1>1. /\ t \in Seq(GoodFrame) /\ Len(t) = n /\ n \in Nat
      /\ \A i \in 1 .. n : t[i] = IF s[i].object = o /\ s[i].prop = p
                                  THEN [s[i] EXCEPT !.restart = TRUE] ELSE s[i]
  <2>1. n \in Nat /\ DOMAIN s = 1 .. n
    OBVIOUS
  <2>2. t \in Seq(GoodFrame)
    BY RestartedFrames
  <2>3. DOMAIN t = 1 .. n
    BY <2>1 DEF Restarted
  <2>4. Len(t) = n
    BY <2>1, <2>2, <2>3
  <2>5. \A i \in 1 .. n : t[i] = IF s[i].object = o /\ s[i].prop = p
                                THEN [s[i] EXCEPT !.restart = TRUE] ELSE s[i]
    BY <2>1 DEF Restarted
  <2> QED  BY <2>1, <2>2, <2>4, <2>5
<1>2. PICK k \in 0 .. n :
         \A i \in 1 .. n : i # k => ~(s[i].object = o /\ s[i].prop = p)
  <2>1. CASE \E k \in 1 .. n : s[k].object = o /\ s[k].prop = p
    <3>1. PICK k \in 1 .. n : s[k].object = o /\ s[k].prop = p
      BY <2>1
    <3>2. \A i \in 1 .. n : s[i].object = o /\ s[i].prop = p => i = k
      BY <3>1 DEF Once
    <3> QED  BY <1>1, <3>1, <3>2
  <2>2. CASE ~ \E k \in 1 .. n : s[k].object = o /\ s[k].prop = p
    BY <1>1, <2>2
  <2> QED  BY <2>1, <2>2
<1>3. \A i \in 1 .. n : Weight(t[i]) <= IF i = k THEN Weight(s[i]) + 3 ELSE Weight(s[i])
  <2> SUFFICES ASSUME NEW i \in 1 .. n
               PROVE  Weight(t[i]) <= IF i = k THEN Weight(s[i]) + 3 ELSE Weight(s[i])
    OBVIOUS
  <2>1. s[i] \in GoodFrame
    BY <1>1
  <2>2. PICK f \in GoodFrame : f = s[i]
    BY <2>1
  <2>3. Weight(f) \in Nat /\ Weight([f EXCEPT !.restart = TRUE]) <= Weight(f) + 3
    <3>1. Cardinality(f.todo) \in Nat /\ Weight(f) \in Nat
      BY WeightTyped
    <3>2. HandlerWeight(f.handler) \in 0 .. 3
      BY DEF HandlerWeight
    <3>3. f.restart \in BOOLEAN /\ [f EXCEPT !.restart = TRUE].restart = TRUE
          /\ [f EXCEPT !.restart = TRUE].todo = f.todo
          /\ [f EXCEPT !.restart = TRUE].handler = f.handler
      BY DEF GoodFrame, FrameType
    <3> QED  BY <3>1, <3>2, <3>3, SMTT(30) DEF Weight
  <2>4. t[i] = f \/ (i = k /\ t[i] = [f EXCEPT !.restart = TRUE])
    BY <1>1, <1>2, <2>2
  <2> QED  BY <2>2, <2>3, <2>4
<1> HIDE DEF t, n
<1> DEFINE d == n + 1 - k
           w == Weight(s[k])
           new == {d} \X (w + 1 .. w + 3)
<1>4. IsFiniteSet(Units(s)) /\ Total(s) \in Nat /\ IsFiniteSet(Units(t)) /\ Total(t) \in Nat
  BY <1>1, UnitsFinite
<1>5. \A c, u : /\ <<c, u>> \in Units(t) <=>
                     c \in 1 .. n /\ u \in 1 .. MaxWeight /\ u <= Weight(t[n + 1 - c])
                /\ <<c, u>> \in Units(s) <=>
                     c \in 1 .. n /\ u \in 1 .. MaxWeight /\ u <= Weight(s[n + 1 - c])
  BY <1>1 DEF Units, n
<1>6. /\ \A x \in Units(t) : \E c, u : x = <<c, u>>
      /\ MaxWeight \in Nat
      /\ \A i \in 1 .. n : Weight(s[i]) \in Nat /\ Weight(t[i]) \in Nat
  <2>1. \A x \in Units(t) : \E c, u : x = <<c, u>>
    BY DEF Units
  <2>2. \A i \in 1 .. n : s[i] \in GoodFrame /\ t[i] \in GoodFrame
    BY <1>1 DEF n
  <2>3. MaxWeight \in Nat
    BY PropFinite DEF MaxWeight
  <2> QED  BY <2>1, <2>2, <2>3, WeightTyped
<1>7. CASE k = 0
  <2>1. Units(t) \in SUBSET Units(s)
    <3>1. ASSUME NEW c, NEW u, <<c, u>> \in Units(t)  PROVE <<c, u>> \in Units(s)
      <4>1. c \in 1 .. n /\ n + 1 - c \in 1 .. n /\ u \in 1 .. MaxWeight
        BY <1>1, <1>5, <3>1
      <4>2. Weight(t[n + 1 - c]) <= Weight(s[n + 1 - c])
        BY <1>3, <1>7, <4>1
      <4> QED  BY <1>5, <1>6, <3>1, <4>1, <4>2, SMTT(30)
    <3> QED  BY <1>6, <3>1
  <2> QED  BY <1>4, <2>1, FS_Subset DEF Total, t
<1>8. CASE k # 0
  <2>1. IsFiniteSet(new) /\ Cardinality(new) = 3
    <3>1. w \in Nat
      BY <1>1, <1>6, <1>8
    <3>2. IsFiniteSet(w + 1 .. w + 3) /\ Cardinality(w + 1 .. w + 3) = 3
      <4> HIDE DEF w
      <4>1. w + 1 \in Int /\ w + 3 \in Int /\ ~(w + 1 > w + 3) /\ (w + 3) - (w + 1) + 1 = 3
        BY <3>1
      <4> QED  BY <4>1, FS_Interval
    <3>3. IsFiniteSet({d}) /\ Cardinality({d}) = 1
      BY FS_Singleton
    <3>4. IsFiniteSet(new) /\ Cardinality(new) = 1 * 3
      BY <3>2, <3>3, FS_Product, ZenonT(40)
    <3> QED  BY <3>4
  <2>2. Units(t) \in SUBSET (Units(s) \cup new)
    <3>1. ASSUME NEW c, NEW u, <<c, u>> \in Units(t)  PROVE <<c, u>> \in Units(s) \cup new
      <4>1. c \in 1 .. n /\ n + 1 - c \in 1 .. n /\ u \in 1 .. MaxWeight
            /\ u <= Weight(t[n + 1 - c])
        BY <1>1, <1>5, <3>1
      <4>2. CASE c # d
        <5>1. Weight(t[n + 1 - c]) <= Weight(s[n + 1 - c])
          BY <1>1, <1>3, <4>1, <4>2
        <5>2. u <= Weight(s[n + 1 - c])
          BY <1>6, <4>1, <5>1
        <5>3. <<c, u>> \in Units(s)
          BY <1>5, <4>1, <5>2
        <5> QED  BY <5>3
      <4>3. CASE c = d
        <5>1. n + 1 - c = k
          BY <1>1, <1>8, <4>1, <4>3
        <5>2. u <= w + 3 /\ w \in Nat /\ u \in Nat
          BY <1>3, <1>6, <4>1, <5>1
        <5>3. u <= w => <<c, u>> \in Units(s)
          BY <1>5, <4>1, <5>1
        <5>4. u > w => <<c, u>> \in new
          BY <4>3, <5>2
        <5> QED  BY <5>2, <5>3, <5>4
      <4> QED  BY <4>2, <4>3
    <3> QED  BY <1>6, <3>1
  <2> HIDE DEF new
  <2>3. IsFiniteSet(Units(s) \cup new) /\ IsFiniteSet(Units(s) \cap new)
        /\ Cardinality(Units(s) \cup new)
             = Cardinality(Units(s)) + 3 - Cardinality(Units(s) \cap new)
    BY <1>4, <2>1, FS_Union, FS_Intersection
  <2>4. Cardinality(Units(s) \cap new) \in Nat /\ Cardinality(Units(s) \cup new) \in Nat
    BY <2>3, FS_CardinalityType
  <2>5. Cardinality(Units(t)) <= Cardinality(Units(s) \cup new)
    BY <2>2, <2>3, FS_Subset
  <2> QED  BY <1>4, <2>3, <2>4, <2>5 DEF Total, t
<1> QED  BY <1>7, <1>8

-----------------------------------------------------------------------------

\* No handler runs and nothing is frozen before the locks are made.
CascadeInv == Once(stack) /\ (made = "none" => \A o \in Lock : frozen[o] = 0)

LEMMA EmittedTotal ==
    ASSUME NEW s \in Seq(GoodFrame), NEW o \in Lock, NEW p \in Prop, Once(s)
    PROVE  /\ Once(Emitted(o, p, s))
           /\ Total(Emitted(o, p, s)) \in Nat /\ Total(Emitted(o, p, s)) <= Total(s) + 4
<1>1. p # "none" /\ Total(s) \in Nat
  BY UnitsFinite DEF Prop
<1>2. CASE Emitting(o, p, s)
  <2>1. Emitted(o, p, s) = Restarted(o, p, s)
    BY <1>2 DEF Emitted
  <2>2. Once(Restarted(o, p, s))
    BY RestartedSame
  <2>3. Total(Restarted(o, p, s)) \in Nat /\ Total(Restarted(o, p, s)) <= Total(s) + 3
    BY <1>1, TotalRestarted
  <2> QED  BY <1>1, <2>1, <2>2, <2>3
<1>3. CASE ~Emitting(o, p, s)
  <2>1. PICK f \in GoodFrame : f = Frame(o, p, {}, "follow")
    BY FollowFrame
  <2>2. f.object = o /\ f.prop = p /\ Weight(f) = 4
    <3>1. Cardinality({}) = 0
      BY FS_EmptySet
    <3> QED  BY <2>1, <3>1 DEF Frame, Weight, HandlerWeight
  <2>3. Emitted(o, p, s) = <<f>> \o s
    BY <1>3, <2>1 DEF Emitted
  <2>4. Once(<<f>> \o s)
    BY <1>3, <2>2, OncePush
  <2>5. Total(<<f>> \o s) \in Nat /\ Total(<<f>> \o s) = Total(s) + Weight(f)
    BY TotalPush
  <2> QED  BY <1>1, <2>2, <2>3, <2>4, <2>5
<1> QED  BY <1>2, <1>3

\* What a setter puts on the stack.
LEMMA NotifiedTotal ==
    ASSUME NEW s \in Seq(GoodFrame), NEW o \in Lock, NEW p \in Prop, Once(s),
           Notify(o, p, s)
    PROVE  Once(stack') /\ Total(stack') \in Nat /\ Total(stack') <= Total(s) + 4
<1>1. Total(s) \in Nat
  BY UnitsFinite
<1>2. stack' = s \/ stack' = Emitted(o, p, s)
  BY DEF Notify
<1> QED  BY <1>1, <1>2, EmittedTotal

LEMMA LoadTyped ==
    ASSUME stack \in Seq(GoodFrame)
    PROVE  Load \in Nat /\ Cardinality(Differing) \in Nat /\ Total(stack) \in Nat
<1>1. Differing \in SUBSET Prop
  BY DEF Differing
<1>2. Cardinality(Differing) \in Nat /\ Total(stack) \in Nat
  BY <1>1, SomeProps, UnitsFinite
<1> QED  BY <1>2 DEF Load

\* The frame on top is replaced by a lighter one.
LEMMA FrameLess ==
    ASSUME stack \in Seq(GoodFrame), Once(stack), stack # << >>, NEW f \in GoodFrame,
           stack' = WithTop(f), lock' = lock, Weight(f) < Weight(Top),
           \/ f.prop = "none" \/ (f.prop = Top.prop /\ f.object = Top.object)
           \/ ~Emitting(f.object, f.prop, Tail(stack))
    PROVE  Once(stack') /\ Load' < Load
<1>1. PICK s \in Seq(GoodFrame) : s = Tail(stack)
  BY Popped
<1>2. stack' = <<f>> \o s
  BY <1>1 DEF WithTop
<1>3. Once(s) /\ (Top.prop # "none" => ~Emitting(Top.object, Top.prop, s))
  BY <1>1, OncePop DEF Top
<1>4. Once(<<f>> \o s)
  BY <1>1, <1>3, OncePush
<1>5. Total(stack) \in Nat /\ Total(s) \in Nat /\ Total(stack) = Total(s) + Weight(Top)
  BY <1>1, TotalPop DEF Top
<1>6. Total(<<f>> \o s) \in Nat /\ Total(<<f>> \o s) = Total(s) + Weight(f)
  BY TotalPush
<1>7. Weight(f) \in Nat /\ Weight(Top) \in Nat
  <2>1. Top \in GoodFrame
    BY Popped DEF Top
  <2> QED  BY <2>1, WeightTyped
<1>8. Cardinality(Differing) \in Nat /\ Differing' = Differing
  BY LoadTyped DEF Differing
<1>9. Load = 4 * Cardinality(Differing) + Total(stack)
      /\ Load' = 4 * Cardinality(Differing) + Total(<<f>> \o s)
  BY <1>2, <1>8 DEF Load
<1>10. Total(<<f>> \o s) < Total(stack)
  BY <1>5, <1>6, <1>7
<1>11. Load' < Load
  BY <1>5, <1>6, <1>8, <1>9, <1>10
<1>12. Once(stack')
  BY <1>2, <1>4
<1> QED  BY <1>11, <1>12

LEMMA FollowLess ==
    ASSUME IInv, Once(stack), Follow
    PROVE  Once(stack') /\ Load' < Load
<1>1. /\ TypeOK /\ ShapeOK /\ stack \in Seq(GoodFrame)
      /\ stack # << >> /\ Top.handler = "follow" /\ made # "none"
  BY DEF Follow, IInv, FramesOK, MadeOK
<1>2. PICK t \in GoodFrame, s \in Seq(GoodFrame) : t = Top /\ s = Tail(stack)
  BY <1>1, Popped DEF Top
<1> DEFINE f == [t EXCEPT !.handler = "followed"]
<1>3. /\ t.object \in Lock /\ t.prop \in Prop /\ f \in GoodFrame
      /\ f.prop = t.prop /\ f.object = t.object /\ Weight(t) = Weight(f) + 1
  <2>1. /\ t.object \in Lock /\ t.prop \in Prop /\ f \in GoodFrame
        /\ f.prop = t.prop /\ f.object = t.object
        /\ f.todo = t.todo /\ f.restart = t.restart /\ f.handler = "followed"
        /\ t.handler = "follow" /\ t.restart \in BOOLEAN
    BY <1>1, <1>2 DEF GoodFrame, FrameType
  <2>2. Cardinality(t.todo) \in Nat
    BY WeightTyped
  <2> HIDE DEF f
  <2> QED  BY <2>1, <2>2 DEF Weight, HandlerWeight
<1>4. PICK o \in Lock, p \in Prop, x \in Lock :
         o = t.object /\ p = t.prop /\ x = Peer(o) /\ Lock = {x, o}
  BY <1>1, <1>3 DEF Peer, Lock
<1>a. PICK v \in Value[p] : v = lock[o][p]
  BY <1>1 DEF TypeOK
<1>5. SetField(x, p, v, <<f>> \o s)
  BY <1>2, <1>4, <1>a DEF Follow, WithTop
<1> HIDE DEF f
<1>6. PICK u \in Seq(GoodFrame) : u = <<f>> \o s
  BY <1>3, Pushed
<1>7. Once(u)
  <2>1. Once(s) /\ (t.prop # "none" => ~Emitting(t.object, t.prop, s))
    BY <1>1, <1>2, OncePop DEF Top
  <2> QED  BY <1>3, <1>6, <2>1, OncePush
<1>8. Total(u) \in Nat /\ Total(stack) \in Nat /\ Total(stack) = Total(u) + 1
  <2>1. Total(stack) \in Nat /\ Total(s) \in Nat /\ Total(stack) = Total(s) + Weight(t)
    BY <1>1, <1>2, TotalPop DEF Top
  <2>2. Total(u) \in Nat /\ Total(u) = Total(s) + Weight(f)
    BY <1>3, <1>6, TotalPush
  <2>3. Weight(f) \in Nat
    BY <1>3, WeightTyped
  <2> QED  BY <1>3, <2>1, <2>2, <2>3
<1>9. Cardinality(Differing) \in Nat
  BY <1>1, LoadTyped
<1>10. CASE ~Changes(x, p, v)
  <2>1. stack' = u /\ lock' = lock
    BY <1>5, <1>6, <1>10 DEF SetField
  <2>2. Differing' = Differing
    BY <2>1 DEF Differing
  <2>3. Load = 4 * Cardinality(Differing) + Total(stack)
        /\ Load' = 4 * Cardinality(Differing) + Total(u)
    BY <2>1, <2>2 DEF Load
  <2> QED  BY <1>7, <1>8, <1>9, <2>1, <2>3
<1>11. CASE Changes(x, p, v)
  <2>1. lock' = [lock EXCEPT ![x][p] = Stored(p, v)] /\ Notify(x, p, u)
    BY <1>5, <1>6, <1>11 DEF SetField
  <2>2. Once(stack') /\ Total(stack') \in Nat /\ Total(stack') <= Total(u) + 4
    BY <1>7, <2>1, NotifiedTotal
  <2>3. Stored(p, v) = v /\ v # lock[x][p]
    BY <1>11, ValueStored DEF Changes
  <2>4. x # o
    BY <1>a, <2>3
  <2>5. /\ lock'[x][p] = v /\ lock'[o][p] = v
        /\ \A q \in Lock, r \in Prop : r # p => lock'[q][r] = lock[q][r]
    BY <1>1, <1>4, <1>a, <2>1, <2>3, <2>4 DEF ShapeOK
  <2>6. p \in Differing /\ Differing' = Differing \ {p}
    <3>1. \A r \in Prop : (lock[A][r] # lock[B][r] <=> lock[x][r] # lock[o][r])
                          /\ (lock'[A][r] # lock'[B][r] <=> lock'[x][r] # lock'[o][r])
      BY <1>4 DEF Lock
    <3>2. p \in Differing
      BY <1>a, <2>3, <3>1 DEF Differing
    <3>3. \A r \in Prop : r \in Differing' <=> r \in Differing \ {p}
      BY <1>4, <2>5, <3>1 DEF Differing
    <3> QED  BY <3>2, <3>3 DEF Differing
  <2>7. Cardinality(Differing \ {p}) = Cardinality(Differing) - 1
    <3>1. Differing \in SUBSET Prop
      BY DEF Differing
    <3> QED  BY <2>6, <3>1, SomeProps
  <2>8. Load = 4 * Cardinality(Differing) + Total(stack)
        /\ Load' = 4 * (Cardinality(Differing) - 1) + Total(stack')
    BY <2>6, <2>7 DEF Load
  <2> QED  BY <1>8, <1>9, <2>2, <2>8
<1> QED  BY <1>10, <1>11

LEMMA ReturnsLess ==
    ASSUME IInv, Once(stack), FollowReturns \/ AppReturns
    PROVE  Once(stack') /\ Load' < Load
<1>1. stack \in Seq(GoodFrame) /\ stack # << >> /\ lock' = lock
  BY DEF FollowReturns, AppReturns, Return, IInv, FramesOK
<1>2. PICK t \in GoodFrame : t = Top
  BY <1>1, Popped DEF Top
<1>3. Cardinality(t.todo) \in Nat /\ t.restart \in BOOLEAN
  BY WeightTyped DEF GoodFrame, FrameType
<1>4. PICK f \in GoodFrame :
         /\ stack' = WithTop(f) /\ Weight(f) < Weight(t)
         /\ f.prop = "none" \/ (f.prop = t.prop /\ f.object = t.object)
  <2> DEFINE g == [t EXCEPT !.handler = "follow", !.restart = FALSE]
  <2>1. CASE t.restart
    <3>1. stack' = WithTop(g) /\ t.handler \in {"followed", "app"}
      BY <1>2, <2>1 DEF FollowReturns, AppReturns, Return
    <3>2. /\ g \in GoodFrame /\ g.prop = t.prop /\ g.object = t.object /\ g.todo = t.todo
          /\ g.handler = "follow" /\ g.restart = FALSE
      BY <3>1 DEF GoodFrame, FrameType
    <3> HIDE DEF g
    <3>3. Weight(g) < Weight(t)
      BY <1>3, <2>1, <3>1, <3>2 DEF Weight, HandlerWeight
    <3> QED  BY <3>1, <3>2, <3>3
  <2>2. CASE ~t.restart /\ t.handler = "followed"
    <3> DEFINE h == [t EXCEPT !.handler = "app"]
    <3>1. stack' = WithTop(h)
      BY <1>2, <2>2 DEF FollowReturns, AppReturns, Return
    <3>2. /\ h \in GoodFrame /\ h.prop = t.prop /\ h.object = t.object /\ h.todo = t.todo
          /\ h.handler = "app" /\ h.restart = FALSE
      BY <2>2 DEF GoodFrame, FrameType
    <3> HIDE DEF h
    <3>3. Weight(h) < Weight(t)
      BY <1>3, <2>2, <3>2 DEF Weight, HandlerWeight
    <3> QED  BY <3>1, <3>2, <3>3
  <2>3. CASE ~t.restart /\ t.handler = "app"
    <3> DEFINE h == [t EXCEPT !.handler = "next", !.prop = "none"]
    <3>1. stack' = WithTop(h)
      BY <1>2, <2>3 DEF FollowReturns, AppReturns, Return
    <3>2. /\ h \in GoodFrame /\ h.prop = "none" /\ h.todo = t.todo
          /\ h.handler = "next" /\ h.restart = FALSE
      BY <2>3 DEF GoodFrame, FrameType
    <3> HIDE DEF h
    <3>3. Weight(h) < Weight(t)
      BY <1>3, <2>3, <3>2 DEF Weight, HandlerWeight
    <3> QED  BY <3>1, <3>2, <3>3
  <2>4. t.handler \in {"followed", "app"}
    BY <1>2 DEF FollowReturns, AppReturns, Return
  <2> QED  BY <2>1, <2>2, <2>3, <2>4
<1> QED  BY <1>1, <1>2, <1>4, FrameLess

LEMMA DispatchLess ==
    ASSUME IInv, Once(stack), DispatchNext
    PROVE  Once(stack') /\ Load' < Load
<1>1. stack \in Seq(GoodFrame) /\ stack # << >> /\ lock' = lock /\ Top.handler = "next"
  BY DEF DispatchNext, IInv, FramesOK
<1>2. PICK t \in GoodFrame, s \in Seq(GoodFrame) : t = Top /\ s = Tail(stack)
  BY <1>1, Popped DEF Top
<1>3. /\ t.object \in Lock /\ t.todo \in SUBSET Prop /\ t.restart \in BOOLEAN
      /\ Cardinality(t.todo) \in Nat
  BY WeightTyped DEF GoodFrame, FrameType
<1>4. Weight(t) \in Nat /\ Weight(t) >= 4 * Cardinality(t.todo) + 1
  BY <1>1, <1>2, <1>3 DEF Weight, HandlerWeight
<1>5. Once(s)
  BY <1>1, <1>2, OncePop
<1>6. Total(stack) \in Nat /\ Total(s) \in Nat /\ Total(stack) = Total(s) + Weight(t)
  BY <1>1, <1>2, TotalPop DEF Top
<1>7. Cardinality(Differing) \in Nat /\ Differing' = Differing
  BY <1>1, LoadTyped DEF Differing
<1>8. Load = 4 * Cardinality(Differing) + Total(stack)
      /\ Load' = 4 * Cardinality(Differing) + Total(stack')
  BY <1>7 DEF Load
<1>9. CASE t.todo = {}
  <2>1. stack' = s
    BY <1>2, <1>9 DEF DispatchNext
  <2>2. Weight(t) >= 1
    BY <1>3, <1>4
  <2> QED  BY <1>4, <1>5, <1>6, <1>7, <1>8, <2>1, <2>2
<1>10. CASE t.todo # {}
  <2>1. PICK p \in t.todo, T \in SUBSET Prop :
          /\ T = t.todo \ {p}
          /\ stack' = IF Emitting(t.object, p, s)
                      THEN <<Dispatch(t.object, T)>> \o Restarted(t.object, p, s)
                      ELSE WithTop(Frame(t.object, p, T, "follow"))
    BY <1>2, <1>3, <1>10 DEF DispatchNext
  <2>2. Cardinality(T) \in Nat /\ Cardinality(t.todo) = Cardinality(T) + 1
    BY <1>3, <2>1, SomeProps
  <2>3. CASE Emitting(t.object, p, s)
    <3>1. PICK d \in GoodFrame : d = Dispatch(t.object, T)
      BY <1>3, DispatchFrame
    <3>2. d.prop = "none" /\ Weight(d) = 4 * Cardinality(T) + 1
      BY <2>2, <3>1 DEF Dispatch, Frame, Weight, HandlerWeight
    <3>3. PICK u \in Seq(GoodFrame) : u = Restarted(t.object, p, s)
      BY RestartedFrames
    <3>4. Once(u) /\ Total(u) \in Nat /\ Total(u) <= Total(s) + 3
      <4>1. p # "none"
        BY <1>3, <2>1 DEF Prop
      <4> QED  BY <1>5, <3>3, <4>1, RestartedSame, TotalRestarted
    <3>5. stack' = <<d>> \o u
      BY <2>1, <2>3, <3>1, <3>3
    <3>6. Once(<<d>> \o u)
      BY <3>2, <3>4, OncePush
    <3>7. Total(<<d>> \o u) \in Nat /\ Total(<<d>> \o u) = Total(u) + Weight(d)
      BY TotalPush
    <3>8. Total(stack') < Total(stack)
      <4>1. Total(<<d>> \o u) <= Total(s) + 4 * Cardinality(T) + 4
        BY <1>6, <2>2, <3>2, <3>4, <3>7
      <4>2. Weight(t) >= 4 * Cardinality(T) + 5
        BY <1>4, <2>2
      <4>3. Total(<<d>> \o u) < Total(stack)
        BY <1>4, <1>6, <2>2, <3>7, <4>1, <4>2
      <4> QED  BY <3>5, <4>3
    <3> QED  BY <1>6, <1>7, <1>8, <3>5, <3>6, <3>7, <3>8
  <2>4. CASE ~Emitting(t.object, p, s)
    <3>1. PICK f \in GoodFrame : f = Frame(t.object, p, T, "follow")
      BY <1>3, <2>1, FollowFrame
    <3>2. /\ f.object = t.object /\ f.prop = p
          /\ Weight(f) = 4 * Cardinality(T) + 4
      BY <2>2, <3>1 DEF Frame, Weight, HandlerWeight
    <3>3. Weight(f) < Weight(t)
      BY <1>4, <2>2, <3>2
    <3>4. stack' = WithTop(f) /\ ~Emitting(f.object, f.prop, Tail(stack))
      BY <1>2, <2>1, <2>4, <3>1, <3>2
    <3> QED  BY <1>1, <1>2, <3>3, <3>4, FrameLess
  <2> QED  BY <2>3, <2>4
<1> QED  BY <1>9, <1>10

-----------------------------------------------------------------------------

LEMMA BudgetTyped ==
    ASSUME TypeOK
    PROVE  /\ Budget \in Nat /\ calls \in Nat /\ MaxCalls \in Nat /\ calls <= MaxCalls
           /\ \A o \in Lock : frozen[o] \in Nat
BY BoundsAssumption, SMTT(30) DEF TypeOK, Budget, Lock

\* A call of a setter or g_object_set, which counts, and the handlers, whose
\* load shrinks.
LEMMA Spent ==
    ASSUME TypeOK, Count(1), UNCHANGED frozen
    PROVE  AtRest' \/ Budget' < Budget
<1>1. AtRest' \/ calls' = calls + 1
  BY DEF Count
<1>2. frozen[A] \in Nat /\ frozen[B] \in Nat /\ calls \in Nat /\ MaxCalls \in Nat
  BY BudgetTyped DEF Lock
<1> QED  BY <1>1, <1>2 DEF Budget

LEMMA Unspent ==
    ASSUME TypeOK, Count(0), UNCHANGED frozen
    PROVE  AtRest' \/ Budget' = Budget
<1>1. calls \in Nat
  BY BudgetTyped
<1> QED  BY <1>1 DEF Budget, Count

LEMMA SetSpends ==
    ASSUME IInv, CascadeInv, NEW o \in Lock, NEW p \in Prop, NEW v, Set(o, p, v)
    PROVE  CascadeInv' /\ (AtRest' \/ Budget' < Budget)
<1>1. /\ stack \in Seq(GoodFrame) /\ Once(stack) /\ made # "none" /\ made' = made
      /\ SetField(o, p, v, stack) /\ Count(1) /\ UNCHANGED frozen /\ TypeOK
  BY DEF Set, Calling, InUserCode, IInv, FramesOK, CascadeInv
<1>2. stack' = stack \/ Notify(o, p, stack)
  BY <1>1 DEF SetField
<1>3. Once(stack')
  BY <1>1, <1>2, NotifiedTotal
<1> QED  BY <1>1, <1>3, Spent DEF CascadeInv

LEMMA ObjectSetSpends ==
    ASSUME IInv, CascadeInv, NEW o \in Lock, NEW f, DOMAIN f \in SUBSET Prop,
           ObjectSet(o, f)
    PROVE  CascadeInv' /\ (AtRest' \/ Budget' < Budget)
<1>1. /\ stack \in Seq(GoodFrame) /\ Once(stack) /\ made # "none" /\ made' = made
      /\ stack' = stack \/ stack' = <<Dispatch(o, DOMAIN f)>> \o stack
      /\ Count(1) /\ UNCHANGED frozen /\ TypeOK
  BY DEF ObjectSet, Calling, InUserCode, IInv, FramesOK, CascadeInv
<1>2. PICK d \in GoodFrame : d = Dispatch(o, DOMAIN f)
  BY DispatchFrame
<1>3. d.prop = "none"
  BY <1>2 DEF Dispatch, Frame
<1>4. Once(stack')
  BY <1>1, <1>2, <1>3, OncePush
<1> QED  BY <1>1, <1>4, Spent DEF CascadeInv

LEMMA FreezeSpends ==
    ASSUME IInv, CascadeInv, NEW o \in Lock, Freeze(o)
    PROVE  CascadeInv' /\ (AtRest' \/ Budget' < Budget)
<1>1. /\ made # "none" /\ made' = made /\ stack' = stack
      /\ frozen' = [frozen EXCEPT ![o] = @ + 1] /\ Count(1) /\ TypeOK
  BY DEF Freeze, Calling, InUserCode, IInv
<1>2. AtRest' \/ calls' = calls + 1
  BY <1>1 DEF Count
<1>3. frozen[A] \in Nat /\ frozen[B] \in Nat /\ calls \in Nat /\ MaxCalls \in Nat
  BY <1>1, BudgetTyped DEF Lock
<1>4. \/ frozen'[A] = frozen[A] + 1 /\ frozen'[B] = frozen[B]
      \/ frozen'[B] = frozen[B] + 1 /\ frozen'[A] = frozen[A]
  BY <1>1, LocksAssumption DEF Lock, TypeOK
<1>5. AtRest' \/ Budget' < Budget
  BY <1>2, <1>3, <1>4 DEF Budget
<1> QED  BY <1>1, <1>5 DEF CascadeInv

LEMMA ThawSpends ==
    ASSUME IInv, CascadeInv, NEW o \in Lock, Thaw(o)
    PROVE  CascadeInv' /\ (AtRest' \/ Budget' < Budget)
<1>1. /\ made # "none" /\ made' = made /\ stack \in Seq(GoodFrame) /\ Once(stack)
      /\ frozen' = [frozen EXCEPT ![o] = @ - 1] /\ frozen[o] > 0 /\ Count(0) /\ TypeOK
      /\ stack' = stack \/ stack' = <<Dispatch(o, queue[o])>> \o stack
  BY DEF Thaw, InUserCode, IInv, FramesOK, CascadeInv
<1>2. queue[o] \in SUBSET Prop
  BY <1>1 DEF TypeOK
<1>3. PICK d \in GoodFrame : d = Dispatch(o, queue[o])
  BY <1>2, DispatchFrame
<1>4. Once(stack')
  <2>1. d.prop = "none"
    BY <1>3 DEF Dispatch, Frame
  <2> QED  BY <1>1, <1>3, <2>1, OncePush
<1>5. frozen[A] \in Nat /\ frozen[B] \in Nat /\ calls \in Nat /\ MaxCalls \in Nat
  BY <1>1, BudgetTyped DEF Lock
<1>6. AtRest' \/ calls' = calls
  BY <1>1, <1>5 DEF Count
<1>7. \/ frozen'[A] = frozen[A] - 1 /\ frozen'[B] = frozen[B]
      \/ frozen'[B] = frozen[B] - 1 /\ frozen'[A] = frozen[A]
  BY <1>1, LocksAssumption DEF Lock, TypeOK
<1>8. AtRest' \/ Budget' < Budget
  BY <1>5, <1>6, <1>7 DEF Budget
<1> QED  BY <1>1, <1>4, <1>8 DEF CascadeInv

\* The locks are made and dropped at rest.
LEMMA RestKept ==
    ASSUME IInv, CascadeInv,
           \/ \E given \in Given : New(given)
           \/ \E e \in Entry : NewEntry(e.lock_scope, e.lock_type)
           \/ Unref
    PROVE  CascadeInv' /\ AtRest'
<1>1. stack = << >> /\ (\A o \in Lock : frozen[o] = 0)
  BY DEF New, NewEntry, Unref, AtRest, CascadeInv, IInv, MadeOK
<1>2. UNCHANGED <<stack, frozen>>
  BY DEF New, NewEntry, Unref
<1> QED  BY <1>1, <1>2 DEF CascadeInv, AtRest, Once

LEMMA HandlersLess ==
    ASSUME IInv, CascadeInv, Handlers
    PROVE  CascadeInv' /\ (AtRest' \/ (Budget' = Budget /\ Load' < Load))
<1>1. Once(stack') /\ Load' < Load
  BY FollowLess, ReturnsLess, DispatchLess DEF Handlers, CascadeInv
<1>2. Count(0) /\ UNCHANGED <<frozen, made>>
  BY DEF Handlers, Follow, FollowReturns, AppReturns, Return, DispatchNext
<1>3. AtRest' \/ Budget' = Budget
  BY <1>2, Unspent DEF IInv
<1> QED  BY <1>1, <1>2, <1>3 DEF CascadeInv

LEMMA CascadeInit == Init => CascadeInv
BY DEF Init, CascadeInv, Once

LEMMA CascadeNext ==
    ASSUME IInv, CascadeInv, [Next]_vars
    PROVE  /\ CascadeInv'
           /\ \/ AtRest' \/ Budget' < Budget \/ (Budget' = Budget /\ Load' < Load)
              \/ UNCHANGED vars
<1> DEFINE Less == AtRest' \/ Budget' < Budget \/ (Budget' = Budget /\ Load' < Load)
<1>1. CASE \/ \E given \in Given : New(given)
           \/ \E e \in Entry : NewEntry(e.lock_scope, e.lock_type)
           \/ Unref
  BY <1>1, RestKept
<1>2. ASSUME NEW o \in Lock, NEW p \in Used, NEW v \in Argument(p), Set(o, p, v)
      PROVE  CascadeInv' /\ Less
  BY <1>2, SetSpends, BoundsAssumption
<1>3. ASSUME NEW o \in Lock, NEW p \in Used, NEW q \in Used,
             NEW v \in Value[p], NEW w \in Value[q],
             ObjectSet(o, [r \in {p, q} |-> IF r = p THEN v ELSE w])
      PROVE  CascadeInv' /\ Less
  <2> DEFINE f == [r \in {p, q} |-> IF r = p THEN v ELSE w]
  <2>1. DOMAIN f \in SUBSET Prop /\ ObjectSet(o, f)
    BY <1>3, BoundsAssumption
  <2> HIDE DEF f
  <2> QED  BY <2>1, ObjectSetSpends
<1>4. ASSUME NEW o \in Lock, Freeze(o) \/ Thaw(o)  PROVE CascadeInv' /\ Less
  BY <1>4, FreezeSpends, ThawSpends
<1>5. CASE Handlers
  BY <1>5, HandlersLess
<1>6. CASE UNCHANGED vars
  BY <1>6 DEF vars, CascadeInv, Once
<1> QED  BY <1>1, <1>2, <1>3, <1>4, <1>5, <1>6 DEF Next

\* Setters that run handlers that run setters (gdav_active_lock_set_*, "notify"
\* and g_object_set) come to rest: for any bound on the calls of the application
\* no chain of them is infinite, with or without fairness.
THEOREM CascadesEndAtRest == Spec => CascadesEnd
<1> DEFINE T == Budget \in Nat /\ Load \in Nat
           L == AtRest' \/ Budget' < Budget \/ (Budget' = Budget /\ Load' < Load)
<1>1. IInv /\ CascadeInv /\ [Next]_vars => CascadeInv' /\ [L]_vars
  BY CascadeNext
<1>2. IInv => T
  BY BudgetTyped, LoadTyped DEF IInv, FramesOK
<1> HIDE DEF T, L
<1>3. Spec => []T /\ [][L]_vars
  BY <1>1, <1>2, CascadeInit, Invariant, PTL DEF Spec
<1> QED  BY <1>3 DEF CascadesEnd, T, L
=============================================================================
