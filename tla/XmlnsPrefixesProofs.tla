------------------------ MODULE XmlnsPrefixesProofs ------------------------
(***************************************************************************)
(* Proofs about the prefix registry for any number of threads, namespaces  *)
(* and prefixes: type correctness, absence of races on the hash table, and *)
(* the refinement of the atomic map.                                       *)
(***************************************************************************)
EXTENDS XmlnsPrefixes, TLAPS

\* Type correctness: whatever the threads call, every variable of the registry
\* keeps its type (gdav-xml-namespaces.c).
THEOREM TypeCorrect == Spec => []TypeOK
<1>1. Init => TypeOK
  BY NoneAssumption, NamesAssumption DEF Init, TypeOK, Request, Pc, Table, Empty
<1>2. TypeOK /\ [Next]_vars => TypeOK'
  <2> SUFFICES ASSUME TypeOK, [Next]_vars PROVE TypeOK'
    OBVIOUS
  <2> USE DEF TypeOK, Goto
  <2>1. ASSUME NEW t \in Thread, Call(t) PROVE TypeOK'
    BY <2>1 DEF Call, Pc
  <2>2. ASSUME NEW t \in Thread, OnceStart(t) PROVE TypeOK'
    BY <2>2 DEF OnceStart, Pc, Table, Empty
  <2>3. ASSUME NEW t \in Thread, OncePassed(t) PROVE TypeOK'
    BY <2>3 DEF OncePassed, Pc
  <2>4. ASSUME NEW t \in Thread, AddDav(t) PROVE TypeOK'
    BY <2>4, NamesAssumption DEF AddDav, Pc, Table
  <2>5. ASSUME NEW t \in Thread, AddCaldav(t) PROVE TypeOK'
    BY <2>5, NamesAssumption DEF AddCaldav, Pc, Table
  <2>6. ASSUME NEW t \in Thread, Publish(t) PROVE TypeOK'
    BY <2>6 DEF Publish, Pc
  <2>7. ASSUME NEW t \in Thread, Lock(t) PROVE TypeOK'
    BY <2>7 DEF Lock, Pc
  <2>8. ASSUME NEW t \in Thread, Enter(t) PROVE TypeOK'
    BY <2>8 DEF Enter, Pc
  <2>9. ASSUME NEW t \in Thread, Access(t) PROVE TypeOK'
    <3>1. req[t] \in Request /\ pc' \in [Thread -> Pc]
      BY <2>9 DEF Access, Pc
    <3>2. CASE req[t].op = "get"
      BY <2>9, <3>1, <3>2 DEF Access, Request, Table
    <3>3. CASE req[t].op # "get"
      BY <2>9, <3>1, <3>3 DEF Access, Request, Table
    <3> QED BY <3>2, <3>3
  <2>10. ASSUME NEW t \in Thread, Unlock(t) PROVE TypeOK'
    BY <2>10 DEF Unlock, Pc
  <2>11. ASSUME NEW t \in Thread, Return(t) PROVE TypeOK'
    BY <2>11 DEF Return, Pc
  <2>12. CASE UNCHANGED vars
    BY <2>12 DEF vars
  <2> QED
    BY <2>1, <2>2, <2>3, <2>4, <2>5, <2>6, <2>7, <2>8, <2>9, <2>10, <2>11,
       <2>12 DEF Next, Step
<1> QED
  BY <1>1, <1>2, PTL DEF Spec

-----------------------------------------------------------------------------
(* The inductive invariant: who initialises, who may access, and what the  *)
(* table contains while it is being initialised.                           *)

OnceInv ==
    /\ \A t \in Thread : Initialises(t) => once = "progress"
    /\ \A s, t \in Thread : Initialises(s) /\ Initialises(t) => s = t
    /\ \A t \in Thread : pc[t] \in {"lock", "return"} => once = "ready"
    /\ once = "progress" => \E t \in Thread : Initialises(t)

LockInv ==
    /\ \A t \in Thread : Holds(t) => lock = t /\ once = "ready"
    /\ lock # None => lock \in Thread /\ Holds(lock)

BuildInv ==
    \A t \in Thread :
        /\ pc[t] = "add_dav" => table = Empty
        /\ pc[t] = "add_caldav" => table = [Empty EXCEPT ![Dav] = D]
        /\ pc[t] = "publish" => table = Initial

ValueInv ==
    \A t \in Thread :
        pc[t] \in Pc \ {"unlock", "return"} => value[t] = None \/ pc[t] = "idle"

IInv == TypeOK /\ OnceInv /\ LockInv /\ BuildInv /\ ValueInv

LEMMA InitInvariant == Init => IInv
<1>1. Init => TypeOK
  BY NoneAssumption, NamesAssumption DEF Init, TypeOK, Request, Pc, Table, Empty
<1> QED
  BY <1>1 DEF Init, IInv, OnceInv, LockInv, BuildInv, ValueInv, Initialises, Holds

\* Each action keeps each part of the invariant, typing apart.
LEMMA StepInvariant ==
    ASSUME IInv, TypeOK', [Next]_vars
    PROVE  IInv'
<1> USE DEF IInv, TypeOK, Goto, Initialises, Holds, Pc
<1>1. ASSUME NEW t \in Thread, Call(t) PROVE IInv'
  BY <1>1 DEF Call, OnceInv, LockInv, BuildInv, ValueInv
<1>2. ASSUME NEW t \in Thread, OnceStart(t) PROVE IInv'
  BY <1>2 DEF OnceStart, MayInitialise, OnceInv, LockInv, BuildInv, ValueInv
<1>3. ASSUME NEW t \in Thread, OncePassed(t) PROVE IInv'
  BY <1>3 DEF OncePassed, OnceInv, LockInv, BuildInv, ValueInv
<1>4. ASSUME NEW t \in Thread, AddDav(t) PROVE IInv'
  BY <1>4, ZenonT(40) DEF AddDav, OnceInv, LockInv, BuildInv, ValueInv
<1>5. ASSUME NEW t \in Thread, AddCaldav(t) PROVE IInv'
  <2>1. table' = Initial
    BY <1>5, NamesAssumption DEF AddCaldav, BuildInv, Initial, Empty
  <2> QED
    BY <1>5, <2>1 DEF AddCaldav, OnceInv, LockInv, BuildInv, ValueInv
<1>6. ASSUME NEW t \in Thread, Publish(t) PROVE IInv'
  BY <1>6 DEF Publish, OnceInv, LockInv, BuildInv, ValueInv
<1>7. ASSUME NEW t \in Thread, Lock(t) PROVE IInv'
  BY <1>7, NoneAssumption DEF Lock, OnceInv, LockInv, BuildInv, ValueInv
<1>8. ASSUME NEW t \in Thread, Enter(t) PROVE IInv'
  BY <1>8 DEF Enter, OnceInv, LockInv, BuildInv, ValueInv
<1>9. ASSUME NEW t \in Thread, Access(t) PROVE IInv'
  <2>1. once = "ready" /\ \A s \in Thread : ~Initialises(s)
    BY <1>9 DEF Access, OnceInv, LockInv
  <2>2. OnceInv' /\ LockInv' /\ BuildInv'
    BY <1>9, <2>1 DEF Access, OnceInv, LockInv, BuildInv
  <2>3. \A s \in Thread \ {t} : value'[s] = value[s] /\ pc'[s] = pc[s]
    BY <1>9 DEF Access
  <2>4. ValueInv'
    BY <1>9, <2>3 DEF Access, ValueInv
  <2> QED BY <2>2, <2>4
<1>10. ASSUME NEW t \in Thread, Unlock(t) PROVE IInv'
  BY <1>10 DEF Unlock, OnceInv, LockInv, BuildInv, ValueInv
<1>11. ASSUME NEW t \in Thread, Return(t) PROVE IInv'
  BY <1>11 DEF Return, OnceInv, LockInv, BuildInv, ValueInv
<1>12. CASE UNCHANGED vars
  BY <1>12 DEF vars, OnceInv, LockInv, BuildInv, ValueInv
<1> QED
  BY <1>1, <1>2, <1>3, <1>4, <1>5, <1>6, <1>7, <1>8, <1>9, <1>10, <1>11, <1>12
     DEF Next, Step

\* The invariant holds of every behaviour of the registry.
THEOREM Invariance == Spec => []IInv
<1>1. IInv /\ TypeOK' /\ [Next]_vars => IInv'
  BY StepInvariant
<1> QED
  BY <1>1, InitInvariant, TypeCorrect, PTL DEF Spec

\* No two threads use the hash table at once: g_once admits one initialiser,
\* nobody is past it before it is done, and G_LOCK admits one accessor.
THEOREM RaceFreedom == Spec => []NoRace
<1>1. IInv => NoRace
  BY NoneAssumption DEF IInv, TypeOK, OnceInv, LockInv, NoRace, UsesTable,
     Initialises, Holds
<1> QED
  BY <1>1, Invariance, PTL

\* No deadlock: whoever g_once or G_LOCK keeps waiting waits for a thread that is
\* at work and waits for nobody.
THEOREM WaitsEnd == Spec => []WaitsForWorker
<1>1. IInv => WaitsForWorker
  BY DEF IInv, OnceInv, LockInv, WaitsForWorker
<1> QED
  BY <1>1, Invariance, PTL

-----------------------------------------------------------------------------
(* Refinement                                                              *)

LEMMA InitRefines == Init => Map!MapInit
  BY DEF Init, Map!MapInit, AbstractCall, Map!NoCall

\* A step of a thread is a step of its abstract call or, for all but the call,
\* the locked access and the return, a stuttering one.
LEMMA StepRefines ==
    ASSUME IInv, IInv', [Next]_vars
    PROVE  [Map!MapNext]_(Map!mapVars)
<1> DEFINE m == IF once = "ready" THEN table ELSE Initial
           call == [t \in Thread |-> AbstractCall(t)]
<1> USE DEF IInv, TypeOK, Goto, Pc
<1>a. ASSUME m' = m, call' = call PROVE UNCHANGED Map!mapVars
  BY <1>a DEF Map!mapVars
<1>1. ASSUME NEW t \in Thread, Call(t) PROVE Map!Invoke(t)
  <2>1. PICK r \in Request : req' = [req EXCEPT ![t] = r]
    BY <1>1 DEF Call
  <2>2. call[t] = Map!NoCall
    BY <1>1 DEF Call, AbstractCall, Map!NoCall
  <2>3. call' = [call EXCEPT ![t] = [state |-> "called", req |-> r]]
    BY <1>1, <2>1 DEF Call, AbstractCall
  <2> QED
    BY <1>1, <2>2, <2>3 DEF Call, Map!Invoke
<1>2. ASSUME NEW t \in Thread, OnceStart(t) PROVE m' = m /\ call' = call
  BY <1>2 DEF OnceStart, MayInitialise, AbstractCall
<1>3. ASSUME NEW t \in Thread, OncePassed(t) PROVE m' = m /\ call' = call
  BY <1>3 DEF OncePassed, AbstractCall
<1>4. ASSUME NEW t \in Thread, AddDav(t) PROVE m' = m /\ call' = call
  BY <1>4 DEF AddDav, AbstractCall, OnceInv, Initialises
<1>5. ASSUME NEW t \in Thread, AddCaldav(t) PROVE m' = m /\ call' = call
  BY <1>5 DEF AddCaldav, AbstractCall, OnceInv, Initialises
<1>6. ASSUME NEW t \in Thread, Publish(t) PROVE m' = m /\ call' = call
  BY <1>6 DEF Publish, AbstractCall, OnceInv, BuildInv, Initialises
<1>7. ASSUME NEW t \in Thread, Lock(t) PROVE m' = m /\ call' = call
  BY <1>7 DEF Lock, AbstractCall
<1>8. ASSUME NEW t \in Thread, Enter(t) PROVE m' = m /\ call' = call
  BY <1>8 DEF Enter, AbstractCall
<1>9. ASSUME NEW t \in Thread, Access(t) PROVE Map!TakeEffect(t)
  <2>1. once = "ready" /\ once' = "ready" /\ value[t] = None
    BY <1>9 DEF Access, LockInv, ValueInv, Holds
  <2>2. call[t] = [state |-> "called", req |-> req[t]]
    BY <1>9 DEF Access, AbstractCall
  <2>3. m' = Updated(m, req[t]) /\ value'[t] = Found(m, req[t])
    BY <1>9, <2>1 DEF Access, Updated, Found, Request
  <2>4. call' = [call EXCEPT ![t] = [state |-> "done", req |-> req[t],
                                     value |-> value'[t]]]
    BY <1>9 DEF Access, AbstractCall
  <2>5. call[t].state = "called" /\ call[t].req = req[t]
    BY <2>2
  <2>6. call' = [call EXCEPT ![t] = [state |-> "done", req |-> call[t].req,
                                     value |-> Found(m, call[t].req)]]
    BY <2>3, <2>4, <2>5
  <2>7. m' = Updated(m, call[t].req)
    BY <2>3, <2>5
  <2> HIDE DEF call, m
  <2> QED
    BY <2>5, <2>6, <2>7 DEF Map!TakeEffect, call, m
<1>10. ASSUME NEW t \in Thread, Unlock(t) PROVE m' = m /\ call' = call
  BY <1>10 DEF Unlock, AbstractCall
<1>11. ASSUME NEW t \in Thread, Return(t) PROVE Map!Return(t)
  BY <1>11 DEF Return, AbstractCall, Map!Return, Map!NoCall
<1>12. ASSUME UNCHANGED vars PROVE m' = m /\ call' = call
  BY <1>12 DEF vars, AbstractCall
<1> QED
  BY <1>a, <1>1, <1>2, <1>3, <1>4, <1>5, <1>6, <1>7, <1>8, <1>9, <1>10, <1>11,
     <1>12 DEF Next, Step, Map!MapNext

\* The registry implements the atomic map: every call of gdav_get_xmlns_prefix
\* and gdav_set_xmlns_prefix takes effect at one point of its execution.
THEOREM Linearizability == Spec => Linearizable
<1>1. IInv /\ IInv' /\ [Next]_vars => [Map!MapNext]_(Map!mapVars)
  BY StepRefines
<1> QED
  BY <1>1, InitRefines, Invariance, PTL DEF Spec, Linearizable, Map!MapSpec
=============================================================================
