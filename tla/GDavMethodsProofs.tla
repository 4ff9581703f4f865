-------------------------- MODULE GDavMethodsProofs --------------------------
(***************************************************************************)
(* Theorems about GDavMethods, for any threads and calls.                  *)
(*                                                                         *)
(* What the references, contexts and callbacks of a call depend on is      *)
(* which of its functions are on some C stack; FnsOf(c) is that set.  A    *)
(* step moves the functions of one call on one stack, and the inductive    *)
(* invariant has a part about stacks and a part about a call.              *)
(***************************************************************************)
EXTENDS GDavMethods, SequenceTheorems, TLAPS

-----------------------------------------------------------------------------
(* The inductive invariant                                                 *)

FramesOf(s) == {s[i] : i \in DOMAIN s}

\* Handlers of signals apart, no frame is twice on a stack.
Distinct(s) ==
    \A i, j \in DOMAIN s : s[i].fn \in Fn /\ s[i] = s[j] => i = j

\* On top of a synchronous call there are only the library's functions of
\* that call, and handlers of its signals.
Isolated(s) ==
    \A i, j \in DOMAIN s :
        i < j /\ s[j].fn \in Sync =>
            /\ s[i].call = s[j].call
            /\ s[i].fn \notin Sync \cup {"handler", "callback"}

StackInv(t) ==
    /\ Distinct(stack[t])
    /\ Isolated(stack[t])
    /\ \A f \in FramesOf(stack[t]) : f.call = None <=> f.fn = "handler"
    /\ \A f \in FramesOf(stack[t]) : f.fn \in Sync => defaults[t] = <<f.call>>
    /\ (\A f \in FramesOf(stack[t]) : f.fn \notin Sync) => defaults[t] = << >>

\* A function of a call is on one stack only.
Unique ==
    \A t, u \in Thread : \A f \in FramesOf(stack[t]) \cap FramesOf(stack[u]) :
        f.fn \in Fn /\ f.call # None => t = u

FnsOf(c) == {fn \in Fn : OnStack(fn, c)}

Inner == {"send_cb", "splice_cb", "inner_idle"}

\* The call has not come to its callback yet.
Pending(o, fns) == o.src # "none" \/ "request_cb" \in fns

Balanced(o, fns) ==
    /\ o.outer = One(InFlight(o)) + One("request_cb" \in fns)
                 + One("request_cb_end" \in fns)
                 + One(o.src = "outer") + One("outer_idle" \in fns)
                 + One(o.result)
    /\ o.inner = One(InFlight(o)) + One("send_cb" \in fns)
                 + One("splice_cb" \in fns) + One("inner_idle" \in fns)

Owned(o) ==
    /\ "inner" \in o.message <=> o.inner > 0
    /\ "context" \in o.message => o.outer > 0
    /\ o.phase = "begun" /\ o.outer > 0 /\ o.outerRes = "none"
          => "context" \in o.message
    /\ o.object = "task" => o.outer > 0

\* Where a call is in its life excludes most functions from the stacks.
Staged(o, fns) ==
    /\ o.phase = "idle" => o = IdleOp /\ fns = {}
    /\ InFlight(o) => fns \subseteq Sync
    /\ o.src = "outer" =>
          fns \cap {"request_cb", "outer_idle", "callback"} = {}
    /\ "request_cb" \in fns =>
          /\ o.src = "none"
          /\ fns \cap {"request_cb_end", "outer_idle", "callback"} = {}
    /\ Pending(o, fns) =>
          /\ o.phase = "begun" /\ o.called = 0 /\ ~o.result
          /\ o.sync => "sync_run" \in fns \/ "sync_wait" \in fns
          /\ "sync_wait" \in fns => o.running
    /\ o.src = "outer" => o.outerRes # "none"
    /\ o.called = 0 <=> o.phase \in {"idle", "begun"}
    /\ o.phase = "begun" => ~o.result

\* A synchronous call is in one function of the closure, on its own context.
Closed(c, o, fns) ==
    /\ fns \cap Sync # {} => o.sync
    /\ "callback" \in fns => ~o.sync
    /\ \A f, g \in fns \cap Sync : f = g
    /\ "sync_run" \in fns => o.src # "none" /\ fns \subseteq Sync
    /\ o.phase # "idle" => IF o.sync THEN o.ctx = c ELSE o.ctx \in Thread
    /\ o.src # "none" => o.srcCtx = o.ctx

\* Call c is in state o while its functions fns are on the stacks.
Consistent(c, o, fns) ==
    /\ o \in OpRecord
    /\ Balanced(o, fns) /\ Owned(o) /\ Staged(o, fns) /\ Closed(c, o, fns)

CallInv(c) == Consistent(c, op[c], FnsOf(c))

IInv ==
    /\ TypeOK
    /\ \A t \in Thread : StackInv(t)
    /\ Unique
    /\ \A c \in Call : CallInv(c)

-----------------------------------------------------------------------------
(* Stacks                                                                  *)

\* What a push does to the frames of a stack and to the parts of StackInv.
LEMMA PushFrame ==
    ASSUME NEW s \in Seq(Frame), NEW f \in Frame
    PROVE  /\ Push(f, s) \in Seq(Frame) /\ Push(f, s) # << >>
           /\ Head(Push(f, s)) = f /\ Tail(Push(f, s)) = s
           /\ FramesOf(Push(f, s)) = FramesOf(s) \cup {f}
           /\ Distinct(s) /\ (f.fn \notin Fn \/ f \notin FramesOf(s))
                => Distinct(Push(f, s))
           /\ /\ Isolated(s)
              /\ \A g \in FramesOf(s) : g.fn \in Sync =>
                    /\ f.call = g.call
                    /\ f.fn \notin Sync \cup {"handler", "callback"}
              => Isolated(Push(f, s))
<1> DEFINE p == Push(f, s)
<1>1. /\ p \in Seq(Frame) /\ Len(p) = Len(s) + 1 /\ p[1] = f
      /\ \A i \in 1 .. Len(s) : p[i + 1] = s[i]
      /\ \A i \in 2 .. Len(p) : p[i] = s[i - 1]
  BY ConcatProperties DEF Push
<1>2. DOMAIN p = 1 .. Len(p) /\ DOMAIN s = 1 .. Len(s) /\ Len(s) \in Nat
  BY <1>1
<1>3. p # << >> /\ Head(p) = f /\ Tail(p) = s
  <2>1. p # << >> /\ Head(p) = f
    BY <1>1, <1>2
  <2>2. /\ Tail(p) \in Seq(Frame) /\ Len(Tail(p)) = Len(s)
        /\ \A i \in 1 .. Len(s) : Tail(p)[i] = s[i]
    BY <1>1, <1>2, <2>1, HeadTailProperties
  <2>3. Tail(p) = s
    BY <2>2, SeqEqual
  <2> QED  BY <2>1, <2>3
<1>  HIDE DEF p
<1>4. FramesOf(p) = FramesOf(s) \cup {f}
  <2>1. ASSUME NEW i \in 1 .. Len(p)  PROVE p[i] \in FramesOf(s) \cup {f}
    <3>1. CASE i = 1
      BY <3>1, <1>1
    <3>2. CASE i # 1
      <4>1. i - 1 \in 1 .. Len(s) /\ p[i] = s[i - 1]
        BY <3>2, <1>1, <1>2
      <4> QED  BY <4>1, <1>2 DEF FramesOf
    <3> QED  BY <3>1, <3>2
  <2>2. ASSUME NEW i \in 1 .. Len(s)  PROVE s[i] \in FramesOf(p)
    <3>1. i + 1 \in 1 .. Len(p) /\ s[i] = p[i + 1]
      BY <1>1, <1>2
    <3> QED  BY <3>1, <1>2 DEF FramesOf
  <2>3. f \in FramesOf(p)
    BY <1>1, <1>2 DEF FramesOf
  <2> QED  BY <2>1, <2>2, <2>3, <1>2 DEF FramesOf
<1>5. ASSUME Distinct(s), f.fn \notin Fn \/ f \notin FramesOf(s)  PROVE Distinct(p)
  <2> SUFFICES ASSUME NEW i \in 1 .. Len(p), NEW j \in 1 .. Len(p), p[i] = p[j],
                      p[i].fn \in Fn
               PROVE  i = j
    BY <1>2 DEF Distinct
  <2>1. ASSUME NEW k \in 2 .. Len(p)
        PROVE  /\ k - 1 \in 1 .. Len(s) /\ p[k] = s[k - 1]
               /\ f.fn \in Fn => p[k] # f
    BY <1>1, <1>2, <1>5 DEF FramesOf
  <2>2. CASE i = 1 \/ j = 1
    BY <2>1, <2>2, <1>1, <1>2
  <2>3. CASE i # 1 /\ j # 1
    <3>1. i - 1 = j - 1
      BY <2>1, <2>3, <1>2, <1>5 DEF Distinct
    <3> QED  BY <3>1
  <2> QED  BY <2>2, <2>3
<1>6. ASSUME Isolated(s),
             \A g \in FramesOf(s) : g.fn \in Sync =>
                    /\ f.call = g.call
                    /\ f.fn \notin Sync \cup {"handler", "callback"}
      PROVE  Isolated(p)
  <2> SUFFICES ASSUME NEW i \in 1 .. Len(p), NEW j \in 1 .. Len(p),
                      i < j, p[j].fn \in Sync
               PROVE  /\ p[i].call = p[j].call
                      /\ p[i].fn \notin Sync \cup {"handler", "callback"}
    BY <1>2 DEF Isolated
  <2>1. j - 1 \in 1 .. Len(s) /\ p[j] = s[j - 1]
    BY <1>1, <1>2
  <2>2. CASE i = 1
    BY <2>1, <2>2, <1>1, <1>2, <1>6 DEF FramesOf
  <2>3. CASE i # 1
    <3>1. i - 1 \in 1 .. Len(s) /\ p[i] = s[i - 1] /\ i - 1 < j - 1
      BY <2>3, <1>1, <1>2
    <3> QED  BY <2>1, <3>1, <1>2, <1>6 DEF Isolated
  <2> QED  BY <2>2, <2>3
<1> QED  BY <1>1, <1>3, <1>4, <1>5, <1>6 DEF p

\* The same of a pop.
LEMMA PopFrame ==
    ASSUME NEW s \in Seq(Frame), s # << >>
    PROVE  /\ Tail(s) \in Seq(Frame) /\ Head(s) \in Frame
           /\ FramesOf(s) = FramesOf(Tail(s)) \cup {Head(s)}
           /\ Distinct(s) =>
                /\ Distinct(Tail(s))
                /\ Head(s).fn \in Fn => Head(s) \notin FramesOf(Tail(s))
           /\ Isolated(s) =>
                /\ Isolated(Tail(s))
                /\ \A g \in FramesOf(Tail(s)) : g.fn \in Sync =>
                    /\ Head(s).call = g.call
                    /\ Head(s).fn \notin Sync \cup {"handler", "callback"}
<1> DEFINE r == Tail(s)
<1>1. /\ r \in Seq(Frame) /\ Len(s) = Len(r) + 1 /\ s[1] = Head(s)
      /\ \A i \in 1 .. Len(r) : r[i] = s[i + 1]
      /\ \A i \in 2 .. Len(s) : s[i] = r[i - 1]
      /\ Head(s) \in Frame
  BY HeadTailProperties
<1>2. DOMAIN r = 1 .. Len(r) /\ DOMAIN s = 1 .. Len(s) /\ Len(r) \in Nat
  BY <1>1
<1>3. FramesOf(s) = FramesOf(r) \cup {Head(s)}
  <2>1. s = Push(Head(s), r)
    BY <1>1, ConcatProperties, SeqEqual DEF Push
  <2> QED  BY <2>1, <1>1, PushFrame
<1>4. ASSUME Distinct(s)
      PROVE  Distinct(r) /\ (Head(s).fn \in Fn => Head(s) \notin FramesOf(r))
  <2>1. Distinct(r)
    BY <1>1, <1>2, <1>4 DEF Distinct
  <2>2. ASSUME Head(s).fn \in Fn, NEW i \in 1 .. Len(r)  PROVE r[i] # Head(s)
    <3>1. /\ i + 1 \in DOMAIN s /\ 1 \in DOMAIN s /\ i + 1 # 1
          /\ s[i + 1] = r[i] /\ s[1] = Head(s)
      BY <1>1, <1>2
    <3> QED  BY <1>4, <2>2, <3>1 DEF Distinct
  <2> QED  BY <1>2, <2>1, <2>2 DEF FramesOf
<1>5. ASSUME Isolated(s)
      PROVE  /\ Isolated(r)
             /\ \A g \in FramesOf(r) : g.fn \in Sync =>
                    /\ Head(s).call = g.call
                    /\ Head(s).fn \notin Sync \cup {"handler", "callback"}
  BY <1>1, <1>2, <1>5, SMTT(30) DEF Isolated, FramesOf
<1> QED  BY <1>1, <1>3, <1>4, <1>5

\* s is the stack of thread t after the functions in out of call c returned and
\* those in new were entered.  Synchronous calls on it are none but c.
Moved(t, c, s, out, new) ==
    /\ s \in Seq(Frame)
    /\ Distinct(s) /\ Isolated(s)
    /\ out \subseteq Fn /\ new \subseteq Fn
    /\ \A fn \in out : At(fn, c) \in FramesOf(stack[t])
    /\ new \cap FnsOf(c) \subseteq out
    /\ FramesOf(s) = (FramesOf(stack[t]) \ {At(fn, c) : fn \in out})
                     \cup {At(fn, c) : fn \in new}
    /\ \A g \in FramesOf(s) : g.fn \in Sync => g.call = c
    /\ "handler" \notin new

\* At makes a frame of its two parts, ...
LEMMA AtFrame ==
    ASSUME NEW fn \in Fn, NEW c \in Call \cup {None}
    PROVE  At(fn, c) \in Frame /\ At(fn, c).fn = fn /\ At(fn, c).call = c
BY DEF At, Frame

\* A frame of a call on a stack is one of its functions.
LEMMA OnStackFrame ==
    ASSUME TypeOK, NEW c \in Call, NEW t \in Thread, NEW fn \in Fn,
           At(fn, c) \in FramesOf(stack[t])
    PROVE  fn \in FnsOf(c)
BY DEF FnsOf, OnStack, FramesOf

\* The function at the top returns.
LEMMA MovedPop ==
    ASSUME TypeOK, NEW t \in Thread, StackInv(t), NEW c \in Call, NEW fn \in Fn,
           stack[t] # << >>, Head(stack[t]) = At(fn, c)
    PROVE  /\ Moved(t, c, Tail(stack[t]), {fn}, {})
           /\ fn \in FnsOf(c)
<1> DEFINE s == stack[t]
<1>1. s \in Seq(Frame) /\ At(fn, c).fn \in Fn
  BY AtFrame DEF TypeOK
<1>2. /\ Tail(s) \in Seq(Frame)
      /\ FramesOf(s) = FramesOf(Tail(s)) \cup {At(fn, c)}
      /\ Distinct(Tail(s)) /\ At(fn, c) \notin FramesOf(Tail(s))
      /\ Isolated(Tail(s))
      /\ \A g \in FramesOf(Tail(s)) : g.fn \in Sync => At(fn, c).call = g.call
  BY <1>1, PopFrame DEF StackInv
<1>3. At(fn, c).call = c
  BY AtFrame
<1> QED  BY <1>2, <1>3, OnStackFrame DEF Moved

\* A function of the library is entered.
LEMMA MovedPush ==
    ASSUME TypeOK, NEW t \in Thread, NEW c \in Call, NEW s,
           NEW out, NEW new, Moved(t, c, s, out, new),
           NEW fn \in Fn \ {"handler"}, fn \notin new,
           fn \notin FnsOf(c) \/ fn \in out,
           \A g \in FramesOf(s) : g.fn \in Sync => fn \notin Sync \cup {"callback"}
    PROVE  Moved(t, c, Push(At(fn, c), s), out, new \cup {fn})
<1> DEFINE f == At(fn, c)
           p == Push(f, s)
<1>1. f \in Frame /\ f.fn = fn /\ f.call = c
  BY AtFrame
<1>2. f \notin FramesOf(s)
  <2>1. SUFFICES ASSUME f \in FramesOf(s)  PROVE FALSE
    OBVIOUS
  <2>2. f \notin {At(g, c) : g \in new}
    BY <1>1 DEF At
  <2>3. f \in FramesOf(stack[t]) /\ fn \notin out
    BY <2>1, <2>2 DEF Moved
  <2> QED  BY <2>3, OnStackFrame
<1>3. /\ p \in Seq(Frame) /\ Distinct(p)
      /\ FramesOf(p) = FramesOf(s) \cup {f}
      /\ Isolated(p)
  <2>1. \A g \in FramesOf(s) : g.fn \in Sync =>
            f.call = g.call /\ f.fn \notin Sync \cup {"handler", "callback"}
    BY <1>1 DEF Moved
  <2> QED  BY <1>1, <1>2, <2>1, PushFrame DEF Moved
<1>4. FramesOf(p) = (FramesOf(stack[t]) \ {At(g, c) : g \in out})
                     \cup {At(g, c) : g \in new \cup {fn}}
  BY <1>3 DEF Moved
<1>5. \A g \in FramesOf(p) : g.fn \in Sync => g.call = c
  BY <1>1, <1>3 DEF Moved
<1> QED  BY <1>3, <1>4, <1>5 DEF Moved

\* The functions of a call, by the frames of the stacks, ...
LEMMA FnsOfFrames ==
    ASSUME TypeOK, NEW c \in Call, NEW fn \in Fn
    PROVE  fn \in FnsOf(c) <=> \E t \in Thread : At(fn, c) \in FramesOf(stack[t])
BY DEF FnsOf, OnStack, FramesOf

\* ... and after a step.
LEMMA FnsOfFramesPrime ==
    ASSUME TypeOK', NEW c \in Call, NEW fn \in Fn
    PROVE  fn \in FnsOf(c)' <=> \E t \in Thread : At(fn, c) \in FramesOf(stack'[t])
BY DEF FnsOf, OnStack, FramesOf

\* A call is not the absence of one.
LEMMA NotNone == ASSUME NEW c \in Call  PROVE c # None
BY IdentitiesAssumption

\* What a step that moves functions of call c on stack t does elsewhere.
LEMMA Effect ==
    ASSUME TypeOK, TypeOK', Unique, NEW t \in Thread, NEW c \in Call, NEW s,
           NEW out, NEW new, Moved(t, c, s, out, new),
           stack' = [stack EXCEPT ![t] = s]
    PROVE  /\ FnsOf(c)' = (FnsOf(c) \ out) \cup new
           /\ \A d \in Call \ {c} : FnsOf(d)' = FnsOf(d)
           /\ Unique'
<1>1. stack'[t] = s /\ \A u \in Thread \ {t} : stack'[u] = stack[u]
  BY DEF TypeOK
<1>2. \A fn, gn \in Fn, d, e \in Call :
         At(fn, d) = At(gn, e) => fn = gn /\ d = e
  BY AtFrame
<1>3. FramesOf(s) = (FramesOf(stack[t]) \ {At(fn, c) : fn \in out})
                     \cup {At(fn, c) : fn \in new}
      /\ out \subseteq Fn /\ new \subseteq Fn /\ new \cap FnsOf(c) \subseteq out
      /\ \A fn \in out : At(fn, c) \in FramesOf(stack[t])
  BY DEF Moved
<1>4. FnsOf(c)' = (FnsOf(c) \ out) \cup new
  <2>1. ASSUME NEW fn \in Fn, fn \in FnsOf(c)'
        PROVE  fn \in (FnsOf(c) \ out) \cup new
    <3>1. PICK u \in Thread : At(fn, c) \in FramesOf(stack'[u])
      BY <2>1, FnsOfFramesPrime
    <3>2. CASE u = t
      BY <3>1, <3>2, <1>1, <1>2, <1>3, FnsOfFrames
    <3>3. CASE u # t
      <4>1. At(fn, c) \in FramesOf(stack[u])
        BY <3>1, <3>3, <1>1
      <4>2. fn \notin out
        BY <4>1, <3>3, <1>3, AtFrame, NotNone DEF Unique
      <4> QED  BY <4>1, <4>2, FnsOfFrames
    <3> QED  BY <3>2, <3>3
  <2>2. ASSUME NEW fn \in Fn, fn \in (FnsOf(c) \ out) \cup new
        PROVE  fn \in FnsOf(c)'
    <3>1. CASE fn \in new
      BY <3>1, <1>1, <1>3, FnsOfFramesPrime
    <3>2. CASE fn \in FnsOf(c) /\ fn \notin out
      <4>1. PICK u \in Thread : At(fn, c) \in FramesOf(stack[u])
        BY <3>2, FnsOfFrames
      <4>2. At(fn, c) \in FramesOf(stack'[u])
        BY <4>1, <3>2, <1>1, <1>2, <1>3
      <4> QED  BY <4>2, FnsOfFramesPrime
    <3> QED  BY <2>2, <3>1, <3>2
  <2> QED  BY <2>1, <2>2, <1>3 DEF FnsOf
<1>5. ASSUME NEW d \in Call \ {c}  PROVE FnsOf(d)' = FnsOf(d)
  <2>1. ASSUME NEW fn \in Fn, NEW u \in Thread
        PROVE  At(fn, d) \in FramesOf(stack'[u]) <=> At(fn, d) \in FramesOf(stack[u])
    BY <1>1, <1>2, <1>3
  <2>2. ASSUME NEW fn \in Fn  PROVE fn \in FnsOf(d)' <=> fn \in FnsOf(d)
    BY <2>1, FnsOfFrames, FnsOfFramesPrime
  <2> QED  BY <2>2 DEF FnsOf
<1>6. Unique'
  <2> SUFFICES ASSUME NEW u \in Thread, NEW v \in Thread, u # v,
                      NEW f \in FramesOf(stack'[u]) \cap FramesOf(stack'[v]),
                      f.fn \in Fn, f.call # None
               PROVE  FALSE
    BY DEF Unique
  <2>1. ASSUME NEW w \in Thread \ {t},
               f \in FramesOf(stack'[w]), f \in FramesOf(stack'[t])
        PROVE  FALSE
    <3>1. f \in FramesOf(stack[w]) /\ f \in FramesOf(s)
      BY <2>1, <1>1
    <3>2. f \notin FramesOf(stack[t])
      BY <3>1 DEF Unique
    <3>3. PICK fn \in new : f = At(fn, c)
      BY <3>1, <3>2, <1>3
    <3>4. fn \in FnsOf(c)
      BY <3>1, <3>3, <1>3, FnsOfFrames
    <3> QED  BY <3>2, <3>3, <3>4, <1>3
  <2> QED  BY <2>1, <1>1 DEF Unique
<1> QED  BY <1>4, <1>5, <1>6

\* ... and to the stacks, while the synchronous calls stay where they are.
LEMMA StackEffect ==
    ASSUME TypeOK, NEW t \in Thread, \A u \in Thread : StackInv(u),
           NEW c \in Call, NEW s, NEW out, NEW new, Moved(t, c, s, out, new),
           stack' = [stack EXCEPT ![t] = s], UNCHANGED defaults,
           (out \cup new) \cap Sync = {}
    PROVE  \A u \in Thread : StackInv(u)'
<1>1. stack'[t] = s /\ \A u \in Thread \ {t} : stack'[u] = stack[u]
  BY DEF TypeOK
<1>2. ASSUME NEW u \in Thread \ {t}  PROVE StackInv(u)'
  BY <1>1 DEF StackInv
<1>3. StackInv(t)'
  <2>1. \A f \in FramesOf(s) : f.call = None <=> f.fn = "handler"
    BY AtFrame, NotNone DEF Moved, StackInv
  <2>2. \A f : f.fn \in Sync => (f \in FramesOf(s) <=> f \in FramesOf(stack[t]))
    BY AtFrame DEF Moved
  <2>3. /\ \A f \in FramesOf(s) : f.fn \in Sync => defaults[t] = <<f.call>>
        /\ (\A f \in FramesOf(s) : f.fn \notin Sync) => defaults[t] = << >>
    BY <2>2 DEF StackInv
  <2>4. Distinct(s) /\ Isolated(s)
    BY DEF Moved
  <2> QED  BY <1>1, <2>1, <2>3, <2>4 DEF StackInv
<1> QED  BY <1>2, <1>3

-----------------------------------------------------------------------------
(* What the steps do to a call                                             *)

\* What no reference count and no source has to do with.
SameCall(o, p) ==
    /\ p.kind = o.kind /\ p.sync = o.sync /\ p.phase = o.phase /\ p.ctx = o.ctx
    /\ p.innerRes = o.innerRes /\ p.outerRes = o.outerRes /\ p.copies = o.copies
    /\ p.running = o.running /\ p.result = o.result /\ p.called = o.called
    /\ p.wanted = o.wanted /\ p.outs = o.outs /\ p.ret = o.ret

SameSource(o, p) == p.src = o.src /\ p.srcCtx = o.srcCtx

\* A new source changes nothing but the source.
LEMMA AttachFields ==
    ASSUME NEW o \in OpRecord, NEW x \in Context \cup {None},
           NEW src \in {"none", "send", "splice", "inner", "outer"}
    PROVE  LET p == Attach(o, src, x)
           IN  /\ p \in OpRecord /\ SameCall(o, p)
               /\ p.src = src /\ p.srcCtx = x
               /\ p.outer = o.outer /\ p.inner = o.inner
               /\ p.message = o.message /\ p.object = o.object
<1> DEFINE p == Attach(o, src, x)
<1>1. p = [o EXCEPT !.src = src, !.srcCtx = x]
  BY DEF Attach
<1>2. p \in OpRecord
  BY <1>1, ZenonT(40) DEF OpRecord
<1>3. SameCall(o, p)
  BY <1>1 DEF OpRecord, SameCall
<1>4. /\ p.src = src /\ p.srcCtx = x /\ p.outer = o.outer /\ p.inner = o.inner
      /\ p.message = o.message /\ p.object = o.object
  BY <1>1 DEF OpRecord
<1> QED  BY <1>2, <1>3, <1>4

\* g_object_ref changes nothing but one count.
LEMMA RefFields ==
    ASSUME NEW o \in OpRecord
    PROVE  /\ LET p == RefOuter(o)
              IN  /\ p \in OpRecord /\ SameCall(o, p) /\ SameSource(o, p)
                  /\ p.outer = o.outer + 1 /\ p.inner = o.inner
                  /\ p.message = o.message /\ p.object = o.object
           /\ LET p == RefInner(o)
              IN  /\ p \in OpRecord /\ SameCall(o, p) /\ SameSource(o, p)
                  /\ p.outer = o.outer /\ p.inner = o.inner + 1
                  /\ p.message = o.message /\ p.object = o.object
BY DEF OpRecord, RefOuter, RefInner, SameCall, SameSource

\* g_object_unref of the outer task; the last takes the context along.
LEMMA UnrefOuterFields ==
    ASSUME NEW o \in OpRecord, o.outer > 0
    PROVE  LET p == UnrefOuter(o)
           IN  /\ p \in OpRecord /\ SameCall(o, p) /\ SameSource(o, p)
               /\ p.outer = o.outer - 1 /\ p.inner = o.inner
               /\ p.message = IF o.outer = 1 THEN o.message \ {"context"}
                                            ELSE o.message
               /\ p.object = IF o.outer = 1 /\ o.object = "task"
                             THEN "freed" ELSE o.object
<1>1. CASE o.outer = 1
  <2>  DEFINE m == o.message \ {"context"}
              x == IF o.object = "task" THEN "freed" ELSE o.object
              p == [o EXCEPT !.outer = 0, !.message = m, !.object = x]
  <2>1. m \in SUBSET Holder /\ x \in {"none", "task", "caller", "freed"}
    BY DEF OpRecord
  <2>2. UnrefOuter(o) = p
    BY <1>1 DEF UnrefOuter
  <2>3. /\ m = IF o.outer = 1 THEN o.message \ {"context"} ELSE o.message
        /\ x = IF o.outer = 1 /\ o.object = "task" THEN "freed" ELSE o.object
        /\ o.outer - 1 = 0
    BY <1>1
  <2>  HIDE DEF m, x
  <2>4. /\ p \in OpRecord /\ SameCall(o, p) /\ SameSource(o, p)
        /\ p.outer = 0 /\ p.inner = o.inner
        /\ p.message = m /\ p.object = x
    BY <2>1, ZenonT(40) DEF OpRecord, SameCall, SameSource
  <2>  HIDE DEF p
  <2> QED  BY <2>2, <2>3, <2>4
<1>2. CASE o.outer # 1
  BY <1>2 DEF OpRecord, UnrefOuter, SameCall, SameSource
<1> QED  BY <1>1, <1>2

\* g_object_unref of the inner task; the last drops its message.
LEMMA UnrefInnerFields ==
    ASSUME NEW o \in OpRecord, o.inner > 0
    PROVE  LET p == UnrefInner(o)
           IN  /\ p \in OpRecord /\ SameCall(o, p) /\ SameSource(o, p)
               /\ p.outer = o.outer /\ p.inner = o.inner - 1
               /\ p.message = IF o.inner = 1 THEN o.message \ {"inner"}
                                            ELSE o.message
               /\ p.object = o.object
<1>1. CASE o.inner = 1
  <2>  DEFINE m == o.message \ {"inner"}
              p == [o EXCEPT !.inner = 0, !.message = m]
  <2>1. m \in SUBSET Holder
    BY DEF OpRecord
  <2>2. UnrefInner(o) = p
    BY <1>1 DEF UnrefInner
  <2>3. /\ m = IF o.inner = 1 THEN o.message \ {"inner"} ELSE o.message
        /\ o.inner - 1 = 0
    BY <1>1
  <2>  HIDE DEF m
  <2>4. /\ p \in OpRecord /\ SameCall(o, p) /\ SameSource(o, p)
        /\ p.outer = o.outer /\ p.inner = 0
        /\ p.message = m /\ p.object = o.object
    BY <2>1 DEF OpRecord, SameCall, SameSource
  <2>  HIDE DEF p
  <2> QED  BY <2>2, <2>3, <2>4
<1>2. CASE o.inner # 1
  BY <1>2 DEF OpRecord, UnrefInner, SameCall, SameSource
<1> QED  BY <1>1, <1>2

\* g_object_unref at the end of a callback of the inner task.
LEMMA LeaveInnerStep ==
    ASSUME NEW c \in Call, NEW o, NEW fns \in SUBSET Fn, Consistent(c, o, fns),
           NEW fn \in Inner \cap fns
    PROVE  Consistent(c, UnrefInner(o), fns \ {fn})
<1> DEFINE p == UnrefInner(o)
           rest == fns \ {fn}
<1>1. o.inner > 0
  BY DEF Consistent, Balanced, One, Inner, OpRecord
<1>2. p \in OpRecord
  BY <1>1, UnrefInnerFields DEF Consistent
<1>3. Balanced(p, rest)
  BY <1>1 DEF Consistent, Balanced, One, Inner, OpRecord, UnrefInner, InFlight
<1>4. Owned(p)
  BY <1>1 DEF Consistent, Owned, OpRecord, UnrefInner
<1>5. Staged(p, rest)
  BY <1>1 DEF Consistent, Staged, OpRecord, UnrefInner, InFlight, Pending, Inner
<1>6. Closed(c, p, rest)
  BY <1>1 DEF Consistent, Closed, OpRecord, UnrefInner, Inner
<1> QED  BY <1>2, <1>3, <1>4, <1>5, <1>6 DEF Consistent

\* The same of the outer task.
LEMMA LeaveOuterStep ==
    ASSUME NEW c \in Call, NEW o, NEW fns \in SUBSET Fn, Consistent(c, o, fns),
           NEW fn \in {"request_cb_end", "outer_idle"} \cap fns
    PROVE  Consistent(c, UnrefOuter(o), fns \ {fn})
<1> DEFINE p == UnrefOuter(o)
           rest == fns \ {fn}
<1>1. o.outer > 0
  BY DEF Consistent, Balanced, One, OpRecord
<1>2. p \in OpRecord
  BY <1>1, UnrefOuterFields DEF Consistent
<1>3. Balanced(p, rest)
  BY <1>1 DEF Consistent, Balanced, One, OpRecord, UnrefOuter, InFlight
<1>4. Owned(p)
  BY <1>1 DEF Consistent, Owned, OpRecord, UnrefOuter
<1>5. Staged(p, rest)
  BY <1>1 DEF Consistent, Staged, OpRecord, UnrefOuter, InFlight, Pending, Sync
<1>6. Closed(c, p, rest)
  BY <1>1 DEF Consistent, Closed, OpRecord, UnrefOuter
<1> QED  BY <1>2, <1>3, <1>4, <1>5, <1>6 DEF Consistent

\* b is call o without its source, whose callback stored a result.
Answered(o, b) ==
    /\ b \in OpRecord
    /\ b.src = "none" /\ b.srcCtx = None
    /\ b.kind = o.kind /\ b.sync = o.sync /\ b.phase = o.phase /\ b.ctx = o.ctx
    /\ b.outerRes = o.outerRes /\ b.running = o.running /\ b.result = o.result
    /\ b.called = o.called /\ b.outer = o.outer /\ b.inner = o.inner
    /\ b.message = o.message /\ b.object = o.object /\ b.ret = o.ret

\* A callback or an idle source of the inner task calls the outer callback.
LEMMA RequestCbEntered ==
    ASSUME NEW c \in Call, NEW o, NEW fns \in SUBSET Fn, Consistent(c, o, fns),
           InFlight(o), "sync_run" \notin fns,
           NEW b, Answered(o, b), NEW fn \in Inner
    PROVE  Consistent(c, b, fns \cup {fn, "request_cb"})
<1> DEFINE more == fns \cup {fn, "request_cb"}
<1>1. o.inner = 1 /\ fns \subseteq Sync /\ o.phase = "begun"
  BY DEF Consistent, Balanced, Staged, One, OpRecord, InFlight, Sync, Pending
<1>2. Balanced(b, more)
  BY <1>1 DEF Consistent, Answered, Balanced, One, OpRecord, InFlight, Sync, Inner
<1>3. Owned(b)
  BY DEF Consistent, Answered, Owned
<1>4. Staged(b, more)
  BY <1>1 DEF Consistent, Answered, Staged, InFlight, Pending, Sync, Inner
<1>5. Closed(c, b, more)
  BY <1>1 DEF Consistent, Answered, Closed, Sync, Inner
<1> QED  BY <1>2, <1>3, <1>4, <1>5 DEF Consistent, Answered

\* A callback of the inner task leaves the rest to an idle source, or starts
\* the splice: a new source in place of the old one.
LEMMA SourceReplaced ==
    ASSUME NEW c \in Call, NEW o, NEW fns \in SUBSET Fn, Consistent(c, o, fns),
           InFlight(o), NEW b, Answered(o, b), NEW src \in {"splice", "inner"}
    PROVE  Consistent(c, UnrefInner(Attach(RefInner(b), src, o.ctx)), fns)
<1> DEFINE r == RefInner(b)
           a == Attach(r, src, o.ctx)
           q == UnrefInner(a)
<1>1. o.inner = 1 /\ fns \subseteq Sync /\ o.phase = "begun"
  BY DEF Consistent, Balanced, Staged, One, OpRecord, InFlight, Sync, Pending
<1>2. /\ r \in OpRecord /\ SameCall(b, r) /\ r.inner = 2 /\ r.outer = o.outer
      /\ r.message = o.message /\ r.object = o.object
  BY <1>1, RefFields DEF Answered
<1>  HIDE DEF r
<1>3. /\ a \in OpRecord /\ SameCall(r, a) /\ a.src = src /\ a.srcCtx = o.ctx
      /\ a.inner = 2 /\ a.outer = o.outer
      /\ a.message = o.message /\ a.object = o.object
  BY <1>2, AttachFields DEF Consistent, OpRecord
<1>  HIDE DEF a
<1>4. /\ q \in OpRecord /\ SameCall(a, q) /\ q.src = src /\ q.srcCtx = o.ctx
      /\ q.inner = 1 /\ q.outer = o.outer
      /\ q.message = o.message /\ q.object = o.object
  <2>1. a.inner > 0 /\ a.inner # 1 /\ a.inner - 1 = 1
    BY <1>3
  <2>2. /\ q \in OpRecord /\ SameCall(a, q) /\ SameSource(a, q)
        /\ q.outer = a.outer /\ q.inner = a.inner - 1
        /\ q.message = a.message /\ q.object = a.object
    BY <1>3, <2>1, UnrefInnerFields
  <2>  HIDE DEF q
  <2> QED  BY <1>3, <2>1, <2>2 DEF SameSource
<1>5. /\ q.sync = o.sync /\ q.phase = o.phase /\ q.ctx = o.ctx
      /\ q.outerRes = o.outerRes /\ q.running = o.running
      /\ q.result = o.result /\ q.called = o.called
  BY <1>2, <1>3, <1>4 DEF SameCall, Answered
<1>  HIDE DEF q
<1>6. Balanced(q, fns)
  BY <1>1, <1>4, <1>5 DEF Consistent, Balanced, One, InFlight, Sync
<1>7. Owned(q)
  BY <1>1, <1>4, <1>5 DEF Consistent, Owned
<1>8. Staged(q, fns)
  BY <1>1, <1>4, <1>5 DEF Consistent, Staged, InFlight, Pending, Sync
<1>9. Closed(c, q, fns)
  BY <1>1, <1>4, <1>5 DEF Consistent, Closed, Sync
<1> QED  BY <1>4, <1>6, <1>7, <1>8, <1>9 DEF Consistent, q, a, r

\* b is call o without its source, with a result of the outer task.
Resolved(o, b) ==
    /\ b \in OpRecord
    /\ b.src = "none" /\ b.outerRes # "none" /\ b.object \in {o.object, "task"}
    /\ b.kind = o.kind /\ b.sync = o.sync /\ b.phase = o.phase /\ b.ctx = o.ctx
    /\ b.running = o.running /\ b.result = o.result /\ b.called = o.called
    /\ b.outer = o.outer /\ b.inner = o.inner /\ b.message = o.message
    /\ b.ret = o.ret

Replaced(fns) == (fns \ {"request_cb"}) \cup {"request_cb_end"}

\* The callback of the outer task runs: in the application, or as
\* gdav_async_closure_callback.
LEMMA CallbackCalled ==
    ASSUME NEW c \in Call, NEW o, NEW fns \in SUBSET Fn, Consistent(c, o, fns),
           NEW b, Resolved(o, b), "sync_run" \notin fns, NEW rest,
           \/ "request_cb" \in fns /\ rest = Replaced(fns)
           \/ o.src = "outer" /\ rest = fns \cup {"outer_idle"}
    PROVE  LET a == [b EXCEPT !.called = @ + 1, !.phase = "ready"]
           IN  IF o.sync THEN Consistent(c, ClosureCallback(a), rest)
                         ELSE Consistent(c, a, rest \cup {"callback"})
<1> DEFINE a == [b EXCEPT !.called = @ + 1, !.phase = "ready"]
           q == ClosureCallback(a)
<1>1. /\ a \in OpRecord /\ a.called = 1 /\ a.phase = "ready" /\ ~a.result
      /\ a.src = "none" /\ a.outerRes # "none" /\ a.object \in {o.object, "task"}
      /\ a.sync = o.sync /\ a.ctx = o.ctx
      /\ a.outer = o.outer /\ a.inner = o.inner /\ a.message = o.message
  <2>1. o.called = 0 /\ ~o.result
    BY DEF Consistent, Staged, Pending
  <2>  DEFINE n == b.called + 1
  <2>2. b \in OpRecord /\ n \in Nat /\ a = [b EXCEPT !.called = n, !.phase = "ready"]
    BY DEF Resolved, OpRecord
  <2>  HIDE DEF n, a
  <2>3. /\ a \in OpRecord /\ a.called = n /\ a.phase = "ready"
        /\ a.result = b.result /\ a.src = b.src /\ a.outerRes = b.outerRes
        /\ a.object = b.object /\ a.sync = b.sync /\ a.ctx = b.ctx
        /\ a.outer = b.outer /\ a.inner = b.inner /\ a.message = b.message
    BY <2>2 DEF OpRecord
  <2> QED  BY <2>1, <2>3 DEF Resolved, n
<1>2. o.outer > 0 /\ o.phase = "begun" /\ ~o.result /\ o.called = 0
  BY DEF Consistent, Balanced, Staged, Pending, One, OpRecord
<1>  HIDE DEF a
<1>3. ASSUME ~o.sync  PROVE Consistent(c, a, rest \cup {"callback"})
  <2>1. Balanced(a, rest \cup {"callback"})
    BY <1>1, <1>2 DEF Consistent, Balanced, Staged, One, InFlight, Replaced, OpRecord
  <2>2. Owned(a)
    BY <1>1, <1>2 DEF Consistent, Owned, OpRecord
  <2>3. Staged(a, rest \cup {"callback"})
    BY <1>1, <1>2 DEF Consistent, Staged, InFlight, Pending, Replaced
  <2>4. Closed(c, a, rest \cup {"callback"})
    BY <1>1, <1>2, <1>3 DEF Consistent, Closed, Replaced, Sync
  <2> QED  BY <1>1, <2>1, <2>2, <2>3, <2>4 DEF Consistent
<1>4. ASSUME o.sync  PROVE Consistent(c, q, rest)
  <2>  DEFINE r == RefOuter(a)
  <2>1. q = [r EXCEPT !.result = TRUE, !.running = FALSE]
    BY <1>1 DEF ClosureCallback
  <2>2. /\ r \in OpRecord /\ SameCall(a, r) /\ SameSource(a, r)
        /\ r.outer = a.outer + 1 /\ r.inner = a.inner
        /\ r.message = a.message /\ r.object = a.object
    BY <1>1, RefFields
  <2>  HIDE DEF r
  <2>3. /\ q \in OpRecord /\ q.result = TRUE /\ q.running = FALSE
        /\ q.called = 1 /\ q.phase = "ready"
        /\ q.src = "none" /\ q.outerRes # "none" /\ q.object \in {o.object, "task"}
        /\ q.sync = o.sync /\ q.ctx = o.ctx
        /\ q.outer = o.outer + 1 /\ q.inner = o.inner /\ q.message = o.message
    <3>1. /\ q \in OpRecord /\ q.result = TRUE /\ q.running = FALSE
          /\ q.called = r.called /\ q.phase = r.phase /\ q.src = r.src
          /\ q.outerRes = r.outerRes /\ q.object = r.object
          /\ q.sync = r.sync /\ q.ctx = r.ctx
          /\ q.outer = r.outer /\ q.inner = r.inner /\ q.message = r.message
      <4>1. q \in OpRecord /\ q.result = TRUE /\ q.running = FALSE
        BY <2>1, <2>2, ZenonT(60) DEF OpRecord
      <4>2. /\ q.called = r.called /\ q.phase = r.phase /\ q.src = r.src
            /\ q.outerRes = r.outerRes /\ q.object = r.object
            /\ q.sync = r.sync /\ q.ctx = r.ctx
        BY <2>1, <2>2 DEF OpRecord
      <4>3. q.outer = r.outer /\ q.inner = r.inner /\ q.message = r.message
        BY <2>1, <2>2 DEF OpRecord
      <4> QED  BY <4>1, <4>2, <4>3
    <3>  HIDE DEF q
    <3> QED  BY <1>1, <2>2, <3>1 DEF SameCall, SameSource
  <2>  HIDE DEF q
  <2>4. Balanced(q, rest)
    BY <1>1, <1>2, <2>3 DEF Consistent, Balanced, Staged, One, InFlight, Replaced,
                            OpRecord
  <2>5. Owned(q)
    BY <1>2, <2>3 DEF Consistent, Owned, OpRecord
  <2>6. Staged(q, rest)
    BY <1>2, <2>3 DEF Consistent, Staged, InFlight, Pending, Replaced
  <2>7. Closed(c, q, rest)
    BY <1>2, <1>4, <2>3 DEF Consistent, Closed, Replaced, Sync
  <2> QED  BY <2>3, <2>4, <2>5, <2>6, <2>7 DEF Consistent
<1> QED  BY <1>3, <1>4 DEF a

\* The callback of the outer task is left to an idle source.
LEMMA CallbackPostponed ==
    ASSUME NEW c \in Call, NEW o, NEW fns \in SUBSET Fn, Consistent(c, o, fns),
           NEW b, Resolved(o, b), "request_cb" \in fns
    PROVE  Consistent(c, Attach(RefOuter(b), "outer", b.ctx), Replaced(fns))
<1> DEFINE r == RefOuter(b)
           q == Attach(r, "outer", b.ctx)
           rest == Replaced(fns)
<1>1. o.outer > 0 /\ o.phase = "begun" /\ ~o.result /\ o.called = 0 /\ o.src = "none"
      /\ "sync_run" \notin fns
  BY DEF Consistent, Balanced, Staged, Closed, Pending, One, OpRecord, Sync
<1>2. /\ r \in OpRecord /\ SameCall(b, r) /\ r.outer = o.outer + 1
      /\ r.inner = o.inner /\ r.message = o.message /\ r.object = b.object
  BY RefFields DEF Resolved
<1>  HIDE DEF r
<1>3. /\ q \in OpRecord /\ SameCall(r, q) /\ q.src = "outer" /\ q.srcCtx = b.ctx
      /\ q.outer = o.outer + 1 /\ q.inner = o.inner
      /\ q.message = o.message /\ q.object = b.object
  BY <1>2, AttachFields DEF Resolved, OpRecord
<1>4. /\ q.sync = o.sync /\ q.phase = o.phase /\ q.ctx = o.ctx /\ q.srcCtx = o.ctx
      /\ q.outerRes # "none" /\ q.running = o.running
      /\ q.result = o.result /\ q.called = o.called /\ q.object \in {o.object, "task"}
  BY <1>2, <1>3 DEF SameCall, Resolved
<1>  HIDE DEF q
<1>5. Balanced(q, rest)
  BY <1>1, <1>3, <1>4 DEF Consistent, Balanced, Staged, One, InFlight, Replaced,
                          OpRecord
<1>6. Owned(q)
  BY <1>1, <1>3, <1>4 DEF Consistent, Owned, OpRecord
<1>7. Staged(q, rest)
  BY <1>1, <1>3, <1>4 DEF Consistent, Staged, InFlight, Pending, Replaced
<1>8. Closed(c, q, rest)
  BY <1>1, <1>3, <1>4 DEF Consistent, Closed, Replaced, Sync
<1> QED  BY <1>3, <1>5, <1>6, <1>7, <1>8 DEF Consistent, q, r

\* Without an object and an error the callback of the outer task just ends.
LEMMA CallbackDropped ==
    ASSUME NEW c \in Call, NEW o, NEW fns \in SUBSET Fn, Consistent(c, o, fns),
           "request_cb" \in fns
    PROVE  Consistent(c, o, Replaced(fns))
<1>1. Balanced(o, Replaced(fns))
  BY DEF Consistent, Balanced, Staged, One, OpRecord, Replaced
<1>2. Staged(o, Replaced(fns))
  BY DEF Consistent, Staged, InFlight, Pending, Replaced
<1>3. Closed(c, o, Replaced(fns))
  BY DEF Consistent, Closed, Replaced, Sync
<1> QED  BY <1>1, <1>2, <1>3 DEF Consistent

\* gdav_async_closure_wait, its return, and the return of a callback.
LEMMA WaitStep ==
    ASSUME NEW c \in Call, NEW o, NEW fns \in SUBSET Fn, Consistent(c, o, fns),
           "sync_run" \in fns
    PROVE  Consistent(c, [o EXCEPT !.running = TRUE],
                      (fns \ {"sync_run"}) \cup {"sync_wait"})
<1> DEFINE p == [o EXCEPT !.running = TRUE]
           rest == (fns \ {"sync_run"}) \cup {"sync_wait"}
<1>1. /\ p \in OpRecord /\ p.running = TRUE /\ p.phase = o.phase /\ p.src = o.src
      /\ p.srcCtx = o.srcCtx /\ p.outerRes = o.outerRes /\ p.object = o.object
      /\ p.sync = o.sync /\ p.ctx = o.ctx /\ p.called = o.called
      /\ p.result = o.result /\ p.outer = o.outer /\ p.inner = o.inner
      /\ p.message = o.message
  BY DEF Consistent, OpRecord
<1>  HIDE DEF p
<1>2. o.src # "none" /\ fns \subseteq Sync /\ o.phase = "begun"
  BY DEF Consistent, Closed, Staged, Pending
<1>3. Balanced(p, rest)
  BY <1>1 DEF Consistent, Balanced, InFlight
<1>4. Owned(p)
  BY <1>1 DEF Consistent, Owned
<1>5. Staged(p, rest)
  BY <1>1, <1>2 DEF Consistent, Staged, InFlight, Pending, Sync
<1>6. Closed(c, p, rest)
  BY <1>1, <1>2 DEF Consistent, Closed, Sync
<1> QED  BY <1>1, <1>3, <1>4, <1>5, <1>6 DEF Consistent, p

\* g_main_loop_run returns, the callback having told it to quit.
LEMMA QuitStep ==
    ASSUME NEW c \in Call, NEW o, NEW fns \in SUBSET Fn, Consistent(c, o, fns),
           "sync_wait" \in fns, ~o.running
    PROVE  Consistent(c, o, (fns \ {"sync_wait"}) \cup {"sync_finish"})
<1> DEFINE rest == (fns \ {"sync_wait"}) \cup {"sync_finish"}
<1>1. ~Pending(o, fns) /\ "sync_run" \notin fns
  BY DEF Consistent, Staged, Closed, Sync
<1>2. Balanced(o, rest)
  BY DEF Consistent, Balanced
<1>3. Staged(o, rest)
  BY <1>1 DEF Consistent, Staged, InFlight, Pending, Sync
<1>4. Closed(c, o, rest)
  BY <1>1 DEF Consistent, Closed, Sync
<1> QED  BY <1>2, <1>3, <1>4 DEF Consistent

\* The callback of the application returns.
LEMMA ReturnStep ==
    ASSUME NEW c \in Call, NEW o, NEW fns \in SUBSET Fn, Consistent(c, o, fns)
    PROVE  Consistent(c, o, fns \ {"callback"})
<1>1. Balanced(o, fns \ {"callback"})
  BY DEF Consistent, Balanced
<1>2. Staged(o, fns \ {"callback"})
  BY DEF Consistent, Staged, InFlight, Pending
<1>3. Closed(c, o, fns \ {"callback"})
  BY DEF Consistent, Closed, Sync
<1> QED  BY <1>1, <1>2, <1>3 DEF Consistent

\* The finish functions touch the message, the object and the outcome only.
LEMMA FinishStep ==
    ASSUME NEW c \in Call, NEW o, NEW fns \in SUBSET Fn, Consistent(c, o, fns),
           NEW p \in OpRecord,
           o.phase \in {"ready", "finishing"}, p.phase \in {"finishing", "finished"},
           p.message \in {o.message, (o.message \ {"context"}) \cup {"caller"}},
           p.object = o.object \/ p.object # "task",
           /\ p.src = o.src /\ p.srcCtx = o.srcCtx /\ p.outerRes = o.outerRes
           /\ p.sync = o.sync /\ p.ctx = o.ctx /\ p.called = o.called
           /\ p.result = o.result /\ p.outer = o.outer /\ p.inner = o.inner
           /\ p.running = o.running
    PROVE  Consistent(c, p, fns)
<1>1. Balanced(p, fns)
  BY DEF Consistent, Balanced, InFlight
<1>2. Owned(p)
  BY DEF Consistent, Owned
<1>3. Staged(p, fns)
  BY DEF Consistent, Staged, InFlight, Pending
<1>4. Closed(c, p, fns)
  BY DEF Consistent, Closed
<1> QED  BY <1>1, <1>2, <1>3, <1>4 DEF Consistent

\* gdav_async_closure_free drops the result.
LEMMA FreeStep ==
    ASSUME NEW c \in Call, NEW o, NEW fns \in SUBSET Fn, Consistent(c, o, fns),
           "sync_finish" \in fns
    PROVE  Consistent(c,
             IF o.result THEN UnrefOuter([o EXCEPT !.result = FALSE]) ELSE o,
             fns \ {"sync_finish"})
<1> DEFINE rest == fns \ {"sync_finish"}
           r == [o EXCEPT !.result = FALSE]
           p == UnrefOuter(r)
<1>1. ~Pending(o, fns) /\ "sync_run" \notin fns /\ "sync_wait" \notin fns
  BY DEF Consistent, Staged, Closed, Sync
<1>2. CASE ~o.result
  <2>1. Balanced(o, rest)
    BY DEF Consistent, Balanced
  <2>2. Staged(o, rest)
    BY <1>1 DEF Consistent, Staged, InFlight, Pending, Sync
  <2>3. Closed(c, o, rest)
    BY <1>1 DEF Consistent, Closed, Sync
  <2> QED  BY <1>2, <2>1, <2>2, <2>3 DEF Consistent
<1>3. CASE o.result
  <2>1. /\ r \in OpRecord /\ r.result = FALSE /\ r.outer = o.outer /\ r.outer > 0
        /\ r.phase = o.phase /\ r.src = o.src /\ r.srcCtx = o.srcCtx
        /\ r.outerRes = o.outerRes /\ r.object = o.object /\ r.sync = o.sync
        /\ r.ctx = o.ctx /\ r.called = o.called /\ r.inner = o.inner
        /\ r.message = o.message /\ r.running = o.running
    <3>1. o.outer > 0
      BY <1>3 DEF Consistent, Balanced, One, OpRecord
    <3> QED  BY <3>1 DEF Consistent, OpRecord
  <2>  HIDE DEF r
  <2>2. /\ p \in OpRecord /\ SameCall(r, p) /\ SameSource(r, p)
        /\ p.outer = r.outer - 1 /\ p.inner = r.inner
        /\ p.message = IF r.outer = 1 THEN r.message \ {"context"} ELSE r.message
        /\ p.object = IF r.outer = 1 /\ r.object = "task" THEN "freed" ELSE r.object
    BY <2>1, UnrefOuterFields
  <2>  HIDE DEF p
  <2>3. Balanced(p, rest)
    BY <1>3, <2>1, <2>2 DEF Consistent, Balanced, One, InFlight, SameCall,
                            SameSource, OpRecord
  <2>4. Owned(p)
    BY <2>1, <2>2 DEF Consistent, Owned, SameCall, OpRecord
  <2>5. Staged(p, rest)
    BY <1>1, <1>3, <2>1, <2>2 DEF Consistent, Staged, InFlight, Pending, Sync, SameCall,
                            SameSource, IdleOp
  <2>6. Closed(c, p, rest)
    BY <1>1, <2>1, <2>2 DEF Consistent, Closed, Sync, SameCall, SameSource
  <2> QED  BY <1>3, <2>2, <2>3, <2>4, <2>5, <2>6 DEF Consistent, p, r
<1> QED  BY <1>2, <1>3

\* A call that begins, on context x.
Begun(c, o, s, x) ==
    /\ o \in OpRecord
    /\ o.sync = s /\ o.phase = "begun" /\ o.ctx = x /\ o.outerRes = "none"
    /\ o.object = "none" /\ o.result = FALSE /\ o.called = 0
    /\ o.running = FALSE
    /\ o.innerRes = "none" /\ o.copies = 0 /\ o.ret = "none" /\ o.outs = FALSE

\* A call that the function of the library has begun: sent, or failed.
Fresh(o, s, x) ==
    /\ o.sync = s /\ o.ctx = x
    /\ o.phase = "begun" /\ o.called = 0 /\ o.object = "none" /\ ~o.running
    /\ o.innerRes = "none" /\ o.copies = 0 /\ o.ret = "none" /\ o.outs = FALSE
    /\ \/ o.src = "send" /\ o.outerRes = "none"
       \/ o.src = "outer" /\ o.outerRes = "error" /\ o.message = {}

\* ... with the method k, before anything is sent.
Opened(k, s, x) ==
    RefOuter([IdleOp EXCEPT !.kind = k, !.sync = s, !.phase = "begun", !.ctx = x])

\* What has been set when the outer task exists.
LEMMA BegunFields ==
    ASSUME NEW c \in Call, NEW k \in {"options", "propfind"}, NEW s \in BOOLEAN,
           NEW x \in Context
    PROVE  LET o == Opened(k, s, x)
           IN  Begun(c, o, s, x) /\ o.outer = 1 /\ o.inner = 0 /\ o.message = {}
<1> DEFINE b == [IdleOp EXCEPT !.kind = k, !.sync = s, !.phase = "begun", !.ctx = x]
<1>1. /\ Begun(c, b, s, x) /\ b.outer = 0 /\ b.inner = 0 /\ b.message = {}
  BY DEF Begun, IdleOp, OpRecord
<1>  HIDE DEF b
<1>2. Begun(c, RefOuter(b), s, x)
  BY <1>1, RefFields DEF Begun, SameCall
<1>3. /\ RefOuter(b).outer = 1 /\ RefOuter(b).inner = 0 /\ RefOuter(b).message = {}
  BY <1>1, RefFields DEF Begun
<1> QED  BY <1>2, <1>3 DEF b, Opened

\* The request was built and sent.
LEMMA SentStep ==
    ASSUME NEW c \in Call, NEW s \in BOOLEAN, NEW x \in Context,
           IF s THEN x = c ELSE x \in Thread,
           NEW o, Begun(c, o, s, x), o.outer = 1, o.inner = 0, o.message = {},
           NEW fns, fns = IF s THEN {"sync_run"} ELSE {}
    PROVE  LET sent == RequestSend(RefOuter([o EXCEPT !.message = {"context"}]), x)
           IN  Consistent(c, UnrefOuter(sent), fns) /\ Fresh(UnrefOuter(sent), s, x)
<1> DEFINE m == [o EXCEPT !.message = {"context"}]
           r == RefOuter(m)
           w == [r EXCEPT !.message = @ \cup {"inner"}]
           v == RefInner(w)
           u == RefInner(v)
           a == Attach(u, "send", x)
           i == UnrefInner(a)
           q == UnrefOuter(i)
<1>1. /\ Begun(c, m, s, x) /\ m.outer = 1 /\ m.inner = 0 /\ m.message = {"context"}
  BY DEF Begun, OpRecord, Holder
<1>  HIDE DEF m
<1>2. /\ Begun(c, r, s, x) /\ r.outer = 2 /\ r.inner = 0 /\ r.message = {"context"}
  BY <1>1, RefFields DEF Begun, SameCall
<1>  HIDE DEF r
<1>3. /\ Begun(c, w, s, x) /\ w.outer = 2 /\ w.inner = 0
      /\ w.message = {"context", "inner"}
  <2>1. w = [r EXCEPT !.message = {"context", "inner"}]
    BY <1>2
  <2>2. {"context", "inner"} \in SUBSET Holder
    BY DEF Holder
  <2> QED  BY <1>2, <2>1, <2>2 DEF Begun, OpRecord
<1>  HIDE DEF w
<1>4. /\ Begun(c, v, s, x) /\ v.outer = 2 /\ v.inner = 1
      /\ v.message = {"context", "inner"}
  BY <1>3, RefFields DEF Begun, SameCall
<1>  HIDE DEF v
<1>5. /\ Begun(c, u, s, x) /\ u.outer = 2 /\ u.inner = 2
      /\ u.message = {"context", "inner"}
  BY <1>4, RefFields DEF Begun, SameCall
<1>  HIDE DEF u
<1>6. /\ Begun(c, a, s, x) /\ a.outer = 2 /\ a.inner = 2 /\ a.src = "send"
      /\ a.srcCtx = x /\ a.message = {"context", "inner"}
  <2>1. /\ a \in OpRecord /\ SameCall(u, a) /\ a.src = "send" /\ a.srcCtx = x
        /\ a.outer = u.outer /\ a.inner = u.inner
        /\ a.message = u.message /\ a.object = u.object
    <3>1. u \in OpRecord /\ x \in Context \cup {None}
      BY <1>5 DEF Begun
    <3> QED  BY <3>1, AttachFields
  <2>  HIDE DEF a
  <2> QED  BY <1>5, <2>1 DEF Begun, SameCall
<1>  HIDE DEF a
<1>7. /\ Begun(c, i, s, x) /\ i.outer = 2 /\ i.inner = 1 /\ i.src = "send"
      /\ i.srcCtx = x /\ i.message = {"context", "inner"}
  <2>1. a.inner > 0 /\ a.inner # 1 /\ a.inner - 1 = 1
    BY <1>6
  <2>2. /\ i \in OpRecord /\ SameCall(a, i) /\ SameSource(a, i)
        /\ i.outer = a.outer /\ i.inner = a.inner - 1
        /\ i.message = a.message /\ i.object = a.object
    BY <1>6, <2>1, UnrefInnerFields DEF Begun
  <2>  HIDE DEF i
  <2> QED  BY <1>6, <2>1, <2>2 DEF Begun, SameCall, SameSource
<1>  HIDE DEF i
<1>8. /\ Begun(c, q, s, x) /\ q.outer = 1 /\ q.inner = 1 /\ q.src = "send"
      /\ q.srcCtx = x /\ q.message = {"context", "inner"}
  <2>1. i.outer > 0 /\ i.outer # 1 /\ i.outer - 1 = 1
    BY <1>7
  <2>2. /\ q \in OpRecord /\ SameCall(i, q) /\ SameSource(i, q)
        /\ q.outer = i.outer - 1 /\ q.inner = i.inner
        /\ q.message = i.message /\ q.object = i.object
    BY <1>7, <2>1, UnrefOuterFields DEF Begun
  <2>  HIDE DEF q
  <2> QED  BY <1>7, <2>1, <2>2 DEF Begun, SameCall, SameSource
<1>  HIDE DEF q
<1>9. Consistent(c, q, fns)
  BY <1>8 DEF Begun, Consistent, Balanced, Owned, Staged, Closed, One, InFlight, Pending,
              Sync
<1>10. Fresh(q, s, x)
  BY <1>8 DEF Begun, Fresh
<1> QED  BY <1>9, <1>10 DEF RequestSend, q, i, a, u, v, w, r, m

\* The request was not built; an idle source will tell.
LEMMA FailedStep ==
    ASSUME NEW c \in Call, NEW s \in BOOLEAN, NEW x \in Context,
           IF s THEN x = c ELSE x \in Thread,
           NEW o, Begun(c, o, s, x), o.outer = 1, o.inner = 0, o.message = {},
           NEW fns, fns = IF s THEN {"sync_run"} ELSE {}
    PROVE  LET e == [o EXCEPT !.outerRes = "error", !.outer = @ - 1]
           IN  /\ Consistent(c, Attach(RefOuter(e), "outer", e.ctx), fns)
               /\ Fresh(Attach(RefOuter(e), "outer", e.ctx), s, x)
<1> DEFINE e == [o EXCEPT !.outerRes = "error", !.outer = @ - 1]
           r == RefOuter(e)
           q == Attach(r, "outer", e.ctx)
<1>1. /\ e \in OpRecord /\ e.sync = s /\ e.phase = "begun" /\ e.ctx = x
      /\ e.outerRes = "error" /\ e.object = "none" /\ e.result = FALSE
      /\ e.called = 0 /\ e.running = FALSE
      /\ e.innerRes = "none" /\ e.copies = 0 /\ e.ret = "none" /\ e.outs = FALSE
      /\ e.outer = 0 /\ e.inner = 0 /\ e.message = {}
  <2>1. e = [o EXCEPT !.outerRes = "error", !.outer = 0]
    OBVIOUS
  <2> QED  BY <2>1 DEF Begun, OpRecord
<1>  HIDE DEF e
<1>2. /\ r \in OpRecord /\ SameCall(e, r) /\ r.outer = 1 /\ r.inner = 0
      /\ r.message = {} /\ r.object = "none"
  BY <1>1, RefFields
<1>  HIDE DEF r
<1>3. /\ q \in OpRecord /\ SameCall(r, q) /\ q.outer = 1 /\ q.inner = 0
      /\ q.message = {} /\ q.object = "none" /\ q.src = "outer" /\ q.srcCtx = x
  <2>1. q = Attach(r, "outer", x)
    BY <1>1
  <2>2. LET p == Attach(r, "outer", x)
        IN  /\ p \in OpRecord /\ SameCall(r, p) /\ p.src = "outer" /\ p.srcCtx = x
            /\ p.outer = r.outer /\ p.inner = r.inner
            /\ p.message = r.message /\ p.object = r.object
    <3>1. r \in OpRecord /\ x \in Context \cup {None}
      BY <1>2
    <3> QED  BY <3>1, AttachFields
  <2> QED  BY <1>2, <2>1, <2>2
<1>  HIDE DEF q
<1>4. Consistent(c, q, fns)
  BY <1>1, <1>2, <1>3 DEF SameCall, Consistent, Balanced, Owned, Staged, Closed, One,
                          InFlight, Pending, Sync
<1>5. Fresh(q, s, x)
  BY <1>1, <1>2, <1>3 DEF SameCall, Fresh
<1> QED  BY <1>4, <1>5 DEF q, r, e

-----------------------------------------------------------------------------
(* The steps keep the invariant                                            *)

\* A step that moves functions of one call and changes that call.
LEMMA CallMoves ==
    ASSUME IInv, NEW t \in Thread, NEW c \in Call, NEW s, NEW out, NEW new, NEW o,
           Moved(t, c, s, out, new),
           Consistent(c, o, (FnsOf(c) \ out) \cup new),
           stack' = [stack EXCEPT ![t] = s],
           op' = [op EXCEPT ![c] = o],
           cancelled' \subseteq Call,
           \/ (out \cup new) \cap Sync = {} /\ UNCHANGED defaults
           \/ /\ defaults' \in [Thread -> Seq(Call)]
              /\ \A u \in Thread : StackInv(u)'
    PROVE  IInv'
<1>1. TypeOK'
  <2>1. s \in Seq(Frame) /\ o \in OpRecord
    BY DEF Moved, Consistent
  <2> QED  BY <2>1 DEF IInv, TypeOK
<1>2. /\ FnsOf(c)' = (FnsOf(c) \ out) \cup new
      /\ \A d \in Call \ {c} : FnsOf(d)' = FnsOf(d)
      /\ Unique'
  BY <1>1, Effect DEF IInv
<1>3. \A u \in Thread : StackInv(u)'
  BY StackEffect DEF IInv
<1>4. ASSUME NEW d \in Call  PROVE CallInv(d)'
  <2>1. op'[c] = o /\ (d # c => op'[d] = op[d])
    BY DEF IInv, TypeOK
  <2>2. CASE d = c
    BY <1>2, <2>1, <2>2 DEF CallInv
  <2>3. CASE d # c
    <3>1. Consistent(d, op[d], FnsOf(d))
      BY DEF IInv, CallInv
    <3> QED  BY <1>2, <2>1, <2>3, <3>1 DEF CallInv
  <2> QED  BY <2>2, <2>3
<1> QED  BY <1>1, <1>2, <1>3, <1>4 DEF IInv

\* A frame is what At makes of its parts.
LEMMA FrameIsAt ==
    ASSUME NEW f \in Frame  PROVE f = At(f.fn, f.call)
BY DEF Frame, At

\* The innermost frame.
LEMMA TopFrame ==
    ASSUME TypeOK, NEW t \in Thread, StackInv(t), NEW fn \in Fn, In(t, fn)
    PROVE  /\ stack[t] # << >> /\ Head(stack[t]) = At(fn, Cur(t))
           /\ Head(stack[t]) \in FramesOf(stack[t])
           /\ fn # "handler" => Cur(t) \in Call /\ fn \in FnsOf(Cur(t))
           /\ \A g \in FramesOf(stack[t]) : g.fn \in Sync => g.call = Cur(t)
           /\ fn \in {"handler", "callback"} =>
                \A g \in FramesOf(stack[t]) : g.fn \notin Sync
           /\ fn \in Sync => \A g \in FramesOf(Tail(stack[t])) : g.fn \notin Sync
<1> DEFINE s == stack[t]
           h == Head(s)
<1>1. s \in Seq(Frame) /\ s # << >> /\ h.fn = fn /\ h.call = Cur(t)
  BY DEF TypeOK, In, Cur
<1>2. /\ h \in Frame /\ FramesOf(s) = FramesOf(Tail(s)) \cup {h}
      /\ \A g \in FramesOf(Tail(s)) : g.fn \in Sync =>
             h.call = g.call /\ h.fn \notin Sync \cup {"handler", "callback"}
  BY <1>1, PopFrame DEF StackInv
<1>3. h = At(fn, Cur(t))
  BY <1>1, <1>2, FrameIsAt
<1>4. fn # "handler" => Cur(t) \in Call /\ fn \in FnsOf(Cur(t))
  <2>1. fn # "handler" => Cur(t) \in Call
    BY <1>1, <1>2 DEF StackInv, Frame
  <2> QED  BY <1>2, <1>3, <2>1, OnStackFrame
<1>5. \A f \in Fn : f \in {"handler", "callback"} => f \notin Sync
  BY DEF Sync
<1> QED  BY <1>1, <1>2, <1>3, <1>4, <1>5

\* A step that enters and leaves no function.
LEMMA MovedStay ==
    ASSUME TypeOK, NEW t \in Thread, StackInv(t), NEW c \in Call,
           \A g \in FramesOf(stack[t]) : g.fn \in Sync => g.call = c
    PROVE  Moved(t, c, stack[t], {}, {}) /\ stack = [stack EXCEPT ![t] = stack[t]]
BY DEF Moved, TypeOK, StackInv

\* Where a source of a call is dispatched: by the loop of the call's context.
LEMMA Dispatched ==
    ASSUME IInv, NEW t \in Thread, NEW c \in Call, op[c].src # "none",
           Iterates(t, op[c].srcCtx)
    PROVE  /\ Moved(t, c, stack[t], {}, {}) /\ stack = [stack EXCEPT ![t] = stack[t]]
           /\ "sync_run" \notin FnsOf(c)
           /\ DefaultCtx(t) = op[c].ctx
           /\ ~op[c].sync => \A g \in FramesOf(stack[t]) : g.fn \notin Sync
<1>1. TypeOK /\ StackInv(t) /\ Consistent(c, op[c], FnsOf(c))
  BY DEF IInv, CallInv
<1>2. /\ op[c].srcCtx = op[c].ctx
      /\ IF op[c].sync THEN op[c].ctx = c ELSE op[c].ctx \in Thread
      /\ FnsOf(c) \cap Sync # {} => op[c].sync
      /\ \A f, g \in FnsOf(c) \cap Sync : f = g
  <2>1. op[c].phase # "idle"
    BY <1>1 DEF Consistent, Staged, Pending
  <2> QED  BY <1>1, <2>1 DEF Consistent, Closed
<1>3. CASE stack[t] = << >>
  <2>1. FramesOf(stack[t]) = {}
    BY <1>3 DEF FramesOf
  <2>2. defaults[t] = << >>
    BY <1>1, <2>1 DEF StackInv
  <2>3. op[c].ctx = t /\ DefaultCtx(t) = t
    BY <1>2, <1>3, <2>2 DEF Iterates, DefaultCtx, Default
  <2>4. ~op[c].sync
    BY <1>2, <2>3, IdentitiesAssumption
  <2>5. "sync_run" \notin FnsOf(c)
    BY <1>2, <2>4 DEF Sync
  <2> QED  BY <1>1, <2>1, <2>3, <2>5, MovedStay
<1>4. CASE stack[t] # << >>
  <2>1. In(t, "sync_wait") /\ op[c].srcCtx = Cur(t)
    BY <1>4 DEF Iterates, InMainLoop, ClosureContext
  <2>2. "sync_wait" \in Fn /\ "sync_wait" \in Sync /\ "sync_run" \in Sync
    BY DEF Fn, Sync
  <2>3. /\ Head(stack[t]) = At("sync_wait", Cur(t))
        /\ Head(stack[t]) \in FramesOf(stack[t])
        /\ Cur(t) \in Call /\ "sync_wait" \in FnsOf(Cur(t))
        /\ \A g \in FramesOf(stack[t]) : g.fn \in Sync => g.call = Cur(t)
    BY <1>1, <2>1, <2>2, TopFrame
  <2>4. Cur(t) = c /\ op[c].sync
    BY <1>2, <2>1, <2>3, IdentitiesAssumption
  <2>5. "sync_run" \notin FnsOf(c)
    BY <1>2, <2>2, <2>3, <2>4
  <2>6. defaults[t] = <<c>>
    BY <1>1, <2>2, <2>3, <2>4, AtFrame DEF StackInv
  <2>7. DefaultCtx(t) = c
    BY <2>6 DEF DefaultCtx, Default
  <2> QED  BY <1>1, <1>2, <2>3, <2>4, <2>5, <2>7, MovedStay
<1> QED  BY <1>3, <1>4

\* A source that is dispatched is gone; the rest of the call stays.
LEMMA DetachAnswered ==
    ASSUME NEW o \in OpRecord
    PROVE  Answered(o, Detach(o))
BY AttachFields DEF Detach, Answered, SameCall

\* The callbacks of the inner task, and its idle source.
LEMMA InnerReturnedKeeps ==
    ASSUME IInv, NEW t \in Thread, NEW c \in Call, InFlight(op[c]),
           Iterates(t, op[c].srcCtx), NEW b, Answered(op[c], b),
           NEW fn \in {"send_cb", "splice_cb"}, InnerReturned(t, c, b, fn),
           UNCHANGED <<defaults, cancelled>>
    PROVE  IInv'
<1>1. /\ TypeOK /\ cancelled' \subseteq Call
      /\ FnsOf(c) \subseteq Fn /\ Consistent(c, op[c], FnsOf(c))
      /\ op[c].src # "none"
  BY DEF IInv, TypeOK, CallInv, FnsOf, InFlight
<1>2. /\ Moved(t, c, stack[t], {}, {}) /\ stack = [stack EXCEPT ![t] = stack[t]]
      /\ "sync_run" \notin FnsOf(c)
  BY <1>1, Dispatched
<1>3. CASE /\ op' = [op EXCEPT ![c] = Detach(b)]
           /\ stack' = [stack EXCEPT ![t] =
                           Push(At("request_cb", c), Push(At(fn, c), @))]
  <2>1. FnsOf(c) \subseteq Sync
    BY <1>1 DEF Consistent, Staged
  <2>2. /\ fn \in Fn \ {"handler"} /\ "request_cb" \in Fn \ {"handler"}
        /\ fn \notin Sync \cup {"callback"} /\ "request_cb" \notin Sync \cup {"callback"}
        /\ fn # "request_cb" /\ fn \in Inner
    BY DEF Fn, Sync, Inner
  <2>3. Moved(t, c, Push(At(fn, c), stack[t]), {}, {fn})
    <3>1. Moved(t, c, Push(At(fn, c), stack[t]), {}, {} \cup {fn})
      BY <1>1, <1>2, <2>1, <2>2, MovedPush
    <3> QED  BY <3>1
  <2>4. Moved(t, c, Push(At("request_cb", c), Push(At(fn, c), stack[t])), {},
              {fn} \cup {"request_cb"})
    BY <1>1, <2>1, <2>2, <2>3, MovedPush
  <2>5. Answered(op[c], Detach(b))
    BY DetachAnswered DEF Answered
  <2>6. Consistent(c, Detach(b), FnsOf(c) \cup {fn, "request_cb"})
    BY <1>1, <1>2, <2>2, <2>5, RequestCbEntered
  <2>  DEFINE s == Push(At("request_cb", c), Push(At(fn, c), stack[t]))
              new == {fn} \cup {"request_cb"}
  <2>7. (FnsOf(c) \ {}) \cup new = FnsOf(c) \cup {fn, "request_cb"}
    OBVIOUS
  <2>8. stack' = [stack EXCEPT ![t] = s] /\ ({} \cup new) \cap Sync = {}
    BY <1>3, <2>2
  <2>  HIDE DEF s, new
  <2>9. Moved(t, c, s, {}, new)
    BY <2>4 DEF s, new
  <2> QED  BY <1>1, <1>3, <2>6, <2>7, <2>8, <2>9, CallMoves
<1>4. CASE /\ op' = [op EXCEPT ![c] =
                        UnrefInner(Attach(RefInner(b), "inner", b.ctx))]
           /\ UNCHANGED stack
  <2>1. b.ctx = op[c].ctx
    BY DEF Answered
  <2>2. Consistent(c, UnrefInner(Attach(RefInner(b), "inner", b.ctx)), FnsOf(c))
    BY <1>1, <2>1, SourceReplaced
  <2>3. (FnsOf(c) \ {}) \cup {} = FnsOf(c) /\ ({} \cup {}) \cap Sync = {}
    OBVIOUS
  <2> QED  BY <1>1, <1>2, <1>4, <2>2, <2>3, CallMoves
<1> QED  BY <1>3, <1>4 DEF InnerReturned

\* gdav_request_send_cb
LEMMA SendCbKeeps ==
    ASSUME IInv, NEW t \in Thread, NEW c \in Call, SendCb(t, c)
    PROVE  IInv'
<1> DEFINE o == Detach(op[c])
<1>1. /\ op[c].src = "send" /\ InFlight(op[c]) /\ Iterates(t, op[c].srcCtx)
      /\ UNCHANGED <<defaults, cancelled>>
  BY DEF SendCb, InFlight
<1>2. /\ op[c] \in OpRecord /\ cancelled' \subseteq Call
      /\ FnsOf(c) \subseteq Fn /\ Consistent(c, op[c], FnsOf(c))
  BY <1>1 DEF IInv, TypeOK, CallInv, FnsOf
<1>3. Answered(op[c], o)
  BY <1>2, DetachAnswered
<1>4. CASE /\ op' = [op EXCEPT ![c] =
                        UnrefInner(Attach(RefInner(o), "splice", DefaultCtx(t)))]
           /\ UNCHANGED stack
  <2>1. /\ Moved(t, c, stack[t], {}, {}) /\ stack = [stack EXCEPT ![t] = stack[t]]
        /\ DefaultCtx(t) = op[c].ctx
    BY <1>1, Dispatched
  <2>2. Consistent(c, UnrefInner(Attach(RefInner(o), "splice", DefaultCtx(t))), FnsOf(c))
    BY <1>1, <1>2, <1>3, <2>1, SourceReplaced
  <2>3. (FnsOf(c) \ {}) \cup {} = FnsOf(c) /\ ({} \cup {}) \cap Sync = {}
    OBVIOUS
  <2> QED  BY <1>1, <1>2, <1>4, <2>1, <2>2, <2>3, CallMoves
<1>5. CASE InnerReturned(t, c, [o EXCEPT !.innerRes = "error"], "send_cb")
  <2>1. Answered(op[c], [o EXCEPT !.innerRes = "error"])
    BY <1>3 DEF Answered, OpRecord
  <2> QED  BY <1>1, <1>5, <2>1, InnerReturnedKeeps
<1> QED  BY <1>4, <1>5 DEF SendCb

\* gdav_request_splice_cb
LEMMA SpliceCbKeeps ==
    ASSUME IInv, NEW t \in Thread, NEW c \in Call, SpliceCb(t, c)
    PROVE  IInv'
<1> DEFINE o == Detach(op[c])
<1>1. /\ InFlight(op[c]) /\ Iterates(t, op[c].srcCtx)
      /\ UNCHANGED <<defaults, cancelled>>
  BY DEF SpliceCb, InFlight
<1>2. Answered(op[c], o)
  BY DetachAnswered DEF IInv, TypeOK
<1>3. ASSUME NEW filled \in BOOLEAN,
             InnerReturned(t, c, [CopyBody(o, filled) EXCEPT !.innerRes = "ok"],
                           "splice_cb")
      PROVE  IInv'
  <2> DEFINE n == IF o.copies + One(filled) = 0 THEN 1 ELSE o.copies + One(filled)
             m == CopyBody(o, filled)
             b == [m EXCEPT !.innerRes = "ok"]
  <2>1. n \in Nat
    BY <1>2 DEF Answered, OpRecord, One
  <2>2. m = [o EXCEPT !.copies = n]
    BY DEF CopyBody
  <2>  HIDE DEF n, m
  <2>3. Answered(op[c], m)
    BY <1>2, <2>1, <2>2 DEF Answered, OpRecord
  <2>4. Answered(op[c], b)
    BY <2>3 DEF Answered, OpRecord
  <2> QED  BY <1>1, <1>3, <2>4, InnerReturnedKeeps DEF m
<1>4. CASE InnerReturned(t, c, [o EXCEPT !.innerRes = "error"], "splice_cb")
  <2>1. Answered(op[c], [o EXCEPT !.innerRes = "error"])
    BY <1>2 DEF Answered, OpRecord
  <2> QED  BY <1>1, <1>4, <2>1, InnerReturnedKeeps
<1> QED  BY <1>3, <1>4 DEF SpliceCb

\* The idle source of the inner task, ...
LEMMA InnerIdleKeeps ==
    ASSUME IInv, NEW t \in Thread, NEW c \in Call, InnerIdle(t, c)
    PROVE  IInv'
<1> DEFINE b == Detach(op[c])
<1>1. /\ InFlight(op[c]) /\ op[c].src # "none" /\ Iterates(t, op[c].srcCtx)
      /\ UNCHANGED <<defaults, cancelled>>
      /\ op' = [op EXCEPT ![c] = b]
      /\ stack' = [stack EXCEPT ![t] =
                      Push(At("request_cb", c), Push(At("inner_idle", c), stack[t]))]
  BY DEF InnerIdle, InFlight
<1>2. /\ TypeOK /\ op[c] \in OpRecord /\ cancelled' \subseteq Call
      /\ FnsOf(c) \subseteq Fn /\ Consistent(c, op[c], FnsOf(c))
  BY <1>1 DEF IInv, TypeOK, CallInv, FnsOf
<1>3. /\ Moved(t, c, stack[t], {}, {}) /\ "sync_run" \notin FnsOf(c)
  BY <1>1, Dispatched
<1>4. FnsOf(c) \subseteq Sync
  BY <1>1, <1>2 DEF Consistent, Staged
<1>5. /\ "inner_idle" \in Fn \ {"handler"} /\ "request_cb" \in Fn \ {"handler"}
      /\ "inner_idle" \notin Sync \cup {"callback"}
      /\ "request_cb" \notin Sync \cup {"callback"} /\ "inner_idle" \in Inner
  BY DEF Fn, Sync, Inner
<1>6. Moved(t, c, Push(At("inner_idle", c), stack[t]), {}, {"inner_idle"})
  <2>1. Moved(t, c, Push(At("inner_idle", c), stack[t]), {}, {} \cup {"inner_idle"})
    BY <1>2, <1>3, <1>4, <1>5, MovedPush
  <2> QED  BY <2>1
<1>7. Moved(t, c, Push(At("request_cb", c), Push(At("inner_idle", c), stack[t])), {},
            {"inner_idle"} \cup {"request_cb"})
  BY <1>2, <1>4, <1>5, <1>6, MovedPush
<1>8. Consistent(c, b, FnsOf(c) \cup {"inner_idle", "request_cb"})
  BY <1>1, <1>2, <1>3, <1>5, DetachAnswered, RequestCbEntered
<1>  DEFINE s == Push(At("request_cb", c), Push(At("inner_idle", c), stack[t]))
            new == {"inner_idle"} \cup {"request_cb"}
<1>9. (FnsOf(c) \ {}) \cup new = FnsOf(c) \cup {"inner_idle", "request_cb"}
  OBVIOUS
<1>10. stack' = [stack EXCEPT ![t] = s] /\ ({} \cup new) \cap Sync = {}
  BY <1>1, <1>5
<1>  HIDE DEF s, new, b
<1>11. Moved(t, c, s, {}, new)
  BY <1>7 DEF s, new
<1> QED  BY <1>1, <1>2, <1>8, <1>9, <1>10, <1>11, CallMoves

\* The callback of the outer task is called, on top of the moved stack r.
LEMMA InvokeKeeps ==
    ASSUME IInv, NEW t \in Thread, NEW c \in Call, NEW b, Resolved(op[c], b),
           "sync_run" \notin FnsOf(c),
           NEW r, NEW out, NEW new, Moved(t, c, r, out, new),
           \/ /\ "request_cb" \in FnsOf(c)
              /\ out = {"request_cb"} /\ new = {"request_cb_end"}
           \/ op[c].src = "outer" /\ out = {} /\ new = {"outer_idle"},
           Invoke(t, c, b, r), UNCHANGED <<defaults, cancelled>>
    PROVE  IInv'
<1> DEFINE a == [b EXCEPT !.called = @ + 1, !.phase = "ready"]
           rest == (FnsOf(c) \ out) \cup new
<1>1. /\ TypeOK /\ cancelled' \subseteq Call
      /\ FnsOf(c) \subseteq Fn /\ Consistent(c, op[c], FnsOf(c))
  BY DEF IInv, TypeOK, CallInv, FnsOf
<1>2. /\ b.sync = op[c].sync
      /\ stack' = [stack EXCEPT ![t] = IF b.sync THEN r ELSE Push(At("callback", c), r)]
      /\ op' = [op EXCEPT ![c] = IF b.sync THEN ClosureCallback(a) ELSE a]
  BY DEF Invoke, Resolved
<1>3. IF op[c].sync THEN Consistent(c, ClosureCallback(a), rest)
                    ELSE Consistent(c, a, rest \cup {"callback"})
  <2>1. \/ "request_cb" \in FnsOf(c) /\ rest = Replaced(FnsOf(c))
        \/ op[c].src = "outer" /\ rest = FnsOf(c) \cup {"outer_idle"}
    BY DEF Replaced
  <2>  HIDE DEF rest
  <2> QED  BY <1>1, <2>1, CallbackCalled
<1>4. (out \cup new) \cap Sync = {} /\ "callback" \notin new
  BY DEF Sync
<1>  HIDE DEF a
<1>5. CASE op[c].sync
  BY <1>1, <1>2, <1>3, <1>4, <1>5, CallMoves
<1>6. CASE ~op[c].sync
  <2>1. \A g \in FramesOf(r) : g.fn \notin Sync
    <3>1. SUFFICES ASSUME NEW g \in FramesOf(r), g.fn \in Sync  PROVE FALSE
      OBVIOUS
    <3>2. g \in Frame /\ g = At(g.fn, c) /\ g.fn \notin new
      BY <1>4, <3>1, FrameIsAt DEF Moved, FramesOf
    <3>3. g \in FramesOf(stack[t])
      BY <3>2, AtFrame DEF Moved
    <3>4. g.fn \in FnsOf(c)
      <4>1. g.fn \in Fn
        BY <3>1 DEF Fn, Sync
      <4> QED  BY <1>1, <3>2, <3>3, <4>1, OnStackFrame
    <3> QED  BY <1>1, <1>6, <3>1, <3>4 DEF Consistent, Closed
  <2>2. "callback" \notin FnsOf(c) /\ "callback" \in Fn \ {"handler"}
        /\ "callback" \notin Sync
    BY <1>1 DEF Consistent, Staged, Fn, Sync
  <2>3. Moved(t, c, Push(At("callback", c), r), out, new \cup {"callback"})
    BY <1>1, <1>4, <2>1, <2>2, MovedPush
  <2>  DEFINE s == Push(At("callback", c), r)
              more == new \cup {"callback"}
  <2>4. (FnsOf(c) \ out) \cup more = rest \cup {"callback"}
    OBVIOUS
  <2>5. (out \cup more) \cap Sync = {} /\ stack' = [stack EXCEPT ![t] = s]
    BY <1>2, <1>4, <1>6, <2>2
  <2>6. Moved(t, c, s, out, more)
    BY <2>3
  <2>  HIDE DEF s, more, rest
  <2> QED  BY <1>1, <1>2, <1>3, <1>6, <2>4, <2>5, <2>6, CallMoves
<1> QED  BY <1>5, <1>6

\* ... and that of the outer task.
LEMMA OuterIdleKeeps ==
    ASSUME IInv, NEW t \in Thread, NEW c \in Call, OuterIdle(t, c)
    PROVE  IInv'
<1> DEFINE b == Detach(op[c])
           r == Push(At("outer_idle", c), stack[t])
<1>1. /\ op[c].src = "outer" /\ op[c].src # "none" /\ Iterates(t, op[c].srcCtx)
      /\ Invoke(t, c, b, r) /\ UNCHANGED <<defaults, cancelled>>
  BY DEF OuterIdle
<1>2. /\ TypeOK /\ op[c] \in OpRecord /\ Consistent(c, op[c], FnsOf(c))
  BY DEF IInv, TypeOK, CallInv
<1>3. /\ Moved(t, c, stack[t], {}, {}) /\ "sync_run" \notin FnsOf(c)
  BY <1>1, Dispatched
<1>4. Resolved(op[c], b)
  <2>1. Answered(op[c], b)
    BY <1>2, DetachAnswered
  <2>2. op[c].outerRes # "none"
    BY <1>1, <1>2 DEF Consistent, Staged
  <2> QED  BY <2>1, <2>2 DEF Answered, Resolved
<1>5. Moved(t, c, r, {}, {"outer_idle"})
  <2>1. "outer_idle" \notin FnsOf(c) /\ "outer_idle" \in Fn \ {"handler"}
        /\ "outer_idle" \notin Sync \cup {"callback"}
    BY <1>1, <1>2 DEF Consistent, Staged, Fn, Sync
  <2>2. Moved(t, c, r, {}, {} \cup {"outer_idle"})
    BY <1>2, <1>3, <2>1, MovedPush
  <2> QED  BY <2>2
<1>  HIDE DEF b, r
<1> QED  BY <1>1, <1>3, <1>4, <1>5, InvokeKeeps

\* gdav_options_request_cb and gdav_propfind_request_cb
LEMMA RequestCbKeeps ==
    ASSUME IInv, NEW t \in Thread, RequestCb(t)
    PROVE  IInv'
<1> DEFINE c == Cur(t)
           r == Push(At("request_cb_end", c), Tail(stack[t]))
<1>1. /\ In(t, "request_cb") /\ UNCHANGED <<defaults, cancelled>>
      /\ OptionsRequestCb(t, c, r) \/ PropfindRequestCb(t, c, r)
  BY DEF RequestCb
<1>2. /\ TypeOK /\ StackInv(t) /\ "request_cb" \in Fn
  BY DEF IInv, Fn
<1>3. /\ stack[t] # << >> /\ Head(stack[t]) = At("request_cb", c)
      /\ c \in Call /\ "request_cb" \in FnsOf(c)
  BY <1>1, <1>2, TopFrame
<1>4. /\ op[c] \in OpRecord /\ cancelled' \subseteq Call
      /\ FnsOf(c) \subseteq Fn /\ Consistent(c, op[c], FnsOf(c))
  BY <1>1, <1>3 DEF IInv, TypeOK, CallInv, FnsOf
<1>  HIDE DEF c
<1>5. op[c].src = "none" /\ "request_cb_end" \notin FnsOf(c) /\ "sync_run" \notin FnsOf(c)
  BY <1>3, <1>4 DEF Consistent, Staged, Closed, Sync
<1>6. Moved(t, c, r, {"request_cb"}, {"request_cb_end"})
  <2>1. Moved(t, c, Tail(stack[t]), {"request_cb"}, {})
    BY <1>2, <1>3, MovedPop
  <2>2. "request_cb_end" \in Fn \ {"handler"}
        /\ "request_cb_end" \notin Sync \cup {"callback"}
    BY DEF Fn, Sync
  <2>3. Moved(t, c, r, {"request_cb"}, {} \cup {"request_cb_end"})
    BY <1>2, <1>3, <1>5, <2>1, <2>2, MovedPush
  <2> QED  BY <2>3
<1>  HIDE DEF r
<1>7. /\ (FnsOf(c) \ {"request_cb"}) \cup {"request_cb_end"} = Replaced(FnsOf(c))
      /\ ({"request_cb"} \cup {"request_cb_end"}) \cap Sync = {}
  BY DEF Replaced, Sync
<1>8. ASSUME NEW b, Resolved(op[c], b), OuterReturned(t, c, b, FALSE, r)
      PROVE  IInv'
  <2>1. CASE Invoke(t, c, b, r)
    BY <1>1, <1>3, <1>5, <1>6, <1>8, <2>1, InvokeKeeps
  <2>2. CASE /\ op' = [op EXCEPT ![c] = Attach(RefOuter(b), "outer", b.ctx)]
             /\ stack' = [stack EXCEPT ![t] = r]
    <3>1. Consistent(c, Attach(RefOuter(b), "outer", b.ctx), Replaced(FnsOf(c)))
      BY <1>3, <1>4, <1>8, CallbackPostponed
    <3> QED  BY <1>1, <1>3, <1>4, <1>6, <1>7, <2>2, <3>1, CallMoves
  <2> QED  BY <1>8, <2>1, <2>2 DEF OuterReturned
<1>9. ASSUME NEW res \in {"ok", "error"}
      PROVE  /\ Resolved(op[c], [op[c] EXCEPT !.outerRes = res])
             /\ Resolved(op[c], [op[c] EXCEPT !.outerRes = res, !.object = "task"])
  BY <1>4, <1>5, ZenonT(40) DEF Resolved, OpRecord
<1>10. CASE OptionsRequestCb(t, c, r)
  <2>  DEFINE res == IF Failed(c, op[c].innerRes) THEN "error" ELSE "ok"
  <2>1. res \in {"ok", "error"} /\ OuterReturned(t, c, [op[c] EXCEPT !.outerRes = res],
                                                 FALSE, r)
    BY <1>10 DEF OptionsRequestCb
  <2>  HIDE DEF res
  <2> QED  BY <1>8, <1>9, <2>1
<1>11. CASE PropfindRequestCb(t, c, r)
  <2>1. CASE OuterReturned(t, c, [op[c] EXCEPT !.outerRes = "error"], FALSE, r)
    BY <1>8, <1>9, <2>1
  <2>2. CASE OuterReturned(t, c, [op[c] EXCEPT !.outerRes = "ok", !.object = "task"],
                           FALSE, r)
    BY <1>8, <1>9, <2>2
  <2>3. CASE stack' = [stack EXCEPT ![t] = r] /\ UNCHANGED op
    <3>1. op' = [op EXCEPT ![c] = op[c]]
      BY <1>3, <2>3 DEF IInv, TypeOK
    <3>2. Consistent(c, op[c], Replaced(FnsOf(c)))
      BY <1>3, <1>4, CallbackDropped
    <3> QED  BY <1>1, <1>3, <1>4, <1>6, <1>7, <2>3, <3>1, <3>2, CallMoves
  <2> QED  BY <1>11, <2>1, <2>2, <2>3 DEF PropfindRequestCb
<1> QED  BY <1>1, <1>10, <1>11 DEF c, r

\* The g_object_unref that ends a callback of the inner task, ...
LEMMA LeaveInnerKeeps ==
    ASSUME IInv, NEW t \in Thread, LeaveInner(t)
    PROVE  IInv'
<1> DEFINE c == Cur(t)
<1>1. PICK fn \in Inner : In(t, fn)
  BY DEF LeaveInner, Inner
<1>2. /\ op' = [op EXCEPT ![c] = UnrefInner(op[c])]
      /\ stack' = [stack EXCEPT ![t] = Tail(stack[t])]
      /\ UNCHANGED <<defaults, cancelled>>
  BY DEF LeaveInner
<1>3. /\ TypeOK /\ StackInv(t) /\ fn \in Fn /\ fn # "handler" /\ fn \notin Sync
  BY DEF IInv, Fn, Inner, Sync
<1>4. /\ stack[t] # << >> /\ Head(stack[t]) = At(fn, c)
      /\ c \in Call /\ fn \in FnsOf(c)
  BY <1>1, <1>3, TopFrame
<1>  HIDE DEF c
<1>5. /\ cancelled' \subseteq Call
      /\ FnsOf(c) \subseteq Fn /\ Consistent(c, op[c], FnsOf(c))
  BY <1>2, <1>4 DEF IInv, TypeOK, CallInv, FnsOf
<1>6. Moved(t, c, Tail(stack[t]), {fn}, {})
  BY <1>3, <1>4, MovedPop
<1>7. Consistent(c, UnrefInner(op[c]), FnsOf(c) \ {fn})
  BY <1>4, <1>5, LeaveInnerStep
<1>8. (FnsOf(c) \ {fn}) \cup {} = FnsOf(c) \ {fn} /\ ({fn} \cup {}) \cap Sync = {}
  BY <1>3
<1>  DEFINE s == Tail(stack[t])
            o == UnrefInner(op[c])
<1>9. /\ stack' = [stack EXCEPT ![t] = s] /\ op' = [op EXCEPT ![c] = o]
      /\ Moved(t, c, s, {fn}, {}) /\ UNCHANGED defaults
      /\ Consistent(c, o, (FnsOf(c) \ {fn}) \cup {})
  BY <1>2, <1>6, <1>7, <1>8
<1>  HIDE DEF s, o
<1> QED  BY <1>4, <1>5, <1>8, <1>9, CallMoves

\* ... or of the outer task.
LEMMA LeaveOuterKeeps ==
    ASSUME IInv, NEW t \in Thread, LeaveOuter(t)
    PROVE  IInv'
<1> DEFINE c == Cur(t)
<1>1. PICK fn \in {"request_cb_end", "outer_idle"} : In(t, fn)
  BY DEF LeaveOuter
<1>2. /\ op' = [op EXCEPT ![c] = UnrefOuter(op[c])]
      /\ stack' = [stack EXCEPT ![t] = Tail(stack[t])]
      /\ UNCHANGED <<defaults, cancelled>>
  BY DEF LeaveOuter
<1>3. /\ TypeOK /\ StackInv(t) /\ fn \in Fn /\ fn # "handler" /\ fn \notin Sync
  BY DEF IInv, Fn, Sync
<1>4. /\ stack[t] # << >> /\ Head(stack[t]) = At(fn, c)
      /\ c \in Call /\ fn \in FnsOf(c)
  BY <1>1, <1>3, TopFrame
<1>  HIDE DEF c
<1>5. /\ cancelled' \subseteq Call
      /\ FnsOf(c) \subseteq Fn /\ Consistent(c, op[c], FnsOf(c))
  BY <1>2, <1>4 DEF IInv, TypeOK, CallInv, FnsOf
<1>6. Moved(t, c, Tail(stack[t]), {fn}, {})
  BY <1>3, <1>4, MovedPop
<1>7. Consistent(c, UnrefOuter(op[c]), FnsOf(c) \ {fn})
  BY <1>4, <1>5, LeaveOuterStep
<1>8. (FnsOf(c) \ {fn}) \cup {} = FnsOf(c) \ {fn} /\ ({fn} \cup {}) \cap Sync = {}
  BY <1>3
<1>  DEFINE s == Tail(stack[t])
            o == UnrefOuter(op[c])
<1>9. /\ stack' = [stack EXCEPT ![t] = s] /\ op' = [op EXCEPT ![c] = o]
      /\ Moved(t, c, s, {fn}, {}) /\ UNCHANGED defaults
      /\ Consistent(c, o, (FnsOf(c) \ {fn}) \cup {})
  BY <1>2, <1>6, <1>7, <1>8
<1>  HIDE DEF s, o
<1> QED  BY <1>4, <1>5, <1>8, <1>9, CallMoves

\* What the callback of the application and gdav_options_sync do with a call.
LEMMA FinishKeeps ==
    ASSUME IInv, NEW t \in Thread, In(t, "callback") \/ In(t, "sync_finish"),
           NEW p, op' = [op EXCEPT ![Cur(t)] = p],
           UNCHANGED <<stack, defaults, cancelled>>,
           \A fns \in SUBSET Fn :
               Consistent(Cur(t), op[Cur(t)], fns) => Consistent(Cur(t), p, fns)
    PROVE  IInv'
<1> DEFINE c == Cur(t)
<1>1. /\ TypeOK /\ StackInv(t)
  BY DEF IInv
<1>2. PICK fn \in Fn \ {"handler"} : In(t, fn)
  BY DEF Fn
<1>3. c \in Call /\ \A g \in FramesOf(stack[t]) : g.fn \in Sync => g.call = c
  BY <1>1, <1>2, TopFrame
<1>  HIDE DEF c
<1>4. /\ cancelled' \subseteq Call
      /\ FnsOf(c) \subseteq Fn /\ Consistent(c, op[c], FnsOf(c))
  BY <1>3 DEF IInv, TypeOK, CallInv, FnsOf
<1>5. Moved(t, c, stack[t], {}, {}) /\ stack = [stack EXCEPT ![t] = stack[t]]
  BY <1>1, <1>3, MovedStay
<1>6. Consistent(c, p, FnsOf(c))
  BY <1>4 DEF c
<1>7. /\ Consistent(c, p, (FnsOf(c) \ {}) \cup {}) /\ ({} \cup {}) \cap Sync = {}
  <2>1. (FnsOf(c) \ {}) \cup {} = FnsOf(c)
    OBVIOUS
  <2> QED  BY <1>6, <2>1
<1>  DEFINE s == stack[t]
<1>8. /\ op' = [op EXCEPT ![c] = p] /\ stack' = [stack EXCEPT ![t] = s]
      /\ Moved(t, c, s, {}, {}) /\ UNCHANGED defaults
  BY <1>5 DEF c
<1>  HIDE DEF s
<1> QED  BY <1>3, <1>4, <1>7, <1>8, CallMoves

\* The first half of a finish function, ...
LEMMA FinishOutputsKeeps ==
    ASSUME IInv, NEW t \in Thread, FinishOutputs(t)
    PROVE  IInv'
<1> DEFINE c == Cur(t)
           o == op[c]
           taken == Taken(c, o)
<1>1. /\ In(t, "callback") \/ In(t, "sync_finish")
      /\ o.phase = "ready" /\ UNCHANGED <<stack, defaults, cancelled>>
  BY DEF FinishOutputs
<1>2. PICK wanted \in BOOLEAN :
         op' = [op EXCEPT ![c] =
                  [o EXCEPT !.phase = "finishing", !.wanted = wanted,
                            !.outs = o.kind = "options" /\ ~Failed(c, o.outerRes),
                            !.message = IF wanted THEN taken ELSE o.message]]
  BY DEF FinishOutputs, Handed
<1> DEFINE outs == o.kind = "options" /\ ~Failed(c, o.outerRes)
           m == IF wanted THEN taken ELSE o.message
           p == [o EXCEPT !.phase = "finishing", !.wanted = wanted,
                          !.outs = outs, !.message = m]
<1>3. c \in Call /\ o \in OpRecord
  <2>1. PICK fn \in Fn \ {"handler"} : In(t, fn)
    BY <1>1 DEF Fn
  <2>2. c \in Call
    BY <2>1, TopFrame DEF IInv
  <2> QED  BY <2>2 DEF IInv, TypeOK
<1>4. /\ outs \in BOOLEAN /\ m \in SUBSET Holder
      /\ m \in {o.message, (o.message \ {"context"}) \cup {"caller"}}
  BY <1>3 DEF OpRecord, Holder, Taken
<1>5. op' = [op EXCEPT ![Cur(t)] = p]
  BY <1>2
<1>  HIDE DEF outs, m, o
<1>6. /\ p \in OpRecord /\ p.phase = "finishing" /\ p.message = m
      /\ p.object = o.object /\ p.src = o.src /\ p.srcCtx = o.srcCtx
      /\ p.outerRes = o.outerRes /\ p.sync = o.sync /\ p.ctx = o.ctx
      /\ p.called = o.called /\ p.result = o.result /\ p.outer = o.outer
      /\ p.inner = o.inner /\ p.running = o.running
  <2>1. p \in OpRecord /\ p.phase = "finishing" /\ p.message = m
    BY <1>3, <1>4, ZenonT(60) DEF OpRecord
  <2>2. /\ p.object = o.object /\ p.src = o.src /\ p.srcCtx = o.srcCtx
        /\ p.outerRes = o.outerRes /\ p.sync = o.sync /\ p.ctx = o.ctx
    BY <1>3 DEF OpRecord
  <2>3. /\ p.called = o.called /\ p.result = o.result /\ p.outer = o.outer
        /\ p.inner = o.inner /\ p.running = o.running
    BY <1>3 DEF OpRecord
  <2> QED  BY <2>1, <2>2, <2>3
<1>  HIDE DEF p
<1>7. ASSUME NEW fns \in SUBSET Fn, Consistent(c, o, fns)  PROVE Consistent(c, p, fns)
  BY <1>1, <1>3, <1>4, <1>6, <1>7, FinishStep
<1> QED  BY <1>1, <1>5, <1>7, FinishKeeps DEF o

\* Call o once the outer task was propagated.
Settled(o, r, x) == [o EXCEPT !.phase = "finished", !.ret = r, !.object = x]

\* What g_task_propagate_* changes.
LEMMA PropagateFields ==
    ASSUME NEW o \in OpRecord, NEW r \in {"none", "ok", "error"},
           NEW x \in {"none", "task", "caller", "freed"}
    PROVE  LET p == Settled(o, r, x) IN
           /\ p \in OpRecord /\ p.phase = "finished" /\ p.message = o.message
           /\ p.object = x /\ p.src = o.src /\ p.srcCtx = o.srcCtx
           /\ p.outerRes = o.outerRes /\ p.sync = o.sync /\ p.ctx = o.ctx
           /\ p.called = o.called /\ p.result = o.result /\ p.outer = o.outer
           /\ p.inner = o.inner /\ p.running = o.running
<1> DEFINE a == [o EXCEPT !.phase = "finished", !.ret = r]
           b == [a EXCEPT !.object = x]
<1>1. /\ a \in OpRecord /\ a.phase = "finished" /\ a.message = o.message
      /\ a.src = o.src /\ a.srcCtx = o.srcCtx
      /\ a.outerRes = o.outerRes /\ a.sync = o.sync /\ a.ctx = o.ctx
      /\ a.called = o.called /\ a.result = o.result /\ a.outer = o.outer
      /\ a.inner = o.inner /\ a.running = o.running
  BY ZenonT(40) DEF OpRecord
<1>2. Settled(o, r, x) = b
  BY DEF Settled
<1>  HIDE DEF a
<1>3. /\ b \in OpRecord /\ b.phase = a.phase /\ b.message = a.message
      /\ b.object = x /\ b.src = a.src /\ b.srcCtx = a.srcCtx
      /\ b.outerRes = a.outerRes /\ b.sync = a.sync /\ b.ctx = a.ctx
      /\ b.called = a.called /\ b.result = a.result /\ b.outer = a.outer
      /\ b.inner = a.inner /\ b.running = a.running
  BY <1>1 DEF OpRecord
<1>  HIDE DEF b
<1> QED  BY <1>1, <1>2, <1>3

\* ... and the second.
LEMMA FinishPropagateKeeps ==
    ASSUME IInv, NEW t \in Thread, FinishPropagate(t)
    PROVE  IInv'
<1> DEFINE c == Cur(t)
           o == op[c]
           ret == Propagated(c, op[c].outerRes)
           x == IF ret = "ok" /\ o.object = "task" THEN "caller" ELSE o.object
           p == Settled(o, ret, x)
<1>1. /\ In(t, "callback") \/ In(t, "sync_finish")
      /\ o.phase = "finishing" /\ UNCHANGED <<stack, defaults, cancelled>>
      /\ op' = [op EXCEPT ![c].phase = "finished", ![c].ret = ret, ![c].object = x]
  BY DEF FinishPropagate
<1>2. c \in Call /\ o \in OpRecord /\ op \in [Call -> OpRecord]
  <2>1. PICK fn \in Fn \ {"handler"} : In(t, fn)
    BY <1>1 DEF Fn
  <2>2. c \in Call
    BY <2>1, TopFrame DEF IInv
  <2> QED  BY <2>2 DEF IInv, TypeOK
<1>3. /\ ret \in {"none", "ok", "error"} /\ x \in {o.object, "caller"}
      /\ x \in {"none", "task", "caller", "freed"}
  BY <1>2 DEF Propagated, OpRecord
<1>  HIDE DEF ret, x
<1>4. op' = [op EXCEPT ![Cur(t)] = p]
  BY <1>1, <1>2 DEF OpRecord, Settled
<1>  HIDE DEF o
<1>5. /\ p \in OpRecord /\ p.phase = "finished" /\ p.message = o.message
      /\ p.object = x /\ p.src = o.src /\ p.srcCtx = o.srcCtx
      /\ p.outerRes = o.outerRes /\ p.sync = o.sync /\ p.ctx = o.ctx
      /\ p.called = o.called /\ p.result = o.result /\ p.outer = o.outer
      /\ p.inner = o.inner /\ p.running = o.running
  BY <1>2, <1>3, PropagateFields
<1>6. p.object = o.object \/ p.object # "task"
  BY <1>3, <1>5
<1>  HIDE DEF p
<1>7. ASSUME NEW fns \in SUBSET Fn, Consistent(c, o, fns)  PROVE Consistent(c, p, fns)
  BY <1>1, <1>2, <1>5, <1>6, <1>7, FinishStep
<1> QED  BY <1>1, <1>4, <1>7, FinishKeeps DEF o

\* A function of the closure of a synchronous call takes over from another.
LEMMA ClosureMoves ==
    ASSUME IInv, NEW t \in Thread, NEW c, c = Cur(t), NEW fn \in Sync, In(t, fn),
           NEW gn \in Sync \ {fn}, NEW o,
           c \in Call /\ FnsOf(c) \subseteq Fn =>
               Consistent(c, o, (FnsOf(c) \ {fn}) \cup {gn}),
           stack' = [stack EXCEPT ![t] = Push(At(gn, c), Tail(stack[t]))],
           op' = [op EXCEPT ![c] = o], UNCHANGED <<defaults, cancelled>>
    PROVE  IInv'
<1> DEFINE r == Tail(stack[t])
           s == Push(At(gn, c), r)
<1>1. /\ TypeOK /\ StackInv(t) /\ fn \in Fn /\ gn \in Fn /\ fn # "handler"
      /\ gn # "handler" /\ gn \notin {"handler", "callback"}
  BY DEF IInv, Fn, Sync
<1>2. /\ stack[t] # << >> /\ Head(stack[t]) = At(fn, c)
      /\ Head(stack[t]) \in FramesOf(stack[t])
      /\ c \in Call /\ fn \in FnsOf(c)
      /\ \A g \in FramesOf(r) : g.fn \notin Sync
  BY <1>1, TopFrame
<1>3. /\ FnsOf(c) \subseteq Fn /\ Consistent(c, op[c], FnsOf(c))
      /\ Consistent(c, o, (FnsOf(c) \ {fn}) \cup {gn})
  BY <1>2 DEF IInv, CallInv, FnsOf
<1>4. gn \notin FnsOf(c)
  BY <1>2, <1>3 DEF Consistent, Closed
<1>5. Moved(t, c, r, {fn}, {})
  BY <1>1, <1>2, MovedPop
<1>6. Moved(t, c, s, {fn}, {gn})
  <2>1. Moved(t, c, s, {fn}, {} \cup {gn})
    BY <1>1, <1>2, <1>4, <1>5, MovedPush
  <2> QED  BY <2>1
<1>7. defaults[t] = <<c>>
  BY <1>1, <1>2, AtFrame DEF StackInv
<1>8. /\ FramesOf(s) = FramesOf(r) \cup {At(gn, c)} /\ Distinct(s) /\ Isolated(s)
      /\ \A f \in FramesOf(r) : f \in FramesOf(stack[t])
  <2>1. r \in Seq(Frame) /\ At(gn, c) \in Frame
    BY <1>1, <1>2, <1>5, AtFrame DEF Moved
  <2>2. FramesOf(s) = FramesOf(r) \cup {At(gn, c)}
    BY <2>1, PushFrame
  <2>3. stack[t] \in Seq(Frame)
    BY <1>1 DEF TypeOK
  <2>4. \A f \in FramesOf(r) : f \in FramesOf(stack[t])
    BY <1>2, <2>3, PopFrame
  <2> QED  BY <1>6, <2>2, <2>4 DEF Moved
<1>9. stack' = [stack EXCEPT ![t] = s]
  OBVIOUS
<1>  HIDE DEF s, r
<1>10. stack'[t] = s /\ \A u \in Thread \ {t} : stack'[u] = stack[u]
  BY <1>9 DEF IInv, TypeOK
<1>11. ASSUME NEW u \in Thread  PROVE StackInv(u)'
  <2>1. CASE u # t
    BY <1>10, <2>1 DEF IInv, StackInv
  <2>2. CASE u = t
    <3>1. At(gn, c).fn = gn /\ At(gn, c).call = c /\ c # None
      BY <1>1, <1>2, AtFrame, NotNone
    <3>2. \A f \in FramesOf(s) : f.call = None <=> f.fn = "handler"
      BY <1>1, <1>8, <3>1 DEF StackInv
    <3>3. \A f \in FramesOf(s) : f.fn \in Sync => f.call = c
      BY <1>2, <1>8, <3>1
    <3>4. ~ \A f \in FramesOf(s) : f.fn \notin Sync
      BY <1>8, <3>1
    <3> QED  BY <1>7, <1>8, <1>10, <2>2, <3>2, <3>3, <3>4 DEF StackInv
  <2> QED  BY <2>1, <2>2
<1>12. /\ cancelled' \subseteq Call /\ defaults' \in [Thread -> Seq(Call)]
       /\ \A u \in Thread : StackInv(u)'
  BY <1>11 DEF IInv, TypeOK
<1> QED  BY <1>2, <1>3, <1>6, <1>9, <1>12, CallMoves

\* gdav_async_closure_wait enters its loop, ...
LEMMA ClosureWaitKeeps ==
    ASSUME IInv, NEW t \in Thread, ClosureWait(t)
    PROVE  IInv'
<1> DEFINE c == Cur(t)
           o == [op[c] EXCEPT !.running = TRUE]
<1>1. /\ In(t, "sync_run") /\ UNCHANGED <<defaults, cancelled>>
      /\ op' = [op EXCEPT ![c] = o]
      /\ stack' = [stack EXCEPT ![t] = Push(At("sync_wait", c), Tail(stack[t]))]
  BY DEF ClosureWait
<1>2. "sync_run" \in Sync /\ "sync_wait" \in Sync \ {"sync_run"} /\ "sync_run" \in Fn
  BY DEF Sync, Fn
<1>3. "sync_run" \in FnsOf(c)
  BY <1>1, <1>2, TopFrame DEF IInv
<1>4. ASSUME c \in Call, FnsOf(c) \subseteq Fn
      PROVE  Consistent(c, o, (FnsOf(c) \ {"sync_run"}) \cup {"sync_wait"})
  <2>1. Consistent(c, op[c], FnsOf(c))
    BY <1>4 DEF IInv, CallInv
  <2>  HIDE DEF c
  <2> QED  BY <1>3, <1>4, <2>1, WaitStep
<1>5. c = Cur(t)
  OBVIOUS
<1>  HIDE DEF o, c
<1> QED  BY <1>1, <1>2, <1>4, <1>5, ClosureMoves

\* ... leaves it, ...
LEMMA ClosureQuitKeeps ==
    ASSUME IInv, NEW t \in Thread, ClosureQuit(t)
    PROVE  IInv'
<1> DEFINE c == Cur(t)
           o == op[c]
<1>1. /\ In(t, "sync_wait") /\ ~op[c].running /\ UNCHANGED <<op, defaults, cancelled>>
      /\ stack' = [stack EXCEPT ![t] = Push(At("sync_finish", c), Tail(stack[t]))]
  BY DEF ClosureQuit
<1>2. /\ "sync_wait" \in Sync /\ "sync_finish" \in Sync \ {"sync_wait"}
      /\ "sync_wait" \in Fn /\ "sync_wait" # "handler"
  BY DEF Sync, Fn
<1>3. "sync_wait" \in FnsOf(c) /\ c \in Call
  BY <1>1, <1>2, TopFrame DEF IInv
<1>4. ASSUME FnsOf(c) \subseteq Fn
      PROVE  Consistent(c, o, (FnsOf(c) \ {"sync_wait"}) \cup {"sync_finish"})
  <2>1. Consistent(c, op[c], FnsOf(c))
    BY <1>3 DEF IInv, CallInv
  <2>  HIDE DEF c
  <2> QED  BY <1>1, <1>3, <1>4, <2>1, QuitStep
<1>5. c = Cur(t) /\ op' = [op EXCEPT ![c] = o]
  BY <1>1, <1>3 DEF IInv, TypeOK
<1>  HIDE DEF o, c
<1> QED  BY <1>1, <1>2, <1>4, <1>5, ClosureMoves

\* ... and gdav_async_closure_free pops the context.
LEMMA ClosureFreeKeeps ==
    ASSUME IInv, NEW t \in Thread, ClosureFree(t)
    PROVE  IInv'
<1> DEFINE c == Cur(t)
           s == Tail(stack[t])
           o == IF op[c].result THEN UnrefOuter([op[c] EXCEPT !.result = FALSE])
                                ELSE op[c]
<1>1. /\ In(t, "sync_finish") /\ UNCHANGED cancelled
      /\ defaults' = [defaults EXCEPT ![t] = Tail(defaults[t])]
      /\ op' = [op EXCEPT ![c] = o]
      /\ stack' = [stack EXCEPT ![t] = s]
  BY DEF ClosureFree, PopDefault
<1>2. /\ TypeOK /\ StackInv(t) /\ "sync_finish" \in Fn /\ "sync_finish" \in Sync
      /\ "sync_finish" # "handler"
  BY DEF IInv, Fn, Sync
<1>3. /\ stack[t] # << >> /\ Head(stack[t]) = At("sync_finish", c)
      /\ Head(stack[t]) \in FramesOf(stack[t])
      /\ c \in Call /\ "sync_finish" \in FnsOf(c)
      /\ \A g \in FramesOf(s) : g.fn \notin Sync
  BY <1>1, <1>2, TopFrame
<1>  HIDE DEF c
<1>4. Moved(t, c, s, {"sync_finish"}, {})
  BY <1>2, <1>3, MovedPop
<1>5. Consistent(c, o, (FnsOf(c) \ {"sync_finish"}) \cup {})
  <2>1. FnsOf(c) \subseteq Fn /\ Consistent(c, op[c], FnsOf(c))
    BY <1>3 DEF IInv, CallInv, FnsOf
  <2>2. Consistent(c, o, FnsOf(c) \ {"sync_finish"})
    BY <1>3, <2>1, FreeStep
  <2>3. (FnsOf(c) \ {"sync_finish"}) \cup {} = FnsOf(c) \ {"sync_finish"}
    OBVIOUS
  <2> QED  BY <2>2, <2>3
<1>6. defaults[t] = <<c>>
  BY <1>2, <1>3, AtFrame DEF StackInv
<1>7. defaults'[t] = << >> /\ \A u \in Thread \ {t} : defaults'[u] = defaults[u]
  <2>1. Tail(defaults[t]) = << >>
    BY <1>6
  <2> QED  BY <1>1, <1>2, <2>1 DEF TypeOK
<1>8. defaults' \in [Thread -> Seq(Call)]
  <2>1. << >> \in Seq(Call) /\ Tail(defaults[t]) = << >>
    BY <1>6
  <2> QED  BY <1>1, <1>2, <2>1 DEF TypeOK
<1>9. \A f \in FramesOf(s) : f \in FramesOf(stack[t])
  <2>1. stack[t] \in Seq(Frame)
    BY <1>2 DEF TypeOK
  <2> QED  BY <1>3, <2>1, PopFrame
<1>  HIDE DEF s, o
<1>10. stack'[t] = s /\ \A u \in Thread \ {t} : stack'[u] = stack[u]
  BY <1>1, <1>2 DEF TypeOK
<1>11. ASSUME NEW u \in Thread  PROVE StackInv(u)'
  <2>1. CASE u # t
    BY <1>7, <1>10, <2>1 DEF IInv, StackInv
  <2>2. CASE u = t
    BY <1>2, <1>3, <1>4, <1>7, <1>9, <1>10, <2>2 DEF StackInv, Moved
  <2> QED  BY <2>1, <2>2
<1>12. cancelled' \subseteq Call
  BY <1>1, <1>2 DEF TypeOK
<1> QED  BY <1>1, <1>3, <1>4, <1>5, <1>8, <1>11, <1>12, CallMoves

\* Functions of the application that are no part of a call.
Beside == {At("handler", None)} \cup {At("signal", c) : c \in Call}

LEMMA BesideFrame ==
    ASSUME NEW h \in Beside
    PROVE  /\ h \in Frame /\ h.fn \notin Sync
           /\ h.call = None <=> h.fn = "handler"
           /\ h.fn \in Fn => h.call = None
           /\ \A fn \in Fn, c \in Call : At(fn, c) # h
<1>1. CASE h = At("handler", None)
  <2>1. "handler" \in Fn /\ None \in Call \cup {None} /\ "handler" \notin Sync
    BY DEF Fn, Sync
  <2>2. h \in Frame /\ h.fn = "handler" /\ h.call = None
    BY <1>1, <2>1, AtFrame
  <2> QED  BY <2>1, <2>2, AtFrame, NotNone
<1>2. ASSUME NEW c \in Call, h = At("signal", c)
      PROVE  /\ h \in Frame /\ h.fn \notin Sync \cup Fn /\ h.call # None
             /\ \A fn \in Fn, d \in Call : At(fn, d) # h
  <2>1. h \in Frame /\ h.fn = "signal" /\ h.call = c
    BY <1>2 DEF At, Frame
  <2>2. "signal" \notin Fn \cup Sync
    BY DEF Fn, Sync
  <2> QED  BY <2>1, <2>2, AtFrame, NotNone
<1> QED  BY <1>1, <1>2 DEF Beside, Fn

\* A step of such a function concerns no call.
LEMMA BesideMoves ==
    ASSUME IInv, NEW t \in Thread, NEW s \in Seq(Frame), Distinct(s), Isolated(s),
           NEW h \in Beside,
           FramesOf(s) \ {h} = FramesOf(stack[t]) \ {h},
           stack' = [stack EXCEPT ![t] = s], UNCHANGED <<defaults, op, cancelled>>
    PROVE  IInv'
<1>1. stack'[t] = s /\ \A u \in Thread \ {t} : stack'[u] = stack[u]
  BY DEF IInv, TypeOK
<1>2. TypeOK'
  BY DEF IInv, TypeOK
<1>3. /\ h.fn \notin Sync /\ (h.call = None <=> h.fn = "handler")
      /\ h.fn \in Fn => h.call = None
      /\ \A fn \in Fn, c \in Call : At(fn, c) # h
  BY BesideFrame
<1>4. ASSUME NEW u \in Thread  PROVE StackInv(u)'
  <2>1. CASE u # t
    BY <1>1, <2>1 DEF IInv, StackInv
  <2>2. CASE u = t
    <3>1. StackInv(t)
      BY DEF IInv
    <3>2. \A f : f # h => (f \in FramesOf(s) <=> f \in FramesOf(stack[t]))
      OBVIOUS
    <3>3. \A f \in FramesOf(s) : f.call = None <=> f.fn = "handler"
      BY <1>3, <3>1, <3>2 DEF StackInv
    <3>4. \A f \in FramesOf(s) : f.fn \in Sync => defaults[t] = <<f.call>>
      BY <1>3, <3>1, <3>2 DEF StackInv
    <3>5. (\A f \in FramesOf(s) : f.fn \notin Sync) => defaults[t] = << >>
      BY <1>3, <3>1, <3>2 DEF StackInv
    <3> QED  BY <1>1, <2>2, <3>3, <3>4, <3>5 DEF StackInv
  <2> QED  BY <2>1, <2>2
<1>5. ASSUME NEW c \in Call  PROVE FnsOf(c)' = FnsOf(c)
  <2>1. ASSUME NEW fn \in Fn, NEW u \in Thread
        PROVE  At(fn, c) \in FramesOf(stack'[u]) <=> At(fn, c) \in FramesOf(stack[u])
    BY <1>1, <1>3
  <2>2. \A fn \in Fn : fn \in FnsOf(c)' <=> fn \in FnsOf(c)
    BY <1>2, <2>1, FnsOfFrames, FnsOfFramesPrime DEF IInv
  <2> QED  BY <2>2 DEF FnsOf
<1>6. Unique'
  BY <1>1, <1>3 DEF IInv, Unique
<1>7. ASSUME NEW c \in Call  PROVE CallInv(c)'
  BY <1>5 DEF IInv, CallInv
<1> QED  BY <1>2, <1>4, <1>6, <1>7 DEF IInv

\* The main loop of a thread dispatches sources for no synchronous call.
LEMMA HandlerAlone ==
    ASSUME IInv, NEW t \in Thread, Handler(t)
    PROVE  stack[t] = << >>
<1> SUFFICES ASSUME stack[t] # << >>  PROVE FALSE
  OBVIOUS
<1>1. In(t, "sync_wait") /\ t = Cur(t)
  BY DEF Handler, Iterates, InMainLoop, ClosureContext
<1>2. TypeOK /\ StackInv(t) /\ "sync_wait" \in Fn
  BY DEF IInv, Fn
<1>3. Cur(t) \in Call
  BY <1>1, <1>2, TopFrame
<1> QED  BY <1>1, <1>3, IdentitiesAssumption

\* A signal is emitted for the call that waits in its loop.
LEMMA SignalAlone ==
    ASSUME IInv, NEW t \in Thread, NEW c \in Call, Signal(t, c)
    PROVE  /\ stack[t] # << >> /\ c = Cur(t) /\ At("signal", c) \in Beside
           /\ \A g \in FramesOf(stack[t]) : g.fn \in Sync => g.call = c
<1>1. /\ In(t, "sync_wait") /\ op[c].src # "none"
      /\ op[c].srcCtx = ClosureContext(t, Cur(t))
  BY DEF Signal, Iterates, In
<1>2. TypeOK /\ StackInv(t) /\ "sync_wait" \in Fn /\ "sync_wait" # "handler"
  BY DEF IInv, Fn
<1>3. /\ Cur(t) \in Call /\ stack[t] # << >>
      /\ \A g \in FramesOf(stack[t]) : g.fn \in Sync => g.call = Cur(t)
  BY <1>1, <1>2, TopFrame
<1>4. op[c].srcCtx \in {c} \cup Thread
  <2>1. Consistent(c, op[c], FnsOf(c))
    BY DEF IInv, CallInv
  <2>2. op[c].phase # "idle"
    BY <1>1, <2>1 DEF Consistent, Staged, Pending
  <2> QED  BY <1>1, <2>1, <2>2 DEF Consistent, Closed
<1>5. c = Cur(t)
  BY <1>1, <1>3, <1>4, IdentitiesAssumption DEF ClosureContext
<1> QED  BY <1>3, <1>5 DEF Beside

\* A handler of the application starts, or one of a signal, ...
LEMMA BesideStarts ==
    ASSUME IInv, NEW t \in Thread, NEW h \in Beside,
           \A g \in FramesOf(stack[t]) : g.fn \in Sync =>
                h.call = g.call /\ h.fn # "handler",
           h.fn \in Fn => h \notin FramesOf(stack[t]),
           stack' = [stack EXCEPT ![t] = Push(h, stack[t])],
           UNCHANGED <<defaults, op, cancelled>>
    PROVE  IInv'
<1> DEFINE s == Push(h, stack[t])
<1>1. stack[t] \in Seq(Frame) /\ Distinct(stack[t]) /\ Isolated(stack[t])
  BY DEF IInv, TypeOK, StackInv
<1>2. h \in Frame /\ h.fn \notin Sync \cup {"callback"}
  <2>1. "callback" \in Fn
    BY DEF Fn
  <2> QED  BY <2>1, BesideFrame
<1>3. /\ s \in Seq(Frame) /\ FramesOf(s) = FramesOf(stack[t]) \cup {h}
      /\ Distinct(s) /\ Isolated(s)
  BY <1>1, <1>2, PushFrame
<1>  HIDE DEF s
<1> QED  BY <1>3, BesideMoves DEF s

LEMMA HandlerKeeps ==
    ASSUME IInv, NEW t \in Thread, Handler(t)
    PROVE  IInv'
<1>1. FramesOf(stack[t]) = {}
  BY HandlerAlone DEF FramesOf
<1>2. At("handler", None) \in Beside
  BY DEF Beside
<1>3. /\ stack' = [stack EXCEPT ![t] = Push(At("handler", None), stack[t])]
      /\ UNCHANGED <<defaults, op, cancelled>>
  BY DEF Handler
<1> QED  BY <1>1, <1>2, <1>3, BesideStarts

LEMMA SignalKeeps ==
    ASSUME IInv, NEW t \in Thread, NEW c \in Call, Signal(t, c)
    PROVE  IInv'
<1> DEFINE h == At("signal", c)
<1>1. /\ h \in Beside
      /\ \A g \in FramesOf(stack[t]) : g.fn \in Sync => g.call = c
  BY SignalAlone
<1>2. h.fn = "signal" /\ h.call = c /\ "signal" \notin Fn
  BY DEF At, Fn
<1>3. /\ stack' = [stack EXCEPT ![t] = Push(h, stack[t])]
      /\ UNCHANGED <<defaults, op, cancelled>>
  BY DEF Signal
<1>  HIDE DEF h
<1> QED  BY <1>1, <1>2, <1>3, BesideStarts

\* A handler returns.
LEMMA BesideReturns ==
    ASSUME IInv, NEW t \in Thread, UserReturn(t), ~In(t, "callback")
    PROVE  /\ stack[t] # << >> /\ Head(stack[t]) \in Beside
           /\ stack' = [stack EXCEPT ![t] = Tail(stack[t])]
           /\ UNCHANGED <<defaults, op, cancelled>>
<1>1. /\ stack[t] # << >> /\ Head(stack[t]).fn \in {"handler", "signal"}
      /\ stack' = [stack EXCEPT ![t] = Tail(stack[t])]
      /\ UNCHANGED <<defaults, op, cancelled>>
  BY DEF UserReturn, In
<1>2. Head(stack[t]) \in Frame /\ Head(stack[t]) \in FramesOf(stack[t])
  <2>1. stack[t] \in Seq(Frame)
    BY DEF IInv, TypeOK
  <2> QED  BY <1>1, <2>1, PopFrame
<1>3. /\ Head(stack[t]) = At(Head(stack[t]).fn, Head(stack[t]).call)
      /\ Head(stack[t]).call = None <=> Head(stack[t]).fn = "handler"
      /\ Head(stack[t]).call \in Call \cup {None}
  BY <1>2, FrameIsAt DEF IInv, StackInv, Frame
<1> QED  BY <1>1, <1>3 DEF Beside

\* A handler or a callback returns.
LEMMA UserReturnKeeps ==
    ASSUME IInv, NEW t \in Thread, UserReturn(t)
    PROVE  IInv'
<1> DEFINE c == Cur(t)
           s == Tail(stack[t])
<1>1. /\ stack' = [stack EXCEPT ![t] = s] /\ UNCHANGED <<defaults, op, cancelled>>
  BY DEF UserReturn
<1>2. /\ TypeOK /\ StackInv(t) /\ "callback" \in Fn
      /\ "callback" \notin Sync /\ "callback" # "handler"
  BY DEF IInv, Fn, Sync
<1>3. CASE ~In(t, "callback")
  <2>  DEFINE h == Head(stack[t])
  <2>1. stack[t] \in Seq(Frame) /\ stack[t] # << >> /\ h \in Beside
    BY <1>2, <1>3, BesideReturns DEF TypeOK
  <2>2. /\ s \in Seq(Frame) /\ Distinct(s) /\ Isolated(s)
        /\ FramesOf(stack[t]) = FramesOf(s) \cup {h}
    BY <1>2, <2>1, PopFrame DEF StackInv
  <2>3. FramesOf(s) \ {h} = FramesOf(stack[t]) \ {h}
    BY <2>2
  <2>  HIDE DEF s, h
  <2> QED  BY <1>1, <2>1, <2>2, <2>3, BesideMoves
<1>4. CASE In(t, "callback")
  <2>1. /\ stack[t] # << >> /\ Head(stack[t]) = At("callback", c)
        /\ c \in Call /\ "callback" \in FnsOf(c)
    BY <1>2, <1>4, TopFrame
  <2>  HIDE DEF c
  <2>2. Moved(t, c, s, {"callback"}, {})
    BY <1>2, <2>1, MovedPop
  <2>3. FnsOf(c) \subseteq Fn /\ Consistent(c, op[c], FnsOf(c))
    BY <2>1 DEF IInv, CallInv, FnsOf
  <2>  DEFINE o == op[c]
  <2>4. Consistent(c, o, (FnsOf(c) \ {"callback"}) \cup {})
    <3>1. Consistent(c, o, FnsOf(c) \ {"callback"})
      BY <2>1, <2>3, ReturnStep
    <3>2. (FnsOf(c) \ {"callback"}) \cup {} = FnsOf(c) \ {"callback"}
      OBVIOUS
    <3> QED  BY <3>1, <3>2
  <2>5. /\ op' = [op EXCEPT ![c] = o] /\ cancelled' \subseteq Call
        /\ ({"callback"} \cup {}) \cap Sync = {} /\ UNCHANGED defaults
    BY <1>1, <1>2, <2>1 DEF TypeOK
  <2>  HIDE DEF s, o
  <2> QED  BY <1>1, <2>1, <2>2, <2>4, <2>5, CallMoves
<1> QED  BY <1>1, <1>3, <1>4

\* Only calls are cancelled, and nothing else changes.
LEMMA NothingMoves ==
    ASSUME IInv, UNCHANGED <<stack, defaults, op>>, cancelled' \subseteq Call
    PROVE  IInv'
<1>1. TypeOK'
  BY DEF IInv, TypeOK
<1>2. \A t \in Thread : StackInv(t)'
  BY DEF IInv, StackInv
<1>3. Unique'
  BY DEF IInv, Unique
<1>4. \A c \in Call : FnsOf(c)' = FnsOf(c)
  BY DEF FnsOf, OnStack
<1>5. \A c \in Call : CallInv(c)'
  BY <1>4 DEF IInv, CallInv
<1> QED  BY <1>1, <1>2, <1>3, <1>5 DEF IInv

\* g_cancellable_cancel
LEMMA CancelKeeps ==
    ASSUME IInv, NEW c \in Call, Cancel(c)
    PROVE  IInv'
<1>1. cancelled' \subseteq Call /\ UNCHANGED <<stack, defaults, op>>
  BY DEF IInv, TypeOK, Cancel
<1> QED  BY <1>1, NothingMoves

\* Stuttering, and threads that all poll.
LEMMA NothingChanges ==
    ASSUME IInv, UNCHANGED vars
    PROVE  IInv'
<1>1. cancelled' \subseteq Call /\ UNCHANGED <<stack, defaults, op>>
  BY DEF IInv, TypeOK, vars
<1> QED  BY <1>1, NothingMoves

\* A call starts on its own context, or on that of a thread.
Starts(c, s, x, fns) ==
    \/ s = TRUE /\ x = c /\ fns = {"sync_run"}
    \/ s = FALSE /\ x \in Thread /\ fns = {}

\* A call begins: the request is sent, or an idle source will tell it failed.
LEMMA BeginMoves ==
    ASSUME NEW t \in Thread, NEW c \in Call, NEW k \in Kind, NEW s \in BOOLEAN,
           NEW x \in Context, NEW fns, Starts(c, s, x, fns),
           NEW rest, Begin(t, c, k, s, x, rest)
    PROVE  /\ stack' = [stack EXCEPT ![t] = rest]
           /\ \E o : /\ op' = [op EXCEPT ![c] = o]
                     /\ Consistent(c, o, fns) /\ Fresh(o, s, x)
<1> DEFINE b == Opened(k, s, x)
           sent == RequestSend(RefOuter([b EXCEPT !.message = {"context"}]), x)
           e == [b EXCEPT !.outerRes = "error", !.outer = @ - 1]
<1>1. Begun(c, b, s, x) /\ b.outer = 1 /\ b.inner = 0 /\ b.message = {}
  <2>1. k \in {"options", "propfind"}
    BY KindAssumption
  <2> QED  BY <2>1, BegunFields
<1>2. \/ op' = [op EXCEPT ![c] = UnrefOuter(sent)] /\ stack' = [stack EXCEPT ![t] = rest]
      \/ BeginFailed(t, c, b, rest)
  BY DEF Begin, Opened
<1>  HIDE DEF b
<1>3. Consistent(c, UnrefOuter(sent), fns) /\ Fresh(UnrefOuter(sent), s, x)
  BY <1>1, SentStep DEF Starts
<1>4. /\ Consistent(c, Attach(RefOuter(e), "outer", e.ctx), fns)
      /\ Fresh(Attach(RefOuter(e), "outer", e.ctx), s, x)
  BY <1>1, FailedStep DEF Starts
<1>5. BeginFailed(t, c, b, rest) =>
         /\ op' = [op EXCEPT ![c] = Attach(RefOuter(e), "outer", e.ctx)]
         /\ stack' = [stack EXCEPT ![t] = rest]
  BY DEF BeginFailed, OuterReturned, ReturnsNow
<1>  HIDE DEF sent, e
<1> QED  BY <1>2, <1>3, <1>4, <1>5

\* The thread of a call that begins has no synchronous call.
LEMMA BeginFacts ==
    ASSUME IInv, NEW t \in Thread, NEW c \in Call, InUserCode(t), op[c].phase = "idle"
    PROVE  /\ \A g \in FramesOf(stack[t]) : g.fn \notin Sync
           /\ defaults[t] = << >> /\ FnsOf(c) = {}
<1>1. /\ TypeOK /\ StackInv(t) /\ Consistent(c, op[c], FnsOf(c))
      /\ "handler" \in Fn /\ "callback" \in Fn
  BY DEF IInv, CallInv, Fn
<1>2. \A g \in FramesOf(stack[t]) : g.fn \notin Sync
  <2>1. PICK fn \in {"handler", "callback"} : In(t, fn)
    BY DEF InUserCode
  <2> QED  BY <1>1, <2>1, TopFrame
<1> QED  BY <1>1, <1>2 DEF StackInv, Consistent, Staged

\* An asynchronous call begins on the context of its thread, ...
LEMMA BeginAsyncKeeps ==
    ASSUME IInv, NEW t \in Thread, NEW c \in Call, NEW k \in Kind, BeginAsync(t, c, k)
    PROVE  IInv'
<1>1. /\ InUserCode(t) /\ op[c].phase = "idle" /\ UNCHANGED <<defaults, cancelled>>
      /\ Begin(t, c, k, FALSE, DefaultCtx(t), stack[t])
  BY DEF BeginAsync
<1>2. /\ \A g \in FramesOf(stack[t]) : g.fn \notin Sync
      /\ defaults[t] = << >> /\ FnsOf(c) = {}
  BY <1>1, BeginFacts
<1>3. DefaultCtx(t) = t /\ t \in Context
  BY <1>2 DEF DefaultCtx, Default, Context
<1>  DEFINE s == stack[t]
<1>4. PICK o : /\ op' = [op EXCEPT ![c] = o] /\ stack' = [stack EXCEPT ![t] = s]
               /\ Consistent(c, o, {})
  <2>  DEFINE sync == FALSE
              fns == {}
  <2>1. /\ Begin(t, c, k, sync, t, s) /\ sync \in BOOLEAN
        /\ Starts(c, sync, t, fns)
    BY <1>1, <1>3 DEF Starts
  <2>  HIDE DEF sync, fns, s
  <2>2. /\ stack' = [stack EXCEPT ![t] = s]
        /\ \E o : op' = [op EXCEPT ![c] = o] /\ Consistent(c, o, fns)
    BY <1>3, <2>1, BeginMoves
  <2> QED  BY <2>2 DEF fns
<1>5. Moved(t, c, s, {}, {})
  BY <1>2, MovedStay DEF IInv
<1>6. /\ Consistent(c, o, (FnsOf(c) \ {}) \cup {}) /\ ({} \cup {}) \cap Sync = {}
      /\ cancelled' \subseteq Call /\ UNCHANGED defaults
  <2>1. (FnsOf(c) \ {}) \cup {} = {}
    BY <1>2
  <2> QED  BY <1>1, <1>4, <2>1 DEF IInv, TypeOK
<1>  HIDE DEF s
<1> QED  BY <1>4, <1>5, <1>6, CallMoves

\* ... a synchronous one on a private context that it pushes.
LEMMA BeginSyncKeeps ==
    ASSUME IInv, NEW t \in Thread, NEW c \in Call, NEW k \in Kind, BeginSync(t, c, k)
    PROVE  IInv'
<1> DEFINE f == At("sync_run", c)
           s == Push(f, stack[t])
           pushed == PushDefault(ClosureContext(t, c), defaults[t])
<1>1. /\ InUserCode(t) /\ op[c].phase = "idle" /\ UNCHANGED cancelled
      /\ defaults' = [defaults EXCEPT ![t] = pushed]
      /\ Begin(t, c, k, TRUE, Default(t, pushed), s)
  BY DEF BeginSync
<1>2. /\ \A g \in FramesOf(stack[t]) : g.fn \notin Sync
      /\ defaults[t] = << >> /\ FnsOf(c) = {}
  BY <1>1, BeginFacts
<1>3. pushed = <<c>> /\ Default(t, pushed) = c /\ c \in Context
  <2>1. pushed = <<c>>
    BY <1>2 DEF PushDefault, ClosureContext, Push
  <2>  HIDE DEF pushed
  <2> QED  BY <2>1 DEF Default, Context
<1>4. PICK o : /\ op' = [op EXCEPT ![c] = o] /\ stack' = [stack EXCEPT ![t] = s]
               /\ Consistent(c, o, {"sync_run"})
  <2>  DEFINE sync == TRUE
              fns == {"sync_run"}
              x == c
  <2>1. /\ Begin(t, c, k, sync, x, s) /\ sync \in BOOLEAN /\ x \in Context
        /\ Starts(c, sync, x, fns)
    BY <1>1, <1>3 DEF Starts
  <2>  HIDE DEF sync, fns, x, s
  <2>2. /\ stack' = [stack EXCEPT ![t] = s]
        /\ \E o : op' = [op EXCEPT ![c] = o] /\ Consistent(c, o, fns)
    BY <2>1, BeginMoves
  <2> QED  BY <2>2 DEF fns
<1>5. /\ TypeOK /\ StackInv(t) /\ stack[t] \in Seq(Frame)
      /\ f \in Frame /\ f.fn = "sync_run" /\ f.call = c /\ c # None
      /\ "sync_run" \in Sync
  <2>1. "sync_run" \in Fn /\ "sync_run" \in Sync
    BY DEF Fn, Sync
  <2> QED  BY <2>1, AtFrame, NotNone DEF IInv, TypeOK
<1>6. Moved(t, c, s, {}, {"sync_run"})
  <2>1. Moved(t, c, stack[t], {}, {})
    BY <1>2, <1>5, MovedStay
  <2>2. "sync_run" \in Fn \ {"handler"}
    BY DEF Fn
  <2>3. Moved(t, c, s, {}, {} \cup {"sync_run"})
    BY <1>2, <1>5, <2>1, <2>2, MovedPush
  <2> QED  BY <2>3
<1>7. FramesOf(s) = FramesOf(stack[t]) \cup {f} /\ Distinct(s) /\ Isolated(s)
  BY <1>5, <1>6, PushFrame DEF Moved
<1>  HIDE DEF s, f, pushed
<1>8. /\ stack'[t] = s /\ defaults'[t] = <<c>>
      /\ \A u \in Thread \ {t} : stack'[u] = stack[u] /\ defaults'[u] = defaults[u]
      /\ defaults' \in [Thread -> Seq(Call)] /\ cancelled' \subseteq Call
  <2>1. <<c>> \in Seq(Call)
    OBVIOUS
  <2> QED  BY <1>1, <1>3, <1>4, <1>5, <2>1 DEF TypeOK
<1>9. ASSUME NEW u \in Thread  PROVE StackInv(u)'
  <2>1. CASE u # t
    BY <1>8, <2>1 DEF IInv, StackInv
  <2>2. CASE u = t
    <3>1. \A g \in FramesOf(s) : g.call = None <=> g.fn = "handler"
      BY <1>5, <1>7 DEF StackInv
    <3>2. \A g \in FramesOf(s) : g.fn \in Sync => g.call = c
      BY <1>2, <1>5, <1>7
    <3>3. ~ \A g \in FramesOf(s) : g.fn \notin Sync
      BY <1>5, <1>7
    <3> QED  BY <1>7, <1>8, <2>2, <3>1, <3>2, <3>3 DEF StackInv
  <2> QED  BY <2>1, <2>2
<1>10. Consistent(c, o, (FnsOf(c) \ {}) \cup {"sync_run"})
  <2>1. (FnsOf(c) \ {}) \cup {"sync_run"} = {"sync_run"}
    BY <1>2
  <2> QED  BY <1>4, <2>1
<1> QED  BY <1>4, <1>6, <1>8, <1>9, <1>10, CallMoves

-----------------------------------------------------------------------------
(* The theorems                                                            *)

\* The invariant holds at the start, ...
LEMMA InitInv == Init => IInv
<1> SUFFICES ASSUME Init  PROVE IInv
  OBVIOUS
<1>1. TypeOK
  BY DEF Init, TypeOK, IdleOp, OpRecord
<1>2. \A t \in Thread : stack[t] = << >> /\ defaults[t] = << >> /\ FramesOf(stack[t]) = {}
  BY DEF Init, FramesOf
<1>3. \A t \in Thread : StackInv(t)
  BY <1>2 DEF StackInv, Distinct, Isolated
<1>4. Unique
  BY <1>2 DEF Unique
<1>5. ASSUME NEW c \in Call  PROVE CallInv(c)
  <2>1. FnsOf(c) = {}
    BY <1>1, <1>2, FnsOfFrames DEF FnsOf
  <2>2. op[c] = IdleOp
    BY DEF Init
  <2>3. Consistent(c, IdleOp, {})
    <3>1. IdleOp \in OpRecord
      BY DEF IdleOp, OpRecord
    <3>2. Balanced(IdleOp, {}) /\ Owned(IdleOp)
      BY DEF IdleOp, Balanced, Owned, One, InFlight
    <3>3. Staged(IdleOp, {})
      BY DEF IdleOp, Staged, Pending, InFlight
    <3>4. Closed(c, IdleOp, {})
      BY DEF IdleOp, Closed
    <3> QED  BY <3>1, <3>2, <3>3, <3>4 DEF Consistent
  <2> QED  BY <2>1, <2>2, <2>3 DEF CallInv
<1> QED  BY <1>1, <1>3, <1>4, <1>5 DEF IInv

\* ... and every step keeps it.
LEMMA NextInv == IInv /\ [Next]_vars => IInv'
<1> SUFFICES ASSUME IInv, [Next]_vars  PROVE IInv'
  OBVIOUS
<1>1. ASSUME NEW t \in Thread, Execute(t)  PROVE IInv'
  BY <1>1, RequestCbKeeps, LeaveInnerKeeps, LeaveOuterKeeps, ClosureWaitKeeps,
     ClosureQuitKeeps, ClosureFreeKeeps, FinishOutputsKeeps, FinishPropagateKeeps,
     UserReturnKeeps DEF Execute
<1>2. ASSUME NEW t \in Thread, Handler(t)  PROVE IInv'
  BY <1>2, HandlerKeeps
<1>3. ASSUME NEW t \in Thread, NEW c \in Call, Dispatch(t, c)  PROVE IInv'
  BY <1>3, SendCbKeeps, SpliceCbKeeps, InnerIdleKeeps, OuterIdleKeeps DEF Dispatch
<1>4. ASSUME NEW t \in Thread, NEW c \in Call, NEW k \in Kind,
             BeginAsync(t, c, k) \/ BeginSync(t, c, k)
      PROVE  IInv'
  BY <1>4, BeginAsyncKeeps, BeginSyncKeeps
<1>5. ASSUME NEW c \in Call, Cancel(c)  PROVE IInv'
  BY <1>5, CancelKeeps
<1>6. CASE Poll \/ UNCHANGED vars
  BY <1>6, NothingChanges DEF Poll
<1>7. ASSUME NEW t \in Thread, NEW c \in Call, Signal(t, c)  PROVE IInv'
  BY <1>7, SignalKeeps
<1> QED  BY <1>1, <1>2, <1>3, <1>4, <1>5, <1>6, <1>7 DEF Next

\* The inductive invariant holds whatever threads call what and however the
\* callbacks nest.
THEOREM Invariance == Spec => []IInv
<1> QED  BY InitInv, NextInv, PTL DEF Spec

\* The variables keep their types (TypeOK).
THEOREM TypeCorrect == Spec => []TypeOK
<1>1. IInv => TypeOK
  BY DEF IInv
<1> QED  BY <1>1, Invariance, PTL

\* Every reference to a GTask has exactly one holder: no task is used after
\* its last g_object_unref, and none leaks.
THEOREM References == Spec => []ReferencesBalanced
<1>1. IInv => ReferencesBalanced
  <2> SUFFICES ASSUME IInv, NEW c \in Call
               PROVE  LET o == op[c] IN
                        /\ o.outer = One(InFlight(o))
                              + One(OnStack("request_cb", c))
                              + One(OnStack("request_cb_end", c))
                              + One(o.src = "outer") + One(OnStack("outer_idle", c))
                              + One(o.result)
                        /\ o.inner = One(InFlight(o)) + One(OnStack("send_cb", c))
                              + One(OnStack("splice_cb", c))
                              + One(OnStack("inner_idle", c))
    BY DEF ReferencesBalanced
  <2>1. Balanced(op[c], FnsOf(c))
    BY DEF IInv, CallInv, Consistent
  <2>2. \A fn \in {"request_cb", "request_cb_end", "outer_idle", "send_cb",
                   "splice_cb", "inner_idle"} : fn \in FnsOf(c) <=> OnStack(fn, c)
    BY DEF FnsOf, Fn
  <2> QED  BY <2>1, <2>2 DEF Balanced, One
<1> QED  BY <1>1, Invariance, PTL

\* The message lives as long as the tasks that use it.
THEOREM Ownership == Spec => []MessageOwned
<1>1. IInv => MessageOwned
  BY DEF IInv, CallInv, Consistent, Owned, MessageOwned
<1> QED  BY <1>1, Invariance, PTL

\* On a thread that a synchronous call blocks there runs no callback, no source
\* of the application and no part of another call.
THEOREM IsolatedCalls == Spec => []Isolation
<1>1. IInv => Isolation
  BY DEF IInv, StackInv, Isolated, Isolation
<1> QED  BY <1>1, Invariance, PTL

\* The default of a thread is the context of the call that blocks it.
LEMMA ContextsNow == IInv => ContextsNested
<1>1. ASSUME IInv  PROVE ContextsNested
  <2> SUFFICES ASSUME NEW t \in Thread
               PROVE  defaults[t] = IF Blocked(t) = None THEN << >> ELSE <<Blocked(t)>>
    BY DEF ContextsNested
  <2> DEFINE s == stack[t]
             frames == {i \in DOMAIN s : s[i].fn \in Sync}
  <2>1. StackInv(t) /\ DOMAIN s \subseteq Nat
    <3>1. s \in Seq(Frame)
      BY <1>1 DEF IInv, TypeOK
    <3> QED  BY <1>1, <3>1 DEF IInv
  <2>2. CASE frames = {}
    <3>1. Blocked(t) = None
      BY <2>2 DEF Blocked
    <3>2. \A f \in FramesOf(s) : f.fn \notin Sync
      BY <2>2 DEF FramesOf
    <3> QED  BY <2>1, <3>1, <3>2 DEF StackInv
  <2>3. CASE frames # {}
    <3>1. PICK k : k \in frames
      BY <2>3
    <3>2. ASSUME NEW i \in frames  PROVE i = k
      <4>1. i \in Nat /\ k \in Nat
        BY <2>1, <3>1
      <4>2. ~ (i < k) /\ ~ (k < i)
        BY <2>1, <3>1 DEF StackInv, Isolated
      <4> QED  BY <4>1, <4>2
    <3>3. (CHOOSE i \in frames : \A j \in frames : i <= j) = k
      <4>1. k <= k
        BY <2>1, <3>1
      <4>  HIDE DEF frames
      <4> QED  BY <3>1, <3>2, <4>1
    <3>4. Blocked(t) = s[k].call
      BY <2>3, <3>3 DEF Blocked
    <3>5. s[k] \in FramesOf(s) /\ s[k].fn \in Sync
      BY <3>1 DEF FramesOf
    <3>6. s[k].call # None /\ defaults[t] = <<s[k].call>>
      BY <2>1, <3>5 DEF StackInv, Sync
    <3> QED  BY <3>4, <3>6
  <2> QED  BY <2>2, <2>3
<1> QED  BY <1>1

\* A thread has pushed as its default the context of the call that blocks it,
\* and no other.
THEOREM Contexts == Spec => []ContextsNested
<1> QED  BY ContextsNow, Invariance, PTL

\* No callback tells a loop to quit that does not run yet.
THEOREM QuitNotLost == Spec => []NoLostQuit
<1>1. ASSUME IInv  PROVE NoLostQuit
  <2> SUFFICES ASSUME NEW c \in Call, OnStack("sync_run", c)  PROVE op[c].called = 0
    BY DEF NoLostQuit
  <2>1. Consistent(c, op[c], FnsOf(c)) /\ "sync_run" \in FnsOf(c)
    BY <1>1 DEF IInv, CallInv, FnsOf, Fn
  <2> QED  BY <2>1 DEF Consistent, Closed, Staged, Pending
<1> QED  BY <1>1, Invariance, PTL

-----------------------------------------------------------------------------
(* The callback runs once                                                  *)

Once(c) ==
    op'[c].called # op[c].called =>
        /\ op[c].phase = "begun" /\ op[c].called = 0
        /\ op'[c].called = 1
        /\ op'[c].outerRes # "none"

\* A step that leaves the count of call c alone.
LEMMA CountKept ==
    ASSUME TypeOK, NEW c \in Call, NEW o, op' = [op EXCEPT ![c] = o],
           o.called = op[c].called
    PROVE  \A d \in Call : Once(d)
BY DEF TypeOK, Once

\* References and sources have nothing to do with the count.
LEMMA UnrefKeepsCount ==
    ASSUME NEW o \in OpRecord
    PROVE  /\ UnrefInner(o).called = o.called /\ UnrefOuter(o).called = o.called
           /\ \A src, x : Attach(o, src, x).called = o.called
<1>1. UnrefInner(o).called = o.called
  BY DEF OpRecord, UnrefInner
<1>2. UnrefOuter(o).called = o.called
  BY DEF OpRecord, UnrefOuter
<1>3. \A src, x : Attach(o, src, x).called = o.called
  BY DEF OpRecord, Attach
<1> QED  BY <1>1, <1>2, <1>3

\* The reference that a new source holds.
LEMMA AttachKeepsCount ==
    ASSUME NEW o \in OpRecord, NEW x \in Context \cup {None},
           NEW src \in {"none", "send", "splice", "inner", "outer"}
    PROVE  /\ Attach(o, src, x).called = o.called
           /\ UnrefInner(Attach(RefInner(o), src, x)).called = o.called
           /\ Attach(RefOuter(o), src, x).called = o.called
<1> DEFINE p == RefInner(o)
           q == RefOuter(o)
           a == Attach(p, src, x)
<1>1. p \in OpRecord /\ q \in OpRecord /\ p.called = o.called /\ q.called = o.called
  BY RefFields DEF SameCall
<1>2. Attach(o, src, x).called = o.called
  BY UnrefKeepsCount
<1>  HIDE DEF p, q
<1>3. a \in OpRecord /\ a.called = p.called /\ Attach(q, src, x).called = q.called
  <2>1. a \in OpRecord
    BY <1>1, AttachFields, ZenonT(60)
  <2>2. a.called = p.called
    BY <1>1, UnrefKeepsCount
  <2>3. Attach(q, src, x).called = q.called
    BY <1>1, UnrefKeepsCount
  <2> QED  BY <2>1, <2>2, <2>3
<1>  HIDE DEF a
<1>4. UnrefInner(a).called = a.called
  BY <1>3, UnrefKeepsCount
<1> QED  BY <1>1, <1>2, <1>3, <1>4 DEF a, p, q

\* The only step that counts: the callback of a pending call runs.
LEMMA InvokeOnce ==
    ASSUME IInv, NEW t \in Thread, NEW c \in Call, Pending(op[c], FnsOf(c)),
           NEW b, Resolved(op[c], b), NEW r, Invoke(t, c, b, r)
    PROVE  \A d \in Call : Once(d)
<1> DEFINE n == b.called + 1
           a == [b EXCEPT !.called = n, !.phase = "ready"]
           p == RefOuter(a)
           q == [p EXCEPT !.result = TRUE, !.running = FALSE]
<1>1. op[c].phase = "begun" /\ op[c].called = 0 /\ ~op[c].result
  BY DEF IInv, CallInv, Consistent, Staged
<1>2. b \in OpRecord /\ b.called = 0 /\ ~b.result /\ b.outerRes # "none" /\ n = 1
  BY <1>1 DEF Resolved
<1>3. op' = [op EXCEPT ![c] = IF b.sync THEN ClosureCallback(a) ELSE a]
  BY DEF Invoke
<1>  HIDE DEF n
<1>4. a \in OpRecord /\ a.called = 1 /\ ~a.result /\ a.outerRes # "none"
  <2>1. a \in OpRecord
    BY <1>2, ZenonT(60) DEF OpRecord
  <2>2. a.called = 1 /\ ~a.result /\ a.outerRes # "none"
    BY <1>2 DEF OpRecord
  <2> QED  BY <2>1, <2>2
<1>  HIDE DEF a
<1>5. ClosureCallback(a) = q
  BY <1>4 DEF ClosureCallback
<1>6. p \in OpRecord /\ p.called = 1 /\ p.outerRes # "none"
  BY <1>4, RefFields DEF SameCall
<1>  HIDE DEF p
<1>7. q.called = 1 /\ q.outerRes # "none"
  BY <1>6 DEF OpRecord
<1>  HIDE DEF q
<1>8. op'[c].called = 1 /\ op'[c].outerRes # "none"
      /\ \A d \in Call \ {c} : op'[d] = op[d]
  BY <1>3, <1>4, <1>5, <1>7 DEF IInv, TypeOK
<1> QED  BY <1>1, <1>8 DEF Once

\* The inner task returns.
LEMMA InnerReturnedOnce ==
    ASSUME IInv, NEW t \in Thread, NEW c \in Call, NEW b, Answered(op[c], b),
           NEW fn, InnerReturned(t, c, b, fn)
    PROVE  \A d \in Call : Once(d)
<1>1. b \in OpRecord /\ b.called = op[c].called /\ b.ctx \in Context \cup {None}
      /\ None \in Context \cup {None}
  BY DEF Answered, OpRecord
<1>2. /\ Detach(b).called = op[c].called
      /\ UnrefInner(Attach(RefInner(b), "inner", b.ctx)).called = op[c].called
  BY <1>1, AttachKeepsCount DEF Detach
<1> QED  BY <1>2, CountKept DEF InnerReturned, IInv

\* The outer task returns, ...
LEMMA OuterReturnedOnce ==
    ASSUME IInv, NEW t \in Thread, NEW c \in Call, "request_cb" \in FnsOf(c),
           NEW b, Resolved(op[c], b), NEW r, OuterReturned(t, c, b, FALSE, r)
    PROVE  \A d \in Call : Once(d)
<1>1. CASE Invoke(t, c, b, r)
  BY <1>1, InvokeOnce DEF Pending
<1>2. CASE op' = [op EXCEPT ![c] = Attach(RefOuter(b), "outer", b.ctx)]
  <2>1. b \in OpRecord /\ b.called = op[c].called /\ b.ctx \in Context \cup {None}
    BY DEF Resolved, OpRecord
  <2>2. Attach(RefOuter(b), "outer", b.ctx).called = op[c].called
    BY <2>1, AttachKeepsCount
  <2> QED  BY <1>2, <2>2, CountKept DEF IInv
<1> QED  BY <1>1, <1>2 DEF OuterReturned

\* A source of a call is dispatched.
LEMMA SourceOnce ==
    ASSUME IInv, NEW t \in Thread, NEW c \in Call, Dispatch(t, c)
    PROVE  \A d \in Call : Once(d)
<1> DEFINE o == Detach(op[c])
<1>1. /\ TypeOK /\ op[c] \in OpRecord /\ Consistent(c, op[c], FnsOf(c))
  BY DEF IInv, TypeOK, CallInv
<1>2. Answered(op[c], o) /\ o.called = op[c].called
  BY <1>1, DetachAnswered DEF Answered
<1>3. Answered(op[c], [o EXCEPT !.innerRes = "error"])
  BY <1>2 DEF Answered, OpRecord
<1>4. CASE SendCb(t, c)
  <2>1. CASE op' = [op EXCEPT ![c] =
                      UnrefInner(Attach(RefInner(o), "splice", DefaultCtx(t)))]
    <3>1. op[c].src # "none" /\ Iterates(t, op[c].srcCtx)
      BY <1>4 DEF SendCb
    <3>2. DefaultCtx(t) = op[c].ctx
      BY <3>1, Dispatched
    <3>3. DefaultCtx(t) \in Context \cup {None} /\ o \in OpRecord
      BY <1>1, <1>2, <3>2 DEF OpRecord, Answered
    <3>  HIDE DEF o
    <3>4. UnrefInner(Attach(RefInner(o), "splice", DefaultCtx(t))).called = op[c].called
      BY <1>2, <3>3, AttachKeepsCount
    <3> QED  BY <1>1, <2>1, <3>4, CountKept
  <2>2. CASE InnerReturned(t, c, [o EXCEPT !.innerRes = "error"], "send_cb")
    BY <1>3, <2>2, InnerReturnedOnce
  <2> QED  BY <1>4, <2>1, <2>2 DEF SendCb
<1>5. CASE SpliceCb(t, c)
  <2>1. ASSUME NEW filled \in BOOLEAN,
               InnerReturned(t, c, [CopyBody(o, filled) EXCEPT !.innerRes = "ok"],
                             "splice_cb")
        PROVE  \A d \in Call : Once(d)
    <3> DEFINE n == IF o.copies + One(filled) = 0 THEN 1 ELSE o.copies + One(filled)
               m == CopyBody(o, filled)
               b == [m EXCEPT !.innerRes = "ok"]
    <3>1. n \in Nat
      BY <1>2 DEF Answered, OpRecord, One
    <3>2. m = [o EXCEPT !.copies = n]
      BY DEF CopyBody
    <3>  HIDE DEF n, m
    <3>3. Answered(op[c], m)
      BY <1>2, <3>1, <3>2 DEF Answered, OpRecord
    <3>4. Answered(op[c], b)
      BY <3>3 DEF Answered, OpRecord
    <3> QED  BY <2>1, <3>4, InnerReturnedOnce DEF m
  <2>2. CASE InnerReturned(t, c, [o EXCEPT !.innerRes = "error"], "splice_cb")
    BY <1>3, <2>2, InnerReturnedOnce
  <2> QED  BY <1>5, <2>1, <2>2 DEF SpliceCb
<1>6. CASE InnerIdle(t, c)
  <2>1. op' = [op EXCEPT ![c] = o]
    BY <1>6 DEF InnerIdle
  <2> QED  BY <1>1, <1>2, <2>1, CountKept
<1>7. CASE OuterIdle(t, c)
  <2>1. /\ op[c].src = "outer" /\ op[c].outerRes # "none"
        /\ Invoke(t, c, o, Push(At("outer_idle", c), stack[t]))
    BY <1>1, <1>7 DEF OuterIdle, Consistent, Staged
  <2>2. Resolved(op[c], o)
    BY <1>2, <2>1 DEF Answered, Resolved
  <2>3. Pending(op[c], FnsOf(c))
    BY <2>1 DEF Pending
  <2>  HIDE DEF o
  <2> QED  BY <2>1, <2>2, <2>3, InvokeOnce
<1> QED  BY <1>4, <1>5, <1>6, <1>7 DEF Dispatch

\* ... from gdav_options_request_cb or gdav_propfind_request_cb.
LEMMA RequestCbOnce ==
    ASSUME IInv, NEW t \in Thread, RequestCb(t)
    PROVE  \A d \in Call : Once(d)
<1> DEFINE c == Cur(t)
           r == Push(At("request_cb_end", c), Tail(stack[t]))
<1>1. In(t, "request_cb") /\ (OptionsRequestCb(t, c, r) \/ PropfindRequestCb(t, c, r))
  BY DEF RequestCb
<1>2. TypeOK /\ StackInv(t) /\ "request_cb" \in Fn
  BY DEF IInv, Fn
<1>3. c \in Call /\ "request_cb" \in FnsOf(c)
  BY <1>1, <1>2, TopFrame
<1>4. op[c] \in OpRecord /\ Consistent(c, op[c], FnsOf(c))
  BY <1>2, <1>3 DEF IInv, TypeOK, CallInv
<1>  HIDE DEF c, r
<1>5. op[c].src = "none"
  BY <1>3, <1>4 DEF Consistent, Staged
<1>6. ASSUME NEW res \in {"ok", "error"}
      PROVE  /\ Resolved(op[c], [op[c] EXCEPT !.outerRes = res])
             /\ Resolved(op[c], [op[c] EXCEPT !.outerRes = res, !.object = "task"])
  BY <1>4, <1>5, ZenonT(40) DEF Resolved, OpRecord
<1>7. CASE OptionsRequestCb(t, c, r)
  <2>  DEFINE res == IF Failed(c, op[c].innerRes) THEN "error" ELSE "ok"
  <2>1. res \in {"ok", "error"} /\ OuterReturned(t, c, [op[c] EXCEPT !.outerRes = res],
                                                 FALSE, r)
    BY <1>7 DEF OptionsRequestCb
  <2>  HIDE DEF res
  <2> QED  BY <1>3, <1>6, <2>1, OuterReturnedOnce
<1>8. CASE PropfindRequestCb(t, c, r)
  <2>1. CASE OuterReturned(t, c, [op[c] EXCEPT !.outerRes = "error"], FALSE, r)
    BY <1>3, <1>6, <2>1, OuterReturnedOnce
  <2>2. CASE OuterReturned(t, c, [op[c] EXCEPT !.outerRes = "ok", !.object = "task"],
                           FALSE, r)
    BY <1>3, <1>6, <2>2, OuterReturnedOnce
  <2>3. CASE UNCHANGED op
    BY <2>3 DEF Once
  <2> QED  BY <1>8, <2>1, <2>2, <2>3 DEF PropfindRequestCb
<1> QED  BY <1>1, <1>7, <1>8

\* The ends of callbacks, the closure and the finish functions.
LEMMA OtherOnce ==
    ASSUME IInv, NEW t \in Thread,
           \/ LeaveInner(t) \/ LeaveOuter(t)
           \/ ClosureWait(t) \/ ClosureFree(t)
           \/ FinishOutputs(t) \/ FinishPropagate(t)
    PROVE  \A d \in Call : Once(d)
<1> DEFINE c == Cur(t)
           o == op[c]
<1>1. TypeOK /\ StackInv(t)
  BY DEF IInv
<1>2. PICK fn \in Fn \ {"handler"} : In(t, fn)
  BY DEF LeaveInner, LeaveOuter, ClosureWait, ClosureFree, FinishOutputs, FinishPropagate,
         Fn
<1>3. c \in Call /\ o \in OpRecord
  BY <1>1, <1>2, TopFrame DEF TypeOK
<1>4. CASE LeaveInner(t)
  <2>1. op' = [op EXCEPT ![c] = UnrefInner(o)]
    BY <1>4 DEF LeaveInner
  <2>  HIDE DEF c
  <2> QED  BY <1>1, <1>3, <2>1, UnrefKeepsCount, CountKept
<1>5. CASE LeaveOuter(t)
  <2>1. op' = [op EXCEPT ![c] = UnrefOuter(o)]
    BY <1>5 DEF LeaveOuter
  <2>  HIDE DEF c
  <2> QED  BY <1>1, <1>3, <2>1, UnrefKeepsCount, CountKept
<1>6. CASE ClosureWait(t)
  <2>  DEFINE p == [o EXCEPT !.running = TRUE]
  <2>1. op' = [op EXCEPT ![c] = p]
    BY <1>6 DEF ClosureWait
  <2>2. p.called = o.called
    BY <1>3 DEF OpRecord
  <2>  HIDE DEF p, c
  <2> QED  BY <1>1, <1>3, <2>1, <2>2, CountKept
<1>7. CASE ClosureFree(t)
  <2>  DEFINE r == [o EXCEPT !.result = FALSE]
              p == IF o.result THEN UnrefOuter(r) ELSE o
  <2>1. op' = [op EXCEPT ![c] = p]
    BY <1>7 DEF ClosureFree
  <2>2. r \in OpRecord /\ r.called = o.called
    BY <1>3 DEF OpRecord
  <2>  HIDE DEF r
  <2>3. p.called = o.called
    BY <2>2, UnrefKeepsCount
  <2>  HIDE DEF p, c
  <2> QED  BY <1>1, <1>3, <2>1, <2>3, CountKept
<1>8. CASE FinishOutputs(t)
  <2>  DEFINE taken == Taken(c, o)
              outs == o.kind = "options" /\ ~Failed(c, o.outerRes)
  <2>1. PICK wanted \in BOOLEAN :
           op' = [op EXCEPT ![c] =
                    [o EXCEPT !.phase = "finishing", !.wanted = wanted, !.outs = outs,
                              !.message = IF wanted THEN taken ELSE o.message]]
    BY <1>8 DEF FinishOutputs, Handed
  <2>  DEFINE m == IF wanted THEN taken ELSE o.message
              p == [o EXCEPT !.phase = "finishing", !.wanted = wanted,
                             !.outs = outs, !.message = m]
  <2>2. op' = [op EXCEPT ![c] = p]
    BY <2>1
  <2>  HIDE DEF outs, m
  <2>3. p.called = o.called
    BY <1>3 DEF OpRecord
  <2>  HIDE DEF p, c
  <2> QED  BY <1>1, <1>3, <2>2, <2>3, CountKept
<1>9. CASE FinishPropagate(t)
  <2>  DEFINE ret == Propagated(c, o.outerRes)
              x == IF ret = "ok" /\ o.object = "task" THEN "caller" ELSE o.object
              p == Settled(o, ret, x)
  <2>1. op' = [op EXCEPT ![c].phase = "finished", ![c].ret = ret, ![c].object = x]
    BY <1>9 DEF FinishPropagate
  <2>2. /\ ret \in {"none", "ok", "error"}
        /\ x \in {"none", "task", "caller", "freed"}
    BY <1>3 DEF Propagated, OpRecord
  <2>  HIDE DEF ret, x
  <2>3. op' = [op EXCEPT ![c] = p]
    BY <1>1, <1>3, <2>1 DEF OpRecord, Settled, TypeOK
  <2>4. p.called = o.called
    BY <1>3, <2>2, PropagateFields
  <2>  HIDE DEF p, c
  <2> QED  BY <1>1, <1>3, <2>3, <2>4, CountKept
<1> QED  BY <1>4, <1>5, <1>6, <1>7, <1>8, <1>9

\* A call begins with a count of zero, as it had.
LEMMA BeginOnce ==
    ASSUME IInv, NEW t \in Thread, NEW c \in Call, NEW k \in Kind,
           BeginAsync(t, c, k) \/ BeginSync(t, c, k)
    PROVE  \A d \in Call : Once(d)
<1>1. InUserCode(t) /\ op[c].phase = "idle"
  BY DEF BeginAsync, BeginSync
<1>2. TypeOK /\ op[c].called = 0
  BY <1>1 DEF IInv, CallInv, Consistent, Staged
<1>3. defaults[t] = << >>
  BY <1>1, BeginFacts
<1>4. PICK sync, x, fns, r :
         /\ sync \in BOOLEAN /\ x \in Context
         /\ Starts(c, sync, x, fns) /\ Begin(t, c, k, sync, x, r)
  <2>1. CASE BeginAsync(t, c, k)
    <3>1. DefaultCtx(t) = t /\ t \in Context
      BY <1>3 DEF DefaultCtx, Default, Context
    <3>2. Starts(c, FALSE, t, {}) /\ Begin(t, c, k, FALSE, t, stack[t])
      BY <2>1, <3>1 DEF Starts, BeginAsync
    <3> QED  BY <3>1, <3>2
  <2>2. CASE BeginSync(t, c, k)
    <3>  DEFINE pushed == PushDefault(ClosureContext(t, c), defaults[t])
                r == Push(At("sync_run", c), stack[t])
    <3>1. Begin(t, c, k, TRUE, Default(t, pushed), r)
      BY <2>2 DEF BeginSync
    <3>2. pushed = <<c>>
      BY <1>3 DEF PushDefault, ClosureContext, Push
    <3>  HIDE DEF pushed, r
    <3>3. Default(t, pushed) = c /\ c \in Context
      BY <3>2 DEF Default, Context
    <3>4. Starts(c, TRUE, c, {"sync_run"}) /\ Begin(t, c, k, TRUE, c, r)
      BY <3>1, <3>3 DEF Starts
    <3> QED  BY <3>3, <3>4
  <2> QED  BY <2>1, <2>2
<1>5. \E o : op' = [op EXCEPT ![c] = o] /\ o.called = 0
  <2>1. PICK o : op' = [op EXCEPT ![c] = o] /\ Fresh(o, sync, x)
    BY <1>4, BeginMoves
  <2>2. o.called = 0
    BY <2>1 DEF Fresh
  <2> QED  BY <2>1, <2>2
<1> QED  BY <1>2, <1>5, CountKept

\* The callback of a call runs once, after the function that started the call
\* returned, and when the outer task has a result.
THEOREM CalledOnce == Spec => CallbackOnce
<1> DEFINE A == \A c \in Call : op'[c].called # op[c].called =>
                    /\ op[c].phase = "begun" /\ op[c].called = 0
                    /\ op'[c].called = 1
                    /\ op'[c].outerRes # "none"
<1>1. ASSUME IInv, [Next]_vars  PROVE [A]_vars
  <2> SUFFICES ASSUME Next  PROVE \A d \in Call : Once(d)
    BY <1>1 DEF Once
  <2>1. ASSUME NEW t \in Thread, Execute(t)  PROVE \A d \in Call : Once(d)
    <3>1. CASE ClosureQuit(t) \/ UserReturn(t)
      BY <3>1 DEF ClosureQuit, UserReturn, Once
    <3> QED  BY <1>1, <2>1, <3>1, RequestCbOnce, OtherOnce DEF Execute
  <2>2. ASSUME NEW t \in Thread, Handler(t) \/ \E c \in Call : Signal(t, c)
        PROVE  \A d \in Call : Once(d)
    BY <2>2 DEF Handler, Signal, Once
  <2>3. ASSUME NEW t \in Thread, NEW c \in Call, Dispatch(t, c)
        PROVE  \A d \in Call : Once(d)
    BY <1>1, <2>3, SourceOnce
  <2>4. ASSUME NEW t \in Thread, NEW c \in Call, NEW k \in Kind,
               BeginAsync(t, c, k) \/ BeginSync(t, c, k)
        PROVE  \A d \in Call : Once(d)
    BY <1>1, <2>4, BeginOnce
  <2>5. CASE Poll \/ \E c \in Call : Cancel(c)
    BY <2>5 DEF Poll, Cancel, Once, vars
  <2> QED  BY <2>1, <2>2, <2>3, <2>4, <2>5 DEF Next
<1>2. CallbackOnce <=> [][A]_vars
  BY DEF CallbackOnce
<1> QED  BY <1>1, <1>2, Invariance, PTL DEF Spec

-----------------------------------------------------------------------------
(* What a call delivers                                                    *)

\* The results of the two tasks and what became of them.
Result(o) ==
    /\ o.copies = One(o.innerRes = "ok")
    /\ o.outerRes = "ok" => o.innerRes = "ok"
    /\ o.phase \in {"ready", "finishing", "finished"} => o.outerRes # "none"
    /\ o.outerRes = "ok" /\ o.kind = "propfind" /\ o.phase # "finished"
          => o.object = "task"
    /\ o.ret # "none" => o.phase = "finished"
    /\ o.object = "caller" => o.ret = "ok"
    /\ o.ret = "ok" => IF o.kind = "options" THEN o.outs ELSE o.object = "caller"
    /\ o.sync /\ o.phase \in {"ready", "finishing"} => o.result
    /\ o.outs => o.outerRes = "ok" /\ o.phase \in {"finishing", "finished"}

\* The outputs that gdav_options_finish has set before it propagates, and why a
\* call failed.
Announced(c, o) ==
    /\ o.phase = "finishing" /\ o.kind = "options" => o.outs \/ Failed(c, o.outerRes)
    /\ o.phase = "finished" /\ o.ret = "error" => Failed(c, o.outerRes)

\* Where the message is once the outer task has a result: there is none if the
\* request was not built, else the context keeps it until a finish function
\* hands it to the caller who wants it.
Delivery(o) ==
    o.outerRes # "none" =>
        /\ o.innerRes = "none" => o.message = {}
        /\ o.innerRes # "none" =>
              IF o.phase \in {"begun", "ready"} THEN "context" \in o.message
              ELSE o.wanted => "caller" \in o.message

\* The results that a call with its pending source has.
Sourced(o) ==
    /\ o.src \in {"send", "splice"} => o.innerRes = "none"
    /\ o.src = "inner" => o.innerRes # "none"
    /\ o.phase = "begun" /\ o.src = "none" => o.innerRes # "none"
    /\ o.phase = "begun" /\ o.outerRes # "none" => o.src = "outer"

\* The callback of call c is on the stack s, called by a function that still
\* has its reference to the outer task: the result cannot go.
Awaits(s, c) ==
    \E i \in DOMAIN s :
        /\ i + 1 \in DOMAIN s
        /\ s[i] = At("callback", c)
        /\ s[i + 1] \in {At("request_cb_end", c), At("outer_idle", c)}

\* An asynchronous call that the application has not finished.
Waiting(o) == ~o.sync /\ o.phase \in {"ready", "finishing"}

ResultInv ==
    \A c \in Call :
        /\ Result(op[c]) /\ Sourced(op[c]) /\ Announced(c, op[c]) /\ Delivery(op[c])
        /\ Waiting(op[c]) => \E t \in Thread : Awaits(stack[t], c)

\* A push keeps a callback that is awaited.
LEMMA AwaitsPush ==
    ASSUME NEW s \in Seq(Frame), NEW f \in Frame, NEW c \in Call, Awaits(s, c)
    PROVE  Awaits(Push(f, s), c)
<1> DEFINE p == Push(f, s)
<1>1. /\ p \in Seq(Frame) /\ Len(p) = Len(s) + 1
      /\ \A i \in 1 .. Len(s) : p[i + 1] = s[i]
  BY ConcatProperties DEF Push
<1>2. DOMAIN p = 1 .. Len(p) /\ DOMAIN s = 1 .. Len(s) /\ Len(s) \in Nat
  BY <1>1
<1>  HIDE DEF p
<1>3. PICK i \in DOMAIN s :
         /\ i + 1 \in DOMAIN s /\ s[i] = At("callback", c)
         /\ s[i + 1] \in {At("request_cb_end", c), At("outer_idle", c)}
  BY DEF Awaits
<1>4. /\ i + 1 \in DOMAIN p /\ (i + 1) + 1 \in DOMAIN p
      /\ p[i + 1] = s[i] /\ p[(i + 1) + 1] = s[i + 1]
  BY <1>1, <1>2, <1>3
<1>5. Awaits(p, c)
  BY <1>3, <1>4 DEF Awaits
<1> QED  BY <1>5 DEF p

\* So does the return of another function.
LEMMA AwaitsPop ==
    ASSUME NEW s \in Seq(Frame), s # << >>, NEW c \in Call, Awaits(s, c),
           Head(s) # At("callback", c)
    PROVE  Awaits(Tail(s), c)
<1> DEFINE r == Tail(s)
<1>1. /\ r \in Seq(Frame) /\ Len(s) = Len(r) + 1 /\ s[1] = Head(s)
      /\ \A i \in 2 .. Len(s) : s[i] = r[i - 1]
  BY HeadTailProperties
<1>2. DOMAIN r = 1 .. Len(r) /\ DOMAIN s = 1 .. Len(s) /\ Len(r) \in Nat
  BY <1>1
<1>  HIDE DEF r
<1>3. PICK i \in DOMAIN s :
         /\ i + 1 \in DOMAIN s /\ s[i] = At("callback", c)
         /\ s[i + 1] \in {At("request_cb_end", c), At("outer_idle", c)}
  BY DEF Awaits
<1>4. i # 1
  BY <1>1, <1>3
<1>5. /\ i - 1 \in DOMAIN r /\ (i - 1) + 1 \in DOMAIN r
      /\ r[i - 1] = s[i] /\ r[(i - 1) + 1] = s[i + 1]
  BY <1>1, <1>2, <1>3, <1>4
<1>6. Awaits(r, c)
  BY <1>3, <1>5 DEF Awaits
<1> QED  BY <1>6 DEF r

\* A callback that is called.
LEMMA AwaitsNew ==
    ASSUME NEW s \in Seq(Frame), s # << >>, NEW c \in Call,
           Head(s) \in {At("request_cb_end", c), At("outer_idle", c)}
    PROVE  Awaits(Push(At("callback", c), s), c)
<1> DEFINE f == At("callback", c)
           p == Push(f, s)
<1>1. f \in Frame
  BY AtFrame DEF Fn
<1>2. /\ p \in Seq(Frame) /\ Len(p) = Len(s) + 1 /\ p[1] = f
      /\ \A i \in 1 .. Len(s) : p[i + 1] = s[i]
  BY <1>1, ConcatProperties DEF Push
<1>3. DOMAIN p = 1 .. Len(p) /\ 1 \in 1 .. Len(s) /\ Len(s) \in Nat /\ s[1] = Head(s)
  BY <1>2
<1>  HIDE DEF p
<1>4. 1 \in DOMAIN p /\ 1 + 1 \in DOMAIN p /\ p[1 + 1] = Head(s)
  BY <1>2, <1>3
<1>5. Awaits(p, c)
  BY <1>2, <1>4 DEF Awaits
<1> QED  BY <1>5 DEF p

\* Stack s of thread t keeps the callbacks that the application has to finish.
Stays(t, s) ==
    /\ s \in Seq(Frame)
    /\ \A d \in Call : Awaits(stack[t], d) /\ op[d].phase # "finished"
                          => Awaits(s, d)

\* Stacks that do: one with a function more, ...
LEMMA StaysPush ==
    ASSUME NEW t, NEW s, Stays(t, s), NEW fn \in Fn, NEW c \in Call \cup {None}
    PROVE  Stays(t, Push(At(fn, c), s))
<1>1. At(fn, c) \in Frame
  BY AtFrame
<1>2. Push(At(fn, c), s) \in Seq(Frame)
  BY <1>1, PushFrame DEF Stays
<1> QED  BY <1>1, <1>2, AwaitsPush DEF Stays

\* ... the same, ...
LEMMA StaysSame ==
    ASSUME TypeOK, NEW t \in Thread
    PROVE  Stays(t, stack[t]) /\ stack = [stack EXCEPT ![t] = stack[t]]
BY DEF Stays, TypeOK

\* ... and one that a function has left.
LEMMA StaysPop ==
    ASSUME TypeOK, NEW t \in Thread, stack[t] # << >>,
           In(t, "callback") => op[Cur(t)].phase = "finished"
    PROVE  Stays(t, Tail(stack[t]))
<1>1. stack[t] \in Seq(Frame) /\ Tail(stack[t]) \in Seq(Frame)
  BY PopFrame DEF TypeOK
<1>2. ASSUME NEW d \in Call, Awaits(stack[t], d), op[d].phase # "finished"
      PROVE  Awaits(Tail(stack[t]), d)
  <2>1. Head(stack[t]) # At("callback", d)
    <3>1. At("callback", d).fn = "callback" /\ At("callback", d).call = d
      BY DEF At
    <3> QED  BY <1>2, <3>1 DEF In, Cur
  <2> QED  BY <1>1, <1>2, <2>1, AwaitsPop
<1> QED  BY <1>1, <1>2 DEF Stays

\* A step that changes one stack and one call.
LEMMA ResultMoves ==
    ASSUME IInv, ResultInv, NEW t \in Thread, NEW c \in Call, NEW s, NEW o,
           stack' = [stack EXCEPT ![t] = s], op' = [op EXCEPT ![c] = o],
           UNCHANGED cancelled, Stays(t, s), Result(o), Sourced(o), Announced(c, o),
           Delivery(o),
           Waiting(o) => Waiting(op[c]) \/ Awaits(s, c)
    PROVE  ResultInv'
<1>1. /\ stack'[t] = s /\ \A u \in Thread \ {t} : stack'[u] = stack[u]
      /\ op'[c] = o /\ \A d \in Call \ {c} : op'[d] = op[d]
  BY DEF IInv, TypeOK
<1>2. ASSUME NEW d \in Call
      PROVE  /\ Result(op'[d]) /\ Sourced(op'[d]) /\ Announced(d, op[d])'
             /\ Delivery(op'[d])
  <2>1. CASE d = c
    BY <1>1, <2>1 DEF Announced, Failed
  <2>2. CASE d # c
    <3>1. /\ Result(op[d]) /\ Sourced(op[d]) /\ Announced(d, op[d]) /\ op'[d] = op[d]
          /\ Delivery(op[d])
      BY <1>1, <2>2 DEF ResultInv
    <3> QED  BY <3>1 DEF Announced, Failed
  <2> QED  BY <2>1, <2>2
<1>3. ASSUME NEW d \in Call, Waiting(op'[d])
      PROVE  \E u \in Thread : Awaits(stack'[u], d)
  <2>1. CASE d = c /\ Awaits(s, c)
    BY <1>1, <2>1
  <2>2. CASE ~(d = c /\ Awaits(s, c))
    <3>1. Waiting(op[d])
      BY <1>1, <1>3, <2>2
    <3>2. PICK u \in Thread : Awaits(stack[u], d)
      BY <3>1 DEF ResultInv
    <3>3. op[d].phase # "finished"
      BY <3>1 DEF Waiting
    <3> QED  BY <1>1, <3>2, <3>3 DEF Stays
  <2> QED  BY <2>1, <2>2
<1> QED  BY <1>2, <1>3 DEF ResultInv

\* What references and sources do not change.
LEMMA ResultSame ==
    ASSUME NEW o, NEW p, SameCall(o, p), p.object = o.object
    PROVE  /\ Result(o) => Result(p)
           /\ \A c : Announced(c, o) => Announced(c, p)
           /\ Waiting(p) <=> Waiting(o)
           /\ SameSource(o, p) /\ Sourced(o) => Sourced(p)
<1>1. Result(o) => Result(p)
  BY DEF SameCall, Result
<1>2. \A c : Announced(c, o) => Announced(c, p)
  BY DEF SameCall, Announced
<1>3. (Waiting(p) <=> Waiting(o)) /\ (SameSource(o, p) /\ Sourced(o) => Sourced(p))
  BY DEF SameCall, Waiting, SameSource, Sourced
<1> QED  BY <1>1, <1>2, <1>3

\* References to the inner task do not matter to the caller's message.
LEMMA DeliverySame ==
    ASSUME NEW o, NEW p, SameCall(o, p), Delivery(o),
           p.message \in {o.message, o.message \ {"inner"}}
    PROVE  Delivery(p)
BY DEF SameCall, Delivery

\* A source that is dispatched is gone.
LEMMA DetachFields ==
    ASSUME NEW o \in OpRecord
    PROVE  LET p == Detach(o)
           IN  /\ p \in OpRecord /\ SameCall(o, p) /\ p.object = o.object
               /\ p.src = "none" /\ p.message = o.message
<1>1. Detach(o) = [o EXCEPT !.src = "none", !.srcCtx = None]
  BY DEF Detach, Attach
<1> QED  BY <1>1, ZenonT(40) DEF OpRecord, SameCall

\* A source of the inner task in place of another.
LEMMA NextSource ==
    ASSUME NEW b \in OpRecord, NEW x \in Context \cup {None},
           NEW src \in {"splice", "inner"}
    PROVE  LET q == UnrefInner(Attach(RefInner(b), src, x))
           IN  SameCall(b, q) /\ q.object = b.object /\ q.src = src
<1> DEFINE r == RefInner(b)
           a == Attach(r, src, x)
           q == UnrefInner(a)
<1>1. r \in OpRecord /\ SameCall(b, r) /\ r.object = b.object /\ r.inner = b.inner + 1
  BY RefFields
<1>2. r.inner > 0
  BY <1>1 DEF OpRecord
<1>  HIDE DEF r
<1>3. /\ a \in OpRecord /\ SameCall(r, a) /\ a.object = r.object /\ a.src = src
      /\ a.inner = r.inner
  <2>1. a = [r EXCEPT !.src = src, !.srcCtx = x]
    BY DEF Attach
  <2>  HIDE DEF a
  <2>2. a \in OpRecord
    BY <1>1, <2>1, ZenonT(40) DEF OpRecord
  <2>3. SameCall(r, a) /\ a.object = r.object /\ a.src = src /\ a.inner = r.inner
    BY <1>1, <2>1 DEF OpRecord, SameCall
  <2> QED  BY <2>2, <2>3
<1>  HIDE DEF a
<1>4. SameCall(a, q) /\ q.object = a.object /\ q.src = a.src
  BY <1>2, <1>3, UnrefInnerFields DEF SameSource
<1>  HIDE DEF q
<1>5. SameCall(b, q) /\ q.object = b.object /\ q.src = src
  BY <1>1, <1>3, <1>4 DEF SameCall
<1> QED  BY <1>5 DEF q, a, r

\* The inner task returns with a result.
LEMMA InnerReturnedResult ==
    ASSUME IInv, ResultInv, NEW t \in Thread, NEW c \in Call, InFlight(op[c]),
           NEW b, Answered(op[c], b), Result(b), b.innerRes # "none",
           NEW fn \in {"send_cb", "splice_cb"}, InnerReturned(t, c, b, fn),
           UNCHANGED cancelled
    PROVE  ResultInv'
<1>1. /\ TypeOK /\ op[c].phase = "begun" /\ op[c].outerRes = "none"
  BY DEF IInv, CallInv, Consistent, Staged, Pending, InFlight, ResultInv, Sourced
<1>2. /\ b \in OpRecord /\ b.phase = "begun" /\ b.outerRes = "none" /\ ~Waiting(b)
      /\ Announced(c, b) /\ b.ctx \in Context \cup {None}
  BY <1>1 DEF Answered, Waiting, Announced, OpRecord
<1>3. CASE /\ op' = [op EXCEPT ![c] = Detach(b)]
           /\ stack' = [stack EXCEPT ![t] =
                           Push(At("request_cb", c), Push(At(fn, c), @))]
  <2>  DEFINE o == Detach(b)
              s == Push(At("request_cb", c), Push(At(fn, c), stack[t]))
  <2>1. SameCall(b, o) /\ o.object = b.object /\ o.src = "none"
    BY <1>2, DetachFields
  <2>2. op' = [op EXCEPT ![c] = o] /\ stack' = [stack EXCEPT ![t] = s]
    BY <1>3
  <2>3. Stays(t, s)
    <3>1. fn \in Fn /\ "request_cb" \in Fn /\ c \in Call \cup {None}
      BY DEF Fn
    <3>2. Stays(t, Push(At(fn, c), stack[t]))
      BY <1>1, <3>1, StaysSame, StaysPush
    <3> QED  BY <3>1, <3>2, StaysPush
  <2>  HIDE DEF o, s
  <2>4. Sourced(o) /\ Delivery(o)
    BY <1>2, <2>1 DEF SameCall, Sourced, Delivery
  <2>5. Result(o) /\ Announced(c, o) /\ ~Waiting(o)
    BY <1>2, <2>1, ResultSame
  <2> QED  BY <2>2, <2>3, <2>4, <2>5, ResultMoves
<1>4. CASE /\ op' = [op EXCEPT ![c] =
                        UnrefInner(Attach(RefInner(b), "inner", b.ctx))]
           /\ UNCHANGED stack
  <2>  DEFINE o == UnrefInner(Attach(RefInner(b), "inner", b.ctx))
  <2>1. SameCall(b, o) /\ o.object = b.object /\ o.src = "inner"
    BY <1>2, NextSource
  <2>2. op' = [op EXCEPT ![c] = o]
    BY <1>4
  <2>  DEFINE s == stack[t]
  <2>3. Stays(t, s) /\ stack' = [stack EXCEPT ![t] = s]
    BY <1>1, <1>4, StaysSame
  <2>  HIDE DEF o, s
  <2>4. Sourced(o) /\ Delivery(o)
    BY <1>2, <2>1 DEF SameCall, Sourced, Delivery
  <2>5. Result(o) /\ Announced(c, o) /\ ~Waiting(o)
    BY <1>2, <2>1, ResultSame
  <2> QED  BY <2>2, <2>3, <2>4, <2>5, ResultMoves
<1> QED  BY <1>3, <1>4 DEF InnerReturned

\* The splice starts, or the request failed.
LEMMA SendCbResult ==
    ASSUME IInv, ResultInv, NEW t \in Thread, NEW c \in Call, SendCb(t, c)
    PROVE  ResultInv'
<1> DEFINE o == Detach(op[c])
<1>1. /\ op[c].src = "send" /\ InFlight(op[c]) /\ Iterates(t, op[c].srcCtx)
      /\ UNCHANGED cancelled
  BY DEF SendCb, InFlight
<1>2. /\ TypeOK /\ op[c] \in OpRecord /\ op[c].phase = "begun"
  BY <1>1 DEF IInv, TypeOK, CallInv, Consistent, Staged, Pending
<1>3. /\ Result(op[c]) /\ op[c].innerRes = "none" /\ op[c].outerRes = "none"
  BY <1>1, <1>2 DEF ResultInv, Sourced
<1>4. /\ o \in OpRecord /\ SameCall(op[c], o) /\ o.object = op[c].object
      /\ Answered(op[c], o)
  BY <1>2, DetachFields, DetachAnswered
<1>5. Result(o)
  BY <1>3, <1>4, ResultSame
<1>6. CASE /\ op' = [op EXCEPT ![c] =
                        UnrefInner(Attach(RefInner(o), "splice", DefaultCtx(t)))]
           /\ UNCHANGED stack
  <2>  DEFINE p == UnrefInner(Attach(RefInner(o), "splice", DefaultCtx(t)))
              s == stack[t]
  <2>1. DefaultCtx(t) \in Context \cup {None}
    <3>1. DefaultCtx(t) = op[c].ctx
      BY <1>1, Dispatched
    <3> QED  BY <1>2, <3>1 DEF OpRecord
  <2>2. op' = [op EXCEPT ![c] = p]
    BY <1>6
  <2>3. Stays(t, s) /\ stack' = [stack EXCEPT ![t] = s]
    BY <1>2, <1>6, StaysSame
  <2>  HIDE DEF o
  <2>4. SameCall(o, p) /\ p.object = o.object /\ p.src = "splice"
    BY <1>4, <2>1, NextSource
  <2>  HIDE DEF p, s
  <2>5. /\ p.phase = "begun" /\ p.innerRes = "none" /\ p.outerRes = "none"
    BY <1>2, <1>3, <1>4, <2>4 DEF SameCall
  <2>6. Sourced(p) /\ Announced(c, p) /\ Delivery(p) /\ ~Waiting(p)
    BY <2>4, <2>5 DEF Sourced, Announced, Delivery, Waiting
  <2>7. Result(p)
    BY <1>5, <2>4, ResultSame
  <2> QED  BY <1>1, <2>2, <2>3, <2>6, <2>7, ResultMoves
<1>7. CASE InnerReturned(t, c, [o EXCEPT !.innerRes = "error"], "send_cb")
  <2>  DEFINE b == [o EXCEPT !.innerRes = "error"]
  <2>1. Answered(op[c], b) /\ b.innerRes = "error"
    BY <1>4 DEF Answered, OpRecord
  <2>2. Result(b)
    <3>1. o.innerRes = "none" /\ o.outerRes = "none" /\ o.copies = 0
      BY <1>3, <1>4 DEF SameCall, Result, One
    <3>  HIDE DEF o
    <3> QED  BY <1>4, <1>5, <3>1 DEF Result, OpRecord, One
  <2>  HIDE DEF b
  <2> QED  BY <1>1, <1>7, <2>1, <2>2, InnerReturnedResult DEF b
<1> QED  BY <1>6, <1>7 DEF SendCb

\* The body is copied, or the splice failed.
LEMMA SpliceCbResult ==
    ASSUME IInv, ResultInv, NEW t \in Thread, NEW c \in Call, SpliceCb(t, c)
    PROVE  ResultInv'
<1> DEFINE o == Detach(op[c])
<1>1. /\ op[c].src = "splice" /\ InFlight(op[c]) /\ UNCHANGED cancelled
  BY DEF SpliceCb, InFlight
<1>2. /\ TypeOK /\ op[c] \in OpRecord /\ op[c].phase = "begun"
  BY <1>1 DEF IInv, TypeOK, CallInv, Consistent, Staged, Pending
<1>3. /\ Result(op[c]) /\ op[c].innerRes = "none" /\ op[c].outerRes = "none"
  BY <1>1, <1>2 DEF ResultInv, Sourced
<1>4. /\ o \in OpRecord /\ SameCall(op[c], o) /\ o.object = op[c].object
      /\ Answered(op[c], o)
  BY <1>2, DetachFields, DetachAnswered
<1>5. Result(o) /\ o.outerRes = "none" /\ o.copies = 0
  <2>1. Result(o)
    BY <1>3, <1>4, ResultSame
  <2> QED  BY <1>3, <1>4, <2>1 DEF SameCall, Result, One
<1>6. ASSUME NEW res \in {"ok", "error"}, NEW n, n = One(res = "ok"),
             NEW b, b = [o EXCEPT !.copies = n, !.innerRes = res],
             InnerReturned(t, c, b, "splice_cb")
      PROVE  ResultInv'
  <2>  HIDE DEF o
  <2>1. n \in Nat
    BY <1>6 DEF One
  <2>2. /\ b \in OpRecord /\ b.copies = n /\ b.innerRes = res
        /\ b.kind = o.kind /\ b.sync = o.sync /\ b.phase = o.phase /\ b.ctx = o.ctx
        /\ b.src = o.src /\ b.srcCtx = o.srcCtx /\ b.outerRes = o.outerRes
        /\ b.outer = o.outer /\ b.inner = o.inner /\ b.message = o.message
        /\ b.object = o.object /\ b.running = o.running /\ b.result = o.result
        /\ b.called = o.called /\ b.outs = o.outs /\ b.ret = o.ret
    <3>1. b \in OpRecord
      BY <1>4, <1>6, <2>1, ZenonT(40) DEF OpRecord
    <3>2. b.copies = n /\ b.innerRes = res
      BY <1>4, <1>6 DEF OpRecord
    <3>3. /\ b.kind = o.kind /\ b.sync = o.sync /\ b.phase = o.phase /\ b.ctx = o.ctx
          /\ b.src = o.src /\ b.srcCtx = o.srcCtx /\ b.outerRes = o.outerRes
          /\ b.outer = o.outer /\ b.inner = o.inner /\ b.message = o.message
      BY <1>4, <1>6 DEF OpRecord
    <3>4. /\ b.object = o.object /\ b.running = o.running /\ b.result = o.result
          /\ b.called = o.called /\ b.outs = o.outs /\ b.ret = o.ret
      BY <1>4, <1>6 DEF OpRecord
    <3> QED  BY <3>1, <3>2, <3>3, <3>4
  <2>3. Answered(op[c], b) /\ b.innerRes # "none"
    BY <1>4, <2>2 DEF Answered
  <2>4. Result(b)
    BY <1>5, <1>6, <2>2 DEF Result
  <2> QED  BY <1>1, <1>6, <2>3, <2>4, InnerReturnedResult
<1>7. ASSUME NEW filled \in BOOLEAN,
             InnerReturned(t, c, [CopyBody(o, filled) EXCEPT !.innerRes = "ok"],
                           "splice_cb")
      PROVE  ResultInv'
  <2>  DEFINE b == [CopyBody(o, filled) EXCEPT !.innerRes = "ok"]
              n == One("ok" = "ok")
              res == "ok"
  <2>1. n = 1 /\ (IF o.copies + One(filled) = 0 THEN 1 ELSE o.copies + One(filled)) = n
    BY <1>5 DEF One
  <2>2. b = [o EXCEPT !.copies = n, !.innerRes = "ok"]
    BY <1>4, <2>1 DEF CopyBody, OpRecord
  <2>  HIDE DEF b, n, o
  <2> QED  BY <1>6, <1>7, <2>2 DEF b, n
<1>8. CASE InnerReturned(t, c, [o EXCEPT !.innerRes = "error"], "splice_cb")
  <2>  DEFINE b == [o EXCEPT !.innerRes = "error"]
              n == One("error" = "ok")
  <2>1. b = [o EXCEPT !.copies = n, !.innerRes = "error"]
    BY <1>4, <1>5 DEF OpRecord, One
  <2>  HIDE DEF b, n, o
  <2> QED  BY <1>6, <1>8, <2>1 DEF b, n
<1> QED  BY <1>7, <1>8 DEF SpliceCb

\* The idle source of the inner task.
LEMMA InnerIdleResult ==
    ASSUME IInv, ResultInv, NEW t \in Thread, NEW c \in Call, InnerIdle(t, c)
    PROVE  ResultInv'
<1> DEFINE o == Detach(op[c])
           s == Push(At("request_cb", c), Push(At("inner_idle", c), stack[t]))
<1>1. /\ op[c].src = "inner" /\ UNCHANGED cancelled
      /\ op' = [op EXCEPT ![c] = o] /\ stack' = [stack EXCEPT ![t] = s]
  BY DEF InnerIdle
<1>2. /\ TypeOK /\ op[c] \in OpRecord /\ op[c].phase = "begun"
  BY <1>1 DEF IInv, TypeOK, CallInv, Consistent, Staged, Pending
<1>3. /\ Result(op[c]) /\ op[c].innerRes # "none" /\ op[c].outerRes = "none"
  BY <1>1, <1>2 DEF ResultInv, Sourced
<1>4. /\ SameCall(op[c], o) /\ o.object = op[c].object /\ o.src = "none"
  BY <1>2, DetachFields
<1>5. Stays(t, s)
  <2>1. "inner_idle" \in Fn /\ "request_cb" \in Fn /\ c \in Call \cup {None}
    BY DEF Fn
  <2>2. Stays(t, Push(At("inner_idle", c), stack[t]))
    BY <1>2, <2>1, StaysSame, StaysPush
  <2> QED  BY <2>1, <2>2, StaysPush
<1>  HIDE DEF o, s
<1>6. Sourced(o) /\ Announced(c, o) /\ Delivery(o) /\ ~Waiting(o)
  BY <1>2, <1>3, <1>4 DEF SameCall, Sourced, Announced, Delivery, Waiting
<1>7. Result(o)
  BY <1>3, <1>4, ResultSame
<1> QED  BY <1>1, <1>5, <1>6, <1>7, ResultMoves

\* The callback of the outer task runs, in the application or as that of the
\* closure.
LEMMA InvokeResult ==
    ASSUME IInv, ResultInv, NEW t \in Thread, NEW c \in Call,
           Pending(op[c], FnsOf(c)), NEW b, Resolved(op[c], b), Result(b),
           Delivery(b), NEW r, Stays(t, r), r # << >>,
           Head(r) \in {At("request_cb_end", c), At("outer_idle", c)},
           Invoke(t, c, b, r), UNCHANGED cancelled
    PROVE  ResultInv'
<1> DEFINE n == b.called + 1
           a == [b EXCEPT !.called = n, !.phase = "ready"]
           p == RefOuter(a)
           q == [p EXCEPT !.result = TRUE, !.running = FALSE]
<1>1. op[c].phase = "begun" /\ op[c].called = 0 /\ ~op[c].result
  BY DEF IInv, CallInv, Consistent, Staged
<1>2. /\ b \in OpRecord /\ ~b.result /\ b.outerRes # "none" /\ n = 1
      /\ b.phase = "begun" /\ b.src = "none"
  BY <1>1 DEF Resolved
<1>3. /\ op' = [op EXCEPT ![c] = IF b.sync THEN ClosureCallback(a) ELSE a]
      /\ stack' = [stack EXCEPT ![t] = IF b.sync THEN r ELSE Push(At("callback", c), r)]
  BY DEF Invoke
<1>  HIDE DEF n
<1>4. /\ a \in OpRecord /\ ~a.result /\ a.sync = b.sync /\ a.kind = b.kind
      /\ a.phase = "ready" /\ a.src = "none" /\ a.outerRes = b.outerRes
      /\ a.innerRes = b.innerRes /\ a.copies = b.copies
      /\ a.object = b.object /\ a.ret = b.ret /\ a.outs = b.outs
      /\ a.message = b.message
  BY <1>2 DEF OpRecord
<1>  HIDE DEF a
<1>5. ClosureCallback(a) = q
  BY <1>4 DEF ClosureCallback
<1>6. /\ p \in OpRecord /\ SameCall(a, p) /\ SameSource(a, p) /\ p.object = a.object
      /\ p.message = a.message
  BY <1>4, RefFields
<1>  HIDE DEF p
<1>7. /\ q.result = TRUE /\ q.sync = p.sync /\ q.kind = p.kind
      /\ q.phase = p.phase /\ q.src = p.src /\ q.outerRes = p.outerRes
      /\ q.innerRes = p.innerRes /\ q.copies = p.copies
      /\ q.object = p.object /\ q.ret = p.ret /\ q.outs = p.outs
      /\ q.message = p.message
  BY <1>6 DEF OpRecord
<1>  HIDE DEF q
<1>8. CASE b.sync
  <2>1. op' = [op EXCEPT ![c] = q] /\ stack' = [stack EXCEPT ![t] = r]
    BY <1>3, <1>5, <1>8
  <2>2. /\ q.sync /\ q.phase = "ready" /\ q.src = "none"
        /\ q.kind = b.kind /\ q.outerRes = b.outerRes
        /\ q.innerRes = b.innerRes /\ q.copies = b.copies
        /\ q.object = b.object /\ q.ret = b.ret /\ q.outs = b.outs
        /\ q.message = b.message
    BY <1>4, <1>6, <1>7, <1>8 DEF SameCall, SameSource
  <2>3. Result(q)
    BY <1>2, <1>7, <2>2 DEF Result
  <2>4. Sourced(q) /\ Announced(c, q) /\ Delivery(q) /\ ~Waiting(q)
    BY <1>2, <2>2 DEF Sourced, Announced, Delivery, Waiting
  <2> QED  BY <2>1, <2>3, <2>4, ResultMoves
<1>9. CASE ~b.sync
  <2>  DEFINE s == Push(At("callback", c), r)
  <2>1. op' = [op EXCEPT ![c] = a] /\ stack' = [stack EXCEPT ![t] = s]
    BY <1>3, <1>9
  <2>2. Result(a)
    BY <1>2, <1>4, <1>9 DEF Result
  <2>3. Sourced(a) /\ Announced(c, a) /\ Delivery(a)
    BY <1>2, <1>4 DEF Sourced, Announced, Delivery
  <2>4. Stays(t, s) /\ Awaits(s, c)
    <3>1. "callback" \in Fn /\ c \in Call \cup {None} /\ r \in Seq(Frame)
      BY DEF Fn, Stays
    <3>2. Stays(t, s)
      BY <3>1, StaysPush
    <3> QED  BY <3>1, <3>2, AwaitsNew
  <2>  HIDE DEF s
  <2> QED  BY <2>1, <2>2, <2>3, <2>4, ResultMoves
<1> QED  BY <1>8, <1>9

\* ... from the idle source of the outer task, ...
LEMMA OuterIdleResult ==
    ASSUME IInv, ResultInv, NEW t \in Thread, NEW c \in Call, OuterIdle(t, c)
    PROVE  ResultInv'
<1> DEFINE b == Detach(op[c])
           r == Push(At("outer_idle", c), stack[t])
<1>1. /\ op[c].src = "outer" /\ UNCHANGED cancelled /\ Invoke(t, c, b, r)
  BY DEF OuterIdle
<1>2. /\ TypeOK /\ op[c] \in OpRecord /\ op[c].outerRes # "none"
      /\ Pending(op[c], FnsOf(c))
  BY <1>1 DEF IInv, TypeOK, CallInv, Consistent, Staged, Pending
<1>3. Resolved(op[c], b)
  BY <1>2, DetachAnswered DEF Answered, Resolved
<1>4. Result(b) /\ Delivery(b)
  BY <1>2, DetachFields, ResultSame, DeliverySame DEF ResultInv
<1>5. Stays(t, r) /\ r # << >> /\ Head(r) = At("outer_idle", c)
  <2>1. "outer_idle" \in Fn /\ c \in Call \cup {None} /\ stack[t] \in Seq(Frame)
    BY <1>2 DEF Fn, TypeOK
  <2>2. Stays(t, r)
    BY <1>2, <2>1, StaysSame, StaysPush
  <2> QED  BY <2>1, <2>2, AtFrame, PushFrame
<1>  HIDE DEF b, r
<1> QED  BY <1>1, <1>2, <1>3, <1>4, <1>5, InvokeResult

\* ... or from the callback of the inner one, which finds the result.
LEMMA RequestCbResult ==
    ASSUME IInv, ResultInv, NEW t \in Thread, RequestCb(t)
    PROVE  ResultInv'
<1> DEFINE c == Cur(t)
           r == Push(At("request_cb_end", c), Tail(stack[t]))
<1>1. /\ In(t, "request_cb") /\ UNCHANGED cancelled
      /\ IF op[c].kind = "options" THEN OptionsRequestCb(t, c, r)
                                   ELSE PropfindRequestCb(t, c, r)
  BY DEF RequestCb
<1>2. TypeOK /\ StackInv(t) /\ "request_cb" \in Fn
  BY DEF IInv, Fn
<1>3. c \in Call /\ "request_cb" \in FnsOf(c) /\ stack[t] # << >>
  BY <1>1, <1>2, TopFrame
<1>4. Stays(t, r) /\ r # << >> /\ Head(r) = At("request_cb_end", c)
  <2>1. /\ "request_cb_end" \in Fn /\ c \in Call \cup {None}
        /\ stack[t] \in Seq(Frame) /\ ~In(t, "callback")
    BY <1>1, <1>2, <1>3 DEF Fn, TypeOK, In
  <2>2. Tail(stack[t]) \in Seq(Frame) /\ Stays(t, Tail(stack[t]))
    BY <1>2, <1>3, <2>1, StaysPop, PopFrame
  <2>3. Stays(t, r)
    BY <2>1, <2>2, StaysPush
  <2> QED  BY <2>1, <2>2, <2>3, AtFrame, PushFrame
<1>  HIDE DEF c, r
<1>5. /\ op[c] \in OpRecord /\ Pending(op[c], FnsOf(c)) /\ op[c].src = "none"
      /\ op[c].phase = "begun"
  BY <1>2, <1>3 DEF IInv, TypeOK, CallInv, Consistent, Staged, Pending
<1>6. /\ Result(op[c]) /\ op[c].innerRes \in {"ok", "error"}
      /\ op[c].outerRes = "none" /\ op[c].ret = "none" /\ op[c].object # "caller"
      /\ "context" \in op[c].message
  <2>1. Result(op[c]) /\ Sourced(op[c]) /\ Consistent(c, op[c], FnsOf(c))
    BY <1>3 DEF ResultInv, IInv, CallInv
  <2>2. op[c].outer > 0
    BY <1>3, <1>5, <2>1 DEF Consistent, Balanced, One, OpRecord
  <2> QED  BY <1>5, <2>1, <2>2 DEF Result, Sourced, OpRecord, Consistent, Owned
<1>7. ASSUME NEW b, Resolved(op[c], b), Result(b), Delivery(b),
             OuterReturned(t, c, b, FALSE, r)
      PROVE  ResultInv'
  <2>1. CASE Invoke(t, c, b, r)
    BY <1>1, <1>3, <1>4, <1>5, <1>7, <2>1, InvokeResult
  <2>2. CASE /\ op' = [op EXCEPT ![c] = Attach(RefOuter(b), "outer", b.ctx)]
             /\ stack' = [stack EXCEPT ![t] = r]
    <3>  DEFINE p == RefOuter(b)
                o == Attach(p, "outer", b.ctx)
    <3>1. b \in OpRecord /\ b.phase = "begun"
      BY <1>5, <1>7 DEF Resolved
    <3>2. /\ p \in OpRecord /\ SameCall(b, p) /\ p.object = b.object
          /\ p.message = b.message
      BY <3>1, RefFields
    <3>  HIDE DEF p
    <3>3. /\ SameCall(p, o) /\ o.object = p.object /\ o.src = "outer"
          /\ o.message = p.message
      BY <3>2 DEF Attach, OpRecord, SameCall
    <3>4. op' = [op EXCEPT ![c] = o]
      BY <2>2 DEF p
    <3>  HIDE DEF o
    <3>5. Result(o) /\ Delivery(o)
      <4>1. Result(p) /\ Delivery(p)
        BY <1>7, <3>2, ResultSame, DeliverySame
      <4> QED  BY <3>2, <3>3, <4>1, ResultSame, DeliverySame
    <3>6. Sourced(o) /\ Announced(c, o) /\ ~Waiting(o)
      BY <3>1, <3>2, <3>3 DEF SameCall, Sourced, Announced, Waiting
    <3> QED  BY <1>1, <1>3, <1>4, <2>2, <3>4, <3>5, <3>6, ResultMoves
  <2> QED  BY <1>7, <2>1, <2>2 DEF OuterReturned
<1>8. ASSUME NEW res \in {"ok", "error"}, NEW x \in {op[c].object, "task"},
             res = "ok" => op[c].innerRes = "ok" /\ (op[c].kind = "options" \/ x = "task"),
             NEW b, b = [op[c] EXCEPT !.outerRes = res, !.object = x]
      PROVE  Resolved(op[c], b) /\ Result(b) /\ Delivery(b)
  <2>1. x \in {"none", "task", "caller", "freed"}
    BY <1>5 DEF OpRecord
  <2>2. Resolved(op[c], b)
    BY <1>5, <1>8, <2>1 DEF Resolved, OpRecord
  <2>3. /\ b.outerRes = res /\ b.object = x /\ b.kind = op[c].kind
        /\ b.phase = "begun" /\ b.innerRes = op[c].innerRes /\ b.copies = op[c].copies
        /\ b.ret = "none" /\ b.sync = op[c].sync /\ b.outs = op[c].outs
        /\ b.message = op[c].message
    BY <1>5, <1>6, <1>8, <2>1 DEF OpRecord
  <2>4. Delivery(b)
    BY <1>6, <2>3 DEF Delivery
  <2> QED  BY <1>5, <1>6, <1>8, <2>2, <2>3, <2>4 DEF Result
<1>9. CASE OptionsRequestCb(t, c, r) /\ op[c].kind = "options"
  <2>  DEFINE res == IF Failed(c, op[c].innerRes) THEN "error" ELSE "ok"
              b == [op[c] EXCEPT !.outerRes = res]
  <2>1. /\ res \in {"ok", "error"} /\ OuterReturned(t, c, b, FALSE, r)
        /\ res = "ok" => op[c].innerRes = "ok"
    BY <1>6, <1>9 DEF OptionsRequestCb, Failed
  <2>  DEFINE x == op[c].object
  <2>2. b = [op[c] EXCEPT !.outerRes = res, !.object = x]
    BY <1>5 DEF OpRecord
  <2>  HIDE DEF res
  <2>3. Resolved(op[c], b) /\ Result(b) /\ Delivery(b)
    BY <1>8, <1>9, <2>1, <2>2
  <2>  HIDE DEF b
  <2> QED  BY <1>7, <2>1, <2>3
<1>10. CASE PropfindRequestCb(t, c, r)
  <2>1. CASE OuterReturned(t, c, [op[c] EXCEPT !.outerRes = "error"], FALSE, r)
    <3>  DEFINE b == [op[c] EXCEPT !.outerRes = "error"]
                x == op[c].object
                res == "error"
    <3>1. b = [op[c] EXCEPT !.outerRes = res, !.object = x]
      BY <1>5 DEF OpRecord
    <3>2. res \in {"ok", "error"} /\ res # "ok"
      OBVIOUS
    <3>  HIDE DEF res
    <3>3. Resolved(op[c], b) /\ Result(b) /\ Delivery(b)
      BY <1>8, <3>1, <3>2
    <3>  HIDE DEF b
    <3> QED  BY <1>7, <2>1, <3>3 DEF b
  <2>2. CASE /\ ~Failed(c, op[c].innerRes)
             /\ OuterReturned(t, c, [op[c] EXCEPT !.outerRes = "ok", !.object = "task"],
                              FALSE, r)
    <3>  DEFINE b == [op[c] EXCEPT !.outerRes = "ok", !.object = "task"]
    <3>1. op[c].innerRes = "ok"
      BY <1>6, <2>2 DEF Failed
    <3>2. Resolved(op[c], b) /\ Result(b) /\ Delivery(b)
      BY <1>8, <3>1
    <3>  HIDE DEF b
    <3> QED  BY <1>7, <2>2, <3>2 DEF b
  <2>3. CASE stack' = [stack EXCEPT ![t] = r] /\ UNCHANGED op
    <3>  DEFINE o == op[c]
    <3>1. op' = [op EXCEPT ![c] = o]
      BY <1>2, <2>3 DEF TypeOK
    <3>2. Result(o) /\ Sourced(o) /\ Announced(c, o) /\ Delivery(o)
      BY <1>3 DEF ResultInv
    <3>3. ~Waiting(o)
      BY <1>5 DEF Waiting
    <3>  HIDE DEF o
    <3> QED  BY <1>1, <1>3, <1>4, <2>3, <3>1, <3>2, <3>3, ResultMoves
  <2> QED  BY <1>10, <2>1, <2>2, <2>3 DEF PropfindRequestCb
<1> QED  BY <1>1, <1>9, <1>10 DEF c, r

\* The stack when a function of the library returns, or is replaced by another.
LEMMA StaysLeft ==
    ASSUME IInv, NEW t \in Thread, NEW fn \in Fn \ {"handler", "callback"}, In(t, fn)
    PROVE  /\ Cur(t) \in Call /\ fn \in FnsOf(Cur(t))
           /\ stack[t] # << >> /\ Head(stack[t]) = At(fn, Cur(t))
           /\ Stays(t, Tail(stack[t]))
           /\ \A gn \in Fn : Stays(t, Push(At(gn, Cur(t)), Tail(stack[t])))
<1>1. TypeOK /\ StackInv(t) /\ ~In(t, "callback")
  BY DEF IInv, In
<1>2. /\ Cur(t) \in Call /\ fn \in FnsOf(Cur(t))
      /\ stack[t] # << >> /\ Head(stack[t]) = At(fn, Cur(t))
  BY <1>1, TopFrame
<1>3. Stays(t, Tail(stack[t]))
  BY <1>1, <1>2, StaysPop
<1>4. \A gn \in Fn : Stays(t, Push(At(gn, Cur(t)), Tail(stack[t])))
  BY <1>2, <1>3, StaysPush
<1> QED  BY <1>2, <1>3, <1>4

\* The end of a callback of the inner task.
LEMMA LeaveInnerResult ==
    ASSUME IInv, ResultInv, NEW t \in Thread, LeaveInner(t)
    PROVE  ResultInv'
<1> DEFINE c == Cur(t)
           o == UnrefInner(op[c])
           s == Tail(stack[t])
<1>1. PICK fn \in Inner : In(t, fn)
  BY DEF LeaveInner, Inner
<1>2. /\ op' = [op EXCEPT ![c] = o] /\ stack' = [stack EXCEPT ![t] = s]
      /\ UNCHANGED cancelled
  BY DEF LeaveInner
<1>3. c \in Call /\ fn \in FnsOf(c) /\ Stays(t, s)
  <2>1. fn \in Fn \ {"handler", "callback"}
    BY DEF Inner, Fn
  <2> QED  BY <1>1, <2>1, StaysLeft
<1>  HIDE DEF c, s
<1>4. op[c] \in OpRecord /\ op[c].inner > 0
  <2>1. op[c] \in OpRecord /\ Consistent(c, op[c], FnsOf(c))
    BY <1>3 DEF IInv, TypeOK, CallInv
  <2> QED  BY <1>3, <2>1 DEF Consistent, Balanced, One, Inner, OpRecord
<1>5. /\ SameCall(op[c], o) /\ SameSource(op[c], o) /\ o.object = op[c].object
      /\ o.message \in {op[c].message, op[c].message \ {"inner"}}
  BY <1>4, UnrefInnerFields
<1>6. Result(op[c]) /\ Sourced(op[c]) /\ Announced(c, op[c]) /\ Delivery(op[c])
  BY <1>3 DEF ResultInv
<1>  HIDE DEF o
<1>7. Result(o) /\ Sourced(o) /\ Announced(c, o) /\ (Waiting(o) <=> Waiting(op[c]))
  BY <1>5, <1>6, ResultSame
<1>8. Delivery(o)
  BY <1>5, <1>6, DeliverySame
<1> QED  BY <1>2, <1>3, <1>7, <1>8, ResultMoves

\* A function that drops a reference to the outer task does not drop the last
\* one while the result may still be asked for: the closure has one, or the
\* caller of the callback that has not returned.
LEMMA NotTheLast ==
    ASSUME IInv, ResultInv, NEW t \in Thread, NEW c \in Call,
           NEW fn \in {"request_cb_end", "outer_idle"}, stack[t] # << >>,
           Head(stack[t]) = At(fn, c), op[c].outerRes # "none", op[c].phase # "finished"
    PROVE  op[c].outer > 1
<1>1. /\ TypeOK /\ StackInv(t) /\ op[c] \in OpRecord /\ stack[t] \in Seq(Frame)
      /\ Consistent(c, op[c], FnsOf(c))
      /\ Result(op[c]) /\ Sourced(op[c])
  BY DEF IInv, TypeOK, CallInv, ResultInv
<1>2. fn \in Fn /\ "request_cb_end" \in Fn /\ "outer_idle" \in Fn
  BY DEF Fn
<1>3. At(fn, c) \in FramesOf(stack[t]) /\ fn \in FnsOf(c)
  <2>1. At(fn, c) \in FramesOf(stack[t])
    BY <1>1, PopFrame
  <2> QED  BY <1>1, <1>2, <2>1, OnStackFrame
<1>4. op[c].outer = One(InFlight(op[c])) + One("request_cb" \in FnsOf(c))
                 + One("request_cb_end" \in FnsOf(c))
                 + One(op[c].src = "outer") + One("outer_idle" \in FnsOf(c))
                 + One(op[c].result)
  BY <1>1 DEF Consistent, Balanced
<1>5. CASE op[c].phase \in {"idle", "begun"}
  <2>1. op[c].src = "outer"
    BY <1>1, <1>5 DEF Consistent, Staged, IdleOp, Sourced
  <2> QED  BY <1>3, <1>4, <2>1 DEF One
<1>6. CASE ~Waiting(op[c]) /\ op[c].phase \in {"ready", "finishing"}
  <2>1. op[c].result
    BY <1>1, <1>6 DEF Waiting, Result
  <2> QED  BY <1>3, <1>4, <2>1 DEF One
<1>7. CASE Waiting(op[c])
  <2>1. PICK u \in Thread : Awaits(stack[u], c)
    BY <1>7 DEF ResultInv
  <2>2. PICK i \in DOMAIN stack[u], gn \in {"request_cb_end", "outer_idle"} :
           i + 1 \in DOMAIN stack[u] /\ stack[u][i + 1] = At(gn, c)
    BY <2>1 DEF Awaits
  <2>3. stack[u] \in Seq(Frame) /\ At(gn, c) \in FramesOf(stack[u])
    BY <1>1, <2>2 DEF TypeOK, FramesOf
  <2>4. gn \in FnsOf(c)
    BY <1>1, <1>2, <2>3, OnStackFrame
  <2>5. gn # fn
    <3>1. SUFFICES ASSUME gn = fn  PROVE FALSE
      OBVIOUS
    <3>2. At(fn, c).call # None
      BY <1>2, AtFrame, NotNone
    <3>3. u = t
      BY <1>2, <1>3, <2>3, <3>1, <3>2, AtFrame DEF IInv, Unique
    <3>4. 1 \in DOMAIN stack[t] /\ stack[t][1] = At(fn, c) /\ i # 0 /\ i \in Nat
      BY <1>1, <2>2, <3>3
    <3>5. i + 1 = 1
      <4>1. stack[t][1].fn \in Fn
        BY <1>2, <3>4, AtFrame
      <4> QED  BY <1>1, <2>2, <3>1, <3>3, <3>4, <4>1 DEF StackInv, Distinct
    <3> QED  BY <3>4, <3>5
  <2> QED  BY <1>3, <1>4, <2>4, <2>5 DEF One
<1> QED  BY <1>1, <1>5, <1>6, <1>7 DEF OpRecord

\* The end of a callback of the outer task.
LEMMA LeaveOuterResult ==
    ASSUME IInv, ResultInv, NEW t \in Thread, LeaveOuter(t)
    PROVE  ResultInv'
<1> DEFINE c == Cur(t)
           o == UnrefOuter(op[c])
           s == Tail(stack[t])
<1>1. PICK fn \in {"request_cb_end", "outer_idle"} : In(t, fn)
  BY DEF LeaveOuter
<1>2. /\ op' = [op EXCEPT ![c] = o] /\ stack' = [stack EXCEPT ![t] = s]
      /\ UNCHANGED cancelled
  BY DEF LeaveOuter
<1>3. /\ c \in Call /\ fn \in FnsOf(c) /\ Stays(t, s)
      /\ stack[t] # << >> /\ Head(stack[t]) = At(fn, c)
  <2>1. fn \in Fn \ {"handler", "callback"}
    BY DEF Fn
  <2> QED  BY <1>1, <2>1, StaysLeft
<1>  HIDE DEF c, s
<1>4. op[c] \in OpRecord /\ op[c].outer > 0
  <2>1. op[c] \in OpRecord /\ Consistent(c, op[c], FnsOf(c))
    BY <1>3 DEF IInv, TypeOK, CallInv
  <2> QED  BY <1>3, <2>1 DEF Consistent, Balanced, One, OpRecord
<1>5. /\ SameCall(op[c], o) /\ SameSource(op[c], o)
      /\ o.object = IF op[c].outer = 1 /\ op[c].object = "task"
                    THEN "freed" ELSE op[c].object
      /\ o.message = IF op[c].outer = 1 THEN op[c].message \ {"context"}
                                        ELSE op[c].message
  BY <1>4, UnrefOuterFields
<1>6. Result(op[c]) /\ Sourced(op[c]) /\ Announced(c, op[c]) /\ Delivery(op[c])
  BY <1>3 DEF ResultInv
<1>  HIDE DEF o
<1>7. op[c].outerRes # "none" /\ op[c].phase # "finished" => op[c].outer # 1
  BY <1>3, NotTheLast
<1>8. Result(o)
  BY <1>5, <1>6, <1>7 DEF Result, SameCall
<1>9. Sourced(o) /\ Announced(c, o) /\ (Waiting(o) <=> Waiting(op[c]))
  BY <1>5, <1>6 DEF SameCall, SameSource, Sourced, Announced, Waiting
<1>10. Delivery(o)
  BY <1>5, <1>6, <1>7 DEF SameCall, Delivery
<1> QED  BY <1>2, <1>3, <1>8, <1>9, <1>10, ResultMoves

\* The closure waits, is told to quit and is freed.
LEMMA ClosureResult ==
    ASSUME IInv, ResultInv, NEW t \in Thread,
           ClosureWait(t) \/ ClosureQuit(t) \/ ClosureFree(t)
    PROVE  ResultInv'
<1> DEFINE c == Cur(t)
           r == Tail(stack[t])
<1>1. PICK fn \in Sync : In(t, fn)
  BY DEF ClosureWait, ClosureQuit, ClosureFree, Sync
<1>2. /\ c \in Call /\ Stays(t, r) /\ \A gn \in Fn : Stays(t, Push(At(gn, c), r))
  <2>1. fn \in Fn \ {"handler", "callback"}
    BY DEF Fn, Sync
  <2> QED  BY <1>1, <2>1, StaysLeft
<1>3. /\ TypeOK /\ op[c] \in OpRecord
      /\ Result(op[c]) /\ Sourced(op[c]) /\ Announced(c, op[c]) /\ Delivery(op[c])
  BY <1>2 DEF IInv, TypeOK, ResultInv
<1>4. CASE ClosureWait(t)
  <2>  DEFINE o == [op[c] EXCEPT !.running = TRUE]
              s == Push(At("sync_wait", c), r)
  <2>1. /\ op' = [op EXCEPT ![c] = o] /\ stack' = [stack EXCEPT ![t] = s]
        /\ UNCHANGED cancelled
    BY <1>4 DEF ClosureWait
  <2>2. Stays(t, s)
    BY <1>2 DEF Fn
  <2>  HIDE DEF c, s
  <2>3. /\ Result(o) /\ Sourced(o) /\ Announced(c, o) /\ Delivery(o)
        /\ Waiting(o) <=> Waiting(op[c])
    <3>1. /\ o.phase = op[c].phase /\ o.sync = op[c].sync /\ o.kind = op[c].kind
          /\ o.src = op[c].src /\ o.innerRes = op[c].innerRes
          /\ o.outerRes = op[c].outerRes /\ o.copies = op[c].copies
          /\ o.object = op[c].object /\ o.ret = op[c].ret /\ o.outs = op[c].outs
          /\ o.result = op[c].result /\ o.message = op[c].message
          /\ o.wanted = op[c].wanted
      BY <1>3 DEF OpRecord
    <3>  HIDE DEF o
    <3>2. Delivery(o)
      BY <1>3, <3>1 DEF Delivery
    <3> QED  BY <1>3, <3>1, <3>2 DEF Result, Sourced, Announced, Waiting
  <2>  HIDE DEF o
  <2> QED  BY <1>2, <2>1, <2>2, <2>3, ResultMoves
<1>5. CASE ClosureQuit(t)
  <2>  DEFINE o == op[c]
              s == Push(At("sync_finish", c), r)
  <2>1. /\ op' = [op EXCEPT ![c] = o] /\ stack' = [stack EXCEPT ![t] = s]
        /\ UNCHANGED cancelled
    BY <1>3, <1>5 DEF ClosureQuit, TypeOK
  <2>2. Stays(t, s)
    BY <1>2 DEF Fn
  <2>3. Waiting(o) <=> Waiting(op[c])
    OBVIOUS
  <2>4. Result(o) /\ Sourced(o) /\ Announced(c, o) /\ Delivery(o)
    BY <1>3
  <2>  HIDE DEF c, s, o
  <2> QED  BY <1>2, <2>1, <2>2, <2>3, <2>4, ResultMoves DEF o
<1>6. CASE ClosureFree(t)
  <2>  DEFINE m == [op[c] EXCEPT !.result = FALSE]
              o == IF op[c].result THEN UnrefOuter(m) ELSE op[c]
  <2>1. /\ op' = [op EXCEPT ![c] = o] /\ stack' = [stack EXCEPT ![t] = r]
        /\ UNCHANGED cancelled /\ op[c].phase = "finished"
    BY <1>6 DEF ClosureFree
  <2>  HIDE DEF c, r
  <2>2. /\ m \in OpRecord /\ m.phase = "finished" /\ m.sync = op[c].sync
        /\ m.kind = op[c].kind /\ m.outer = op[c].outer
        /\ m.src = op[c].src /\ m.innerRes = op[c].innerRes
        /\ m.outerRes = op[c].outerRes /\ m.copies = op[c].copies
        /\ m.object = op[c].object /\ m.ret = op[c].ret /\ m.outs = op[c].outs
        /\ m.message = op[c].message /\ m.wanted = op[c].wanted
    BY <1>3, <2>1 DEF OpRecord
  <2>  HIDE DEF m
  <2>3. ASSUME op[c].result
        PROVE  LET p == UnrefOuter(m)
               IN  SameCall(m, p) /\ SameSource(m, p) /\ p.object \in {m.object, "freed"}
                   /\ (m.object = "caller" => p.object = "caller")
                   /\ (p.object = "caller" => m.object = "caller")
                   /\ p.message \in {m.message, m.message \ {"context"}}
    <3>1. op[c].outer > 0
      <4>1. Consistent(c, op[c], FnsOf(c))
        BY <1>2 DEF IInv, CallInv
      <4> QED  BY <1>3, <2>3, <4>1 DEF Consistent, Balanced, One, OpRecord
    <3>2. m \in OpRecord /\ m.outer > 0
      BY <2>2, <3>1
    <3> QED  BY <3>2, UnrefOuterFields
  <2>4. /\ o.phase = "finished" /\ o.kind = op[c].kind
        /\ o.src = op[c].src /\ o.innerRes = op[c].innerRes
        /\ o.outerRes = op[c].outerRes /\ o.copies = op[c].copies
        /\ o.object = "caller" <=> op[c].object = "caller"
        /\ o.ret = op[c].ret /\ o.outs = op[c].outs /\ o.wanted = op[c].wanted
        /\ o.message \in {op[c].message, op[c].message \ {"context"}}
    BY <2>1, <2>2, <2>3 DEF SameCall, SameSource
  <2>  HIDE DEF o
  <2>5. Result(o) /\ Sourced(o) /\ Announced(c, o) /\ ~Waiting(o)
    BY <1>3, <2>1, <2>4 DEF Result, Sourced, Announced, Waiting, Failed
  <2>6. Delivery(o)
    BY <1>3, <2>1, <2>4 DEF Delivery
  <2> QED  BY <1>2, <2>1, <2>5, <2>6, ResultMoves
<1> QED  BY <1>4, <1>5, <1>6

\* The outputs are stored.
LEMMA FinishOutputsResult ==
    ASSUME IInv, ResultInv, NEW t \in Thread, FinishOutputs(t)
    PROVE  ResultInv'
<1> DEFINE c == Cur(t)
           b == op[c]
           taken == Taken(c, b)
           outs == b.kind = "options" /\ ~Failed(c, b.outerRes)
           s == stack[t]
<1>1. /\ In(t, "callback") \/ In(t, "sync_finish")
      /\ b.phase = "ready" /\ UNCHANGED <<stack, cancelled>>
  BY DEF FinishOutputs
<1>2. PICK wanted \in BOOLEAN :
         op' = [op EXCEPT ![c] =
                  [b EXCEPT !.phase = "finishing", !.wanted = wanted, !.outs = outs,
                            !.message = IF wanted THEN taken ELSE b.message]]
  BY DEF FinishOutputs, Handed
<1> DEFINE m == IF wanted THEN taken ELSE b.message
           o == [b EXCEPT !.phase = "finishing", !.wanted = wanted,
                          !.outs = outs, !.message = m]
<1>3. c \in Call /\ b \in OpRecord /\ TypeOK
  <2>1. PICK fn \in Fn \ {"handler"} : In(t, fn)
    BY <1>1 DEF Fn
  <2>2. c \in Call
    BY <2>1, TopFrame DEF IInv
  <2> QED  BY <2>2 DEF IInv, TypeOK
<1>4. Stays(t, s) /\ stack' = [stack EXCEPT ![t] = s]
  BY <1>1, <1>3, StaysSame
<1>5. Result(b) /\ Sourced(b) /\ Delivery(b)
  BY <1>3 DEF ResultInv
<1>6. op' = [op EXCEPT ![c] = o]
  BY <1>2
<1>7. /\ b.kind = "options" => outs \/ Failed(c, b.outerRes)
      /\ outs => b.outerRes = "ok"
      /\ wanted /\ "context" \in b.message => "caller" \in m
      /\ b.message = {} => m = {}
  <2>1. outs => b.outerRes = "ok"
    BY <1>1, <1>3, <1>5 DEF Failed, Result, OpRecord
  <2>2. wanted /\ "context" \in b.message => "caller" \in m
    BY DEF Taken
  <2>3. b.message = {} => m = {}
    BY DEF Taken
  <2> QED  BY <2>1, <2>2, <2>3
<1>8. b.ret = "none" /\ b.object # "caller"
  BY <1>1, <1>3, <1>5 DEF Result, OpRecord
<1>  HIDE DEF outs, m, b, s, c
<1>9. /\ o.phase = "finishing" /\ o.outs = outs /\ o.kind = b.kind /\ o.sync = b.sync
      /\ o.src = b.src /\ o.innerRes = b.innerRes
      /\ o.outerRes = b.outerRes /\ o.copies = b.copies
      /\ o.object = b.object /\ o.ret = b.ret /\ o.result = b.result
      /\ o.wanted = wanted /\ o.message = m
  BY <1>3 DEF OpRecord
<1>  HIDE DEF o
<1>10. Result(o) /\ Delivery(o)
  <2>1. Result(o)
    BY <1>1, <1>5, <1>7, <1>8, <1>9 DEF Result
  <2>2. Delivery(o)
    BY <1>1, <1>5, <1>7, <1>9 DEF Delivery
  <2> QED  BY <2>1, <2>2
<1>11. Sourced(o) /\ Announced(c, o)
  BY <1>1, <1>5, <1>7, <1>9 DEF Sourced, Announced, Failed
<1>12. Waiting(o) => Waiting(op[c])
  BY <1>1, <1>9 DEF Waiting, b
<1> QED  BY <1>1, <1>3, <1>4, <1>6, <1>10, <1>11, <1>12, ResultMoves

\* The result is propagated to the caller.
LEMMA FinishPropagateResult ==
    ASSUME IInv, ResultInv, NEW t \in Thread, FinishPropagate(t)
    PROVE  ResultInv'
<1> DEFINE c == Cur(t)
           b == op[c]
           ret == Propagated(c, op[c].outerRes)
           x == IF ret = "ok" /\ b.object = "task" THEN "caller" ELSE b.object
           o == Settled(b, ret, x)
           s == stack[t]
<1>1. /\ In(t, "callback") \/ In(t, "sync_finish")
      /\ b.phase = "finishing" /\ UNCHANGED <<stack, cancelled>>
      /\ op' = [op EXCEPT ![c].phase = "finished", ![c].ret = ret, ![c].object = x]
  BY DEF FinishPropagate
<1>2. c \in Call /\ b \in OpRecord /\ TypeOK /\ op \in [Call -> OpRecord]
  <2>1. PICK fn \in Fn \ {"handler"} : In(t, fn)
    BY <1>1 DEF Fn
  <2>2. c \in Call
    BY <2>1, TopFrame DEF IInv
  <2> QED  BY <2>2 DEF IInv, TypeOK
<1>3. Stays(t, s) /\ stack' = [stack EXCEPT ![t] = s]
  BY <1>1, <1>2, StaysSame
<1>4. Result(b) /\ Sourced(b) /\ Announced(c, b) /\ Delivery(b)
  BY <1>2 DEF ResultInv
<1>5. /\ ret \in {"ok", "error"} /\ x \in {"none", "task", "caller", "freed"}
      /\ ret = "ok" <=> ~Failed(c, b.outerRes)
      /\ x = IF ret = "ok" /\ b.object = "task" THEN "caller" ELSE b.object
  BY <1>2 DEF Propagated, OpRecord
<1>  HIDE DEF ret, x
<1>6. op' = [op EXCEPT ![c] = o]
  BY <1>1, <1>2 DEF OpRecord, Settled
<1>7. b.outerRes # "none" /\ b.object # "caller"
  BY <1>1, <1>2, <1>4 DEF Result
<1>8. ret = "ok" => IF b.kind = "options" THEN b.outs ELSE x = "caller"
  <2>1. ret = "ok" => b.outerRes = "ok"
    BY <1>2, <1>5, <1>7 DEF Failed, OpRecord
  <2> QED  BY <1>1, <1>2, <1>4, <1>5, <2>1 DEF Result, Announced, OpRecord
<1>  HIDE DEF b, s, c
<1>9. /\ o.phase = "finished" /\ o.ret = ret /\ o.object = x /\ o.outs = b.outs
      /\ o.kind = b.kind /\ o.src = b.src /\ o.innerRes = b.innerRes
      /\ o.outerRes = b.outerRes /\ o.copies = b.copies
      /\ o.wanted = b.wanted /\ o.message = b.message
  BY <1>2, <1>5 DEF OpRecord, Settled
<1>  HIDE DEF o
<1>10. Result(o) /\ Delivery(o)
  <2>1. Result(o)
    BY <1>4, <1>5, <1>7, <1>8, <1>9 DEF Result
  <2>2. Delivery(o)
    BY <1>1, <1>4, <1>9 DEF Delivery
  <2> QED  BY <2>1, <2>2
<1>11. Sourced(o) /\ Announced(c, o) /\ ~Waiting(o)
  BY <1>1, <1>4, <1>5, <1>9 DEF Sourced, Announced, Waiting
<1> QED  BY <1>1, <1>2, <1>3, <1>6, <1>10, <1>11, ResultMoves

\* A step that changes one stack and no call.
LEMMA StackMoves ==
    ASSUME TypeOK, ResultInv, NEW t \in Thread, NEW s, Stays(t, s),
           stack' = [stack EXCEPT ![t] = s], UNCHANGED <<op, cancelled>>
    PROVE  ResultInv'
<1>1. stack'[t] = s /\ \A u \in Thread \ {t} : stack'[u] = stack[u]
  BY DEF TypeOK
<1>2. ASSUME NEW d \in Call
      PROVE  /\ Result(op'[d]) /\ Sourced(op'[d]) /\ Announced(d, op[d])'
             /\ Delivery(op'[d])
  BY DEF ResultInv, Announced, Failed
<1>3. ASSUME NEW d \in Call, Waiting(op'[d])
      PROVE  \E u \in Thread : Awaits(stack'[u], d)
  <2>1. Waiting(op[d])
    BY <1>3
  <2>2. PICK u \in Thread : Awaits(stack[u], d)
    BY <2>1 DEF ResultInv
  <2>3. op[d].phase # "finished"
    BY <2>1 DEF Waiting
  <2> QED  BY <1>1, <2>2, <2>3 DEF Stays
<1> QED  BY <1>2, <1>3 DEF ResultInv

\* The application is entered from a main loop and returns to it.
LEMMA UserResult ==
    ASSUME IInv, ResultInv, NEW t \in Thread,
           Handler(t) \/ (\E c \in Call : Signal(t, c)) \/ UserReturn(t)
    PROVE  ResultInv'
<1>1. TypeOK
  BY DEF IInv
<1>2. CASE Handler(t) \/ \E c \in Call : Signal(t, c)
  <2>1. PICK h \in Beside : /\ stack' = [stack EXCEPT ![t] = Push(h, stack[t])]
                           /\ UNCHANGED <<op, cancelled>>
    BY <1>2 DEF Handler, Signal, Beside
  <2>  DEFINE s == Push(h, stack[t])
  <2>2. Stays(t, s)
    <3>1. h \in Frame /\ stack[t] \in Seq(Frame)
      BY <1>1, BesideFrame DEF TypeOK
    <3>2. s \in Seq(Frame)
      BY <3>1, PushFrame
    <3> QED  BY <3>1, <3>2, AwaitsPush DEF Stays
  <2>  HIDE DEF s
  <2> QED  BY <1>1, <2>1, <2>2, StackMoves DEF s
<1>3. CASE UserReturn(t)
  <2>  DEFINE s == Tail(stack[t])
  <2>1. stack' = [stack EXCEPT ![t] = s] /\ UNCHANGED <<op, cancelled>>
    BY <1>3 DEF UserReturn
  <2>2. Stays(t, s)
    <3>1. stack[t] # << >> /\ (In(t, "callback") => op[Cur(t)].phase = "finished")
      BY <1>3 DEF UserReturn, In
    <3> QED  BY <1>1, <3>1, StaysPop
  <2>  HIDE DEF s
  <2> QED  BY <1>1, <2>1, <2>2, StackMoves
<1> QED  BY <1>2, <1>3

\* A call begins without a result, or with the error of its request.
LEMMA BeginResult ==
    ASSUME IInv, ResultInv, NEW t \in Thread, NEW c \in Call, NEW k \in Kind,
           BeginAsync(t, c, k) \/ BeginSync(t, c, k)
    PROVE  ResultInv'
<1>1. /\ InUserCode(t) /\ op[c].phase = "idle" /\ TypeOK /\ UNCHANGED cancelled
  BY DEF BeginAsync, BeginSync, IInv
<1>2. defaults[t] = << >>
  BY <1>1, BeginFacts
<1>3. PICK sync, x, fns, s :
         /\ sync \in BOOLEAN /\ x \in Context /\ Stays(t, s)
         /\ Starts(c, sync, x, fns) /\ Begin(t, c, k, sync, x, s)
  <2>1. CASE BeginAsync(t, c, k)
    <3>1. DefaultCtx(t) = t /\ t \in Context
      BY <1>2 DEF DefaultCtx, Default, Context
    <3>2. Starts(c, FALSE, t, {}) /\ Begin(t, c, k, FALSE, t, stack[t])
      BY <2>1, <3>1 DEF Starts, BeginAsync
    <3>3. Stays(t, stack[t])
      BY <1>1, StaysSame
    <3> QED  BY <3>1, <3>2, <3>3
  <2>2. CASE BeginSync(t, c, k)
    <3>  DEFINE pushed == PushDefault(ClosureContext(t, c), defaults[t])
                r == Push(At("sync_run", c), stack[t])
    <3>1. Begin(t, c, k, TRUE, Default(t, pushed), r)
      BY <2>2 DEF BeginSync
    <3>2. pushed = <<c>>
      BY <1>2 DEF PushDefault, ClosureContext, Push
    <3>3. Stays(t, r)
      <4>1. "sync_run" \in Fn /\ c \in Call \cup {None}
        BY DEF Fn
      <4> QED  BY <1>1, <4>1, StaysSame, StaysPush
    <3>  HIDE DEF pushed, r
    <3>4. Default(t, pushed) = c /\ c \in Context
      BY <3>2 DEF Default, Context
    <3>5. Starts(c, TRUE, c, {"sync_run"}) /\ Begin(t, c, k, TRUE, c, r)
      BY <3>1, <3>4 DEF Starts
    <3> QED  BY <3>3, <3>4, <3>5
  <2> QED  BY <2>1, <2>2
<1>4. /\ stack' = [stack EXCEPT ![t] = s]
      /\ \E o : op' = [op EXCEPT ![c] = o] /\ Fresh(o, sync, x)
  BY <1>3, BeginMoves
<1>5. PICK o : op' = [op EXCEPT ![c] = o] /\ Fresh(o, sync, x)
  BY <1>4
<1>6. Result(o) /\ Sourced(o) /\ Announced(c, o) /\ Delivery(o) /\ ~Waiting(o)
  BY <1>5 DEF Fresh, Result, Sourced, Announced, Delivery, Waiting, One
<1> QED  BY <1>1, <1>3, <1>4, <1>5, <1>6, ResultMoves

\* A call that is cancelled fails from now on; otherwise nothing changes.
LEMMA CancelResult ==
    ASSUME ResultInv, UNCHANGED <<stack, op>>, cancelled \subseteq cancelled'
    PROVE  ResultInv'
<1>1. ASSUME NEW d \in Call
      PROVE  /\ Result(op'[d]) /\ Sourced(op'[d]) /\ Announced(d, op[d])'
             /\ Delivery(op'[d])
  BY DEF ResultInv, Announced, Failed
<1>2. ASSUME NEW d \in Call, Waiting(op'[d])
      PROVE  \E u \in Thread : Awaits(stack'[u], d)
  BY <1>2 DEF ResultInv
<1> QED  BY <1>1, <1>2 DEF ResultInv

\* What a call delivers follows its results, whatever callbacks nest.
LEMMA ResultsInvariant == Spec => [](IInv /\ ResultInv)
<1>1. Init => ResultInv
  <2> SUFFICES ASSUME Init, NEW c \in Call
               PROVE  /\ Result(op[c]) /\ Sourced(op[c]) /\ Announced(c, op[c])
                      /\ Delivery(op[c]) /\ ~Waiting(op[c])
    BY DEF ResultInv
  <2>1. op[c] = IdleOp
    BY DEF Init
  <2>2. Result(IdleOp)
    BY DEF IdleOp, Result, One
  <2>3. Sourced(IdleOp) /\ Announced(c, IdleOp) /\ Delivery(IdleOp) /\ ~Waiting(IdleOp)
    BY DEF IdleOp, Sourced, Announced, Delivery, Waiting
  <2> QED  BY <2>1, <2>2, <2>3
<1>2. IInv /\ ResultInv /\ [Next]_vars => ResultInv'
  <2> SUFFICES ASSUME IInv, ResultInv, [Next]_vars  PROVE ResultInv'
    OBVIOUS
  <2>1. ASSUME NEW t \in Thread, Execute(t)  PROVE ResultInv'
    BY <2>1, RequestCbResult, LeaveInnerResult, LeaveOuterResult, ClosureResult,
       FinishOutputsResult, FinishPropagateResult, UserResult DEF Execute
  <2>2. ASSUME NEW t \in Thread, Handler(t) \/ \E c \in Call : Signal(t, c)
        PROVE  ResultInv'
    BY <2>2, UserResult
  <2>3. ASSUME NEW t \in Thread, NEW c \in Call, Dispatch(t, c)  PROVE ResultInv'
    BY <2>3, SendCbResult, SpliceCbResult, InnerIdleResult, OuterIdleResult DEF Dispatch
  <2>4. ASSUME NEW t \in Thread, NEW c \in Call, NEW k \in Kind,
               BeginAsync(t, c, k) \/ BeginSync(t, c, k)
        PROVE  ResultInv'
    BY <2>4, BeginResult
  <2>5. ASSUME NEW c \in Call, Cancel(c)  PROVE ResultInv'
    BY <2>5, CancelResult DEF Cancel
  <2>6. CASE Poll \/ UNCHANGED vars
    BY <2>6, CancelResult DEF Poll, vars
  <2> QED  BY <2>1, <2>2, <2>3, <2>4, <2>5, <2>6 DEF Next
<1> QED  BY <1>1, <1>2, Invariance, PTL DEF Spec

\* A call that succeeds has its body once and its outputs or its multistatus;
\* a call that fails hands no multistatus over, and stored outputs only if it
\* was cancelled between the two halves of gdav_options_finish.
THEOREM Results == Spec => []ResultsConsistent
<1>1. IInv /\ ResultInv => ResultsConsistent
  <2> SUFFICES ASSUME ResultInv, NEW c \in Call
               PROVE  LET o == op[c] IN
                      /\ o.outerRes = "ok" => o.innerRes = "ok" /\ o.copies = 1
                      /\ o.ret = "ok" => IF o.kind = "options" THEN o.outs
                                                               ELSE o.object = "caller"
                      /\ o.ret = "error" =>
                            /\ o.object # "caller"
                            /\ o.outs => o.outerRes = "ok" /\ c \in cancelled
    BY DEF ResultsConsistent
  <2>1. Result(op[c]) /\ Announced(c, op[c])
    BY DEF ResultInv
  <2> QED  BY <2>1 DEF Result, Announced, Failed, One
<1> QED  BY <1>1, ResultsInvariant, PTL

\* A caller who wants the message has it when the call is over, also if the
\* call failed or was cancelled; only a request that was not built has none.
THEOREM MessagesDelivered == Spec => []MessageDelivered
<1>1. IInv /\ ResultInv => MessageDelivered
  <2> SUFFICES ASSUME ResultInv, NEW c \in Call, op[c].ret # "none", op[c].wanted
               PROVE  "caller" \in op[c].message <=> op[c].innerRes # "none"
    BY DEF MessageDelivered
  <2>1. Result(op[c]) /\ Delivery(op[c])
    BY DEF ResultInv
  <2>2. op[c].phase = "finished" /\ op[c].outerRes # "none"
    BY <2>1 DEF Result
  <2> QED  BY <2>1, <2>2 DEF Delivery
<1> QED  BY <1>1, ResultsInvariant, PTL

-----------------------------------------------------------------------------
(* The conventions of GIO                                                  *)

\* A call blocks a thread that has its context as the default.
BlockingIs == blocking = [t \in Thread |-> Default(None, defaults[t])]

\* The invariant implies it.
LEMMA BlockingNow == IInv => BlockingIs
<1> SUFFICES ASSUME IInv, NEW t \in Thread
             PROVE  Blocked(t) = Default(None, defaults[t])
  BY DEF BlockingIs, blocking
<1>1. defaults[t] = IF Blocked(t) = None THEN << >> ELSE <<Blocked(t)>>
  BY ContextsNow DEF ContextsNested
<1>  DEFINE b == Blocked(t)
<1>  HIDE DEF b
<1>2. defaults[t] = IF b = None THEN << >> ELSE <<b>>
  BY <1>1 DEF b
<1>3. b = Default(None, defaults[t])
  BY <1>2 DEF Default
<1> QED  BY <1>3 DEF b

\* ... also after a step.
LEMMA BlockingNext == IInv' => BlockingIs'
BY BlockingNow, PTL

\* What the application sees of a call is the same.
SameView(o, p) ==
    Stage(p) = Stage(o) /\ p.sync = o.sync /\ p.ctx = o.ctx /\ p.ret = o.ret

\* References and sources do not change it.
LEMMA SameCallView ==
    ASSUME NEW o, NEW p, SameCall(o, p)
    PROVE  SameView(o, p)
BY DEF SameCall, SameView, Stage

\* A function that differs from another at one point.
LEMMA DiffersAt ==
    ASSUME NEW S, NEW f, NEW g, f = [d \in S |-> f[d]], g = [d \in S |-> g[d]],
           NEW c \in S, NEW v, g[c] = v, \A d \in S \ {c} : g[d] = f[d]
    PROVE  g = [f EXCEPT ![c] = v]
<1>1. [f EXCEPT ![c] = v] = [d \in S |-> IF d = c THEN v ELSE f[d]]
  OBVIOUS
<1>2. \A d \in S : g[d] = IF d = c THEN v ELSE f[d]
  OBVIOUS
<1> QED  BY <1>1, <1>2

\* What the application sees of a step that changes one call.
LEMMA CallSeen ==
    ASSUME TypeOK, NEW c \in Call, NEW o, op' = [op EXCEPT ![c] = o]
    PROVE  /\ stages' = [stages EXCEPT ![c] = Stage(o)]
           /\ homes' = [homes EXCEPT ![c] = IF o.sync THEN None ELSE o.ctx]
           /\ outcomes' = [outcomes EXCEPT ![c] = o.ret]
<1>1. op'[c] = o /\ \A d \in Call \ {c} : op'[d] = op[d]
  BY DEF TypeOK
<1>2. stages' = [stages EXCEPT ![c] = Stage(o)]
  <2>1. /\ stages = [d \in Call |-> stages[d]] /\ stages' = [d \in Call |-> stages'[d]]
        /\ stages'[c] = Stage(o) /\ \A d \in Call \ {c} : stages'[d] = stages[d]
    BY <1>1 DEF stages
  <2> QED  BY <2>1, DiffersAt
<1>3. homes' = [homes EXCEPT ![c] = IF o.sync THEN None ELSE o.ctx]
  <2>1. /\ homes = [d \in Call |-> homes[d]] /\ homes' = [d \in Call |-> homes'[d]]
        /\ homes'[c] = IF o.sync THEN None ELSE o.ctx
        /\ \A d \in Call \ {c} : homes'[d] = homes[d]
    BY <1>1 DEF homes
  <2> QED  BY <2>1, DiffersAt
<1>4. outcomes' = [outcomes EXCEPT ![c] = o.ret]
  <2>1. /\ outcomes = [d \in Call |-> outcomes[d]]
        /\ outcomes' = [d \in Call |-> outcomes'[d]]
        /\ outcomes'[c] = o.ret /\ \A d \in Call \ {c} : outcomes'[d] = outcomes[d]
    BY <1>1 DEF outcomes
  <2> QED  BY <2>1, DiffersAt
<1> QED  BY <1>2, <1>3, <1>4

\* Values of the mapping at one call.
LEMMA Seen ==
    ASSUME NEW c \in Call
    PROVE  /\ stages[c] = Stage(op[c])
           /\ homes[c] = IF op[c].sync THEN None ELSE op[c].ctx
           /\ outcomes[c] = op[c].ret
           /\ stages = [stages EXCEPT ![c] = Stage(op[c])]
           /\ homes = [homes EXCEPT ![c] = homes[c]]
           /\ outcomes = [outcomes EXCEPT ![c] = op[c].ret]
BY DEF stages, homes, outcomes

\* A step that no other call hears of.
LEMMA Unseen ==
    ASSUME TypeOK, BlockingIs, BlockingIs', UNCHANGED <<defaults, cancelled>>,
           NEW c \in Call, NEW o, op' = [op EXCEPT ![c] = o], SameView(op[c], o)
    PROVE  UNCHANGED Gio!gioVars
<1>1. UNCHANGED blocking
  BY DEF BlockingIs
<1>2. /\ stages' = [stages EXCEPT ![c] = Stage(o)]
      /\ homes' = [homes EXCEPT ![c] = IF o.sync THEN None ELSE o.ctx]
      /\ outcomes' = [outcomes EXCEPT ![c] = o.ret]
  BY CallSeen
<1>3. UNCHANGED <<stages, homes, outcomes>>
  BY <1>2, Seen DEF SameView
<1> QED  BY <1>1, <1>3 DEF Gio!gioVars

\* A step that changes no call at all.
LEMMA NothingSeen ==
    ASSUME BlockingIs, BlockingIs', UNCHANGED <<op, defaults, cancelled>>
    PROVE  UNCHANGED Gio!gioVars
BY DEF BlockingIs, Gio!gioVars, stages, homes, outcomes

\* The thread that dispatches on the context of a call is the one that waits for
\* it, or the one that began it.
LEMMA Hears ==
    ASSUME IInv, BlockingIs, NEW t \in Thread, NEW c \in Call,
           op[c].phase # "idle", DefaultCtx(t) = op[c].ctx
    PROVE  blocking[t] = c \/ (blocking[t] = None /\ homes[c] = t)
<1>1. /\ IF op[c].sync THEN op[c].ctx = c ELSE op[c].ctx \in Thread
      /\ defaults[t] \in Seq(Call)
  BY DEF IInv, CallInv, Consistent, Closed, TypeOK
<1>2. blocking[t] = Default(None, defaults[t])
  BY DEF BlockingIs
<1>3. CASE defaults[t] = << >>
  <2>1. blocking[t] = None /\ op[c].ctx = t
    BY <1>2, <1>3 DEF Default, DefaultCtx
  <2>2. ~op[c].sync
    BY <1>1, <2>1, IdentitiesAssumption
  <2> QED  BY <2>1, <2>2, Seen
<1>4. CASE defaults[t] # << >>
  <2>1. /\ blocking[t] = Head(defaults[t]) /\ op[c].ctx = Head(defaults[t])
        /\ Head(defaults[t]) \in Call
    BY <1>1, <1>2, <1>4 DEF Default, DefaultCtx
  <2> QED  BY <1>1, <2>1, IdentitiesAssumption
<1> QED  BY <1>3, <1>4

\* The callback of a call runs.
LEMMA InvokeSeen ==
    ASSUME IInv, BlockingIs, BlockingIs', NEW t \in Thread, NEW c \in Call,
           Pending(op[c], FnsOf(c)), DefaultCtx(t) = op[c].ctx,
           NEW b, Resolved(op[c], b), NEW r, Invoke(t, c, b, r),
           UNCHANGED <<defaults, cancelled>>
    PROVE  Gio!Complete(t, c)
<1> DEFINE n == b.called + 1
           a == [b EXCEPT !.called = n, !.phase = "ready"]
           p == RefOuter(a)
           q == [p EXCEPT !.result = TRUE, !.running = FALSE]
           o == IF b.sync THEN ClosureCallback(a) ELSE a
<1>1. TypeOK /\ op[c].phase = "begun" /\ op[c].called = 0 /\ ~op[c].result
  BY DEF IInv, CallInv, Consistent, Staged
<1>2. /\ b \in OpRecord /\ ~b.result /\ n = 1
      /\ b.sync = op[c].sync /\ b.ctx = op[c].ctx /\ b.ret = op[c].ret
  BY <1>1 DEF Resolved
<1>3. op' = [op EXCEPT ![c] = o]
  BY DEF Invoke
<1>  HIDE DEF n
<1>4. /\ a \in OpRecord /\ ~a.result /\ a.phase = "ready"
      /\ a.sync = b.sync /\ a.ctx = b.ctx /\ a.ret = b.ret
  <2>1. a \in OpRecord
    BY <1>2, ZenonT(60) DEF OpRecord
  <2>2. ~a.result /\ a.phase = "ready"
    BY <1>2 DEF OpRecord
  <2>3. a.sync = b.sync /\ a.ctx = b.ctx /\ a.ret = b.ret
    BY <1>2 DEF OpRecord
  <2> QED  BY <2>1, <2>2, <2>3
<1>  HIDE DEF a
<1>5. ClosureCallback(a) = q
  BY <1>4 DEF ClosureCallback
<1>6. p \in OpRecord /\ SameCall(a, p)
  BY <1>4, RefFields
<1>  HIDE DEF p
<1>7. q.phase = p.phase /\ q.sync = p.sync /\ q.ctx = p.ctx /\ q.ret = p.ret
  BY <1>6 DEF OpRecord
<1>  HIDE DEF q
<1>8. o.phase = "ready" /\ o.sync = op[c].sync /\ o.ctx = op[c].ctx /\ o.ret = op[c].ret
  BY <1>2, <1>4, <1>5, <1>6, <1>7 DEF SameCall
<1>  HIDE DEF o
<1>9. /\ stages' = [stages EXCEPT ![c] = "ready"] /\ stages[c] = "pending"
      /\ UNCHANGED <<homes, outcomes>>
  <2>1. Stage(o) = "ready" /\ Stage(op[c]) = "pending"
    BY <1>1, <1>8 DEF Stage
  <2>2. /\ stages' = [stages EXCEPT ![c] = Stage(o)]
        /\ homes' = [homes EXCEPT ![c] = IF o.sync THEN None ELSE o.ctx]
        /\ outcomes' = [outcomes EXCEPT ![c] = o.ret]
    BY <1>1, <1>3, CallSeen
  <2>3. /\ stages[c] = Stage(op[c]) /\ UNCHANGED <<homes, outcomes>>
    BY <1>8, <2>2, Seen
  <2> QED  BY <2>1, <2>2, <2>3
<1>10. UNCHANGED blocking
  BY DEF BlockingIs
<1>11. blocking[t] = c \/ (blocking[t] = None /\ homes[c] = t)
  BY <1>1, Hears
<1> QED  BY <1>9, <1>10, <1>11 DEF Gio!Complete

\* The inner task returns: nobody hears of it.
LEMMA InnerReturnedSeen ==
    ASSUME IInv, BlockingIs, BlockingIs', NEW t \in Thread, NEW c \in Call,
           NEW b, Answered(op[c], b), NEW fn, InnerReturned(t, c, b, fn),
           UNCHANGED <<defaults, cancelled>>
    PROVE  UNCHANGED Gio!gioVars
<1>1. TypeOK /\ b \in OpRecord /\ b.ctx \in Context \cup {None} /\ SameView(op[c], b)
  BY DEF IInv, Answered, OpRecord, SameView, Stage
<1>2. SameView(op[c], Detach(b))
  <2>1. SameView(b, Detach(b))
    BY <1>1, DetachFields, SameCallView
  <2> QED  BY <1>1, <2>1 DEF SameView
<1>3. SameView(op[c], UnrefInner(Attach(RefInner(b), "inner", b.ctx)))
  <2>  DEFINE p == UnrefInner(Attach(RefInner(b), "inner", b.ctx))
  <2>1. SameCall(b, p)
    BY <1>1, NextSource
  <2>  HIDE DEF p
  <2>2. SameView(b, p)
    BY <2>1, SameCallView
  <2> QED  BY <1>1, <2>2 DEF SameView, p
<1> QED  BY <1>1, <1>2, <1>3, Unseen DEF InnerReturned

\* A step of a call is one that the conventions allow, or none.
Conventional == Gio!GioNext \/ UNCHANGED Gio!gioVars

\* The callback of the inner task finds the context of its call.
LEMMA ReturnsHere ==
    ASSUME IInv, NEW t \in Thread, In(t, "request_cb"),
           DispatchCtx(t) = op[Cur(t)].ctx
    PROVE  DefaultCtx(t) = op[Cur(t)].ctx
<1> DEFINE c == Cur(t)
<1>1. TypeOK /\ StackInv(t) /\ "request_cb" \in Fn
  BY DEF IInv, Fn
<1>2. /\ c \in Call /\ "request_cb" \in FnsOf(c)
      /\ \A g \in FramesOf(stack[t]) : g.fn \in Sync => g.call = c
  BY <1>1, TopFrame
<1>3. CASE \A g \in FramesOf(stack[t]) : g.fn \notin Sync
  <2>1. DefaultCtx(t) = t
    BY <1>1, <1>3 DEF StackInv, DefaultCtx, Default
  <2>2. \A i \in DOMAIN stack[t] : stack[t][i].fn # "sync_wait"
    BY <1>3 DEF FramesOf, Sync
  <2>3. DispatchCtx(t) = t
    BY <2>2 DEF DispatchCtx
  <2> QED  BY <2>1, <2>3
<1>4. ASSUME NEW g \in FramesOf(stack[t]), g.fn \in Sync
      PROVE  DefaultCtx(t) = op[c].ctx
  <2>1. defaults[t] = <<c>>
    BY <1>1, <1>2, <1>4 DEF StackInv
  <2>2. DefaultCtx(t) = c
    BY <2>1 DEF DefaultCtx, Default
  <2>3. g \in Frame /\ g = At(g.fn, c)
    <3>1. g \in Frame
      BY <1>1, <1>4 DEF TypeOK, FramesOf
    <3> QED  BY <1>2, <1>4, <3>1, FrameIsAt
  <2>  HIDE DEF c
  <2>4. g.fn \in FnsOf(c)
    <3>1. g.fn \in Fn
      BY <1>4 DEF Sync, Fn
    <3> QED  BY <1>1, <1>2, <1>4, <2>3, <3>1, OnStackFrame
  <2>5. Consistent(c, op[c], FnsOf(c)) /\ op[c].phase = "begun"
    BY <1>2 DEF IInv, CallInv, Consistent, Staged, Pending
  <2> QED  BY <1>4, <2>2, <2>4, <2>5 DEF Consistent, Closed
<1> QED  BY <1>3, <1>4

\* The callback of the inner task returns the outer one, at once or later.
LEMMA RequestCbSeen ==
    ASSUME IInv, BlockingIs, BlockingIs', NEW t \in Thread, RequestCb(t)
    PROVE  Conventional
<1> DEFINE c == Cur(t)
           r == Push(At("request_cb_end", c), Tail(stack[t]))
<1>1. /\ In(t, "request_cb") /\ UNCHANGED <<defaults, cancelled>>
      /\ OptionsRequestCb(t, c, r) \/ PropfindRequestCb(t, c, r)
  BY DEF RequestCb
<1>2. TypeOK /\ StackInv(t) /\ "request_cb" \in Fn
  BY DEF IInv, Fn
<1>3. c \in Call /\ "request_cb" \in FnsOf(c)
  BY <1>1, <1>2, TopFrame
<1>4. DispatchCtx(t) = op[c].ctx => DefaultCtx(t) = op[c].ctx
  BY <1>1, ReturnsHere
<1>5. op[c] \in OpRecord /\ Pending(op[c], FnsOf(c)) /\ Consistent(c, op[c], FnsOf(c))
  BY <1>2, <1>3 DEF IInv, TypeOK, CallInv, Pending
<1>  HIDE DEF c, r
<1>6. op[c].src = "none"
  BY <1>3, <1>5 DEF Consistent, Staged
<1>7. ASSUME NEW b, Resolved(op[c], b), OuterReturned(t, c, b, FALSE, r)
      PROVE  Conventional
  <2>1. CASE ReturnsNow(t, b, FALSE) /\ Invoke(t, c, b, r)
    <3>1. DefaultCtx(t) = op[c].ctx
      BY <1>4, <1>7, <2>1 DEF ReturnsNow, Resolved
    <3>2. Gio!Complete(t, c)
      BY <1>1, <1>3, <1>5, <1>7, <2>1, <3>1, InvokeSeen
    <3> QED  BY <1>3, <3>2 DEF Conventional, Gio!GioNext
  <2>2. CASE op' = [op EXCEPT ![c] = Attach(RefOuter(b), "outer", b.ctx)]
    <3>  DEFINE p == RefOuter(b)
                o == Attach(p, "outer", b.ctx)
    <3>1. b \in OpRecord /\ SameView(op[c], b)
      BY <1>7 DEF Resolved, SameView, Stage
    <3>2. p \in OpRecord /\ SameCall(b, p)
      BY <3>1, RefFields
    <3>  HIDE DEF p
    <3>3. SameCall(p, o)
      BY <3>2 DEF Attach, OpRecord, SameCall
    <3>4. op' = [op EXCEPT ![c] = o]
      BY <2>2 DEF p
    <3>  HIDE DEF o
    <3>5. SameView(b, p) /\ SameView(p, o)
      BY <3>2, <3>3, SameCallView
    <3>6. SameView(op[c], o)
      BY <3>1, <3>5 DEF SameView
    <3> QED  BY <1>1, <1>2, <1>3, <3>4, <3>6, Unseen DEF Conventional
  <2> QED  BY <1>7, <2>1, <2>2 DEF OuterReturned
<1>8. ASSUME NEW res \in {"ok", "error"}
      PROVE  /\ Resolved(op[c], [op[c] EXCEPT !.outerRes = res])
             /\ Resolved(op[c], [op[c] EXCEPT !.outerRes = res, !.object = "task"])
  BY <1>5, <1>6, ZenonT(40) DEF Resolved, OpRecord
<1>9. CASE OptionsRequestCb(t, c, r)
  <2>  DEFINE res == IF Failed(c, op[c].innerRes) THEN "error" ELSE "ok"
  <2>1. res \in {"ok", "error"} /\ OuterReturned(t, c, [op[c] EXCEPT !.outerRes = res],
                                                 FALSE, r)
    BY <1>9 DEF OptionsRequestCb
  <2>  HIDE DEF res
  <2> QED  BY <1>7, <1>8, <2>1
<1>10. CASE PropfindRequestCb(t, c, r)
  <2>1. CASE OuterReturned(t, c, [op[c] EXCEPT !.outerRes = "error"], FALSE, r)
    BY <1>7, <1>8, <2>1
  <2>2. CASE OuterReturned(t, c, [op[c] EXCEPT !.outerRes = "ok", !.object = "task"],
                           FALSE, r)
    BY <1>7, <1>8, <2>2
  <2>3. CASE UNCHANGED op
    BY <1>1, <2>3, NothingSeen DEF Conventional
  <2> QED  BY <1>10, <2>1, <2>2, <2>3 DEF PropfindRequestCb
<1> QED  BY <1>1, <1>9, <1>10

\* A source is dispatched; only that of the outer task is heard of.
LEMMA DispatchSeen ==
    ASSUME IInv, BlockingIs, BlockingIs', NEW t \in Thread, NEW c \in Call,
           Dispatch(t, c)
    PROVE  Conventional
<1> DEFINE o == Detach(op[c])
<1>1. TypeOK /\ op[c] \in OpRecord /\ UNCHANGED <<defaults, cancelled>>
  BY DEF IInv, TypeOK, Dispatch, SendCb, SpliceCb, InnerIdle, OuterIdle
<1>2. o \in OpRecord /\ SameCall(op[c], o) /\ Answered(op[c], o)
  BY <1>1, DetachFields, DetachAnswered
<1>3. SameView(op[c], o)
  BY <1>2, SameCallView
<1>4. Answered(op[c], [o EXCEPT !.innerRes = "error"])
  BY <1>2 DEF Answered, OpRecord
<1>5. CASE SendCb(t, c)
  <2>1. CASE op' = [op EXCEPT ![c] =
                      UnrefInner(Attach(RefInner(o), "splice", DefaultCtx(t)))]
    <3>  DEFINE p == UnrefInner(Attach(RefInner(o), "splice", DefaultCtx(t)))
    <3>1. DefaultCtx(t) \in Context \cup {None}
      <4>1. op[c].src # "none" /\ Iterates(t, op[c].srcCtx)
        BY <1>5 DEF SendCb
      <4>2. DefaultCtx(t) = op[c].ctx
        BY <4>1, Dispatched
      <4> QED  BY <1>1, <4>2 DEF OpRecord
    <3>2. op' = [op EXCEPT ![c] = p]
      BY <2>1
    <3>  HIDE DEF o
    <3>3. SameCall(o, p)
      BY <1>2, <3>1, NextSource
    <3>  HIDE DEF p
    <3>4. SameView(op[c], p)
      BY <1>3, <3>3, SameCallView DEF SameView
    <3> QED  BY <1>1, <3>2, <3>4, Unseen DEF Conventional
  <2>2. CASE InnerReturned(t, c, [o EXCEPT !.innerRes = "error"], "send_cb")
    BY <1>1, <1>4, <2>2, InnerReturnedSeen DEF Conventional
  <2> QED  BY <1>5, <2>1, <2>2 DEF SendCb
<1>6. CASE SpliceCb(t, c)
  <2>1. ASSUME NEW filled \in BOOLEAN,
               InnerReturned(t, c, [CopyBody(o, filled) EXCEPT !.innerRes = "ok"],
                             "splice_cb")
        PROVE  Conventional
    <3> DEFINE n == IF o.copies + One(filled) = 0 THEN 1 ELSE o.copies + One(filled)
               m == CopyBody(o, filled)
               b == [m EXCEPT !.innerRes = "ok"]
    <3>1. n \in Nat
      BY <1>2 DEF OpRecord, One
    <3>2. m = [o EXCEPT !.copies = n]
      BY DEF CopyBody
    <3>  HIDE DEF n, m
    <3>3. Answered(op[c], m)
      BY <1>2, <3>1, <3>2 DEF Answered, OpRecord
    <3>4. Answered(op[c], b)
      BY <3>3 DEF Answered, OpRecord
    <3> QED  BY <1>1, <2>1, <3>4, InnerReturnedSeen DEF m, Conventional
  <2>2. CASE InnerReturned(t, c, [o EXCEPT !.innerRes = "error"], "splice_cb")
    BY <1>1, <1>4, <2>2, InnerReturnedSeen DEF Conventional
  <2> QED  BY <1>6, <2>1, <2>2 DEF SpliceCb
<1>7. CASE InnerIdle(t, c)
  <2>1. op' = [op EXCEPT ![c] = o]
    BY <1>7 DEF InnerIdle
  <2> QED  BY <1>1, <1>3, <2>1, Unseen DEF Conventional
<1>8. CASE OuterIdle(t, c)
  <2>1. /\ op[c].src = "outer" /\ op[c].src # "none" /\ Iterates(t, op[c].srcCtx)
        /\ Invoke(t, c, o, Push(At("outer_idle", c), stack[t]))
    BY <1>8 DEF OuterIdle
  <2>2. op[c].outerRes # "none" /\ Pending(op[c], FnsOf(c))
    BY <2>1 DEF IInv, CallInv, Consistent, Staged, Pending
  <2>3. Resolved(op[c], o)
    BY <1>2, <2>2 DEF Answered, Resolved
  <2>4. DefaultCtx(t) = op[c].ctx
    BY <2>1, Dispatched
  <2>  HIDE DEF o
  <2>5. Gio!Complete(t, c)
    BY <1>1, <2>1, <2>2, <2>3, <2>4, InvokeSeen
  <2> QED  BY <2>5 DEF Conventional, Gio!GioNext
<1> QED  BY <1>5, <1>6, <1>7, <1>8 DEF Dispatch

\* The ends of callbacks, the start of the loop and the outputs.
LEMMA UnrefSeen ==
    ASSUME IInv, BlockingIs, BlockingIs', NEW t \in Thread,
           LeaveInner(t) \/ LeaveOuter(t) \/ ClosureWait(t) \/ FinishOutputs(t)
    PROVE  Conventional
<1> DEFINE c == Cur(t)
           o == op[c]
<1>1. TypeOK /\ StackInv(t)
  BY DEF IInv
<1>2. PICK fn \in Fn \ {"handler"} : In(t, fn)
  BY DEF LeaveInner, LeaveOuter, ClosureWait, FinishOutputs, Fn
<1>3. c \in Call /\ o \in OpRecord
  BY <1>1, <1>2, TopFrame DEF TypeOK
<1>4. UNCHANGED <<defaults, cancelled>>
  BY DEF LeaveInner, LeaveOuter, ClosureWait, FinishOutputs
<1>5. ASSUME NEW p, op' = [op EXCEPT ![c] = p], SameView(o, p)
      PROVE  Conventional
  <2>  HIDE DEF c
  <2> QED  BY <1>1, <1>3, <1>4, <1>5, Unseen DEF Conventional
<1>6. CASE LeaveInner(t)
  <2>  DEFINE p == UnrefInner(o)
  <2>1. op' = [op EXCEPT ![c] = p]
    BY <1>6 DEF LeaveInner
  <2>2. p.phase = o.phase /\ p.sync = o.sync /\ p.ctx = o.ctx /\ p.ret = o.ret
    BY <1>3 DEF OpRecord, UnrefInner
  <2>  HIDE DEF p, o, c
  <2>3. SameView(o, p)
    BY <2>2 DEF SameView, Stage
  <2> QED  BY <1>5, <2>1, <2>3
<1>7. CASE LeaveOuter(t)
  <2>  DEFINE p == UnrefOuter(o)
  <2>1. op' = [op EXCEPT ![c] = p]
    BY <1>7 DEF LeaveOuter
  <2>2. p.phase = o.phase /\ p.sync = o.sync /\ p.ctx = o.ctx /\ p.ret = o.ret
    BY <1>3 DEF OpRecord, UnrefOuter
  <2>  HIDE DEF p, o, c
  <2>3. SameView(o, p)
    BY <2>2 DEF SameView, Stage
  <2> QED  BY <1>5, <2>1, <2>3
<1>8. CASE ClosureWait(t)
  <2>  DEFINE p == [o EXCEPT !.running = TRUE]
  <2>1. op' = [op EXCEPT ![c] = p]
    BY <1>8 DEF ClosureWait
  <2>2. p.phase = o.phase /\ p.sync = o.sync /\ p.ctx = o.ctx /\ p.ret = o.ret
    BY <1>3 DEF OpRecord
  <2>  HIDE DEF p, o, c
  <2>3. SameView(o, p)
    BY <2>2 DEF SameView, Stage
  <2> QED  BY <1>5, <2>1, <2>3
<1>9. CASE FinishOutputs(t)
  <2>  DEFINE taken == Taken(c, o)
              outs == o.kind = "options" /\ ~Failed(c, o.outerRes)
  <2>1. PICK wanted \in BOOLEAN :
           op' = [op EXCEPT ![c] =
                    [o EXCEPT !.phase = "finishing", !.wanted = wanted, !.outs = outs,
                              !.message = IF wanted THEN taken ELSE o.message]]
    BY <1>9 DEF FinishOutputs, Handed
  <2>  DEFINE m == IF wanted THEN taken ELSE o.message
              p == [o EXCEPT !.phase = "finishing", !.wanted = wanted,
                             !.outs = outs, !.message = m]
  <2>2. op' = [op EXCEPT ![c] = p] /\ o.phase = "ready"
    BY <1>9, <2>1 DEF FinishOutputs
  <2>  HIDE DEF outs, m
  <2>3. p.phase = "finishing" /\ p.sync = o.sync /\ p.ctx = o.ctx /\ p.ret = o.ret
    BY <1>3 DEF OpRecord
  <2>  HIDE DEF p, o, c
  <2>4. SameView(o, p)
    BY <2>2, <2>3 DEF SameView, Stage
  <2> QED  BY <1>5, <2>2, <2>4
<1> QED  BY <1>6, <1>7, <1>8, <1>9

\* The finish function returns the result.
LEMMA FinishPropagateSeen ==
    ASSUME IInv, BlockingIs, BlockingIs', NEW t \in Thread, FinishPropagate(t)
    PROVE  Conventional
<1> DEFINE c == Cur(t)
           b == op[c]
           ret == Propagated(c, b.outerRes)
           x == IF ret = "ok" /\ b.object = "task" THEN "caller" ELSE b.object
           o == Settled(b, ret, x)
<1>1. /\ In(t, "callback") \/ In(t, "sync_finish")
      /\ b.phase = "finishing" /\ UNCHANGED <<defaults, cancelled>>
      /\ op' = [op EXCEPT ![c].phase = "finished", ![c].ret = ret, ![c].object = x]
  BY DEF FinishPropagate
<1>2. TypeOK /\ c \in Call /\ b \in OpRecord
  <2>1. PICK fn \in Fn \ {"handler"} : In(t, fn)
    BY <1>1 DEF Fn
  <2>2. c \in Call
    BY <2>1, TopFrame DEF IInv
  <2> QED  BY <2>2 DEF IInv, TypeOK
<1>3. /\ ret \in {"ok", "error"} /\ x \in {"none", "task", "caller", "freed"}
      /\ ret = "ok" => c \notin cancelled
  BY <1>2 DEF Propagated, Failed, OpRecord
<1>  HIDE DEF ret, x
<1>4. op' = [op EXCEPT ![c] = o]
  BY <1>1, <1>2 DEF OpRecord, Settled, TypeOK
<1>5. o.phase = "finished" /\ o.ret = ret /\ o.sync = b.sync /\ o.ctx = b.ctx
  BY <1>2, <1>3 DEF OpRecord, Settled
<1>  HIDE DEF o, c
<1>6. Stage(o) = "done" /\ Stage(op[c]) = "ready"
  BY <1>1, <1>5 DEF Stage
<1>7. /\ stages' = [stages EXCEPT ![c] = Stage(o)]
      /\ homes' = [homes EXCEPT ![c] = IF o.sync THEN None ELSE o.ctx]
      /\ outcomes' = [outcomes EXCEPT ![c] = o.ret]
  BY <1>2, <1>4, CallSeen
<1>8. stages[c] = "ready" /\ UNCHANGED homes
  BY <1>2, <1>5, <1>6, <1>7, Seen
<1>9. UNCHANGED blocking
  BY <1>1 DEF BlockingIs
<1>10. Gio!Finish(c, ret)
  BY <1>1, <1>3, <1>5, <1>6, <1>7, <1>8, <1>9 DEF Gio!Finish
<1> QED  BY <1>2, <1>3, <1>10 DEF Conventional, Gio!GioNext

\* The synchronous function returns.
LEMMA ClosureFreeSeen ==
    ASSUME IInv, BlockingIs, BlockingIs', NEW t \in Thread, ClosureFree(t)
    PROVE  Conventional
<1> DEFINE c == Cur(t)
           b == op[c]
           m == [b EXCEPT !.result = FALSE]
           o == IF b.result THEN UnrefOuter(m) ELSE b
<1>1. /\ In(t, "sync_finish") /\ b.phase = "finished" /\ UNCHANGED cancelled
      /\ defaults' = [defaults EXCEPT ![t] = Tail(defaults[t])]
      /\ op' = [op EXCEPT ![c] = o]
  BY DEF ClosureFree, PopDefault
<1>2. /\ TypeOK /\ StackInv(t) /\ "sync_finish" \in Fn /\ "sync_finish" \in Sync
      /\ "sync_finish" # "handler"
  BY DEF IInv, Fn, Sync
<1>3. /\ Head(stack[t]) = At("sync_finish", c)
      /\ Head(stack[t]) \in FramesOf(stack[t]) /\ c \in Call
  BY <1>1, <1>2, TopFrame
<1>4. defaults[t] = <<c>>
  BY <1>2, <1>3, AtFrame DEF StackInv
<1>5. b \in OpRecord
  BY <1>2, <1>3 DEF TypeOK
<1>  HIDE DEF c
<1>6. SameView(b, o)
  <2>1. /\ m \in OpRecord /\ m.phase = b.phase /\ m.sync = b.sync /\ m.ctx = b.ctx
        /\ m.ret = b.ret
    BY <1>5 DEF OpRecord
  <2>  HIDE DEF m
  <2>2. /\ UnrefOuter(m).phase = m.phase /\ UnrefOuter(m).sync = m.sync
        /\ UnrefOuter(m).ctx = m.ctx /\ UnrefOuter(m).ret = m.ret
    BY <2>1 DEF OpRecord, UnrefOuter
  <2>  HIDE DEF b
  <2>3. o.phase = b.phase /\ o.sync = b.sync /\ o.ctx = b.ctx /\ o.ret = b.ret
    BY <2>1, <2>2
  <2>  HIDE DEF o
  <2> QED  BY <2>3 DEF SameView, Stage
<1>  HIDE DEF o
<1>7. UNCHANGED <<stages, homes, outcomes>>
  <2>1. /\ stages' = [stages EXCEPT ![c] = Stage(o)]
        /\ homes' = [homes EXCEPT ![c] = IF o.sync THEN None ELSE o.ctx]
        /\ outcomes' = [outcomes EXCEPT ![c] = o.ret]
    BY <1>1, <1>2, <1>3, CallSeen
  <2> QED  BY <1>3, <1>6, <2>1, Seen DEF SameView
<1>8. blocking[t] = c /\ stages[c] = "done"
  <2>1. blocking[t] = Default(None, defaults[t]) /\ Stage(b) = "done"
    BY <1>1 DEF BlockingIs, Stage
  <2> QED  BY <1>3, <1>4, <2>1, Seen DEF Default
<1>9. blocking' = [blocking EXCEPT ![t] = None]
  <2>1. /\ defaults'[t] = << >> /\ \A u \in Thread \ {t} : defaults'[u] = defaults[u]
    <3>1. Tail(defaults[t]) = << >>
      BY <1>4
    <3> QED  BY <1>1, <1>2, <3>1 DEF TypeOK
  <2>2. /\ blocking = [u \in Thread |-> blocking[u]]
        /\ blocking' = [u \in Thread |-> blocking'[u]]
        /\ blocking'[t] = None /\ \A u \in Thread \ {t} : blocking'[u] = blocking[u]
    BY <2>1 DEF BlockingIs, Default
  <2> QED  BY <2>2, DiffersAt
<1>10. Gio!Return(t)
  <2>1. blocking[t] # None
    BY <1>3, <1>8, NotNone
  <2> QED  BY <1>1, <1>7, <1>8, <1>9, <2>1 DEF Gio!Return
<1> QED  BY <1>10 DEF Conventional, Gio!GioNext

\* A call begins.
LEMMA BeginSeen ==
    ASSUME IInv, BlockingIs, BlockingIs', NEW t \in Thread, NEW c \in Call,
           NEW k \in Kind, BeginAsync(t, c, k) \/ BeginSync(t, c, k)
    PROVE  Conventional
<1>1. /\ InUserCode(t) /\ op[c].phase = "idle" /\ TypeOK /\ UNCHANGED cancelled
  BY DEF BeginAsync, BeginSync, IInv
<1>2. defaults[t] = << >> /\ blocking[t] = None
  <2>1. defaults[t] = << >>
    BY <1>1, BeginFacts
  <2> QED  BY <2>1 DEF BlockingIs, Default
<1>3. op[c] = IdleOp
  BY <1>1 DEF IInv, CallInv, Consistent, Staged
<1>4. stages[c] = "idle" /\ homes[c] = None /\ outcomes[c] = "none"
  <2>1. /\ IdleOp.phase = "idle" /\ IdleOp.sync = FALSE /\ IdleOp.ctx = None
        /\ IdleOp.ret = "none"
    BY DEF IdleOp
  <2> QED  BY <1>3, <2>1, Seen DEF Stage
<1>5. ASSUME NEW sync \in BOOLEAN, NEW x \in Context, NEW fns, NEW r,
             Starts(c, sync, x, fns), Begin(t, c, k, sync, x, r)
      PROVE  /\ stages' = [stages EXCEPT ![c] = "pending"]
             /\ homes' = [homes EXCEPT ![c] = IF sync THEN None ELSE x]
             /\ UNCHANGED outcomes
  <2>1. PICK o : op' = [op EXCEPT ![c] = o] /\ Fresh(o, sync, x)
    BY <1>5, BeginMoves
  <2>2. Stage(o) = "pending" /\ o.sync = sync /\ o.ctx = x /\ o.ret = "none"
    BY <2>1 DEF Fresh, Stage
  <2>3. /\ stages' = [stages EXCEPT ![c] = Stage(o)]
        /\ homes' = [homes EXCEPT ![c] = IF o.sync THEN None ELSE o.ctx]
        /\ outcomes' = [outcomes EXCEPT ![c] = o.ret]
    BY <1>1, <2>1, CallSeen
  <2> QED  BY <1>4, <2>2, <2>3, Seen
<1>6. CASE BeginAsync(t, c, k)
  <2>  DEFINE sync == FALSE
              fns == {}
  <2>1. t \in Context /\ sync \in BOOLEAN /\ Starts(c, sync, t, fns)
        /\ Begin(t, c, k, sync, t, stack[t])
    BY <1>2, <1>6 DEF Starts, BeginAsync, DefaultCtx, Default, Context
  <2>2. /\ stages' = [stages EXCEPT ![c] = "pending"]
        /\ homes' = [homes EXCEPT ![c] = IF sync THEN None ELSE t]
        /\ UNCHANGED outcomes
    <3>  HIDE DEF sync, fns
    <3> QED  BY <1>5, <2>1
  <2>3. UNCHANGED blocking
    BY <1>6 DEF BeginAsync, BlockingIs
  <2>4. Gio!StartAsync(t, c)
    BY <1>1, <1>2, <1>4, <2>2, <2>3 DEF Gio!StartAsync, Gio!Started
  <2> QED  BY <2>4 DEF Conventional, Gio!GioNext
<1>7. CASE BeginSync(t, c, k)
  <2>  DEFINE pushed == PushDefault(ClosureContext(t, c), defaults[t])
              s == Push(At("sync_run", c), stack[t])
              sync == TRUE
              fns == {"sync_run"}
  <2>1. /\ defaults' = [defaults EXCEPT ![t] = pushed]
        /\ Begin(t, c, k, sync, Default(t, pushed), s)
    BY <1>7 DEF BeginSync
  <2>2. pushed = <<c>>
    BY <1>2 DEF PushDefault, ClosureContext, Push
  <2>  HIDE DEF pushed, s
  <2>3. /\ Default(t, pushed) = c /\ c \in Context /\ sync \in BOOLEAN
        /\ Starts(c, sync, c, fns)
    BY <2>2 DEF Default, Context, Starts
  <2>4. /\ stages' = [stages EXCEPT ![c] = "pending"]
        /\ homes' = [homes EXCEPT ![c] = IF sync THEN None ELSE c]
        /\ UNCHANGED outcomes
    <3>1. Begin(t, c, k, sync, c, s)
      BY <2>1, <2>3
    <3>  HIDE DEF sync, fns
    <3> QED  BY <1>5, <2>3, <3>1
  <2>5. UNCHANGED homes
    BY <1>4, <2>4, Seen
  <2>6. blocking' = [blocking EXCEPT ![t] = c]
    <3>1. /\ defaults'[t] = <<c>> /\ \A u \in Thread \ {t} : defaults'[u] = defaults[u]
      BY <1>1, <2>1, <2>2 DEF TypeOK
    <3>2. /\ blocking = [u \in Thread |-> blocking[u]]
          /\ blocking' = [u \in Thread |-> blocking'[u]]
          /\ blocking'[t] = c /\ \A u \in Thread \ {t} : blocking'[u] = blocking[u]
      BY <3>1 DEF BlockingIs, Default
    <3> QED  BY <3>2, DiffersAt
  <2>7. Gio!StartSync(t, c)
    BY <1>1, <1>2, <1>4, <2>4, <2>5, <2>6 DEF Gio!StartSync, Gio!Started
  <2> QED  BY <2>7 DEF Conventional, Gio!GioNext
<1> QED  BY <1>6, <1>7

\* A call is cancelled.
LEMMA CancelSeen ==
    ASSUME BlockingIs, BlockingIs', NEW c \in Call, Cancel(c)
    PROVE  Conventional
<1>1. /\ c \in Cancellable /\ cancelled' = cancelled \cup {c}
      /\ UNCHANGED <<op, defaults>>
  BY DEF Cancel
<1>2. UNCHANGED <<stages, homes, outcomes, blocking>>
  BY <1>1 DEF stages, homes, outcomes, BlockingIs
<1>3. Gio!CancelCall(c)
  BY <1>1, <1>2 DEF Gio!CancelCall
<1> QED  BY <1>3 DEF Conventional, Gio!GioNext

\* Every behaviour of the calls is one that the conventions of GIO allow
\* (GioConventions): the stages of a call, the thread that hears of it and the
\* thread it blocks.
THEOREM Conventions == Spec => GioConventions
<1>1. Init => Gio!GioInit
  <2> SUFFICES ASSUME Init  PROVE Gio!GioInit
    OBVIOUS
  <2>1. \A c \in Call : op[c] = IdleOp
    BY DEF Init
  <2>2. /\ IdleOp.phase = "idle" /\ IdleOp.sync = FALSE /\ IdleOp.ctx = None
        /\ IdleOp.ret = "none"
    BY DEF IdleOp
  <2>3. stages = [c \in Call |-> "idle"]
    BY <2>1, <2>2 DEF stages, Stage
  <2>4. homes = [c \in Call |-> None]
    BY <2>1, <2>2 DEF homes
  <2>5. outcomes = [c \in Call |-> "none"]
    BY <2>1, <2>2 DEF outcomes
  <2>6. blocking = [t \in Thread |-> None]
    <3>1. BlockingIs
      BY InitInv, BlockingNow
    <3>2. \A t \in Thread : defaults[t] = << >>
      BY DEF Init
    <3> QED  BY <3>1, <3>2 DEF BlockingIs, Default
  <2>7. cancelled = {}
    BY DEF Init
  <2> QED  BY <2>3, <2>4, <2>5, <2>6, <2>7 DEF Gio!GioInit
<1>2. IInv /\ BlockingIs /\ BlockingIs' /\ [Next]_vars => [Gio!GioNext]_(Gio!gioVars)
  <2> SUFFICES ASSUME IInv, BlockingIs, BlockingIs', [Next]_vars
               PROVE  Conventional
    BY DEF Conventional
  <2>1. ASSUME NEW t \in Thread, Execute(t)  PROVE Conventional
    <3>1. CASE ClosureQuit(t) \/ UserReturn(t)
      BY <3>1, NothingSeen DEF ClosureQuit, UserReturn, Conventional
    <3> QED  BY <2>1, <3>1, RequestCbSeen, UnrefSeen, ClosureFreeSeen,
                FinishPropagateSeen DEF Execute
  <2>2. ASSUME NEW t \in Thread, Handler(t) \/ \E c \in Call : Signal(t, c)
        PROVE  Conventional
    BY <2>2, NothingSeen DEF Handler, Signal, Conventional
  <2>3. ASSUME NEW t \in Thread, NEW c \in Call, Dispatch(t, c)
        PROVE  Conventional
    BY <2>3, DispatchSeen
  <2>4. ASSUME NEW t \in Thread, NEW c \in Call, NEW k \in Kind,
               BeginAsync(t, c, k) \/ BeginSync(t, c, k)
        PROVE  Conventional
    BY <2>4, BeginSeen
  <2>5. ASSUME NEW c \in Call, Cancel(c)  PROVE Conventional
    BY <2>5, CancelSeen
  <2>6. CASE Poll \/ UNCHANGED vars
    BY <2>6, NothingSeen DEF Poll, vars, Conventional
  <2> QED  BY <2>1, <2>2, <2>3, <2>4, <2>5, <2>6 DEF Next
<1> QED  BY <1>1, <1>2, BlockingNow, BlockingNext, Invariance, PTL
         DEF Spec, GioConventions, Gio!GioSpec

-----------------------------------------------------------------------------
(* A step takes one call forward                                           *)

Same(o, p) ==
    /\ p.kind = o.kind /\ p.sync = o.sync /\ p.phase = o.phase
    /\ p.src = o.src /\ p.running = o.running

\* The source of a call in flight is replaced, or its callback has entered
\* the callback of the inner task.
Flies(o, fns, p, gns) ==
    /\ InFlight(o) /\ p.phase = o.phase /\ p.running = o.running
    /\ \/ o.src = "send" /\ p.src = "splice" /\ gns = fns
       \/ o.src # "inner" /\ p.src = "inner" /\ gns = fns
       \/ p.src = "none" /\ \E fn \in Inner : gns = fns \cup {fn, "request_cb"}

\* The callback of the inner task leaves the rest to a source, or drops it.
Answers(o, fns, p, gns) ==
    /\ "request_cb" \in fns /\ gns = Replaced(fns)
    /\ o.src = "none" /\ p.phase = o.phase /\ p.running = o.running
    /\ \/ p.src = "outer"
       \/ p.src = "none" /\ o.kind = "propfind" /\ "nothing" \in ParseOutcome

\* The callback of the outer task is called.
Calls(o, fns, p, gns) ==
    \E rest \in SUBSET Fn :
        /\ \/ "request_cb" \in fns /\ rest = Replaced(fns)
           \/ o.src = "outer" /\ rest = fns \cup {"outer_idle"}
        /\ "sync_run" \notin fns
        /\ p.phase = "ready" /\ p.src = "none"
        /\ IF o.sync THEN ~p.running /\ gns = rest
                     ELSE p.running = o.running /\ gns = rest \cup {"callback"}

\* A function of the library or a callback of the application returns.
Leaves(o, fns, p, gns) ==
    /\ Same(o, p)
    /\ \E fn \in fns :
         /\ \/ fn \in Inner \cup {"request_cb_end", "outer_idle"}
            \/ fn \in {"callback", "sync_finish"} /\ o.phase = "finished"
         /\ gns = fns \ {fn}

\* The loop of a synchronous call starts, or has stopped.
Loops(o, fns, p, gns) ==
    /\ p.phase = o.phase /\ p.src = o.src
    /\ \/ /\ "sync_run" \in fns /\ p.running
          /\ gns = (fns \ {"sync_run"}) \cup {"sync_wait"}
       \/ /\ "sync_wait" \in fns /\ ~p.running
          /\ gns = (fns \ {"sync_wait"}) \cup {"sync_finish"}

\* A half of a finish function.
Finishes(o, fns, p, gns) ==
    /\ <<o.phase, p.phase>> \in {<<"ready", "finishing">>, <<"finishing", "finished">>}
    /\ p.src = o.src /\ p.running = o.running /\ gns = fns

Begins(o, fns, p, gns) ==
    /\ o.phase = "idle" /\ p.phase = "begun" /\ p.src \in {"send", "outer"}
    /\ ~p.running
    /\ gns = IF p.sync THEN {"sync_run"} ELSE {}

\* What a step does to a call in state o, with its functions fns on the stacks.
Moves(o, fns, p, gns) ==
    \/ /\ p.kind = o.kind /\ p.sync = o.sync
       /\ \/ Flies(o, fns, p, gns) \/ Answers(o, fns, p, gns)
          \/ Calls(o, fns, p, gns) \/ Leaves(o, fns, p, gns)
          \/ Loops(o, fns, p, gns) \/ Finishes(o, fns, p, gns)
    \/ Begins(o, fns, p, gns)

\* A step moves call c and no other.
Advances(c) ==
    /\ Moves(op[c], FnsOf(c), op'[c], FnsOf(c)')
    /\ \A d \in Call \ {c} : op'[d] = op[d] /\ FnsOf(d)' = FnsOf(d)

\* What a call has still to do: what its phase, its source and each of its
\* functions lead to at most.
Work(o, fns) ==
    15 * One(o.phase = "idle") + 3 * One(o.phase = "begun")
    + 2 * One(o.phase = "ready") + One(o.phase = "finishing")
    + 8 * One(o.src = "send") + 7 * One(o.src = "splice")
    + 6 * One(o.src = "inner") + 2 * One(o.src = "outer")
    + 4 * One("request_cb" \in fns) + One("request_cb_end" \in fns)
    + One("outer_idle" \in fns) + One("send_cb" \in fns)
    + One("splice_cb" \in fns) + One("inner_idle" \in fns)
    + One("callback" \in fns) + 3 * One("sync_run" \in fns)
    + 2 * One("sync_wait" \in fns) + One("sync_finish" \in fns)

\* The innermost frames only: what calls on at once, and the ends of a loop.
Tops == {"request_cb", "sync_run", "sync_finish"}

Calm(s) == \A f \in FramesOf(s) : f.fn \notin Tops

Topped(s) == s = << >> \/ Calm(Tail(s))

\* A call that has begun is pending, unless the parser lost it; its loop runs
\* only until then; and the function that is to finish it is on a stack.
Held(o, fns) ==
    /\ o.phase = "begun" =>
          \/ Pending(o, fns)
          \/ o.kind = "propfind" /\ "nothing" \in ParseOutcome
    /\ o.running => o.sync /\ o.phase = "begun"
    /\ o.phase \in {"ready", "finishing"} =>
          IF o.sync THEN fns \cap {"sync_wait", "sync_finish"} # {}
                    ELSE "callback" \in fns

\* Such a step leaves less to do, ...
LEMMA MovesWork ==
    ASSUME NEW c \in Call, NEW o, NEW fns \in SUBSET Fn, Consistent(c, o, fns),
           NEW p, NEW gns, Moves(o, fns, p, gns)
    PROVE  /\ Work(o, fns) \in Nat /\ Work(p, gns) \in Nat
           /\ Work(p, gns) < Work(o, fns)
<1>1. Work(o, fns) \in Nat /\ Work(p, gns) \in Nat
  BY DEF Work, One
<1>2. CASE Flies(o, fns, p, gns)
  <2>1. o.phase = "begun"
    BY <1>2 DEF Consistent, Staged, Pending, Flies, InFlight
  <2>2. CASE gns = fns
    BY <1>2, <2>1, <2>2 DEF Flies, InFlight, Work, One
  <2>3. CASE gns # fns
    <3>1. PICK fn \in Inner : gns = fns \cup {fn, "request_cb"} /\ p.src = "none"
      BY <1>2, <2>3 DEF Flies
    <3>2. fns \subseteq Sync
      BY <1>2 DEF Consistent, Staged, Flies
    <3> QED  BY <1>2, <2>1, <3>1, <3>2 DEF Flies, InFlight, Work, One, Inner, Sync
  <2> QED  BY <2>2, <2>3
<1>3. CASE Answers(o, fns, p, gns)
  <2>1. "request_cb_end" \notin fns
    BY <1>3 DEF Consistent, Staged, Answers
  <2> QED  BY <1>3, <2>1 DEF Answers, Work, One, Replaced
<1>4. CASE Calls(o, fns, p, gns)
  <2>1. o.phase = "begun" /\ "callback" \notin fns
    BY <1>4 DEF Consistent, Staged, Pending, Calls
  <2>2. CASE "request_cb" \in fns
    <3>1. "request_cb_end" \notin fns /\ o.src = "none"
      BY <2>2 DEF Consistent, Staged
    <3> QED  BY <1>4, <2>1, <2>2, <3>1 DEF Calls, Work, One, Replaced
  <2>3. CASE "request_cb" \notin fns
    <3>1. "outer_idle" \notin fns /\ o.src = "outer"
      BY <1>4, <2>3 DEF Consistent, Staged, Calls
    <3> QED  BY <1>4, <2>1, <2>3, <3>1 DEF Calls, Work, One
  <2> QED  BY <2>2, <2>3
<1>5. CASE Leaves(o, fns, p, gns)
  BY <1>5 DEF Leaves, Same, Work, One, Inner
<1>6. CASE Loops(o, fns, p, gns)
  <2>1. "sync_run" \in fns => "sync_wait" \notin fns
    BY DEF Consistent, Closed, Sync
  <2>2. "sync_wait" \in fns => "sync_finish" \notin fns
    BY DEF Consistent, Closed, Sync
  <2> QED  BY <1>6, <2>1, <2>2 DEF Loops, Work, One
<1>7. CASE Finishes(o, fns, p, gns)
  BY <1>7 DEF Finishes, Work, One
<1>8. CASE Begins(o, fns, p, gns)
  <2>1. fns = {} /\ o.src = "none"
    BY <1>8 DEF Begins, Consistent, Staged, IdleOp
  <2> QED  BY <1>8, <2>1 DEF Begins, Work, One
<1> QED  BY <1>1, <1>2, <1>3, <1>4, <1>5, <1>6, <1>7, <1>8 DEF Moves

\* ... and keeps what holds the call.
LEMMA MovesHeld ==
    ASSUME NEW c \in Call, NEW o, NEW fns \in SUBSET Fn, Consistent(c, o, fns),
           NEW p, NEW gns, Moves(o, fns, p, gns), Held(o, fns)
    PROVE  Held(p, gns)
<1>2. CASE Flies(o, fns, p, gns) /\ p.kind = o.kind /\ p.sync = o.sync
  <2>1. o.phase = "begun"
    BY <1>2 DEF Consistent, Staged, Pending, Flies, InFlight
  <2> QED  BY <1>2, <2>1 DEF Flies, InFlight, Held, Pending
<1>3. CASE Answers(o, fns, p, gns) /\ p.kind = o.kind /\ p.sync = o.sync
  <2>1. o.phase = "begun"
    BY <1>3 DEF Consistent, Staged, Pending, Answers
  <2> QED  BY <1>3, <2>1 DEF Answers, Held, Pending, Replaced
<1>4. CASE Calls(o, fns, p, gns) /\ p.kind = o.kind /\ p.sync = o.sync
  <2>1. o.phase = "begun" /\ (o.sync => "sync_wait" \in fns)
    BY <1>4 DEF Consistent, Staged, Pending, Calls
  <2> QED  BY <1>4, <2>1 DEF Calls, Held, Pending, Replaced
<1>5. CASE Leaves(o, fns, p, gns)
  BY <1>5 DEF Leaves, Same, Held, Pending, Inner
<1>6. CASE Loops(o, fns, p, gns) /\ p.kind = o.kind /\ p.sync = o.sync
  <2>1. "sync_run" \in fns => Pending(o, fns) /\ o.phase = "begun" /\ o.sync
    BY DEF Consistent, Staged, Closed, Pending, Sync
  <2> QED  BY <1>6, <2>1 DEF Loops, Held, Pending
<1>7. CASE Finishes(o, fns, p, gns) /\ p.kind = o.kind /\ p.sync = o.sync
  BY <1>7 DEF Finishes, Held
<1>8. CASE Begins(o, fns, p, gns)
  BY <1>8 DEF Begins, Held, Pending
<1> QED  BY <1>2, <1>3, <1>4, <1>5, <1>6, <1>7, <1>8 DEF Moves

\* The frames at the top, when one is pushed or popped.
LEMMA ToppedPush ==
    ASSUME NEW s \in Seq(Frame), NEW f \in Frame
    PROVE  /\ Topped(Push(f, s)) <=> Calm(s)
           /\ Calm(s) /\ f.fn \notin Tops => Calm(Push(f, s))
<1>1. /\ Push(f, s) # << >> /\ Tail(Push(f, s)) = s
      /\ FramesOf(Push(f, s)) = FramesOf(s) \cup {f}
  BY PushFrame
<1> QED  BY <1>1 DEF Topped, Calm

LEMMA ToppedPop ==
    ASSUME NEW s \in Seq(Frame)
    PROVE  /\ s # << >> /\ Topped(s) => Calm(Tail(s))
           /\ Topped(s) /\ (s = << >> \/ Head(s).fn \notin Tops) => Calm(s)
           /\ Calm(s) => Topped(s)
<1>1. CASE s = << >>
  <2>1. FramesOf(s) = {}
    BY <1>1 DEF FramesOf
  <2> QED  BY <1>1, <2>1 DEF Topped, Calm
<1>2. CASE s # << >>
  <2>1. FramesOf(s) = FramesOf(Tail(s)) \cup {Head(s)}
    BY <1>2, PopFrame
  <2> QED  BY <1>2, <2>1 DEF Topped, Calm
<1> QED  BY <1>1, <1>2

\* Every stack has its tops.
ToppedAll == \A t \in Thread : Topped(stack[t])

LEMMA ToppedAfter ==
    ASSUME TypeOK, ToppedAll, NEW t \in Thread, NEW s, Topped(s),
           stack' = [stack EXCEPT ![t] = s]
    PROVE  ToppedAll'
BY DEF TypeOK, ToppedAll

\* A thread in a main loop is in no top but the loop.
LEMMA LoopCalm ==
    ASSUME TypeOK, ToppedAll, NEW t \in Thread, InMainLoop(t)
    PROVE  stack[t] \in Seq(Frame) /\ Calm(stack[t])
<1>1. stack[t] \in Seq(Frame) /\ Topped(stack[t])
  BY DEF TypeOK, ToppedAll
<1>2. stack[t] = << >> \/ Head(stack[t]).fn \notin Tops
  BY DEF InMainLoop, In, Tops
<1> QED  BY <1>1, <1>2, ToppedPop

\* On stack s of thread t the functions in new of call c replace those in out.
Shifted(t, c, s, out, new) ==
    /\ out \subseteq Fn /\ new \subseteq Fn
    /\ \A fn \in out : At(fn, c) \in FramesOf(stack[t])
    /\ FramesOf(s) = (FramesOf(stack[t]) \ {At(fn, c) : fn \in out})
                      \cup {At(fn, c) : fn \in new}

\* The functions of the calls after a step that changes one stack.
LEMMA FnsMoved ==
    ASSUME IInv, TypeOK', NEW t \in Thread, NEW c \in Call, NEW s,
           NEW out, NEW new, Shifted(t, c, s, out, new),
           stack' = [stack EXCEPT ![t] = s]
    PROVE  /\ FnsOf(c)' = (FnsOf(c) \ out) \cup new
           /\ \A d \in Call \ {c} : FnsOf(d)' = FnsOf(d)
<1>1. stack'[t] = s /\ \A u \in Thread \ {t} : stack'[u] = stack[u]
  BY DEF IInv, TypeOK
<1>2. \A fn, gn \in Fn, d, e \in Call :
         At(fn, d) = At(gn, e) => fn = gn /\ d = e
  BY AtFrame
<1>3. TypeOK /\ \A u \in Thread : \A f \in FramesOf(stack[t]) \cap FramesOf(stack[u]) :
                    f.fn \in Fn /\ f.call # None => t = u
  BY DEF IInv, Unique
<1>4. ASSUME NEW fn \in Fn  PROVE fn \in FnsOf(c)' <=> fn \in (FnsOf(c) \ out) \cup new
  <2>1. At(fn, c) \in FramesOf(s) <=>
           (At(fn, c) \in FramesOf(stack[t]) /\ fn \notin out) \/ fn \in new
    BY <1>2 DEF Shifted
  <2>2. ASSUME fn \in out, NEW u \in Thread, At(fn, c) \in FramesOf(stack[u])
        PROVE  u = t
    <3>1. At(fn, c).fn = fn /\ At(fn, c).call = c /\ c # None
      BY AtFrame, NotNone
    <3> QED  BY <1>3, <2>2, <3>1 DEF Shifted
  <2>3. fn \in FnsOf(c)' <=> \E u \in Thread : At(fn, c) \in FramesOf(stack'[u])
    BY FnsOfFramesPrime
  <2>4. fn \in FnsOf(c) <=> \E u \in Thread : At(fn, c) \in FramesOf(stack[u])
    BY <1>3, FnsOfFrames
  <2>5. fn \in out => At(fn, c) \in FramesOf(stack[t])
    BY DEF Shifted
  <2> QED  BY <1>1, <2>1, <2>2, <2>3, <2>4, <2>5
<1>5. ASSUME NEW d \in Call \ {c}, NEW fn \in Fn
      PROVE  fn \in FnsOf(d)' <=> fn \in FnsOf(d)
  <2>1. At(fn, d) \in FramesOf(s) <=> At(fn, d) \in FramesOf(stack[t])
    BY <1>2 DEF Shifted
  <2>2. fn \in FnsOf(d)' <=> \E u \in Thread : At(fn, d) \in FramesOf(stack'[u])
    BY FnsOfFramesPrime
  <2>3. fn \in FnsOf(d) <=> \E u \in Thread : At(fn, d) \in FramesOf(stack[u])
    BY <1>3, FnsOfFrames
  <2> QED  BY <1>1, <2>1, <2>2, <2>3
<1>6. /\ new \subseteq Fn
      /\ \A d \in Call : FnsOf(d) \subseteq Fn /\ FnsOf(d)' \subseteq Fn
  BY DEF FnsOf, Shifted
<1> QED  BY <1>4, <1>5, <1>6

\* A step that changes one stack and one call, ...
LEMMA Advanced ==
    ASSUME IInv, IInv', NEW t \in Thread, NEW c \in Call, NEW s, NEW o,
           NEW out, NEW new, Shifted(t, c, s, out, new),
           stack' = [stack EXCEPT ![t] = s], op' = [op EXCEPT ![c] = o],
           Moves(op[c], FnsOf(c), o, (FnsOf(c) \ out) \cup new)
    PROVE  Advances(c)
<1>1. TypeOK'
  BY DEF IInv
<1>2. /\ FnsOf(c)' = (FnsOf(c) \ out) \cup new
      /\ \A d \in Call \ {c} : FnsOf(d)' = FnsOf(d)
  BY <1>1, FnsMoved
<1>3. op'[c] = o /\ \A d \in Call \ {c} : op'[d] = op[d]
  BY DEF IInv, TypeOK
<1> QED  BY <1>2, <1>3 DEF Advances

\* ... or only one call.
LEMMA AdvancedHere ==
    ASSUME IInv, NEW c \in Call, NEW o, UNCHANGED stack, op' = [op EXCEPT ![c] = o],
           Moves(op[c], FnsOf(c), o, FnsOf(c))
    PROVE  Advances(c)
<1>1. \A d \in Call : FnsOf(d)' = FnsOf(d)
  BY DEF FnsOf, OnStack
<1>2. op'[c] = o /\ \A d \in Call \ {c} : op'[d] = op[d]
  BY DEF IInv, TypeOK
<1> QED  BY <1>1, <1>2 DEF Advances

\* The innermost function of a thread, with the rest of the stack.
LEMMA Innermost ==
    ASSUME IInv, NEW t \in Thread, NEW fn \in Fn \ {"handler"}, In(t, fn),
           NEW c, c = Cur(t)
    PROVE  /\ c \in Call /\ fn \in FnsOf(c) /\ FnsOf(c) \subseteq Fn
           /\ op[c] \in OpRecord /\ Consistent(c, op[c], FnsOf(c))
           /\ stack[t] \in Seq(Frame) /\ stack[t] # << >>
           /\ At(fn, c) \in FramesOf(stack[t])
           /\ Tail(stack[t]) \in Seq(Frame)
           /\ FramesOf(Tail(stack[t])) = FramesOf(stack[t]) \ {At(fn, c)}
<1>1. TypeOK /\ StackInv(t) /\ stack[t] \in Seq(Frame)
  BY DEF IInv, TypeOK
<1>2. /\ stack[t] # << >> /\ Head(stack[t]) = At(fn, c)
      /\ Head(stack[t]) \in FramesOf(stack[t])
      /\ c \in Call /\ fn \in FnsOf(c)
  BY <1>1, TopFrame
<1>3. /\ Tail(stack[t]) \in Seq(Frame)
      /\ FramesOf(stack[t]) = FramesOf(Tail(stack[t])) \cup {At(fn, c)}
      /\ At(fn, c) \notin FramesOf(Tail(stack[t]))
  <2>1. At(fn, c).fn \in Fn
    BY DEF At
  <2> QED  BY <1>1, <1>2, <2>1, PopFrame DEF StackInv
<1>4. op[c] \in OpRecord /\ Consistent(c, op[c], FnsOf(c)) /\ FnsOf(c) \subseteq Fn
  BY <1>1, <1>2 DEF IInv, TypeOK, CallInv, FnsOf
<1> QED  BY <1>1, <1>2, <1>3, <1>4

\* The innermost function returns.
LEMMA TopLeaves ==
    ASSUME IInv, IInv', ToppedAll, NEW t \in Thread, NEW fn \in Fn \ {"handler"},
           In(t, fn), NEW c, c = Cur(t),
           NEW o, op' = [op EXCEPT ![c] = o], Same(op[c], o),
           \/ fn \in Inner \cup {"request_cb_end", "outer_idle"}
           \/ fn \in {"callback", "sync_finish"} /\ op[c].phase = "finished",
           stack' = [stack EXCEPT ![t] = Tail(stack[t])]
    PROVE  c \in Call /\ Advances(c) /\ ToppedAll'
<1>1. /\ c \in Call /\ fn \in FnsOf(c)
      /\ stack[t] \in Seq(Frame) /\ stack[t] # << >>
      /\ At(fn, c) \in FramesOf(stack[t])
      /\ Tail(stack[t]) \in Seq(Frame)
      /\ FramesOf(Tail(stack[t])) = FramesOf(stack[t]) \ {At(fn, c)}
  BY Innermost
<1>2. Moves(op[c], FnsOf(c), o, (FnsOf(c) \ {fn}) \cup {})
  <2>1. (FnsOf(c) \ {fn}) \cup {} = FnsOf(c) \ {fn}
    OBVIOUS
  <2>2. Leaves(op[c], FnsOf(c), o, FnsOf(c) \ {fn})
    BY <1>1 DEF Leaves
  <2> QED  BY <2>1, <2>2 DEF Moves, Same
<1>3. Topped(Tail(stack[t]))
  BY <1>1, ToppedPop DEF ToppedAll
<1>4. Shifted(t, c, Tail(stack[t]), {fn}, {})
  BY <1>1 DEF Shifted
<1>  DEFINE s == Tail(stack[t])
<1>5. /\ Shifted(t, c, s, {fn}, {}) /\ Topped(s)
      /\ stack' = [stack EXCEPT ![t] = s]
  BY <1>3, <1>4
<1>  HIDE DEF s
<1>6. Advances(c)
  BY <1>1, <1>2, <1>5, Advanced
<1>7. ToppedAll'
  BY <1>5, ToppedAfter DEF IInv
<1> QED  BY <1>1, <1>6, <1>7

\* g_object_unref changes nothing that matters here, ...
LEMMA UnrefSame ==
    ASSUME NEW o \in OpRecord
    PROVE  Same(o, UnrefInner(o)) /\ Same(o, UnrefOuter(o))
<1>1. Same(o, UnrefInner(o))
  BY DEF OpRecord, UnrefInner, Same
<1>2. Same(o, UnrefOuter(o))
  BY DEF OpRecord, UnrefOuter, Same
<1> QED  BY <1>1, <1>2

\* ... and a new source nothing but the source.
LEMMA SourceSame ==
    ASSUME NEW o \in OpRecord, NEW x \in Context \cup {None}
    PROVE  /\ LET p == Attach(RefOuter(o), "outer", x)
              IN  SameCall(o, p) /\ p.src = "outer"
           /\ \A src \in {"splice", "inner"} :
                LET p == UnrefInner(Attach(RefInner(o), src, x))
                IN  SameCall(o, p) /\ p.src = src
<1>1. LET p == Attach(RefOuter(o), "outer", x) IN SameCall(o, p) /\ p.src = "outer"
  <2>  DEFINE r == RefOuter(o)
  <2>1. r \in OpRecord /\ SameCall(o, r)
    BY RefFields
  <2>  HIDE DEF r
  <2>2. SameCall(r, Attach(r, "outer", x)) /\ Attach(r, "outer", x).src = "outer"
    BY <2>1, AttachFields
  <2>3. SameCall(o, Attach(r, "outer", x)) /\ Attach(r, "outer", x).src = "outer"
    BY <2>1, <2>2 DEF SameCall
  <2> QED  BY <2>3 DEF r
<1>2. ASSUME NEW src \in {"splice", "inner"}
      PROVE  LET p == UnrefInner(Attach(RefInner(o), src, x))
             IN  SameCall(o, p) /\ p.src = src
  BY NextSource
<1> QED  BY <1>1, <1>2

\* The inner task returns, from one of its callbacks.
LEMMA InnerReturnedAdvances ==
    ASSUME IInv, IInv', ToppedAll, NEW t \in Thread, NEW c \in Call,
           op[c].src \in {"send", "splice"}, Iterates(t, op[c].srcCtx),
           NEW b, Answered(op[c], b), NEW fn \in {"send_cb", "splice_cb"},
           InnerReturned(t, c, b, fn)
    PROVE  Advances(c) /\ ToppedAll'
<1>1. /\ b \in OpRecord /\ b.kind = op[c].kind /\ b.sync = op[c].sync
      /\ b.phase = op[c].phase /\ b.running = op[c].running
      /\ b.ctx \in Context \cup {None} /\ InFlight(op[c])
  BY DEF Answered, InFlight, OpRecord
<1>2. TypeOK /\ stack[t] \in Seq(Frame) /\ Calm(stack[t])
  BY LoopCalm DEF IInv, Iterates
<1>3. CASE /\ op' = [op EXCEPT ![c] = Detach(b)]
           /\ stack' = [stack EXCEPT ![t] =
                           Push(At("request_cb", c), Push(At(fn, c), @))]
  <2>  DEFINE r == Push(At(fn, c), stack[t])
              s == Push(At("request_cb", c), r)
              new == {fn, "request_cb"}
  <2>1. /\ fn \in Fn /\ "request_cb" \in Fn /\ fn \in Inner /\ fn \notin Tops
        /\ c \in Call \cup {None}
    BY DEF Fn, Inner, Tops
  <2>2. /\ At(fn, c) \in Frame /\ At(fn, c).fn = fn /\ At("request_cb", c) \in Frame
    BY <2>1, AtFrame
  <2>3. r \in Seq(Frame) /\ FramesOf(r) = FramesOf(stack[t]) \cup {At(fn, c)} /\ Calm(r)
    BY <1>2, <2>1, <2>2, PushFrame, ToppedPush
  <2>  HIDE DEF r
  <2>4. FramesOf(s) = FramesOf(r) \cup {At("request_cb", c)} /\ Topped(s)
    BY <2>2, <2>3, PushFrame, ToppedPush
  <2>5. stack' = [stack EXCEPT ![t] = s]
    BY <1>3 DEF r
  <2>  HIDE DEF s
  <2>6. Shifted(t, c, s, {}, new)
    BY <2>1, <2>3, <2>4 DEF Shifted
  <2>7. Moves(op[c], FnsOf(c), Detach(b), (FnsOf(c) \ {}) \cup new)
    <3>1. SameCall(b, Detach(b)) /\ Detach(b).src = "none"
      BY <1>1, DetachFields
    <3>2. (FnsOf(c) \ {}) \cup new = FnsOf(c) \cup {fn, "request_cb"}
      OBVIOUS
    <3>3. Flies(op[c], FnsOf(c), Detach(b), FnsOf(c) \cup {fn, "request_cb"})
      BY <1>1, <2>1, <3>1 DEF Flies, SameCall
    <3> QED  BY <1>1, <3>1, <3>2, <3>3 DEF Moves, SameCall
  <2>  HIDE DEF new
  <2>8. Advances(c)
    BY <1>3, <2>5, <2>6, <2>7, Advanced
  <2>9. ToppedAll'
    BY <1>2, <2>4, <2>5, ToppedAfter
  <2> QED  BY <2>8, <2>9
<1>4. CASE /\ op' = [op EXCEPT ![c] =
                        UnrefInner(Attach(RefInner(b), "inner", b.ctx))]
           /\ UNCHANGED stack
  <2>  DEFINE p == UnrefInner(Attach(RefInner(b), "inner", b.ctx))
  <2>1. SameCall(b, p) /\ p.src = "inner"
    BY <1>1, SourceSame
  <2>2. op' = [op EXCEPT ![c] = p] /\ UNCHANGED stack
    BY <1>4
  <2>  HIDE DEF p
  <2>3. Moves(op[c], FnsOf(c), p, FnsOf(c))
    BY <1>1, <2>1 DEF Moves, Flies, SameCall
  <2>4. Advances(c)
    BY <2>2, <2>3, AdvancedHere
  <2> QED  BY <2>2, <2>4 DEF ToppedAll
<1> QED  BY <1>3, <1>4 DEF InnerReturned

\* gdav_request_send_cb
LEMMA SendCbAdvances ==
    ASSUME IInv, IInv', ToppedAll, NEW t \in Thread, NEW c \in Call, SendCb(t, c)
    PROVE  Advances(c) /\ ToppedAll'
<1> DEFINE o == Detach(op[c])
<1>1. op[c].src = "send" /\ Iterates(t, op[c].srcCtx) /\ op[c] \in OpRecord
  BY DEF SendCb, IInv, TypeOK
<1>2. Answered(op[c], o) /\ o \in OpRecord
  BY <1>1, DetachAnswered DEF Answered
<1>3. CASE /\ op' = [op EXCEPT ![c] =
                       UnrefInner(Attach(RefInner(o), "splice", DefaultCtx(t)))]
           /\ UNCHANGED stack
  <2>1. DefaultCtx(t) \in Context \cup {None}
    <3>1. DefaultCtx(t) = op[c].ctx
      BY <1>1, Dispatched
    <3> QED  BY <1>1, <3>1 DEF OpRecord
  <2>  DEFINE p == UnrefInner(Attach(RefInner(o), "splice", DefaultCtx(t)))
  <2>  HIDE DEF o
  <2>2. SameCall(o, p) /\ p.src = "splice"
    BY <1>2, <2>1, SourceSame
  <2>3. op' = [op EXCEPT ![c] = p] /\ UNCHANGED stack
    BY <1>3
  <2>  HIDE DEF p
  <2>4. Moves(op[c], FnsOf(c), p, FnsOf(c))
    BY <1>1, <1>2, <2>2 DEF Moves, Flies, InFlight, SameCall, Answered
  <2>5. Advances(c)
    BY <2>3, <2>4, AdvancedHere
  <2> QED  BY <2>3, <2>5 DEF ToppedAll
<1>4. CASE InnerReturned(t, c, [o EXCEPT !.innerRes = "error"], "send_cb")
  <2>1. Answered(op[c], [o EXCEPT !.innerRes = "error"])
    BY <1>2 DEF Answered, OpRecord
  <2> QED  BY <1>1, <1>4, <2>1, InnerReturnedAdvances
<1> QED  BY <1>3, <1>4 DEF SendCb

\* gdav_request_splice_cb
LEMMA SpliceCbAdvances ==
    ASSUME IInv, IInv', ToppedAll, NEW t \in Thread, NEW c \in Call, SpliceCb(t, c)
    PROVE  Advances(c) /\ ToppedAll'
<1> DEFINE o == Detach(op[c])
<1>1. op[c].src = "splice" /\ Iterates(t, op[c].srcCtx) /\ op[c] \in OpRecord
  BY DEF SpliceCb, IInv, TypeOK
<1>2. Answered(op[c], o) /\ o \in OpRecord
  BY <1>1, DetachAnswered DEF Answered
<1>3. ASSUME NEW filled \in BOOLEAN,
             InnerReturned(t, c, [CopyBody(o, filled) EXCEPT !.innerRes = "ok"],
                           "splice_cb")
      PROVE  Advances(c) /\ ToppedAll'
  <2> DEFINE n == IF o.copies + One(filled) = 0 THEN 1 ELSE o.copies + One(filled)
             m == CopyBody(o, filled)
             b == [m EXCEPT !.innerRes = "ok"]
  <2>1. n \in Nat
    BY <1>2 DEF OpRecord, One
  <2>2. m = [o EXCEPT !.copies = n]
    BY DEF CopyBody
  <2>  HIDE DEF n, m
  <2>3. Answered(op[c], m)
    BY <1>2, <2>1, <2>2 DEF Answered, OpRecord
  <2>4. Answered(op[c], b)
    BY <2>3 DEF Answered, OpRecord
  <2> QED  BY <1>1, <1>3, <2>4, InnerReturnedAdvances DEF m
<1>4. CASE InnerReturned(t, c, [o EXCEPT !.innerRes = "error"], "splice_cb")
  <2>1. Answered(op[c], [o EXCEPT !.innerRes = "error"])
    BY <1>2 DEF Answered, OpRecord
  <2> QED  BY <1>1, <1>4, <2>1, InnerReturnedAdvances
<1> QED  BY <1>3, <1>4 DEF SpliceCb

\* The idle source of the inner task.
LEMMA InnerIdleAdvances ==
    ASSUME IInv, IInv', ToppedAll, NEW t \in Thread, NEW c \in Call, InnerIdle(t, c)
    PROVE  Advances(c) /\ ToppedAll'
<1> DEFINE o == Detach(op[c])
           r == Push(At("inner_idle", c), stack[t])
           s == Push(At("request_cb", c), r)
           new == {"inner_idle", "request_cb"}
<1>1. /\ op[c].src = "inner" /\ Iterates(t, op[c].srcCtx) /\ op[c] \in OpRecord
      /\ op' = [op EXCEPT ![c] = o] /\ stack' = [stack EXCEPT ![t] = s]
  BY DEF InnerIdle, IInv, TypeOK
<1>2. TypeOK /\ stack[t] \in Seq(Frame) /\ Calm(stack[t])
  BY <1>1, LoopCalm DEF IInv, Iterates
<1>3. /\ "inner_idle" \in Fn /\ "request_cb" \in Fn /\ "inner_idle" \in Inner
      /\ "inner_idle" \notin Tops /\ c \in Call \cup {None}
  BY DEF Fn, Inner, Tops
<1>4. /\ At("inner_idle", c) \in Frame /\ At("inner_idle", c).fn = "inner_idle"
      /\ At("request_cb", c) \in Frame
  BY <1>3, AtFrame
<1>5. /\ r \in Seq(Frame) /\ FramesOf(r) = FramesOf(stack[t]) \cup {At("inner_idle", c)}
      /\ Calm(r)
  BY <1>2, <1>3, <1>4, PushFrame, ToppedPush
<1>  HIDE DEF r
<1>6. FramesOf(s) = FramesOf(r) \cup {At("request_cb", c)} /\ Topped(s)
  BY <1>4, <1>5, PushFrame, ToppedPush
<1>7. SameCall(op[c], o) /\ o.src = "none"
  BY <1>1, DetachFields
<1>  HIDE DEF s, o
<1>8. Shifted(t, c, s, {}, new)
  BY <1>3, <1>5, <1>6 DEF Shifted
<1>9. Moves(op[c], FnsOf(c), o, (FnsOf(c) \ {}) \cup new)
  <2>1. (FnsOf(c) \ {}) \cup new = FnsOf(c) \cup {"inner_idle", "request_cb"}
    OBVIOUS
  <2>2. Flies(op[c], FnsOf(c), o, FnsOf(c) \cup {"inner_idle", "request_cb"})
    BY <1>1, <1>3, <1>7 DEF Flies, InFlight, SameCall
  <2> QED  BY <1>7, <2>1, <2>2 DEF Moves, SameCall
<1>  HIDE DEF new
<1>10. Advances(c)
  BY <1>1, <1>8, <1>9, Advanced
<1>11. ToppedAll'
  BY <1>1, <1>2, <1>6, ToppedAfter
<1> QED  BY <1>10, <1>11

\* The callback of the outer task is called.
LEMMA InvokeAdvances ==
    ASSUME IInv, IInv', ToppedAll, NEW t \in Thread, NEW c \in Call,
           NEW b, Resolved(op[c], b), NEW r \in Seq(Frame), Calm(r),
           NEW out, NEW new, Shifted(t, c, r, out, new), Invoke(t, c, b, r),
           "sync_run" \notin FnsOf(c),
           \/ "request_cb" \in FnsOf(c) /\ out = {"request_cb"} /\ new = {"request_cb_end"}
           \/ op[c].src = "outer" /\ out = {} /\ new = {"outer_idle"}
    PROVE  Advances(c) /\ ToppedAll'
<1> DEFINE a == [b EXCEPT !.called = @ + 1, !.phase = "ready"]
           rest == (FnsOf(c) \ out) \cup new
<1>1. /\ op' = [op EXCEPT ![c] = IF b.sync THEN ClosureCallback(a) ELSE a]
      /\ stack' = [stack EXCEPT ![t] = IF b.sync THEN r ELSE Push(At("callback", c), r)]
  BY DEF Invoke
<1>2. /\ b \in OpRecord /\ b.src = "none" /\ b.kind = op[c].kind
      /\ b.sync = op[c].sync /\ b.running = op[c].running
  BY DEF Resolved
<1>3. /\ a \in OpRecord /\ a.phase = "ready" /\ a.src = "none" /\ a.kind = op[c].kind
      /\ a.sync = op[c].sync /\ a.running = op[c].running /\ a.result = b.result
  <2>  DEFINE n == b.called + 1
  <2>1. n \in Nat /\ a = [b EXCEPT !.called = n, !.phase = "ready"]
    BY <1>2 DEF OpRecord
  <2>  HIDE DEF n, a
  <2> QED  BY <1>2, <2>1 DEF OpRecord
<1>  HIDE DEF a
<1>4. /\ rest \in SUBSET Fn
      /\ \/ "request_cb" \in FnsOf(c) /\ rest = Replaced(FnsOf(c))
         \/ op[c].src = "outer" /\ rest = FnsOf(c) \cup {"outer_idle"}
  BY DEF Replaced, FnsOf, Fn
<1>5. TypeOK
  BY DEF IInv
<1>6. CASE b.sync
  <2>  DEFINE k == IF a.result THEN UnrefOuter(a) ELSE a
              p == [RefOuter(k) EXCEPT !.result = TRUE, !.running = FALSE]
  <2>1. op' = [op EXCEPT ![c] = p] /\ stack' = [stack EXCEPT ![t] = r]
    BY <1>1, <1>6 DEF ClosureCallback
  <2>2. op[c].phase = "begun" /\ ~op[c].result
    <3>1. Consistent(c, op[c], FnsOf(c))
      BY DEF IInv, CallInv
    <3>2. Pending(op[c], FnsOf(c))
      BY DEF Pending
    <3> QED  BY <3>1, <3>2 DEF Consistent, Staged
  <2>3. k = a
    BY <1>3, <2>2 DEF Resolved
  <2>  HIDE DEF k
  <2>  DEFINE q == RefOuter(k)
  <2>4. q \in OpRecord /\ SameCall(a, q) /\ SameSource(a, q)
    BY <1>3, <2>3, RefFields
  <2>  HIDE DEF q
  <2>5. /\ p.phase = "ready" /\ p.src = "none" /\ p.kind = op[c].kind
        /\ p.sync = op[c].sync /\ ~p.running
    BY <1>3, <2>4 DEF OpRecord, SameCall, SameSource, q
  <2>  HIDE DEF p
  <2>6. Moves(op[c], FnsOf(c), p, rest)
    <3>1. Calls(op[c], FnsOf(c), p, rest)
      BY <1>2, <1>4, <1>6, <2>5 DEF Calls
    <3> QED  BY <2>5, <3>1 DEF Moves
  <2>7. Advances(c)
    BY <2>1, <2>6, Advanced
  <2>8. ToppedAll'
    BY <1>5, <2>1, ToppedPop, ToppedAfter
  <2> QED  BY <2>7, <2>8
<1>7. CASE ~b.sync
  <2>  DEFINE s == Push(At("callback", c), r)
              more == new \cup {"callback"}
  <2>1. op' = [op EXCEPT ![c] = a] /\ stack' = [stack EXCEPT ![t] = s]
    BY <1>1, <1>7
  <2>2. "callback" \in Fn /\ At("callback", c) \in Frame
    <3>1. "callback" \in Fn /\ c \in Call \cup {None}
      BY DEF Fn
    <3> QED  BY <3>1, AtFrame
  <2>3. FramesOf(s) = FramesOf(r) \cup {At("callback", c)} /\ Topped(s)
    BY <2>2, PushFrame, ToppedPush
  <2>  HIDE DEF s
  <2>4. Shifted(t, c, s, out, more)
    BY <2>2, <2>3 DEF Shifted
  <2>5. Moves(op[c], FnsOf(c), a, (FnsOf(c) \ out) \cup more)
    <3>1. (FnsOf(c) \ out) \cup more = rest \cup {"callback"}
      OBVIOUS
    <3>2. Calls(op[c], FnsOf(c), a, rest \cup {"callback"})
      BY <1>2, <1>3, <1>4, <1>7 DEF Calls
    <3> QED  BY <1>3, <3>1, <3>2 DEF Moves
  <2>  HIDE DEF more
  <2>6. Advances(c)
    BY <2>1, <2>4, <2>5, Advanced
  <2>7. ToppedAll'
    BY <1>5, <2>1, <2>3, ToppedAfter
  <2> QED  BY <2>6, <2>7
<1> QED  BY <1>6, <1>7

\* The idle source of the outer task.
LEMMA OuterIdleAdvances ==
    ASSUME IInv, IInv', ToppedAll, NEW t \in Thread, NEW c \in Call, OuterIdle(t, c)
    PROVE  Advances(c) /\ ToppedAll'
<1> DEFINE b == Detach(op[c])
           r == Push(At("outer_idle", c), stack[t])
<1>1. /\ op[c].src = "outer" /\ op[c].src # "none" /\ Iterates(t, op[c].srcCtx)
      /\ Invoke(t, c, b, r) /\ op[c] \in OpRecord
  BY DEF OuterIdle, IInv, TypeOK
<1>2. stack[t] \in Seq(Frame) /\ Calm(stack[t]) /\ "sync_run" \notin FnsOf(c)
  BY <1>1, LoopCalm, Dispatched DEF IInv, Iterates
<1>3. Resolved(op[c], b)
  <2>1. Answered(op[c], b)
    BY <1>1, DetachAnswered
  <2>2. op[c].outerRes # "none"
    BY <1>1 DEF IInv, CallInv, Consistent, Staged
  <2> QED  BY <2>1, <2>2 DEF Answered, Resolved
<1>4. /\ "outer_idle" \in Fn /\ At("outer_idle", c) \in Frame
      /\ At("outer_idle", c).fn \notin Tops
  <2>1. "outer_idle" \in Fn /\ "outer_idle" \notin Tops /\ c \in Call \cup {None}
    BY DEF Fn, Tops
  <2> QED  BY <2>1, AtFrame
<1>5. /\ r \in Seq(Frame) /\ Calm(r)
      /\ FramesOf(r) = FramesOf(stack[t]) \cup {At("outer_idle", c)}
  BY <1>2, <1>4, PushFrame, ToppedPush
<1>6. Shifted(t, c, r, {}, {"outer_idle"})
  BY <1>4, <1>5 DEF Shifted
<1>  HIDE DEF b, r
<1> QED  BY <1>1, <1>2, <1>3, <1>5, <1>6, InvokeAdvances

\* gdav_options_request_cb and gdav_propfind_request_cb
LEMMA RequestCbAdvances ==
    ASSUME IInv, IInv', ToppedAll, NEW t \in Thread, RequestCb(t)
    PROVE  Cur(t) \in Call /\ Advances(Cur(t)) /\ ToppedAll'
<1> DEFINE c == Cur(t)
           r == Push(At("request_cb_end", c), Tail(stack[t]))
<1>1. /\ In(t, "request_cb") /\ "request_cb" \in Fn \ {"handler"} /\ c = Cur(t)
      /\ OptionsRequestCb(t, c, r) \/ PropfindRequestCb(t, c, r)
      /\ op[c].kind = "options" => OptionsRequestCb(t, c, r)
  BY DEF RequestCb, Fn
<1>  HIDE DEF c
<1>2. /\ c \in Call /\ "request_cb" \in FnsOf(c) /\ op[c] \in OpRecord
      /\ Consistent(c, op[c], FnsOf(c))
      /\ stack[t] \in Seq(Frame) /\ stack[t] # << >>
      /\ At("request_cb", c) \in FramesOf(stack[t])
      /\ Tail(stack[t]) \in Seq(Frame)
      /\ FramesOf(Tail(stack[t])) = FramesOf(stack[t]) \ {At("request_cb", c)}
  BY <1>1, Innermost
<1>3. op[c].src = "none" /\ "sync_run" \notin FnsOf(c)
  BY <1>2 DEF Consistent, Staged, Closed, Sync
<1>4. /\ "request_cb_end" \in Fn /\ At("request_cb_end", c) \in Frame
      /\ At("request_cb_end", c).fn \notin Tops
  <2>1. "request_cb_end" \in Fn /\ "request_cb_end" \notin Tops /\ c \in Call \cup {None}
    BY <1>2 DEF Fn, Tops
  <2> QED  BY <2>1, AtFrame
<1>5. Calm(Tail(stack[t]))
  BY <1>2, ToppedPop DEF ToppedAll
<1>6. /\ r \in Seq(Frame) /\ Calm(r) /\ Topped(r)
      /\ FramesOf(r) = FramesOf(Tail(stack[t])) \cup {At("request_cb_end", c)}
  BY <1>2, <1>4, <1>5, PushFrame, ToppedPush
<1>7. Shifted(t, c, r, {"request_cb"}, {"request_cb_end"})
  BY <1>1, <1>2, <1>4, <1>6 DEF Shifted
<1>  HIDE DEF r
<1>8. /\ (FnsOf(c) \ {"request_cb"}) \cup {"request_cb_end"} = Replaced(FnsOf(c))
      /\ TypeOK
  BY DEF Replaced, IInv
<1>9. ASSUME NEW b, Resolved(op[c], b), OuterReturned(t, c, b, FALSE, r)
      PROVE  Advances(c) /\ ToppedAll'
  <2>1. CASE Invoke(t, c, b, r)
    BY <1>2, <1>3, <1>6, <1>7, <1>9, <2>1, InvokeAdvances
  <2>2. CASE /\ op' = [op EXCEPT ![c] = Attach(RefOuter(b), "outer", b.ctx)]
             /\ stack' = [stack EXCEPT ![t] = r]
    <3>  DEFINE p == Attach(RefOuter(b), "outer", b.ctx)
    <3>1. SameCall(b, p) /\ p.src = "outer"
      BY <1>9, SourceSame DEF Resolved, OpRecord
    <3>2. op' = [op EXCEPT ![c] = p]
      BY <2>2
    <3>  HIDE DEF p
    <3>3. Moves(op[c], FnsOf(c), p, Replaced(FnsOf(c)))
      <4>1. Answers(op[c], FnsOf(c), p, Replaced(FnsOf(c)))
        BY <1>2, <1>3, <1>9, <3>1 DEF Answers, SameCall, Resolved
      <4> QED  BY <1>9, <3>1, <4>1 DEF Moves, SameCall, Resolved
    <3>4. Advances(c)
      BY <1>2, <1>7, <1>8, <2>2, <3>2, <3>3, Advanced
    <3> QED  BY <1>6, <1>8, <2>2, <3>4, ToppedAfter
  <2> QED  BY <1>9, <2>1, <2>2 DEF OuterReturned
<1>10. ASSUME NEW res \in {"ok", "error"}
       PROVE  /\ Resolved(op[c], [op[c] EXCEPT !.outerRes = res])
              /\ Resolved(op[c], [op[c] EXCEPT !.outerRes = res, !.object = "task"])
  BY <1>2, <1>3, ZenonT(40) DEF Resolved, OpRecord
<1>11. CASE OptionsRequestCb(t, c, r)
  <2>  DEFINE res == IF Failed(c, op[c].innerRes) THEN "error" ELSE "ok"
  <2>1. res \in {"ok", "error"} /\ OuterReturned(t, c, [op[c] EXCEPT !.outerRes = res],
                                                 FALSE, r)
    BY <1>11 DEF OptionsRequestCb
  <2>  HIDE DEF res
  <2> QED  BY <1>2, <1>9, <1>10, <2>1 DEF c
<1>12. CASE PropfindRequestCb(t, c, r) /\ op[c].kind # "options"
  <2>1. CASE OuterReturned(t, c, [op[c] EXCEPT !.outerRes = "error"], FALSE, r)
    BY <1>2, <1>9, <1>10, <2>1 DEF c
  <2>2. CASE OuterReturned(t, c, [op[c] EXCEPT !.outerRes = "ok", !.object = "task"],
                           FALSE, r)
    BY <1>2, <1>9, <1>10, <2>2 DEF c
  <2>3. CASE /\ "nothing" \in ParseOutcome
             /\ stack' = [stack EXCEPT ![t] = r] /\ UNCHANGED op
    <3>1. op' = [op EXCEPT ![c] = op[c]]
      BY <1>8, <2>3 DEF TypeOK
    <3>2. Moves(op[c], FnsOf(c), op[c], Replaced(FnsOf(c)))
      <4>1. op[c].kind = "propfind"
        BY <1>2, <1>12 DEF OpRecord
      <4>2. Answers(op[c], FnsOf(c), op[c], Replaced(FnsOf(c)))
        BY <1>2, <1>3, <2>3, <4>1 DEF Answers
      <4> QED  BY <4>2 DEF Moves
    <3>3. Advances(c)
      BY <1>2, <1>7, <1>8, <2>3, <3>1, <3>2, Advanced
    <3> QED  BY <1>2, <1>6, <1>8, <2>3, <3>3, ToppedAfter DEF c
  <2> QED  BY <1>12, <2>1, <2>2, <2>3 DEF PropfindRequestCb
<1> QED  BY <1>1, <1>11, <1>12

\* The ends of the callbacks, of gdav_options_sync and of the application's.
LEMMA LeaveAdvances ==
    ASSUME IInv, IInv', ToppedAll, NEW t \in Thread,
           \/ LeaveInner(t) \/ LeaveOuter(t) \/ ClosureFree(t)
           \/ UserReturn(t) /\ In(t, "callback")
    PROVE  Cur(t) \in Call /\ Advances(Cur(t)) /\ ToppedAll'
<1> DEFINE c == Cur(t)
           o == op[c]
<1>1. TypeOK /\ stack' = [stack EXCEPT ![t] = Tail(stack[t])] /\ c = Cur(t)
  BY DEF IInv, LeaveInner, LeaveOuter, ClosureFree, UserReturn
<1>2. CASE LeaveInner(t)
  <2>1. PICK fn \in Inner : In(t, fn)
    BY <1>2 DEF LeaveInner, Inner
  <2>2. fn \in Fn \ {"handler"}
    BY DEF Inner, Fn
  <2>3. op' = [op EXCEPT ![c] = UnrefInner(o)]
    BY <1>2 DEF LeaveInner
  <2>  HIDE DEF c
  <2>4. Same(o, UnrefInner(o))
    <3>1. o \in OpRecord
      BY <1>1, <2>1, <2>2, Innermost
    <3> QED  BY <3>1, UnrefSame
  <2> QED  BY <1>1, <2>1, <2>2, <2>3, <2>4, TopLeaves
<1>3. CASE LeaveOuter(t)
  <2>1. PICK fn \in {"request_cb_end", "outer_idle"} : In(t, fn)
    BY <1>3 DEF LeaveOuter
  <2>2. fn \in Fn \ {"handler"}
    BY DEF Fn
  <2>3. op' = [op EXCEPT ![c] = UnrefOuter(o)]
    BY <1>3 DEF LeaveOuter
  <2>  HIDE DEF c
  <2>4. Same(o, UnrefOuter(o))
    <3>1. o \in OpRecord
      BY <1>1, <2>1, <2>2, Innermost
    <3> QED  BY <3>1, UnrefSame
  <2> QED  BY <1>1, <2>1, <2>2, <2>3, <2>4, TopLeaves
<1>4. CASE ClosureFree(t)
  <2>  DEFINE r == [o EXCEPT !.result = FALSE]
              p == IF o.result THEN UnrefOuter(r) ELSE o
  <2>1. /\ In(t, "sync_finish") /\ o.phase = "finished" /\ op' = [op EXCEPT ![c] = p]
        /\ "sync_finish" \in Fn \ {"handler"}
    BY <1>4 DEF ClosureFree, Fn
  <2>  HIDE DEF c
  <2>2. o \in OpRecord
    BY <1>1, <2>1, Innermost
  <2>3. r \in OpRecord /\ Same(o, r)
    BY <2>2 DEF OpRecord, Same
  <2>  HIDE DEF r
  <2>4. Same(o, p)
    BY <2>3, UnrefSame DEF Same
  <2>  HIDE DEF p
  <2> QED  BY <1>1, <2>1, <2>4, TopLeaves
<1>5. CASE UserReturn(t) /\ In(t, "callback")
  <2>1. /\ In(t, "callback") /\ o.phase = "finished" /\ UNCHANGED op
        /\ "callback" \in Fn \ {"handler"}
    BY <1>5 DEF UserReturn, In, Fn
  <2>  HIDE DEF c
  <2>2. op' = [op EXCEPT ![c] = o] /\ Same(o, o)
    BY <1>1, <2>1 DEF Same, TypeOK
  <2> QED  BY <1>1, <2>1, <2>2, TopLeaves
<1> QED  BY <1>2, <1>3, <1>4, <1>5

\* A function of the closure of a synchronous call takes over from another.
LEMMA LoopAdvances ==
    ASSUME IInv, IInv', ToppedAll, NEW t \in Thread, ClosureWait(t) \/ ClosureQuit(t)
    PROVE  Cur(t) \in Call /\ Advances(Cur(t)) /\ ToppedAll'
<1> DEFINE c == Cur(t)
           o == op[c]
<1>1. ASSUME NEW fn \in {"sync_run", "sync_wait"}, NEW gn \in {"sync_wait", "sync_finish"},
             In(t, fn), NEW p, op' = [op EXCEPT ![c] = p],
             stack' = [stack EXCEPT ![t] = Push(At(gn, c), Tail(stack[t]))],
             c \in Call /\ op[c] \in OpRecord /\ fn \in FnsOf(c) =>
               Moves(o, FnsOf(c), p, (FnsOf(c) \ {fn}) \cup {gn})
      PROVE  c \in Call /\ Advances(c) /\ ToppedAll'
  <2>  DEFINE s == Push(At(gn, c), Tail(stack[t]))
  <2>1. fn \in Fn \ {"handler"} /\ gn \in Fn /\ c = Cur(t)
    BY DEF Fn
  <2>2. /\ c \in Call /\ fn \in FnsOf(c) /\ op[c] \in OpRecord
        /\ stack[t] \in Seq(Frame) /\ stack[t] # << >>
        /\ At(fn, c) \in FramesOf(stack[t])
        /\ Tail(stack[t]) \in Seq(Frame)
        /\ FramesOf(Tail(stack[t])) = FramesOf(stack[t]) \ {At(fn, c)}
    BY <1>1, <2>1, Innermost
  <2>3. Moves(o, FnsOf(c), p, (FnsOf(c) \ {fn}) \cup {gn})
    BY <1>1, <2>2
  <2>4. op' = [op EXCEPT ![c] = p] /\ stack' = [stack EXCEPT ![t] = s]
    BY <1>1
  <2>  HIDE DEF c
  <2>5. At(gn, c) \in Frame
    BY <2>1, <2>2, AtFrame
  <2>6. FramesOf(s) = FramesOf(Tail(stack[t])) \cup {At(gn, c)} /\ Topped(s)
    <3>1. Calm(Tail(stack[t]))
      BY <2>2, ToppedPop DEF ToppedAll
    <3> QED  BY <2>2, <2>5, <3>1, PushFrame, ToppedPush
  <2>7. Shifted(t, c, s, {fn}, {gn})
    BY <2>1, <2>2, <2>6 DEF Shifted
  <2>  HIDE DEF s
  <2>8. Advances(c)
    BY <2>2, <2>3, <2>4, <2>7, Advanced
  <2>9. ToppedAll'
    BY <2>4, <2>6, ToppedAfter DEF IInv
  <2> QED  BY <2>2, <2>8, <2>9
<1>2. CASE ClosureWait(t)
  <2>  DEFINE p == [o EXCEPT !.running = TRUE]
  <2>1. /\ In(t, "sync_run") /\ op' = [op EXCEPT ![c] = p]
        /\ stack' = [stack EXCEPT ![t] = Push(At("sync_wait", c), Tail(stack[t]))]
    BY <1>2 DEF ClosureWait
  <2>2. ASSUME op[c] \in OpRecord, "sync_run" \in FnsOf(c)
        PROVE  Moves(o, FnsOf(c), p, (FnsOf(c) \ {"sync_run"}) \cup {"sync_wait"})
    <3>1. /\ p.phase = o.phase /\ p.src = o.src /\ p.running
          /\ p.kind = o.kind /\ p.sync = o.sync
      BY <2>2 DEF OpRecord
    <3>  HIDE DEF p
    <3>2. Loops(o, FnsOf(c), p, (FnsOf(c) \ {"sync_run"}) \cup {"sync_wait"})
      BY <2>2, <3>1 DEF Loops
    <3> QED  BY <3>1, <3>2 DEF Moves
  <2>  HIDE DEF p
  <2> QED  BY <1>1, <2>1, <2>2
<1>3. CASE ClosureQuit(t)
  <2>1. /\ In(t, "sync_wait") /\ ~o.running /\ op' = [op EXCEPT ![c] = o]
        /\ stack' = [stack EXCEPT ![t] = Push(At("sync_finish", c), Tail(stack[t]))]
    BY <1>3 DEF ClosureQuit, IInv, TypeOK
  <2>2. ASSUME "sync_wait" \in FnsOf(c)
        PROVE  Moves(o, FnsOf(c), o, (FnsOf(c) \ {"sync_wait"}) \cup {"sync_finish"})
    <3>1. Loops(o, FnsOf(c), o, (FnsOf(c) \ {"sync_wait"}) \cup {"sync_finish"})
      BY <2>1, <2>2 DEF Loops
    <3> QED  BY <3>1 DEF Moves
  <2> QED  BY <1>1, <2>1, <2>2
<1> QED  BY <1>2, <1>3

\* A finish function.
LEMMA FinishAdvances ==
    ASSUME IInv, ToppedAll, NEW t \in Thread, FinishOutputs(t) \/ FinishPropagate(t)
    PROVE  Cur(t) \in Call /\ Advances(Cur(t)) /\ ToppedAll'
<1> DEFINE c == Cur(t)
           o == op[c]
<1>1. PICK fn \in Fn \ {"handler"} : In(t, fn)
  BY DEF FinishOutputs, FinishPropagate, Fn
<1>2. c \in Call /\ o \in OpRecord /\ UNCHANGED stack
  <2>1. c = Cur(t)
    OBVIOUS
  <2>  HIDE DEF c
  <2> QED  BY <1>1, <2>1, Innermost DEF FinishOutputs, FinishPropagate
<1>3. CASE FinishOutputs(t)
  <2>  DEFINE taken == Taken(c, o)
              outs == o.kind = "options" /\ ~Failed(c, o.outerRes)
  <2>1. PICK wanted \in BOOLEAN :
           op' = [op EXCEPT ![c] =
                    [o EXCEPT !.phase = "finishing", !.wanted = wanted, !.outs = outs,
                              !.message = IF wanted THEN taken ELSE o.message]]
    BY <1>3 DEF FinishOutputs, Handed
  <2>  DEFINE m == IF wanted THEN taken ELSE o.message
              p == [o EXCEPT !.phase = "finishing", !.wanted = wanted,
                             !.outs = outs, !.message = m]
  <2>2. op' = [op EXCEPT ![c] = p] /\ o.phase = "ready"
    BY <1>3, <2>1 DEF FinishOutputs
  <2>  HIDE DEF outs, m
  <2>3. /\ p.phase = "finishing" /\ p.src = o.src /\ p.running = o.running
        /\ p.kind = o.kind /\ p.sync = o.sync
    BY <1>2 DEF OpRecord
  <2>  HIDE DEF p, c
  <2>4. Moves(op[c], FnsOf(c), p, FnsOf(c))
    BY <2>2, <2>3 DEF Moves, Finishes
  <2>5. Advances(c)
    BY <1>2, <2>2, <2>4, AdvancedHere
  <2> QED  BY <1>2, <2>5 DEF ToppedAll, c
<1>4. CASE FinishPropagate(t)
  <2>  DEFINE ret == Propagated(c, o.outerRes)
              x == IF ret = "ok" /\ o.object = "task" THEN "caller" ELSE o.object
              p == Settled(o, ret, x)
  <2>1. op' = [op EXCEPT ![c].phase = "finished", ![c].ret = ret, ![c].object = x]
        /\ o.phase = "finishing"
    BY <1>4 DEF FinishPropagate
  <2>2. /\ ret \in {"none", "ok", "error"}
        /\ x \in {"none", "task", "caller", "freed"}
    BY <1>2 DEF Propagated, OpRecord
  <2>  HIDE DEF ret, x
  <2>3. op' = [op EXCEPT ![c] = p]
    BY <1>2, <2>1 DEF OpRecord, Settled, IInv, TypeOK
  <2>4. /\ p.phase = "finished" /\ p.src = o.src /\ p.running = o.running
        /\ p.sync = o.sync
    BY <1>2, <2>2, PropagateFields
  <2>5. p.kind = o.kind
    BY <1>2 DEF Settled, OpRecord
  <2>  HIDE DEF p, c
  <2>6. Moves(op[c], FnsOf(c), p, FnsOf(c))
    BY <2>1, <2>4, <2>5 DEF Moves, Finishes
  <2>7. Advances(c)
    BY <1>2, <2>3, <2>6, AdvancedHere
  <2> QED  BY <1>2, <2>7 DEF ToppedAll, c
<1> QED  BY <1>3, <1>4

\* A call begins.
LEMMA BeginAdvances ==
    ASSUME IInv, IInv', ToppedAll, NEW t \in Thread, NEW c \in Call, NEW k \in Kind,
           BeginAsync(t, c, k) \/ BeginSync(t, c, k)
    PROVE  Advances(c) /\ ToppedAll'
<1>1. InUserCode(t) /\ op[c].phase = "idle"
  BY DEF BeginAsync, BeginSync
<1>2. TypeOK /\ defaults[t] = << >> /\ FnsOf(c) = {} /\ stack[t] \in Seq(Frame)
  BY <1>1, BeginFacts DEF IInv, TypeOK
<1>3. Calm(stack[t])
  <2>1. Head(stack[t]).fn \notin Tops
    BY <1>1 DEF InUserCode, In, Tops
  <2> QED  BY <1>2, <2>1, ToppedPop DEF ToppedAll
<1>4. CASE BeginAsync(t, c, k)
  <2>  DEFINE sync == FALSE
              fns == {}
              s == stack[t]
  <2>1. DefaultCtx(t) = t /\ t \in Context
    BY <1>2 DEF DefaultCtx, Default, Context
  <2>2. Begin(t, c, k, sync, t, s) /\ sync \in BOOLEAN /\ Starts(c, sync, t, fns)
    BY <1>4, <2>1 DEF Starts, BeginAsync
  <2>  HIDE DEF sync, fns, s
  <2>3. PICK o : /\ stack' = [stack EXCEPT ![t] = s] /\ op' = [op EXCEPT ![c] = o]
                 /\ Fresh(o, sync, t)
    BY <2>1, <2>2, BeginMoves
  <2>4. Moves(op[c], FnsOf(c), o, FnsOf(c))
    BY <1>1, <1>2, <2>3 DEF Moves, Begins, Fresh, sync
  <2>5. UNCHANGED stack
    BY <1>2, <2>3 DEF TypeOK, s
  <2>6. Advances(c)
    BY <2>3, <2>4, <2>5, AdvancedHere
  <2> QED  BY <2>5, <2>6 DEF ToppedAll
<1>5. CASE BeginSync(t, c, k)
  <2>  DEFINE sync == TRUE
              fns == {"sync_run"}
              s == Push(At("sync_run", c), stack[t])
              pushed == PushDefault(ClosureContext(t, c), defaults[t])
  <2>1. pushed = <<c>>
    BY <1>2 DEF PushDefault, ClosureContext, Push
  <2>2. Begin(t, c, k, sync, Default(t, pushed), s)
    BY <1>5 DEF BeginSync
  <2>  HIDE DEF pushed
  <2>3. Default(t, pushed) = c /\ c \in Context
    BY <2>1 DEF Default, Context
  <2>4. Begin(t, c, k, sync, c, s) /\ sync \in BOOLEAN /\ Starts(c, sync, c, fns)
    BY <2>2, <2>3 DEF Starts
  <2>5. At("sync_run", c) \in Frame /\ "sync_run" \in Fn
    <3>1. "sync_run" \in Fn /\ c \in Call \cup {None}
      BY DEF Fn
    <3> QED  BY <3>1, AtFrame
  <2>6. FramesOf(s) = FramesOf(stack[t]) \cup {At("sync_run", c)} /\ Topped(s)
    BY <1>2, <1>3, <2>5, PushFrame, ToppedPush
  <2>  HIDE DEF sync, s
  <2>7. Shifted(t, c, s, {}, {"sync_run"})
    BY <2>5, <2>6 DEF Shifted
  <2>  HIDE DEF fns
  <2>8. PICK o : /\ stack' = [stack EXCEPT ![t] = s] /\ op' = [op EXCEPT ![c] = o]
                 /\ Fresh(o, sync, c)
    BY <2>3, <2>4, BeginMoves
  <2>9. Moves(op[c], FnsOf(c), o, (FnsOf(c) \ {}) \cup {"sync_run"})
    <3>1. (FnsOf(c) \ {}) \cup {"sync_run"} = {"sync_run"}
      BY <1>2
    <3> QED  BY <1>1, <2>8, <3>1 DEF Moves, Begins, Fresh, sync
  <2>10. Advances(c)
    BY <2>7, <2>8, <2>9, Advanced
  <2>11. ToppedAll'
    BY <1>2, <2>6, <2>8, ToppedAfter
  <2> QED  BY <2>10, <2>11
<1> QED  BY <1>4, <1>5

\* A step of the application that concerns no call.
Aside == op' = op /\ \A c \in Call : FnsOf(c)' = FnsOf(c)

LEMMA BesideAside ==
    ASSUME IInv, IInv', ToppedAll, NEW t \in Thread,
           \/ Handler(t) \/ \E c \in Call : Signal(t, c)
           \/ UserReturn(t) /\ ~In(t, "callback")
    PROVE  Aside /\ ToppedAll'
<1>1. TypeOK /\ TypeOK' /\ stack[t] \in Seq(Frame)
  BY DEF IInv, TypeOK
<1>2. PICK h, s :
         /\ h \in Beside
         /\ stack' = [stack EXCEPT ![t] = s] /\ Topped(s)
         /\ FramesOf(s) \ {h} = FramesOf(stack[t]) \ {h}
  <2>1. CASE Handler(t) \/ \E c \in Call : Signal(t, c)
    <3>1. PICK h \in Beside : stack' = [stack EXCEPT ![t] = Push(h, stack[t])]
      BY <2>1 DEF Handler, Signal, Beside
    <3>2. Calm(stack[t])
      <4>1. InMainLoop(t)
        BY <2>1 DEF Handler, Signal, Iterates
      <4> QED  BY <1>1, <4>1, LoopCalm
    <3>3. /\ Topped(Push(h, stack[t]))
          /\ FramesOf(Push(h, stack[t])) = FramesOf(stack[t]) \cup {h}
      BY <1>1, <3>2, BesideFrame, PushFrame, ToppedPush
    <3> QED  BY <3>1, <3>3
  <2>2. CASE UserReturn(t) /\ ~In(t, "callback")
    <3>  DEFINE s == Tail(stack[t])
                h == Head(stack[t])
    <3>1. stack[t] # << >> /\ h \in Beside /\ stack' = [stack EXCEPT ![t] = s]
      BY <2>2, BesideReturns
    <3>2. s \in Seq(Frame) /\ FramesOf(stack[t]) = FramesOf(s) \cup {h}
      BY <1>1, <3>1, PopFrame
    <3>3. Topped(s)
      BY <1>1, <3>1, <3>2, ToppedPop DEF ToppedAll
    <3>  HIDE DEF s, h
    <3> QED  BY <3>1, <3>2, <3>3
  <2> QED  BY <2>1, <2>2
<1>3. stack'[t] = s /\ \A u \in Thread \ {t} : stack'[u] = stack[u]
  BY <1>1, <1>2 DEF TypeOK
<1>4. ASSUME NEW c \in Call  PROVE FnsOf(c)' = FnsOf(c)
  <2>1. ASSUME NEW fn \in Fn, NEW u \in Thread
        PROVE  At(fn, c) \in FramesOf(stack'[u]) <=> At(fn, c) \in FramesOf(stack[u])
    <3>1. At(fn, c) # h
      BY <1>2, BesideFrame
    <3> QED  BY <1>2, <1>3, <3>1
  <2>2. \A fn \in Fn : fn \in FnsOf(c)' <=> fn \in FnsOf(c)
    BY <1>1, <2>1, FnsOfFrames, FnsOfFramesPrime
  <2> QED  BY <2>2 DEF FnsOf
<1>5. op' = op
  BY DEF Handler, Signal, UserReturn
<1>6. ToppedAll'
  BY <1>1, <1>2, ToppedAfter
<1> QED  BY <1>4, <1>5, <1>6 DEF Aside

\* A step moves one call, or none.
LEMMA StepMoves ==
    ASSUME IInv, IInv', ToppedAll, [Next]_vars
    PROVE  ToppedAll' /\ (Aside \/ \E c \in Call : Advances(c))
<1>1. ASSUME NEW t \in Thread, Execute(t)
      PROVE  ToppedAll' /\ (Aside \/ \E c \in Call : Advances(c))
  <2>1. CASE UserReturn(t) /\ ~In(t, "callback")
    BY <2>1, BesideAside
  <2>2. CASE ~ (UserReturn(t) /\ ~In(t, "callback"))
    <3>1. Cur(t) \in Call /\ Advances(Cur(t)) /\ ToppedAll'
      BY <1>1, <2>2, RequestCbAdvances, LeaveAdvances, LoopAdvances, FinishAdvances
         DEF Execute
    <3> QED  BY <3>1
  <2> QED  BY <2>1, <2>2
<1>2. ASSUME NEW t \in Thread, Handler(t) \/ \E c \in Call : Signal(t, c)
      PROVE  Aside /\ ToppedAll'
  BY <1>2, BesideAside
<1>3. ASSUME NEW t \in Thread, NEW c \in Call, Dispatch(t, c)
      PROVE  Advances(c) /\ ToppedAll'
  BY <1>3, SendCbAdvances, SpliceCbAdvances, InnerIdleAdvances, OuterIdleAdvances
     DEF Dispatch
<1>4. ASSUME NEW t \in Thread, NEW c \in Call, NEW k \in Kind,
             BeginAsync(t, c, k) \/ BeginSync(t, c, k)
      PROVE  Advances(c) /\ ToppedAll'
  BY <1>4, BeginAdvances
<1>5. CASE UNCHANGED <<stack, op>>
  <2>1. \A c \in Call : FnsOf(c)' = FnsOf(c)
    BY <1>5 DEF FnsOf, OnStack
  <2> QED  BY <1>5, <2>1 DEF Aside, ToppedAll
<1>6. CASE Poll \/ UNCHANGED vars \/ \E c \in Call : Cancel(c)
  BY <1>5, <1>6 DEF Poll, vars, Cancel
<1> QED  BY <1>1, <1>2, <1>3, <1>4, <1>6 DEF Next

\* What call c has still to do.
Todo(c) == Work(op[c], FnsOf(c))

HeldAll ==
    /\ ToppedAll
    /\ \A c \in Call : Held(op[c], FnsOf(c)) /\ Todo(c) \in 0 .. 15

LEMMA HeldInit == Init => HeldAll
<1> SUFFICES ASSUME Init  PROVE HeldAll
  OBVIOUS
<1>1. ToppedAll
  BY DEF Init, ToppedAll, Topped
<1>2. ASSUME NEW c \in Call  PROVE FnsOf(c) = {} /\ op[c] = IdleOp
  BY DEF Init, FnsOf, OnStack
<1>3. Held(IdleOp, {}) /\ Work(IdleOp, {}) = 15
  BY DEF IdleOp, Held, Work, One
<1>4. ASSUME NEW c \in Call  PROVE Held(op[c], FnsOf(c)) /\ Todo(c) \in 0 .. 15
  BY <1>2, <1>3 DEF Todo
<1> QED  BY <1>1, <1>4 DEF HeldAll

\* A call that advances has less to do.
LEMMA TodoLess ==
    ASSUME IInv, NEW c \in Call, Advances(c)
    PROVE  /\ Todo(c) \in Nat /\ Todo(c)' \in Nat /\ Todo(c)' < Todo(c)
           /\ \A d \in Call \ {c} : Todo(d)' = Todo(d)
<1>1. /\ Consistent(c, op[c], FnsOf(c)) /\ FnsOf(c) \in SUBSET Fn
      /\ Moves(op[c], FnsOf(c), op'[c], FnsOf(c)')
  BY DEF IInv, CallInv, FnsOf, Advances
<1>2. /\ Work(op[c], FnsOf(c)) \in Nat /\ Work(op'[c], FnsOf(c)') \in Nat
      /\ Work(op'[c], FnsOf(c)') < Work(op[c], FnsOf(c))
  BY <1>1, MovesWork
<1>3. \A d \in Call \ {c} : Work(op'[d], FnsOf(d)') = Work(op[d], FnsOf(d))
  BY DEF Advances
<1> QED  BY <1>2, <1>3 DEF Todo

LEMMA HeldNext == IInv /\ IInv' /\ HeldAll /\ [Next]_vars => HeldAll'
<1> SUFFICES ASSUME IInv, IInv', HeldAll, [Next]_vars  PROVE HeldAll'
  OBVIOUS
<1>1. ToppedAll' /\ (Aside \/ \E c \in Call : Advances(c))
  BY StepMoves DEF HeldAll
<1>2. CASE Aside
  <2>1. ASSUME NEW c \in Call  PROVE Held(op'[c], FnsOf(c)') /\ Todo(c)' \in 0 .. 15
    BY <1>2 DEF Aside, HeldAll, Todo
  <2> QED  BY <1>1, <2>1 DEF HeldAll
<1>3. ASSUME NEW c \in Call, Advances(c)  PROVE HeldAll'
  <2>1. /\ Consistent(c, op[c], FnsOf(c)) /\ FnsOf(c) \in SUBSET Fn
        /\ Moves(op[c], FnsOf(c), op'[c], FnsOf(c)') /\ Held(op[c], FnsOf(c))
    BY <1>3 DEF IInv, CallInv, FnsOf, Advances, HeldAll
  <2>2. Held(op'[c], FnsOf(c)')
    BY <2>1, MovesHeld
  <2>3. Todo(c)' \in 0 .. 15
    BY <1>3, TodoLess DEF HeldAll
  <2>4. ASSUME NEW d \in Call \ {c}  PROVE Held(op'[d], FnsOf(d)') /\ Todo(d)' \in 0 .. 15
    <3>1. op'[d] = op[d] /\ FnsOf(d)' = FnsOf(d) /\ Todo(d)' = Todo(d)
      BY <1>3, TodoLess DEF Advances
    <3> QED  BY <3>1 DEF HeldAll
  <2> QED  BY <1>1, <2>2, <2>3, <2>4 DEF HeldAll
<1> QED  BY <1>1, <1>2, <1>3

LEMMA HeldInvariance == Spec => []HeldAll
<1>1. Spec => []IInv
  BY Invariance
<1> QED  BY <1>1, HeldInit, HeldNext, PTL DEF Spec

\* A call that has begun has a source or runs its callback, and the source is
\* attached to its task's context; for a synchronous call that is the one its
\* closure iterates.
THEOREM Reachable == Spec => []SourcesReachable
<1>1. ASSUME IInv, HeldAll  PROVE SourcesReachable
  <2> SUFFICES ASSUME NEW c \in Call
               PROVE  LET o == op[c] IN
                      /\ o.phase = "begun" =>
                            \/ o.src # "none" \/ OnStack("request_cb", c)
                            \/ o.kind = "propfind" /\ "nothing" \in ParseOutcome
                      /\ o.src # "none" =>
                            /\ o.srcCtx = o.ctx
                            /\ IF o.sync
                               THEN o.ctx = c /\ \E f \in {"sync_run", "sync_wait"} :
                                                        OnStack(f, c)
                               ELSE o.ctx \in Thread
    BY DEF SourcesReachable
  <2>1. Consistent(c, op[c], FnsOf(c)) /\ Held(op[c], FnsOf(c))
    BY <1>1 DEF IInv, CallInv, HeldAll
  <2>2. \A fn \in Fn : fn \in FnsOf(c) => OnStack(fn, c)
    BY DEF FnsOf
  <2>3. op[c].phase = "begun" =>
           \/ op[c].src # "none" \/ OnStack("request_cb", c)
           \/ op[c].kind = "propfind" /\ "nothing" \in ParseOutcome
    BY <2>1, <2>2 DEF Held, Pending, FnsOf
  <2>4. op[c].src # "none" =>
           /\ op[c].phase = "begun"
           /\ op[c].sync => "sync_run" \in FnsOf(c) \/ "sync_wait" \in FnsOf(c)
    BY <2>1 DEF Consistent, Staged, Pending
  <2>5. op[c].src # "none" /\ op[c].sync =>
           \E f \in {"sync_run", "sync_wait"} : OnStack(f, c)
    BY <2>4 DEF FnsOf
  <2> QED  BY <2>1, <2>3, <2>4, <2>5 DEF Consistent, Closed
<1> QED  BY <1>1, Invariance, HeldInvariance, PTL

\* A thread outside its own main loop goes on, or waits in a loop for a source
\* that it can dispatch or for another thread that goes on.
LEMMA BusyNotStuck ==
    ASSUME IInv, HeldAll, "nothing" \notin ParseOutcome,
           NEW t \in Thread, stack[t] # << >>
    PROVE  \E u \in Thread : MayExecute(u) \/ \E d \in Call : MayDispatch(u, d)
<1> DEFINE fn == Head(stack[t]).fn
           d == Cur(t)
<1> SUFFICES ASSUME ~MayExecute(t)
             PROVE  \E u \in Thread : MayExecute(u) \/ \E e \in Call : MayDispatch(u, e)
  OBVIOUS
<1>1. \/ fn = "sync_wait" /\ op[d].running
      \/ fn \in {"callback", "sync_finish"}
         /\ op[d].phase \notin {"ready", "finishing", "finished"}
  BY DEF MayExecute, Cur
<1>2. In(t, fn) /\ fn \in Fn \ {"handler"} /\ d = Cur(t)
  BY <1>1 DEF In, Fn
<1>  HIDE DEF fn, d
<1>3. /\ d \in Call /\ fn \in FnsOf(d) /\ op[d] \in OpRecord
      /\ Consistent(d, op[d], FnsOf(d))
  BY <1>2, Innermost
<1>4. Held(op[d], FnsOf(d))
  BY <1>3 DEF HeldAll
<1>5. Pending(op[d], FnsOf(d))
  <2>1. op[d].phase # "idle"
    BY <1>3 DEF Consistent, Staged
  <2>2. op[d].phase = "begun"
    BY <1>1, <1>3, <1>4, <2>1 DEF Held, OpRecord
  <2> QED  BY <1>4, <2>2 DEF Held
<1>6. fn = "sync_wait"
  <2>1. fn # "callback"
    BY <1>3, <1>5 DEF Consistent, Staged, Pending, InFlight, OpRecord, Sync
  <2>2. fn # "sync_finish"
    BY <1>3, <1>5 DEF Consistent, Staged, Closed, Sync
  <2> QED  BY <1>1, <2>1, <2>2
<1>7. CASE op[d].src # "none"
  <2>1. op[d].srcCtx = d
    BY <1>3, <1>5, <1>6, <1>7 DEF Consistent, Staged, Closed, Sync
  <2>2. Iterates(t, d)
    BY <1>1, <1>2, <1>6 DEF Iterates, InMainLoop, ClosureContext
  <2> QED  BY <1>3, <1>7, <2>1, <2>2 DEF MayDispatch
<1>8. CASE "request_cb" \in FnsOf(d)
  <2>1. PICK u \in Thread : At("request_cb", d) \in FramesOf(stack[u])
    BY <1>3, <1>8, FnsOfFrames DEF IInv, Fn
  <2>2. stack[u] \in Seq(Frame) /\ Topped(stack[u])
    BY DEF IInv, TypeOK, HeldAll, ToppedAll
  <2>3. stack[u] # << >>
    BY <2>1 DEF FramesOf
  <2>4. FramesOf(stack[u]) = FramesOf(Tail(stack[u])) \cup {Head(stack[u])}
    BY <2>2, <2>3, PopFrame
  <2>5. At("request_cb", d).fn = "request_cb"
    BY DEF At
  <2>6. Head(stack[u]) = At("request_cb", d)
    BY <2>1, <2>2, <2>3, <2>4, <2>5 DEF Topped, Calm, Tops
  <2> QED  BY <2>3, <2>5, <2>6 DEF MayExecute
<1> QED  BY <1>5, <1>7, <1>8 DEF Pending

\* As long as a call is unfinished some thread has something to do for a call,
\* if the parser returns an object or an error.
THEOREM NotStuck ==
    ASSUME "nothing" \notin ParseOutcome
    PROVE  Spec => []NeverStuck
<1>1. ASSUME IInv, HeldAll  PROVE NeverStuck
  <2> SUFFICES ASSUME NEW c \in Call, op[c].phase \notin {"idle", "finished"},
                      \A t \in Thread : stack[t] = << >>
               PROVE  \E t \in Thread : MayExecute(t) \/ \E d \in Call : MayDispatch(t, d)
    BY <1>1, BusyNotStuck DEF NeverStuck
  <2>1. FnsOf(c) = {}
    BY DEF FnsOf, OnStack
  <2>2. Consistent(c, op[c], {}) /\ Held(op[c], {}) /\ op[c] \in OpRecord
    BY <1>1, <2>1 DEF IInv, TypeOK, CallInv, HeldAll
  <2>3. op[c].phase = "begun" /\ op[c].src # "none"
    BY <2>2 DEF Held, Pending, OpRecord
  <2>4. op[c].ctx \in Thread /\ op[c].srcCtx = op[c].ctx
    BY <2>2, <2>3 DEF Consistent, Staged, Closed, Pending
  <2>5. Iterates(op[c].ctx, op[c].srcCtx)
    BY <2>4 DEF Iterates, InMainLoop
  <2> QED  BY <2>3, <2>4, <2>5 DEF MayDispatch
<1> QED  BY <1>1, Invariance, HeldInvariance, PTL

\* A thread runs code of a call, dispatches a source of one, or begins one; the
\* handlers of the application, those of signals too, are no part of a call.
Proceeds ==
    \E t \in Thread :
        \/ Execute(t) /\ ~In(t, "handler") /\ ~In(t, "signal")
        \/ \E c \in Call : Dispatch(t, c)
        \/ \E c \in Call, k \in Kind : BeginAsync(t, c, k) \/ BeginSync(t, c, k)

\* Every step that proceeds takes one call a step closer to its end, and no
\* step takes a call back: a call ends after at most 15 steps, however its
\* callbacks nest with those of other calls.
CallsAdvance ==
    /\ [](\A c \in Call : Todo(c) \in 0 .. 15)
    /\ [][IF Proceeds
          THEN \E c \in Call : /\ Todo(c)' < Todo(c)
                               /\ \A d \in Call \ {c} : Todo(d)' = Todo(d)
          ELSE \A c \in Call : Todo(c)' = Todo(c)]_vars

\* Every call advances by at most 15 steps to its end.
THEOREM StepsBounded == Spec => CallsAdvance
<1> DEFINE A == IF Proceeds
                THEN \E c \in Call : /\ Todo(c)' < Todo(c)
                                     /\ \A d \in Call \ {c} : Todo(d)' = Todo(d)
                ELSE \A c \in Call : Todo(c)' = Todo(c)
           B == \A c \in Call : Todo(c) \in 0 .. 15
<1>1. ASSUME IInv, IInv', HeldAll, [Next]_vars  PROVE [A]_vars
  <2> SUFFICES ASSUME ~UNCHANGED vars  PROVE A
    OBVIOUS
  <2>1. CASE Proceeds
    <3>1. \E c \in Call : Advances(c)
      <4>1. ASSUME NEW t \in Thread, Execute(t), ~In(t, "handler"), ~In(t, "signal")
            PROVE  Cur(t) \in Call /\ Advances(Cur(t))
        <5>1. UserReturn(t) => In(t, "callback")
          BY <4>1 DEF UserReturn
        <5> QED  BY <1>1, <4>1, <5>1, RequestCbAdvances, LeaveAdvances, LoopAdvances,
                    FinishAdvances DEF Execute, HeldAll
      <4>2. ASSUME NEW t \in Thread, NEW c \in Call, Dispatch(t, c)
            PROVE  Advances(c)
        BY <1>1, <4>2, SendCbAdvances, SpliceCbAdvances, InnerIdleAdvances,
           OuterIdleAdvances DEF Dispatch, HeldAll
      <4>3. ASSUME NEW t \in Thread, NEW c \in Call, NEW k \in Kind,
                   BeginAsync(t, c, k) \/ BeginSync(t, c, k)
            PROVE  Advances(c)
        BY <1>1, <4>3, BeginAdvances DEF HeldAll
      <4> QED  BY <2>1, <4>1, <4>2, <4>3 DEF Proceeds
    <3>2. PICK c \in Call : Advances(c)
      BY <3>1
    <3>3. Todo(c)' < Todo(c) /\ \A d \in Call \ {c} : Todo(d)' = Todo(d)
      BY <1>1, <3>2, TodoLess
    <3> QED  BY <2>1, <3>3
  <2>2. CASE ~Proceeds
    <3>1. Aside
      <4>1. ASSUME NEW t \in Thread, Execute(t)  PROVE Aside
        <5>1. In(t, "handler") \/ In(t, "signal")
          BY <2>2, <4>1 DEF Proceeds
        <5>2. UserReturn(t) /\ ~In(t, "callback")
          BY <4>1, <5>1 DEF Execute, RequestCb, LeaveInner, LeaveOuter, ClosureWait,
                            ClosureQuit, ClosureFree, FinishOutputs, FinishPropagate, In
        <5> QED  BY <1>1, <5>2, BesideAside DEF HeldAll
      <4>2. ASSUME NEW t \in Thread, Handler(t) \/ \E c \in Call : Signal(t, c)
            PROVE  Aside
        BY <1>1, <4>2, BesideAside DEF HeldAll
      <4>3. CASE Poll \/ \E c \in Call : Cancel(c)
        <5>1. UNCHANGED <<stack, op>>
          BY <4>3 DEF Poll, Cancel, vars
        <5>2. \A c \in Call : FnsOf(c)' = FnsOf(c)
          BY <5>1 DEF FnsOf, OnStack
        <5> QED  BY <5>1, <5>2 DEF Aside
      <4> QED  BY <1>1, <2>2, <4>1, <4>2, <4>3 DEF Next, Proceeds
    <3> QED  BY <2>2, <3>1 DEF Aside, Todo
  <2> QED  BY <2>1, <2>2
<1>2. HeldAll => B
  BY DEF HeldAll
<1>3. CallsAdvance <=> []B /\ [][A]_vars
  BY DEF CallsAdvance
<1>  HIDE DEF A, B
<1> QED  BY <1>1, <1>2, <1>3, Invariance, HeldInvariance, PTL DEF Spec

=============================================================================
