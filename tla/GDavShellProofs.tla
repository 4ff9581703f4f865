--------------------------- MODULE GDavShellProofs ---------------------------
(***************************************************************************)
(* The safety properties of GDavShell for all servers, answers and bounds. *)
(* The prompt finds a consistent connection because of what holds while    *)
(* the tool waits for something else: Phases says how much of the          *)
(* connection exists in each phase of "open".                              *)
(***************************************************************************)
EXTENDS GDavShell, TLAPS

Disconnected ==
    /\ ~state.connected
    /\ state.base = NoUri
    /\ state.allow = {}
    /\ state.options = {}

Connected ==
    /\ state.connected
    /\ state.base # NoUri
    /\ state.base = target
    /\ answer.from = target
    /\ state.options = OptionsFromHeaders(answer)

\* What "open" waits for, without the interlude that reads a user name.
Phase == IF pc = "username" THEN resume ELSE pc

\* The connection exists from the answer to OPTIONS to the next close.
Phases ==
    /\ Phase \in {"options", "certificate", "quit"} => Disconnected
    /\ Phase = "propfind" => Connected
    /\ Phase = "prompt" => Disconnected \/ (Connected /\ state.isdav)
    /\ pc = "username" => resume \in {"options", "propfind"}
    /\ pc \in {"options", "username", "certificate"} => target # NoUri

IInv == TypeOK /\ Phases /\ LaxOnlyAccepted

\* No two compliance classes share a bit.
LEMMA BitsDistinct ==
    ASSUME NEW c \in Class, NEW d \in Class, OptionBit[c] = OptionBit[d]
    PROVE  c = d
BY DEF Class, OptionBit

LEMMA BitsTyped ==
    /\ \A c \in Class : OptionBit[c] \in Bit
BY DEF Class, OptionBit, Bit

\* So the classes can be told from the bits.
LEMMA Decoded ==
    ASSUME NEW S \in SUBSET Class
    PROVE  {c \in Class : OptionBit[c] \in {OptionBit[d] : d \in S}} = S
BY BitsDistinct

\* The state in which the tool starts is disconnected.
LEMMA InitInvariant == Init => IInv
BY UriAssumption, MaxAuthAssumption
   DEF Init, IInv, TypeOK, Phases, Phase, LaxOnlyAccepted, Disconnected, Fresh,
       NoAnswer, Bit

\* Every step preserves the invariant.
LEMMA StepInvariant == IInv /\ [Next]_vars => IInv'
<1> SUFFICES ASSUME IInv, [Next]_vars
             PROVE  IInv'
    OBVIOUS
<1>0. 0 \in 0 .. MaxAuth /\ (asked < MaxAuth => asked + 1 \in 0 .. MaxAuth)
    BY MaxAuthAssumption DEF IInv, TypeOK
<1> USE UriAssumption
    DEF IInv, TypeOK, Phases, Phase, LaxOnlyAccepted, Disconnected, Connected
<1>1. ASSUME NEW u \in Uri, Open(u)
      PROVE  IInv'
    BY <1>0, <1>1 DEF Open, Runs, Closed
<1>2. CASE Close
    BY <1>2 DEF Close, Runs, Closed
<1>3. CASE Quit
    BY <1>3 DEF Quit, Runs, Closed
<1>4. CASE Authenticate
    BY <1>0, <1>4 DEF Authenticate
<1>5. CASE Username
    BY <1>5 DEF Username
<1>6. CASE Accept
    BY <1>0, <1>6 DEF Accept
<1>7. CASE Reject
    BY <1>7 DEF Reject
<1>8. CASE BadCertificate
    BY <1>8 DEF BadCertificate
<1>9. CASE OptionsFailed
    BY <1>9 DEF OptionsFailed
<1>10. ASSUME NEW h \in Headers, OptionsAnswered(h)
       PROVE  IInv'
    <2>1. h.allow \subseteq Method /\ h.dav \subseteq Class
        BY HeadersAssumption
    <2>2. OptionsFromHeaders(h) \subseteq Bit
        BY <2>1, BitsTyped DEF OptionsFromHeaders
    <2>3. OptionsFromHeaders(answer') = OptionsFromHeaders(h)
        BY <1>10 DEF OptionsAnswered, OptionsFromHeaders
    <2>4. QED
        BY <1>0, <1>10, <2>1, <2>2, <2>3 DEF OptionsAnswered
<1>11. ASSUME NEW type \in ResourceType, SetPath(type)
       PROVE  IInv'
    BY <1>11 DEF SetPath, Closed
<1>12. CASE UNCHANGED vars
    BY <1>12 DEF vars, OptionsFromHeaders
<1>13. QED
    BY <1>1, <1>2, <1>3, <1>4, <1>5, <1>6, <1>7, <1>8, <1>9, <1>10, <1>11,
       <1>12 DEF Next, Exchange

\* Every reachable state satisfies the invariant.
THEOREM Invariance == Spec => []IInv
BY InitInvariant, StepInvariant, PTL DEF Spec

\* The variables have their types in every reachable state.
THEOREM TypeCorrect == Spec => []TypeOK
<1>1. IInv => TypeOK
    BY DEF IInv
<1>2. QED
    BY <1>1, Invariance, PTL

\* At every prompt the parts of the connection agree (get_prompt and the
\* commands rely on it).
THEOREM ConsistentPrompt == Spec => []PromptConsistent
<1>1. IInv => PromptConsistent
    BY UriAssumption
       DEF IInv, Phases, Phase, PromptConsistent, Disconnected, Connected
<1>2. QED
    BY <1>1, Invariance, PTL

\* No certificate goes unchecked unless the user accepted it for this URI.
THEOREM CheckedCertificates == Spec => []LaxOnlyAccepted
<1>1. IInv => LaxOnlyAccepted
    BY DEF IInv
<1>2. QED
    BY <1>1, Invariance, PTL

\* The options are those of the server that the tool is connected to.
THEOREM ServerOptions == Spec => []OptionsOfServer
<1>1. IInv => OptionsOfServer
    <2> SUFFICES ASSUME IInv, state.connected
                 PROVE  /\ answer.from = state.base
                        /\ {c \in Class : OptionBit[c] \in state.options} = answer.dav
        BY DEF OptionsOfServer
    <2>1. Connected
        BY DEF IInv, TypeOK, Phases, Phase, Disconnected
    <2>2. answer.dav \in SUBSET Class
        BY DEF IInv, TypeOK
    <2>3. QED
        BY <2>1, <2>2, Decoded DEF Connected, OptionsFromHeaders
<1>2. QED
    BY <1>1, Invariance, PTL
=============================================================================
