-------------------------- MODULE CommandLoopProofs --------------------------
(***************************************************************************)
(* The program implements the connection of GDavShell, whose commands the  *)
(* user gives at any time, so that every safety property of GDavShell holds *)
(* of the program; and its history has lines only.                         *)
(***************************************************************************)
EXTENDS CommandLoop, GDavShellProofs, Integers

\* A handler does what some command of GDavShell does, or nothing.
LEMMA HandleIsCommand ==
    ASSUME NEW c \in Commands, Handle(c)
    PROVE  [Next]_vars
<1>1. CASE Quit \/ Close
  BY <1>1 DEF Next
<1>2. ASSUME NEW u \in Uri, Open(u) PROVE [Next]_vars
  BY <1>2 DEF Next
<1>3. CASE UNCHANGED vars
  BY <1>3
<1> QED  BY <1>1, <1>2, <1>3 DEF Handle

\* The same of a line, whether it is a permitted command or not.
LEMMA ExecuteIsCommand ==
    ASSUME NEW word, NEW words, Execute(word, words)
    PROVE  [Next]_vars
<1>1. CASE \E c \in GetCommand(word) : Permits(c, words)
  <2>1. PICK c \in GetCommand(word) : Handle(c)
    BY <1>1 DEF Execute
  <2> QED  BY <2>1, HandleIsCommand DEF GetCommand
<1>2. CASE ~\E c \in GetCommand(word) : Permits(c, words)
  BY <1>2 DEF Execute
<1> QED  BY <1>1, <1>2

\* Every step of the program is one of GDavShell, or none.
LEMMA LoopStep == [LoopNext]_<<vars, loopVars>> => [Next]_vars
<1> SUFFICES ASSUME [LoopNext]_<<vars, loopVars>> PROVE [Next]_vars
  OBVIOUS
<1>1. CASE Exit \/ Start \/ UnfinishedLine \/ EmptyLine \/ Opened \/ Return
  BY <1>1 DEF Exit, Start, UnfinishedLine, EmptyLine, Opened, Return
<1>2. ASSUME NEW u \in Uri, StartWith(u) PROVE [Next]_vars
  BY <1>2 DEF StartWith, Next
<1>3. CASE EndOfInput
  BY <1>3 DEF EndOfInput, Next
<1>4. ASSUME NEW word, NEW words, Execute(word, words) PROVE [Next]_vars
  BY <1>4, ExecuteIsCommand
<1>5. CASE Requests
  BY <1>5 DEF Requests, Next
<1>6. CASE UNCHANGED <<vars, loopVars>>
  BY <1>6
<1> QED  BY <1>1, <1>2, <1>3, <1>4, <1>5, <1>6 DEF LoopNext, Proceed

\* The program, with its command line, its lines and its table of commands
\* (main, execute_command, get_command), does nothing to the connection that
\* GDavShell does not do: its theorems hold of the program.
THEOREM ProgramImplementsShell == LoopSpec => Spec
<1>1. LoopInit => Init
  BY DEF LoopInit
<1> QED  BY <1>1, LoopStep, PTL DEF LoopSpec, Spec

\* In the program, too, the parts of the connection agree at every prompt.
THEOREM ProgramPromptConsistent == LoopSpec => []PromptConsistent
BY ProgramImplementsShell, ConsistentPrompt, PTL

\* In the program, too, certificates go unchecked only for the URI whose
\* certificate was accepted.
THEOREM ProgramLaxOnlyAccepted == LoopSpec => []LaxOnlyAccepted
BY ProgramImplementsShell, CheckedCertificates, PTL

-----------------------------------------------------------------------------
\* A line is entered into the history as soon as it is read, so that whatever
\* is in the buffer later is not.
THEOREM LinesInHistory == LoopSpec => []HistoryOfLines
<1>1. LoopInit => HistoryOfLines
  BY DEF LoopInit, HistoryOfLines
<1>2. HistoryOfLines /\ [LoopNext]_<<vars, loopVars>> => HistoryOfLines'
  <2> SUFFICES ASSUME HistoryOfLines, [LoopNext]_<<vars, loopVars>>
               PROVE  HistoryOfLines'
    OBVIOUS
  <2>1. CASE Exit \/ Start \/ UnfinishedLine \/ EndOfInput \/ Return \/ Requests
    BY <2>1 DEF Exit, Start, UnfinishedLine, EndOfInput, Return, Requests,
                HistoryOfLines
  <2>2. ASSUME NEW u \in Uri, StartWith(u) PROVE HistoryOfLines'
    BY <2>2 DEF StartWith, HistoryOfLines
  <2>3. CASE Opened \/ EmptyLine
    BY <2>3 DEF Opened, EmptyLine, HistoryOfLines
  <2>4. ASSUME NEW word, NEW words, Execute(word, words) PROVE HistoryOfLines'
    BY <2>4 DEF Execute, HistoryOfLines
  <2>5. CASE UNCHANGED <<vars, loopVars>>
    BY <2>5 DEF loopVars, HistoryOfLines
  <2> QED  BY <2>1, <2>2, <2>3, <2>4, <2>5 DEF LoopNext, Proceed
<1> QED  BY <1>1, <1>2, PTL DEF LoopSpec

-----------------------------------------------------------------------------
(* A line that is being executed, or the URI of the command line, comes to *)
(* an end: LinesReturn without its fairness.                               *)

Busy == phase \in {"opening", "running"}

\* How far "open" still has to go: the request may be made once more with a lax
\* session.
Ahead ==
    CASE Phase = "options" /\ state.strict  -> 4
      [] Phase = "certificate"              -> 3
      [] Phase = "options" /\ ~state.strict -> 2
      [] Phase = "propfind"                 -> 1
      [] OTHER                              -> 0

\* The credentials that may still be asked for; more than one answer to give.
Questions == 2 * (MaxAuth - asked) + (IF pc = "username" THEN 1 ELSE 0)

Rank == IF Busy THEN 1 + (2 * MaxAuth + 2) * Ahead + Questions ELSE 0

\* While a line is executed the tool waits for an answer that takes it further,
\* and each step does take it further: within 10 * MaxAuth + 9 steps, and at
\* most one retry, it reads the next line.
LinesAdvance ==
    /\ [](Rank \in 0 .. 10 * MaxAuth + 9)
    /\ [](Busy => pc # "quit")
    /\ [][Busy => Rank' < Rank]_<<vars, loopVars>>

\* Requests are under way only while a line is executed.
Attended ==
    /\ phase \in {"start", "opening", "read", "running", "stopped"}
    /\ phase \in {"start", "read"} => pc = "prompt"
    /\ pc = "quit" => phase = "stopped"
    /\ pc = "username" => asked > 0

LEMMA AttendedInit == LoopInit => Attended
BY DEF LoopInit, Init, Attended

LEMMA AttendedNext ==
    ASSUME TypeOK, Attended, [LoopNext]_<<vars, loopVars>>
    PROVE  Attended'
<1> USE DEF Attended
<1>1. CASE Exit \/ Start
  BY <1>1 DEF Exit, Start, vars
<1>2. CASE \E u \in Uri : StartWith(u)
  BY <1>2 DEF StartWith, Open, Runs
<1>3. CASE EndOfInput
  BY <1>3 DEF EndOfInput, Quit, Runs
<1>4. CASE UnfinishedLine \/ EmptyLine
  BY <1>4 DEF UnfinishedLine, EmptyLine, vars
<1>5. ASSUME NEW word, NEW words, Execute(word, words)  PROVE Attended'
  <2>1. CASE UNCHANGED vars /\ phase' \in {"running", "stopped"}
    BY <1>5, <2>1 DEF Execute, vars
  <2>2. CASE ~(UNCHANGED vars /\ phase' \in {"running", "stopped"})
    <3>1. PICK c \in GetCommand(word) :
              Handle(c) /\ phase' = IF c.name = "quit" THEN "stopped" ELSE "running"
      BY <1>5, <2>2 DEF Execute
    <3>2. CASE c.name = "quit" /\ Quit
      BY <3>1, <3>2 DEF Quit, Runs
    <3>3. CASE c.name = "open" /\ \E u \in Uri : Open(u)
      BY <3>1, <3>3 DEF Open, Runs
    <3>4. CASE c.name = "close" /\ Close
      BY <3>1, <3>4 DEF Close, Runs
    <3> QED  BY <2>2, <3>1, <3>2, <3>3, <3>4 DEF Handle
  <2> QED  BY <2>1, <2>2
<1>6. CASE Opened \/ Return
  BY <1>6 DEF Opened, Return, vars
<1>7. CASE Requests
  <2>1. phase \in {"opening", "running"} /\ phase' = phase
    BY <1>7 DEF Requests
  <2>2. pc' # "quit" /\ (pc' = "username" => asked' > 0)
    <3>1. CASE Authenticate
      <4>1. asked \in Nat /\ asked' = asked + 1 /\ pc' = "username"
        BY <3>1, MaxAuthAssumption DEF Authenticate, TypeOK
      <4> QED  BY <4>1
    <3>2. CASE Username
      BY <3>2 DEF Username, TypeOK
    <3>3. CASE Accept \/ Reject \/ BadCertificate \/ OptionsFailed
      BY <3>3 DEF Accept, Reject, BadCertificate, OptionsFailed
    <3>4. CASE (\E h \in Headers : OptionsAnswered(h)) \/ \E type \in ResourceType : SetPath(type)
      BY <3>4 DEF OptionsAnswered, SetPath
    <3> QED  BY <1>7, <3>1, <3>2, <3>3, <3>4 DEF Requests, Exchange
  <2> QED  BY <2>1, <2>2
<1>8. CASE UNCHANGED <<vars, loopVars>>
  BY <1>8 DEF vars, loopVars
<1> QED  BY <1>1, <1>2, <1>3, <1>4, <1>5, <1>6, <1>7, <1>8 DEF LoopNext, Proceed

LEMMA QuestionsLeft ==
    ASSUME NEW n \in Nat, NEW a \in 0 .. n
    PROVE  /\ 2 * (n - a) + 0 \in 0 .. 2 * n
           /\ a > 0 => 2 * (n - a) + 1 \in 0 .. 2 * n
<1>1. n - a \in Nat /\ n - a <= n /\ (a > 0 => n - a < n)
  OBVIOUS
<1> DEFINE d == n - a
<1> HIDE DEF d
<1>2. 2 * d + 0 \in 0 .. 2 * n /\ (a > 0 => 2 * d + 1 \in 0 .. 2 * n)
  BY <1>1 DEF d
<1> QED  BY <1>2 DEF d

LEMMA RankTyped ==
    ASSUME TypeOK, Attended
    PROVE  /\ Ahead \in 0 .. 4 /\ Questions \in 0 .. 2 * MaxAuth
           /\ Rank \in 0 .. 10 * MaxAuth + 9
<1>1. MaxAuth \in Nat /\ asked \in 0 .. MaxAuth
  BY MaxAuthAssumption DEF TypeOK
<1>2. Ahead \in {0, 1, 2, 3, 4}
  BY DEF Ahead
<1>3. Questions \in 0 .. 2 * MaxAuth
  BY <1>1 DEF Questions, Attended
<1>  HIDE DEF Ahead, Questions
<1>4. (2 * MaxAuth + 2) * Ahead \in 0 .. 8 * MaxAuth + 8
  <2>1. CASE Ahead = 0
    BY <1>1, <2>1
  <2>2. CASE Ahead = 1
    BY <1>1, <2>2
  <2>3. CASE Ahead = 2
    BY <1>1, <2>3
  <2>4. CASE Ahead = 3
    BY <1>1, <2>4
  <2>5. CASE Ahead = 4
    BY <1>1, <2>5
  <2> QED  BY <1>2, <2>1, <2>2, <2>3, <2>4, <2>5
<1>5. Rank \in 0 .. 10 * MaxAuth + 9
  BY <1>1, <1>3, <1>4 DEF Rank
<1> QED  BY <1>2, <1>3, <1>5

\* An answer that is given lowers the rank, be it that less is ahead or that less
\* is to be asked on the way.
LEMMA LessAhead ==
    ASSUME NEW a \in 0 .. 4, NEW b \in 0 .. 4, NEW n \in Nat,
           NEW q \in 0 .. 2 * n, NEW r \in 0 .. 2 * n,
           b < a \/ (b = a /\ r < q)
    PROVE  1 + (2 * n + 2) * b + r < 1 + (2 * n + 2) * a + q
<1>1. CASE b = a
  <2>1. (2 * n + 2) * a \in Int /\ q \in Int /\ r \in Int
    OBVIOUS
  <2>  DEFINE m == (2 * n + 2) * a
  <2>  HIDE DEF m
  <2>2. m \in Int => 1 + m + r < 1 + m + q
    BY <1>1, <2>1
  <2> QED  BY <1>1, <2>1, <2>2 DEF m
<1>2. CASE b < a
  <2>1. (2 * n + 2) * (b + 1) \in Int /\ (2 * n + 2) * (b + 1) = (2 * n + 2) * b + 2 * n + 2
    OBVIOUS
  <2>2. (2 * n + 2) * (b + 1) <= (2 * n + 2) * a
    <3>1. b + 1 <= a
      BY <1>2
    <3> QED  BY <3>1
  <2> QED  BY <2>1, <2>2
<1> QED  BY <1>1, <1>2

LEMMA RankLess ==
    ASSUME TypeOK, TypeOK', Attended, Attended', Phases, Busy,
           [LoopNext]_<<vars, loopVars>>, ~UNCHANGED <<vars, loopVars>>
    PROVE  Rank' < Rank
<1>1. MaxAuth \in Nat /\ asked \in 0 .. MaxAuth /\ asked' \in 0 .. MaxAuth
  BY MaxAuthAssumption DEF TypeOK
<1>2. /\ Ahead \in 0 .. 4 /\ Questions \in 0 .. 2 * MaxAuth
      /\ Rank = 1 + (2 * MaxAuth + 2) * Ahead + Questions
  BY RankTyped DEF Rank
<1>3. /\ Ahead' \in 0 .. 4 /\ Questions' \in 0 .. 2 * MaxAuth
  <2>1. Ahead' \in {0, 1, 2, 3, 4}
    BY DEF Ahead
  <2>2. CASE pc' = "username"
    <3>1. asked' > 0 /\ Questions' = 2 * (MaxAuth - asked') + 1
      BY <2>2 DEF Questions, Attended
    <3>2. 2 * (MaxAuth - asked') + 1 \in 0 .. 2 * MaxAuth
      BY <1>1, <3>1, QuestionsLeft
    <3> QED  BY <2>1, <3>1, <3>2
  <2>3. CASE pc' # "username"
    <3>1. Questions' = 2 * (MaxAuth - asked') + 0
      BY <2>3 DEF Questions
    <3>2. 2 * (MaxAuth - asked') + 0 \in 0 .. 2 * MaxAuth
      BY <1>1, QuestionsLeft
    <3> QED  BY <2>1, <3>1, <3>2
  <2> QED  BY <2>2, <2>3
<1>4. CASE Opened \/ Return
  <2>1. ~Busy'
    BY <1>4 DEF Opened, Return, Busy
  <2>2. Rank' = 0
    BY <2>1 DEF Rank
  <2>  HIDE DEF Ahead, Questions
  <2>3. (2 * MaxAuth + 2) * Ahead >= 0
    BY <1>1, <1>2
  <2> QED  BY <1>1, <1>2, <2>2, <2>3
<1>5. CASE Requests
  <2>1. Busy' /\ Rank' = 1 + (2 * MaxAuth + 2) * Ahead' + Questions'
    BY <1>5 DEF Requests, Busy, Rank
  <2>2. Ahead' < Ahead \/ (Ahead' = Ahead /\ Questions' < Questions)
    <3>1. CASE Authenticate
      <4>1. /\ pc \in {"options", "propfind"} /\ pc' = "username" /\ resume' = pc
            /\ asked' = asked + 1 /\ state'.strict = state.strict
        BY <3>1 DEF Authenticate, TypeOK
      <4>2. Ahead' = Ahead
        BY <4>1 DEF Ahead, Phase
      <4>3. Questions' < Questions
        BY <1>1, <4>1 DEF Questions
      <4> QED  BY <4>2, <4>3
    <3>2. CASE Username
      <4>1. /\ pc = "username" /\ pc' = resume /\ resume \in {"options", "propfind"}
            /\ asked' = asked /\ state'.strict = state.strict
        BY <3>2 DEF Username, TypeOK, Phases
      <4>2. Ahead' = Ahead
        BY <4>1 DEF Ahead, Phase
      <4>3. Questions' < Questions
        BY <1>1, <4>1 DEF Questions
      <4> QED  BY <4>2, <4>3
    <3>3. CASE Accept \/ Reject \/ BadCertificate \/ OptionsFailed
      <4>1. state.strict \in BOOLEAN
        BY DEF TypeOK
      <4>2. Ahead' < Ahead
        BY <3>3, <4>1 DEF Accept, Reject, BadCertificate, OptionsFailed, Ahead, Phase, TypeOK
      <4> QED  BY <4>2
    <3>4. ASSUME NEW h \in Headers, OptionsAnswered(h)  PROVE Ahead' < Ahead
      <4>1. state.strict \in BOOLEAN
        BY DEF TypeOK
      <4>2. pc = "options" /\ pc' = "propfind"
        BY <3>4 DEF OptionsAnswered
      <4> QED  BY <4>1, <4>2 DEF Ahead, Phase
    <3>5. ASSUME NEW type \in ResourceType, SetPath(type)  PROVE Ahead' < Ahead
      BY <3>5 DEF SetPath, Ahead, Phase
    <3> QED  BY <1>5, <3>1, <3>2, <3>3, <3>4, <3>5 DEF Requests, Exchange
  <2>  HIDE DEF Ahead, Questions
  <2> QED  BY <1>1, <1>2, <1>3, <2>1, <2>2, LessAhead
<1> QED  BY <1>4, <1>5 DEF LoopNext, Proceed, Busy, Exit, Start, StartWith, EndOfInput,
            UnfinishedLine, EmptyLine, Execute

\* Every line that the user gives, and the URI of the command line, is done within
\* a bounded number of steps (open_connection, authenticate and their like),
\* whatever the servers and the user answer; no fairness is needed for that.
THEOREM LinesEnd == LoopSpec => LinesAdvance
<1> DEFINE R == Rank \in 0 .. 10 * MaxAuth + 9
           Q == Busy => pc # "quit"
           A == Busy => Rank' < Rank
<1>1. LoopSpec => [](TypeOK /\ Phases)
  <2>1. IInv => TypeOK /\ Phases
    BY DEF IInv
  <2> QED  BY <2>1, ProgramImplementsShell, Invariance, PTL
<1>2. TypeOK /\ TypeOK' /\ Attended /\ [LoopNext]_<<vars, loopVars>> => Attended'
  BY AttendedNext
<1>3. LoopSpec => []Attended
  BY <1>1, <1>2, AttendedInit, PTL DEF LoopSpec
<1>4. TypeOK /\ Attended => R /\ Q
  BY RankTyped DEF Busy, Attended
<1>5. TypeOK /\ TypeOK' /\ Attended /\ Attended' /\ Phases /\ [LoopNext]_<<vars, loopVars>>
        => [A]_<<vars, loopVars>>
  BY RankLess
<1>  HIDE DEF R, Q, A
<1>6. LoopSpec => []R /\ []Q /\ [][A]_<<vars, loopVars>>
  BY <1>1, <1>3, <1>4, <1>5, PTL DEF LoopSpec
<1> QED  BY <1>6 DEF LinesAdvance, R, Q, A
=============================================================================
