----------------------------- MODULE CommandLoop -----------------------------
(***************************************************************************)
(* The program gdav around its connection: start, command line, command    *)
(* loop and the table of commands (tools/main.c, tools/commands.c).  It    *)
(* composes the lines that the user types with the connection of GDavShell *)
(* whose variables and actions it extends.                                 *)
(*                                                                         *)
(* All input is read through one EditLine with one buffer, lines as well   *)
(* as user names that are asked for in the middle of a command.  Commands  *)
(* with an empty handler, and those that only print or work on local files *)
(* (echo, lcd, lls, lpwd, help, about), leave the state as it is.          *)
(***************************************************************************)
EXTENDS GDavShell

CONSTANT MaxWords   \* bound on the arguments in a line

ASSUME MaxWordsAssumption == MaxWords \in Nat

VARIABLES
    phase,      \* "start", "opening", "read", "running" or "stopped"
    buffer,     \* whose text the buffer of the EditLine holds
    history     \* whose text was entered into the history

loopVars == <<phase, buffer, history>>

-----------------------------------------------------------------------------
(* Commands                                                                *)

VarArgs == 2147483647

Online(names, min, max) ==
    {[name |-> n, online |-> TRUE, min |-> min, max |-> max] : n \in names}

Offline(names, min, max) ==
    {[name |-> n, online |-> FALSE, min |-> min, max |-> max] : n \in names}

\* The table of commands, by the arguments that they take.
Commands ==
    UNION {Online({"pwd", "showlocks", "close", "logout"}, 0, 0),
           Online({"ls"}, 0, 1),
           Online({"cd", "edit", "lock", "unlock", "discover", "steal", "version",
                   "checkin", "checkout", "uncheckout", "history", "propnames"}, 1, 1),
           Online({"put", "get", "propget"}, 1, 2),
           Online({"chexec", "propdel"}, 2, 2),
           Online({"label", "propset"}, 3, 3),
           Online({"mget", "mput", "less", "mkcol", "cat", "delete", "rmcol"},
                  1, VarArgs),
           Online({"copy", "move"}, 2, VarArgs),
           Offline({"quit", "lpwd", "about"}, 0, 0),
           Offline({"lcd", "help"}, 0, 1),
           Offline({"set"}, 0, 2),
           Offline({"open"}, 1, 1),
           Offline({"unset"}, 1, 2),
           Offline({"lls"}, 0, VarArgs),
           Offline({"echo"}, 1, VarArgs)}

\* GDavCommand also names commands that the table does not have.
CommandName == {c.name : c \in Commands} \cup {"propedit", "describe", "search"}

Aliases ==
    {<<"more", "less">>, <<"mkdir", "mkcol">>, <<"rm", "delete">>, <<"cp", "copy">>,
     <<"mv", "move">>, <<"h", "help">>, <<"?", "help">>, <<"exit", "quit">>,
     <<"bye", "quit">>}

\* get_command: a name proper, or else an alias, with an entry in the table.
GetCommand(word) ==
    {c \in Commands : \/ c.name = word
                      \/ word \notin CommandName /\ <<word, c.name>> \in Aliases}

Word == CommandName \cup {a[1] : a \in Aliases} \cup {"nonsense"}

\* execute_command up to the call of the handler.
Permits(c, words) ==
    /\ words \in c.min .. c.max
    /\ c.online => state.connected

-----------------------------------------------------------------------------
(* Start                                                                   *)

LoopInit ==
    /\ Init
    /\ phase = "start"
    /\ buffer = "none"
    /\ history = {}

\* parse_args: a wrong option, or --version.
Exit ==
    /\ phase = "start"
    /\ phase' = "stopped"
    /\ UNCHANGED <<buffer, history>> /\ UNCHANGED vars

\* No URI on the command line: the session is configured and lines are read.
Start ==
    /\ phase = "start"
    /\ phase' = "read"
    /\ UNCHANGED <<buffer, history>> /\ UNCHANGED vars

StartWith(u) ==
    /\ phase = "start"
    /\ phase' = "opening"
    /\ Open(u)
    /\ UNCHANGED <<buffer, history>>

\* Then a line "open URI" is entered into the history.
Opened ==
    /\ phase = "opening"
    /\ pc = "prompt"
    /\ phase' = "read"
    /\ history' = history \cup {"main"}
    /\ UNCHANGED buffer /\ UNCHANGED vars

-----------------------------------------------------------------------------
(* Lines                                                                   *)

\* The line is the end of the input, or the tokenizer fails.
EndOfInput ==
    /\ phase = "read"
    /\ phase' = "stopped"
    /\ Quit
    /\ buffer' \in {buffer, "line"}
    /\ UNCHANGED history

\* A quotation is left open: the tokenizer is reset all the same.
UnfinishedLine ==
    /\ phase = "read"
    /\ buffer' = "line"
    /\ UNCHANGED <<phase, history>> /\ UNCHANGED vars

\* What the handler of a permitted command does, or execute_command itself.
Handle(c) ==
    \/ c.name = "quit" /\ Quit
    \/ c.name = "open" /\ \E u \in Uri : Open(u)
    \/ c.name = "close" /\ Close
    \/ c.name \notin {"quit", "open", "close"} /\ UNCHANGED vars

\* A line with a word and a number of arguments is entered into the history and
\* executed.
Execute(word, words) ==
    /\ phase = "read"
    /\ buffer' = "line"
    /\ history' = history \cup {buffer'}
    /\ IF \E c \in GetCommand(word) : Permits(c, words)
       THEN \E c \in GetCommand(word) :
              /\ Handle(c)
              /\ phase' = IF c.name = "quit" THEN "stopped" ELSE "running"
       ELSE phase' = "running" /\ UNCHANGED vars

\* An empty line.
EmptyLine ==
    /\ phase = "read"
    /\ buffer' = "line"
    /\ history' = history \cup {buffer'}
    /\ UNCHANGED phase /\ UNCHANGED vars

\* Mutant of Return: the line is entered into the history after its execution.
ReturnEntering ==
    /\ phase = "running"
    /\ pc = "prompt"
    /\ phase' = "read"
    /\ history' = history \cup {buffer}
    /\ UNCHANGED buffer /\ UNCHANGED vars

\* The command is done; tok_reset, and the next line is read.
Return ==
    /\ phase = "running"
    /\ pc = "prompt"
    /\ phase' = "read"
    /\ UNCHANGED <<buffer, history>> /\ UNCHANGED vars

\* The requests of an "open" take their course; a user name is read with
\* el_gets as well.
Requests ==
    /\ phase \in {"opening", "running"}
    /\ Exchange
    /\ buffer' = IF pc = "username" THEN "username" ELSE buffer
    /\ UNCHANGED <<phase, history>>

Proceed == Opened \/ Return \/ Requests

LoopNext ==
    \/ Exit \/ Start
    \/ \E u \in Uri : StartWith(u)
    \/ EndOfInput \/ UnfinishedLine \/ EmptyLine
    \/ \E word \in Word, words \in 0 .. MaxWords : Execute(word, words)
    \/ Proceed

LoopSpec == LoopInit /\ [][LoopNext]_<<vars, loopVars>>

\* What was begun goes on: servers answer or fail, the calls finish
\* (CallsFinish of GDavMethods) and the user answers a question.
FairLoopSpec == LoopSpec /\ WF_<<vars, loopVars>>(Proceed)

-----------------------------------------------------------------------------
(* Properties                                                              *)

\* The history has lines only: although a user name passes through the buffer
\* of a line that is being executed (el_gets in authenticate), it is never
\* recalled with the arrow keys.
HistoryOfLines == history \subseteq {"line", "main"}

\* Every line, and the URI of the command line, leads back to the prompt with
\* as many retries and questions as it takes.
LinesReturn == phase \in {"opening", "running"} ~> phase = "read"
=============================================================================
