------------------------------ MODULE GDavShell ------------------------------
(***************************************************************************)
(* The connection of the interactive tool gdav: tools/utils.c and the      *)
(* commands of tools/commands.c that change its GlobalState, whenever the  *)
(* user gives them; CommandLoop adds how he does.                          *)
(*                                                                         *)
(* "open" sends an OPTIONS request, repeats it without certificate checks  *)
(* if the user accepts a bad certificate, and then a PROPFIND; either may  *)
(* ask for a user name meanwhile.  The two calls are those of GDavMethods, *)
(* here with their outcome only, which the server chooses anew each time.  *)
(***************************************************************************)
EXTENDS Naturals, FiniteSets

CONSTANTS
    Uri, NoUri,     \* URIs that the user opens, and the lack of one
    Unparsable,     \* URIs that soup_uri_new refuses
    Headers,        \* answers to OPTIONS: [allow |-> methods, dav |-> classes]
    MaxAuth         \* bound on the credentials asked for per request

\* GDavAllow and GDavOptions, as bit positions.
Method == {"ACL", "COPY", "DELETE", "GET", "HEAD", "LOCK", "MKCALENDAR", "MKCOL",
           "MOVE", "OPTIONS", "POST", "PROPFIND", "PROPPATCH", "PUT", "REPORT",
           "UNLOCK"}

AllowBit == [ACL |-> 0, COPY |-> 1, DELETE |-> 2, GET |-> 3, HEAD |-> 4,
             LOCK |-> 5, MKCALENDAR |-> 6, MKCOL |-> 7, MOVE |-> 8,
             OPTIONS |-> 9, POST |-> 10, PROPFIND |-> 11, PROPPATCH |-> 12,
             PUT |-> 13, REPORT |-> 14, UNLOCK |-> 15]

Class == {"class1", "class2", "class3", "access_control", "version_control",
          "calendar_access", "calendar_schedule", "calendar_auto_schedule",
          "calendar_proxy", "addressbook"}

\* Mutant of OptionBit: two classes of compliance with the same bit.
OptionBitShared ==
    [class1 |-> 0, class2 |-> 1, class3 |-> 1, access_control |-> 3,
     version_control |-> 4, calendar_access |-> 5, calendar_schedule |-> 6,
     calendar_auto_schedule |-> 7, calendar_proxy |-> 8, addressbook |-> 9]

OptionBit ==
    [class1 |-> 0, class2 |-> 1, class3 |-> 2, access_control |-> 3,
     version_control |-> 4, calendar_access |-> 5, calendar_schedule |-> 6,
     calendar_auto_schedule |-> 7, calendar_proxy |-> 8, addressbook |-> 9]

ASSUME UriAssumption == NoUri \notin Uri /\ Unparsable \subseteq Uri

ASSUME HeadersAssumption ==
    \A h \in Headers : h.allow \subseteq Method /\ h.dav \subseteq Class

ASSUME MaxAuthAssumption == MaxAuth \in Nat

VARIABLES
    state,      \* GlobalState, and the ssl-strict property of its session
    pc,         \* what the tool waits for
    target,     \* the URI of the latest "open"
    asked,      \* how often credentials were asked for in this request
    resume,     \* what the tool waits for after the user name is given
    accepted,   \* history: URI whose certificate the user accepted
    answer      \* history: the latest answer to OPTIONS, and whose it is

vars == <<state, pc, target, asked, resume, accepted, answer>>

Fresh == [base |-> NoUri, connected |-> FALSE, isdav |-> FALSE, strict |-> TRUE,
          allow |-> {}, options |-> {}, promptUsername |-> FALSE]

NoAnswer == [from |-> NoUri, allow |-> {}, dav |-> {}]

Init ==
    /\ state = Fresh
    /\ pc = "prompt"
    /\ target = NoUri
    /\ asked = 0
    /\ resume = "prompt"
    /\ accepted = NoUri
    /\ answer = NoAnswer

-----------------------------------------------------------------------------
(* Commands                                                                *)

\* Mutant of Closed: the session goes on accepting every certificate.
ClosedLax(s) == [s EXCEPT !.base = NoUri, !.connected = FALSE, !.allow = {},
                          !.options = {}]

\* close_connection; isdav keeps its value.
Closed(s) == [s EXCEPT !.base = NoUri, !.strict = TRUE, !.connected = FALSE,
                       !.allow = {}, !.options = {}]

\* execute_command runs a command that needs a connection only with one.
Runs(needsConnection) ==
    /\ pc = "prompt"
    /\ needsConnection => state.connected

\* open_connection up to the OPTIONS request, from "open URL" or the command
\* line.
Open(u) ==
    /\ Runs(FALSE)
    /\ state' = Closed(state)
    /\ target' = u
    /\ pc' = IF u \in Unparsable THEN "prompt" ELSE "options"
    /\ asked' = 0
    /\ UNCHANGED <<resume, accepted, answer>>

\* "close" needs a connection.
Close ==
    /\ Runs(TRUE)
    /\ state' = Closed(state)
    /\ UNCHANGED <<pc, target, asked, resume, accepted, answer>>

\* "quit" or the end of the input; main closes the connection.
Quit ==
    /\ Runs(FALSE)
    /\ pc' = "quit"
    /\ state' = Closed(state)
    /\ UNCHANGED <<target, asked, resume, accepted, answer>>

-----------------------------------------------------------------------------
(* The user is asked while a request is under way                          *)

\* authenticate, called back by libsoup within the synchronous call.
Authenticate ==
    /\ pc \in {"options", "propfind"}
    /\ asked < MaxAuth
    /\ asked' = asked + 1
    /\ state' = [state EXCEPT !.promptUsername = TRUE]
    /\ resume' = pc
    /\ pc' = "username"
    /\ UNCHANGED <<target, accepted, answer>>

\* Mutant of Username: the flag is not reset.
UsernameSticky ==
    /\ pc = "username"
    /\ pc' = resume
    /\ UNCHANGED <<state, target, asked, resume, accepted, answer>>

\* A user name and password, or none: the request goes on.
Username ==
    /\ pc = "username"
    /\ state' = [state EXCEPT !.promptUsername = FALSE]
    /\ pc' = resume
    /\ UNCHANGED <<target, asked, resume, accepted, answer>>

\* Mutant of Accept: the request is repeated with the session as it was.
AcceptStrict ==
    /\ pc = "certificate"
    /\ accepted' = target
    /\ pc' = "options"
    /\ asked' = 0
    /\ UNCHANGED <<state, target, resume, answer>>

\* accept_bad_certificate returned TRUE: relax the session and retry.
Accept ==
    /\ pc = "certificate"
    /\ state' = [state EXCEPT !.strict = FALSE]
    /\ accepted' = target
    /\ pc' = "options"
    /\ asked' = 0
    /\ UNCHANGED <<target, resume, answer>>

\* The user, or a standard input that is no terminal, rejects the certificate.
Reject ==
    /\ pc = "certificate"
    /\ pc' = "prompt"
    /\ UNCHANGED <<state, target, asked, resume, accepted, answer>>

-----------------------------------------------------------------------------
(* Answers                                                                 *)

\* libsoup refuses a bad certificate only as long as the session is strict.
BadCertificate ==
    /\ pc = "options"
    /\ state.strict
    /\ pc' = "certificate"
    /\ UNCHANGED <<state, target, asked, resume, accepted, answer>>

\* gdav_allow_from_headers, which nothing calls.
AllowFromHeaders(h) == {AllowBit[m] : m \in h.allow}

\* gdav_options_from_headers.
OptionsFromHeaders(h) == {OptionBit[c] : c \in h.dav}

\* gdav_options_request_cb computes both values with gdav_options_from_headers.
\* The tool stores them, notes the connection and looks at the resource.
OptionsAnswered(h) ==
    /\ pc = "options"
    /\ state' = [state EXCEPT !.allow = OptionsFromHeaders(h),
                              !.options = OptionsFromHeaders(h),
                              !.base = target,
                              !.connected = TRUE]
    /\ answer' = [from |-> target, allow |-> h.allow, dav |-> h.dav]
    /\ pc' = "propfind"
    /\ asked' = 0
    /\ UNCHANGED <<target, resume, accepted>>

\* Any other error: no answer, no HTTP URI, authentication failed, ...
OptionsFailed ==
    /\ pc = "options"
    /\ pc' = "prompt"
    /\ UNCHANGED <<state, target, asked, resume, accepted, answer>>

\* Mutant of SetPath: the connection stays although the path is refused.
SetPathKept(type) ==
    /\ pc = "propfind"
    /\ state' = [state EXCEPT !.isdav = (type = "collection")]
    /\ pc' = "prompt"
    /\ UNCHANGED <<target, asked, resume, accepted, answer>>

\* set_path: the resource type is that of a collection, or it is another one,
\* unknown, or not to be had.
SetPath(type) ==
    /\ pc = "propfind"
    /\ state' = IF type = "collection"
                THEN [state EXCEPT !.isdav = TRUE]
                ELSE Closed([state EXCEPT !.isdav = FALSE])
    /\ pc' = "prompt"
    /\ UNCHANGED <<target, asked, resume, accepted, answer>>

ResourceType == {"collection", "other", "unknown", "error"}

\* What the tool does without waiting for a command.
Exchange ==
    \/ Authenticate \/ Username
    \/ Accept \/ Reject
    \/ BadCertificate \/ OptionsFailed
    \/ \E h \in Headers : OptionsAnswered(h)
    \/ \E type \in ResourceType : SetPath(type)

Next ==
    \/ \E u \in Uri : Open(u)
    \/ Close \/ Quit
    \/ Exchange

Spec == Init /\ [][Next]_vars

-----------------------------------------------------------------------------
(* Properties                                                              *)

Bit == 0 .. 15

\* The variables have their types, and the prompt is the one for a user name
\* exactly while one is read.
TypeOK ==
    /\ state \in [base : Uri \cup {NoUri}, connected : BOOLEAN, isdav : BOOLEAN,
                  strict : BOOLEAN, allow : SUBSET Bit, options : SUBSET Bit,
                  promptUsername : BOOLEAN]
    /\ pc \in {"prompt", "options", "certificate", "username", "propfind", "quit"}
    /\ state.promptUsername <=> pc = "username"
    /\ target \in Uri \cup {NoUri}
    /\ asked \in 0 .. MaxAuth
    /\ resume \in {"prompt", "options", "propfind"}
    /\ accepted \in Uri \cup {NoUri}
    /\ answer \in [from : Uri \cup {NoUri}, allow : SUBSET Method,
                   dav : SUBSET Class]

\* When the tool waits for a command, the parts of its state that were set one
\* by one agree: connected exactly with a base URI, of a resource that was found
\* to be a collection, and without one no capability is left over.
PromptConsistent ==
    pc = "prompt" =>
        /\ state.connected <=> state.base # NoUri
        /\ state.connected => state.isdav
        /\ ~state.connected => state.allow = {} /\ state.options = {}

\* Certificates go unchecked only for the URI whose certificate the user
\* accepted, never for the next one that is opened.
LaxOnlyAccepted == ~state.strict => accepted = target

\* While connected, the compliance classes are those that the very server
\* announced, each recognizable from the bits.
OptionsOfServer ==
    state.connected =>
        /\ answer.from = state.base
        /\ {c \in Class : OptionBit[c] \in state.options} = answer.dav

\* The allowed methods are those that the server announced: GDavAllow has one
\* bit per method (gdav-enums.h).
AllowOfServer ==
    state.connected => state.allow = AllowFromHeaders(answer)
=============================================================================
