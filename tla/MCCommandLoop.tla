---------------------------- MODULE MCCommandLoop ----------------------------
(***************************************************************************)
(* Small instances of CommandLoop: two servers, a URI that cannot be       *)
(* parsed, and answers of servers with and without locks.                  *)
(***************************************************************************)
EXTENDS CommandLoop

CONSTANTS u1, u2, bad

MCHeaders ==
    {[allow |-> {}, dav |-> {}],
     [allow |-> {"GET", "OPTIONS", "PROPFIND"}, dav |-> {"class1"}],
     [allow |-> {"GET", "OPTIONS", "PROPFIND", "LOCK", "UNLOCK"},
      dav |-> {"class1", "class2", "calendar_access"}]}
=============================================================================
