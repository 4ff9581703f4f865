--------------------------- MODULE MCDavRequests ---------------------------
(***************************************************************************)
(* Small instances of DavRequests: two properties of DAV:, one of CalDAV   *)
(* and one of a namespace that the library does not know.                  *)
(***************************************************************************)
EXTENDS DavRequests

CONSTANTS Caldav, Other, p1, p2, p3, D, C

MCNsOf == [p \in PropertyType |-> CASE p = p1 -> Dav
                                    [] p = p2 -> Caldav
                                    [] OTHER  -> Other]

MCFirstPrefixes == [n \in Namespace |-> CASE n = Dav    -> D
                                          [] n = Caldav -> C
                                          [] OTHER      -> None]
=============================================================================
