---------------------------- MODULE MCDavObjects ----------------------------
(***************************************************************************)
(* Small instances of ActiveLock and DavProperties: an application uses    *)
(* either two locks or one property object at a time.                      *)
(***************************************************************************)
EXTENDS ActiveLock, DavProperties

CONSTANT d1

MCTransformable == {<<"uint64", "string">>, <<"uint64", "flags">>,
                    <<"flags", "string">>, <<"flags", "uint64">>}

ObjectsInit == Init /\ PropertiesInit

LocksNext == registered = {} /\ Next /\ UNCHANGED propertyVars

HandlersNext == Handlers /\ UNCHANGED propertyVars

PropertyNext ==
    made = "none" /\ entry = Null /\ PropertiesNext /\ UNCHANGED vars

ObjectsSpec ==
    /\ ObjectsInit
    /\ [][LocksNext \/ PropertyNext]_<<vars, propertyVars>>
    /\ WF_<<vars, propertyVars>>(HandlersNext)
=============================================================================
