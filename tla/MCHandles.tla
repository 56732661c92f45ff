------------------------------ MODULE MCHandles ------------------------------
(* Two Files and one Cmd, so that a handle can be reissued to a second    *)
(* wrapper of the same kind by a later helper; or a Cmd, a Snapshot and    *)
(* the InstanceSource made from it.                                        *)
EXTENDS Handles

CONSTANTS f1, f2, c1, s1, r1

MCObjs == {f1, f2, c1}
MCKindOf == (f1 :> "file") @@ (f2 :> "file") @@ (c1 :> "cmd")

MCObjsSrc == {c1, s1, r1}
MCKindOfSrc == (c1 :> "cmd") @@ (s1 :> "snapshot") @@ (r1 :> "source")
=============================================================================
