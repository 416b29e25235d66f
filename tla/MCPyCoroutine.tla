--------------------------- MODULE MCPyCoroutine ---------------------------
(***************************************************************************)
(* PyCoroutine for TLC.  No action tells one Coroutine or one object from  *)
(* another.  Unless the caller goes by the codes, no guard and nothing     *)
(* that is checked, TypeOK aside, depends on the values passed: the view   *)
(* leaves them out.                                                        *)
(***************************************************************************)
EXTENDS PyCoroutine, TLC

Symmetry == Permutations(Selves) \cup Permutations(Objects)

WithoutCodes ==
    <<top, waiting, status, switcher, bridge, data, cell, made, frame, refs, broken>>

=============================================================================
