--------------------------- MODULE MCDeltaThread ---------------------------
(***************************************************************************)
(* Two tasks whose ids sort against their paths.                           *)
(***************************************************************************)
EXTENDS DeltaThread

PathOrder == <<"a", "b">>
IdOrder   == <<"b", "a">>
SomePlans == {{}, {"a", "b"}}
=============================================================================
