------------------------ MODULE MCSceneRegeneration ------------------------
(***************************************************************************)
(* Instances of SceneRegeneration for TLC.                                 *)
(***************************************************************************)
EXTENDS SceneRegeneration

\* One stop, or one approval by a person, of productions that are not published by
\* themselves.
MCTurns == [publish \in BOOLEAN |-> IF publish THEN 0 ELSE 1]
=============================================================================
