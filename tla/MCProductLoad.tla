---------------------------- MODULE MCProductLoad ---------------------------
(* The files of a small build.                                             *)
EXTENDS ProductLoad
CONSTANTS e, r
MCConfigs == <<>>
MCManifests == <<e>>
MCRoots == <<r>>
MCSize == [f \in Files |-> IF f = r THEN 1 ELSE 2]
=============================================================================
