-------------------------------- MODULE MCSpace --------------------------------
(* Small instance of Space: two callers that race for the cached key, and two  *)
(* locks, one of which may be asked for by name.                               *)
EXTENDS Space
==============================================================================
