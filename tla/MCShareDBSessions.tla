------------------------ MODULE MCShareDBSessions -------------------------
(* Two connections that subscribe to one document, leave it and publish.   *)
EXTENDS ShareDBSessions
=============================================================================
