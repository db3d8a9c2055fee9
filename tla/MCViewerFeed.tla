---------------------------- MODULE MCViewerFeed ----------------------------
(* Small instances of ViewerFeed for TLC; the .cfg files give the queues   *)
(* room for one or two messages, so that they fill up.                     *)
EXTENDS ViewerFeed
=============================================================================
