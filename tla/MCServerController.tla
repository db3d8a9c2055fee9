------------------------- MODULE MCServerController -------------------------
(* Small instances of ServerController for TLC; the .cfg files choose the  *)
(* streams that are toggled.                                               *)
EXTENDS ServerController
=============================================================================
