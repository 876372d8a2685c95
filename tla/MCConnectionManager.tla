-------------------------- MODULE MCConnectionManager --------------------------
(* One registry, three getters and a writer: a getter builds while two others  *)
(* wait for its lock and the writer changes the row.                           *)
EXTENDS ConnectionManager
=============================================================================
