--------------------------- MODULE MCForgejoClient ---------------------------
(* Instances of ForgejoClient for TLC. *)
EXTENDS ForgejoClient

(* One status of every class kindForStatus tells apart. *)
AllStatuses == {200, 302, 401, 403, 404, 409, 422, 423, 503}

(* One of every class Interpret and ExecutionsBehind tell apart. *)
FewStatuses == {200, 404, 422, 423, 503}
=============================================================================
