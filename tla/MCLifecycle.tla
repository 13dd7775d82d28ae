----------------------------- MODULE MCLifecycle -----------------------------
(* Instances of Lifecycle: one request that ends by itself, one stream.    *)
EXTENDS Lifecycle

CONSTANTS r1, r2
=============================================================================
