----------------------------- MODULE MCPipeline -----------------------------
(* Small instances of Pipeline: a config that binds a key of the first     *)
(* device, the bad files, and clients that unbind it and bind it again.    *)
EXTENDS Pipeline

CONSTANTS d1, k1, a

OneFile == { << [id |-> d1, binds |-> [k \in Keys |-> a]] >> }

NoRebinds == {}
OneRebind == { <<d1, k1, a>> }
=============================================================================
