--------------------------- MODULE MCRuntimeLocks ---------------------------
(* Three turns of two processes over one workspace: a writer of session s1, *)
(* a reader of the same session in another process, and a second reader.    *)
EXTENDS RuntimeLocks, TLC

TheHome == "writer" :> "p1" @@ "reader" :> "p2" @@ "other" :> "p2"
TheSession == "writer" :> "s1" @@ "reader" :> "s1" @@ "other" :> "s2"
TheWorkspace == [t \in Tasks |-> "w"]
=============================================================================
