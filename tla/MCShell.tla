------------------------------ MODULE MCShell ------------------------------
EXTENDS Shell
CONSTANTS w1, w2, near, far
MCContexts == <<far, near>>
MCContextOf == (w1 :> near) @@ (w2 :> far)
=============================================================================
