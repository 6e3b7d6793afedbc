--------------------------- MODULE MCWorkspaceGate ---------------------------
(* Small instances of WorkspaceGate: three callers, two workspaces, one of   *)
(* them reachable under two spellings (a symlink).                          *)
EXTENDS WorkspaceGate, TLC
CONSTANTS link, repo, other, K1, K2

MCRoots == {link, repo, other}
MCKeyOf == (link :> K1) @@ (repo :> K1) @@ (other :> K2)
=============================================================================
