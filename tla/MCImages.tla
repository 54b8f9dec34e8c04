------------------------------ MODULE MCImages ------------------------------
(***************************************************************************)
(* Two installers at two commits whose tools differ, with install inputs   *)
(* that differ in the size of the build disk and in the source image.      *)
(***************************************************************************)
EXTENDS Images, TLC

Does(op, commit, config, source, disk) ==
    [op |-> op, commit |-> commit, config |-> config, source |-> source, disk |-> disk]
MCTasks == {Does("install", "old", "a", "noble", "small"),
            Does("install", "new", "b", "noble", "small"),
            Does("image", "new", "a", "oracular", "small"),
            Does("rebuild", "old", "a", "noble", "large"),
            Does("verify", "old", "a", "noble", "small")}
MCIdentity == [c \in {"old", "new"}, s \in {"noble", "oracular"}, d \in {"small", "large"} |-> <<c, s, d>>]
Symmetry == Permutations(Installers)
MCFlaws == {"result", "packages", "unsanitized", "contract", "changed", "boot"}
=============================================================================
