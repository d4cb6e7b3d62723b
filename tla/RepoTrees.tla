------------------------------ MODULE RepoTrees ------------------------------
(* The infra-live repository as launchpad-api sees it: a tree of files on     *)
(* branch main.  A file's content doubles as its blob SHA: GitHub derives one *)
(* from the other, so two files have equal SHAs iff they have equal contents. *)
CONSTANTS Paths,     \* the files a write may touch
          Contents,  \* what a file may hold
          NoFile     \* the "content" (and the empty SHA) of a file that is not there

ASSUME NoFileAssumption == NoFile \notin Contents

Held  == Contents \cup {NoFile}
Trees == [Paths -> Held]

\* A change names the files a commit touches; NoFile deletes.
Changes == UNION {[P -> Held] : P \in SUBSET Paths}

\* Wrong on purpose: git/trees without base_tree.
OverlayWithoutBase(tree, change) == change

\* The tree a commit of the change leaves: base_tree plus the listed entries.
Overlay(tree, change) ==
    [p \in Paths |-> IF p \in DOMAIN change THEN change[p] ELSE tree[p]]

\* A write the server may be asked for: upsertFile and deleteFile touch one
\* file, upsertFilesAtomic any number and deletes none.
Writes ==
    {w \in [kind : {"upsert", "delete", "batch"}, files : Changes] :
        /\ w.kind # "batch" => \E p \in Paths : DOMAIN w.files = {p}
        /\ \A p \in DOMAIN w.files : w.files[p] = NoFile <=> w.kind = "delete"}
==============================================================================
