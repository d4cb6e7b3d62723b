--------------------------- MODULE MCGitHubWrites ----------------------------
(* Two concurrent writes, each of them any of three: a phase record (one      *)
(* upsert), a file's delete, a create that commits two files.  The third file *)
(* is for others to write and for our commits to keep.                        *)
EXTENDS GitHubWrites

CONSTANTS a, b, c, x

MCPaths    == {a, b, c}
MCContents == {x}

MCOps == { [kind |-> "upsert", files |-> [p \in {a} |-> x]],
           [kind |-> "delete", files |-> [p \in {a} |-> NoFile]],
           [kind |-> "batch",  files |-> [p \in {a, b} |-> x]] }
==============================================================================
