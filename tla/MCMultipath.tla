---------------------------- MODULE MCMultipath ----------------------------
(* Model-checking instance of Multipath: an admin file's first line holds  *)
(* the current tag, an old tag, something else or nothing; its second line *)
(* the private tag, the old private tag, something else or nothing.        *)
EXTENDS Multipath

MCAdminContents ==
    {[first |-> f, second |-> s, id |-> "admin"] :
        f \in {"current", "old", "other", ""}, s \in {"private", "oldprivate", "other", ""}}
=============================================================================
