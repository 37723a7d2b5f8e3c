---------------------------- MODULE PackageCommit ----------------------------
(***************************************************************************)
(* What the publication of an authority package promises its readers, with *)
(* the three files and their publishers left out: nothing, and from one    *)
(* moment on a whole package, for ever.                                    *)
(***************************************************************************)
CONSTANTS
    Packages,  \* the packages somebody publishes
    None       \* no package yet

VARIABLE package  \* what a reader that goes by the receipt sees

Publish ==
    /\ package = None
    /\ package' \in Packages

CommitSpec == package = None /\ [][Publish]_package
=============================================================================
