-------------------------- MODULE ShardMergeCheck --------------------------
(***************************************************************************)
(* What the merge of two revisions of a shard promises.  The variables are *)
(* a common ancestor and three revisions of one shard's entry; nothing     *)
(* happens to them, every combination is an initial state.                 *)
(***************************************************************************)
EXTENDS ShardMerge

VARIABLES base, ours, theirs, third

vars == <<base, ours, theirs, third>>

\* An entry some run of the program can contain: a pending shard was never
\* claimed or was put back by a sweep, which clears the claim; mark_failed
\* accepts such a shard too, the other transitions do not.
WellFormed(e) ==
    /\ (e.host = Nobody) = (e.at = 0)
    /\ e.state = "pending" => e.host = Nobody
    /\ e.state \in {"claimed", "claimed_pending_resume", "done"} => e.host # Nobody

Revision == {e \in Entry : WellFormed(e)}

Init == base \in Revision /\ ours \in Revision /\ theirs \in Revision /\ third \in Revision

Spec == Init /\ [][UNCHANGED vars]_vars

-----------------------------------------------------------------------------
\* The whole policy as one order of precedence: how far the shard got, with
\* a failure just below done.
Precedence(st) ==
    IF st = "pending" THEN 0
    ELSE IF st = "claimed" THEN 1
    ELSE IF st = "claimed_pending_resume" THEN 2
    ELSE IF st = "failed" THEN 3 ELSE 4

\* The special cases of the merge add up to that order: of two competing
\* changes the one with the higher precedence wins, whichever side it is on.
FollowsPrecedence ==
    (ours # base /\ theirs # base) =>
        LET m == Merge(base, ours, theirs)
        IN  /\ m \in {ours, theirs}
            /\ Precedence(m.state) >= Precedence(ours.state)
            /\ Precedence(m.state) >= Precedence(theirs.state)

\* Three hosts whose revisions meet end with the shard in the same state, in
\* whatever order their revisions are merged.
StateOrderFree ==
    LET M(o, t) == Merge(base, o, t)
        st      == M(M(ours, theirs), third).state
    IN  /\ st = M(ours, M(theirs, third)).state
        /\ st = M(M(third, ours), theirs).state
        /\ st = M(M(theirs, ours), third).state

\* A merge that does not ask the operator does not depend on which side is
\* called ours, unless both failed or one host wrote two equal stamps: a
\* rebase swaps the sides, because HEAD is the other host's commit there.
SidesSwap ==
    (/\ ~Unresolved(base, ours, theirs)
     /\ Merge(base, ours, theirs) # Merge(base, theirs, ours))
    => /\ ours.state = theirs.state
       /\ ours.state # "failed" => ours.host = theirs.host /\ ours.at = theirs.at

=============================================================================
