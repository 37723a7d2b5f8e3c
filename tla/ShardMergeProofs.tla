-------------------------- MODULE ShardMergeProofs --------------------------
(***************************************************************************)
(* The merge policy, for any hosts, stamps and entries.                    *)
(***************************************************************************)
EXTENDS ShardMergeCheck, TLAPS

Revisions == {base, ours, theirs, third} \subseteq Entry

\* The merge invents nothing: its result is one of the two revisions, and
\* the other one when one of them is the ancestor.
LEMMA MergePicks ==
    ASSUME NEW b, NEW o, NEW t
    PROVE  Merge(b, o, t) \in {o, t}
BY DEF Merge, Contest, FailedContest, Tie

\* A contest goes to the side with the higher precedence.
LEMMA ContestWinner ==
    ASSUME NEW o \in Entry, NEW t \in Entry
    PROVE  /\ Precedence(Contest(o, t).state) >= Precedence(o.state)
           /\ Precedence(Contest(o, t).state) >= Precedence(t.state)
<1>1. o.state \in EntryStates /\ t.state \in EntryStates
  BY DEF Entry
<1>2. CASE "failed" \in {o.state, t.state}
  BY <1>1, <1>2 DEF Contest, FailedContest, Precedence, EntryStates
<1>3. CASE "failed" \notin {o.state, t.state}
  BY <1>1, <1>3 DEF Contest, Tie, Rank, Precedence, EntryStates
<1> QED BY <1>2, <1>3

\* The revisions are entries, and stay what they are.
LEMMA RevisionsTyped == Spec => []Revisions
<1>1. Init => Revisions
  BY DEF Init, Revisions, Revision
<1>2. Revisions /\ [UNCHANGED vars]_vars => Revisions'
  BY DEF Revisions, vars
<1> QED BY <1>1, <1>2, PTL DEF Spec

\* Of two competing changes to a shard the one with the higher precedence
\* (pending, claimed, claimed_pending_resume, failed, done) wins.
THEOREM PrecedenceTheorem == Spec => []FollowsPrecedence
<1>1. Revisions => FollowsPrecedence
  <2> SUFFICES ASSUME Revisions, ours # base, theirs # base
               PROVE  LET m == Merge(base, ours, theirs)
                      IN  /\ m \in {ours, theirs}
                          /\ Precedence(m.state) >= Precedence(ours.state)
                          /\ Precedence(m.state) >= Precedence(theirs.state)
    BY DEF FollowsPrecedence
  <2>1. ours \in Entry /\ theirs \in Entry
    BY DEF Revisions
  <2>2. CASE ours = theirs
    <3>1. Merge(base, ours, theirs) = ours
      BY <2>2 DEF Merge
    <3>2. Precedence(ours.state) \in Nat
      BY <2>1 DEF Entry, EntryStates, Precedence
    <3> QED BY <2>2, <3>1, <3>2
  <2>3. CASE ours # theirs
    <3>1. Merge(base, ours, theirs) = Contest(ours, theirs)
      BY <2>3 DEF Merge
    <3> QED BY <2>1, <3>1, MergePicks, ContestWinner
  <2> QED BY <2>2, <2>3
<1> QED BY <1>1, RevisionsTyped, PTL

-----------------------------------------------------------------------------
\* SidesSwap: the merge depends on which side is called ours only where the
\* operator is asked, both sides failed, or one host wrote two equal stamps.
THEOREM SwapTheorem == Spec => []SidesSwap
<1>1. Revisions => SidesSwap
  <2> SUFFICES ASSUME Revisions, ~ Unresolved(base, ours, theirs),
                      Merge(base, ours, theirs) # Merge(base, theirs, ours)
               PROVE  /\ ours.state = theirs.state
                      /\ ours.state # "failed" =>
                            ours.host = theirs.host /\ ours.at = theirs.at
    BY DEF SidesSwap
  <2>1. ours # theirs /\ ours # base /\ theirs # base
    BY DEF Merge
  <2>2. Contest(ours, theirs) # Contest(theirs, ours)
    BY <2>1 DEF Merge
  <2>3. /\ ours.state \in EntryStates /\ theirs.state \in EntryStates
        /\ ours.at \in Nat /\ theirs.at \in Nat
    BY MergeAssumption DEF Revisions, Entry
  <2>4. CASE "failed" \in {ours.state, theirs.state}
    BY <2>2, <2>3, <2>4 DEF Contest, FailedContest, EntryStates
  <2>5. CASE "failed" \notin {ours.state, theirs.state}
    <3>1. Rank(ours.state) \in Nat /\ Rank(theirs.state) \in Nat
      BY DEF Rank
    <3>2. Rank(ours.state) = Rank(theirs.state)
      BY <2>2, <2>5, <3>1 DEF Contest
    <3>3. ours.state = theirs.state
      BY <2>3, <2>5, <3>2 DEF Rank, EntryStates
    <3>4. ours.host = theirs.host
      BY <2>1, <2>5, <3>2 DEF Unresolved
    <3>5. ours.at = theirs.at
      BY <2>2, <2>3, <2>5, <3>1, <3>2, <3>4 DEF Contest, Tie
    <3> QED BY <3>3, <3>4, <3>5
  <2> QED BY <2>4, <2>5
<1> QED BY <1>1, RevisionsTyped, PTL

-----------------------------------------------------------------------------
\* How strongly a revision speaks: not at all when it is the ancestor, else
\* by the precedence of its state.
Weight(b, e) == IF e = b THEN 0 ELSE Precedence(e.state) + 1

\* The merge takes a revision of the greatest weight.
LEMMA MergeWeight ==
    ASSUME NEW b \in Entry, NEW o \in Entry, NEW t \in Entry
    PROVE  /\ Merge(b, o, t) \in Entry
           /\ Weight(b, Merge(b, o, t)) =
                IF Weight(b, o) >= Weight(b, t) THEN Weight(b, o) ELSE Weight(b, t)
<1>1. Merge(b, o, t) \in {o, t}
  BY MergePicks
<1>2. \A e \in Entry : Precedence(e.state) \in 0 .. 4
  BY DEF Precedence, Entry, EntryStates
<1>3. CASE o = t \/ o = b \/ t = b
  <2>1. Merge(b, o, t) = IF o = b THEN t ELSE o
    BY <1>3 DEF Merge
  <2>2. CASE o = b
    BY <1>2, <2>1, <2>2 DEF Weight
  <2>3. CASE o # b
    BY <1>2, <1>3, <2>1, <2>3 DEF Weight
  <2> QED BY <2>2, <2>3
<1>4. CASE o # t /\ o # b /\ t # b
  <2>1. Merge(b, o, t) = Contest(o, t)
    BY <1>4 DEF Merge
  <2>2. Weight(b, Merge(b, o, t)) = Precedence(Contest(o, t).state) + 1
    BY <1>1, <1>4, <2>1 DEF Weight
  <2>3. Weight(b, o) = Precedence(o.state) + 1 /\ Weight(b, t) = Precedence(t.state) + 1
    BY <1>4 DEF Weight
  <2>4. Contest(o, t) \in {o, t}
    BY <1>1, <2>1
  <2> QED BY <1>2, <2>1, <2>2, <2>3, <2>4, ContestWinner
<1> QED BY <1>3, <1>4

\* Revisions of equal weight have the shard in the same state.
LEMMA WeightState ==
    ASSUME NEW b \in Entry, NEW d \in Entry, NEW e \in Entry,
           Weight(b, d) = Weight(b, e)
    PROVE  d.state = e.state
<1>1. \A f \in Entry : f.state \in EntryStates
  BY DEF Entry
<1>2. Precedence(d.state) \in Nat /\ Precedence(e.state) \in Nat
  BY <1>1 DEF Precedence, EntryStates
<1>3. CASE d = b \/ e = b
  BY <1>2, <1>3 DEF Weight
<1>4. CASE d # b /\ e # b
  <2>1. Precedence(d.state) = Precedence(e.state)
    BY <1>2, <1>4 DEF Weight
  <2> QED BY <1>1, <2>1 DEF Precedence, EntryStates
<1> QED BY <1>3, <1>4

\* The order in which three revisions of a shard are merged does not decide
\* the state it ends in.
THEOREM OrderFreeTheorem == Spec => []StateOrderFree
<1>1. Revisions => StateOrderFree
  <2> SUFFICES ASSUME Revisions PROVE StateOrderFree
    OBVIOUS
  <2> DEFINE M(o, t) == Merge(base, o, t)
             W(e)    == Weight(base, e)
             m1 == M(M(ours, theirs), third)
             m2 == M(ours, M(theirs, third))
             m3 == M(M(third, ours), theirs)
             m4 == M(M(theirs, ours), third)
  <2>1. base \in Entry /\ ours \in Entry /\ theirs \in Entry /\ third \in Entry
    BY DEF Revisions
  <2>2. /\ M(ours, theirs) \in Entry /\ M(theirs, third) \in Entry
        /\ M(third, ours) \in Entry /\ M(theirs, ours) \in Entry
    BY <2>1, MergeWeight
  <2>3. m1 \in Entry /\ m2 \in Entry /\ m3 \in Entry /\ m4 \in Entry
    BY <2>1, <2>2, MergeWeight
  <2>4. \A d, e \in Entry : W(M(d, e)) = IF W(d) >= W(e) THEN W(d) ELSE W(e)
    BY <2>1, MergeWeight
  <2>5. W(ours) \in Nat /\ W(theirs) \in Nat /\ W(third) \in Nat
    BY <2>1 DEF Weight, Precedence, Entry, EntryStates
  <2> HIDE DEF M, W
  <2>6. W(m1) = W(m2) /\ W(m1) = W(m3) /\ W(m1) = W(m4)
    BY <2>1, <2>2, <2>4, <2>5
  <2> USE DEF W
  <2> HIDE DEF m1, m2, m3, m4
  <2>7. m1.state = m2.state /\ m1.state = m3.state /\ m1.state = m4.state
    BY <2>1, <2>3, <2>6, WeightState
  <2> USE DEF M, m1, m2, m3, m4
  <2> QED BY <2>7 DEF StateOrderFree
<1> QED BY <1>1, RevisionsTyped, PTL
=============================================================================
