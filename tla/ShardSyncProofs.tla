-------------------------- MODULE ShardSyncProofs --------------------------
(***************************************************************************)
(* Theorems about the git-synced run, for any hosts, shards, retries and   *)
(* number of faults.                                                       *)
(***************************************************************************)
EXTENDS ShardSync, SequenceTheorems, TLAPS

\* A conflicted state.json belongs to a stopped rebase, which has a commit
\* left to replay.
GitOK ==
    \A h \in Hosts : /\ work[h] = Conflicted => git[h] = "stopped"
                     /\ git[h] = "stopped" => todo[h] # <<>>

TypeInv == TypeOK /\ GitOK

-----------------------------------------------------------------------------
(* Entries, books and logs of books.                                       *)

LEMMA FreshBook == Fresh \in Book
BY SyncAssumption DEF Fresh, Book, Entry, EntryStates

LEMMA ZeroShard == 0 \in Shards
BY SyncAssumption DEF Shards

LEMMA MarkedEntry ==
    ASSUME NEW j \in Jobs, NEW h \in Hosts, NEW e \in Entry
    PROVE  Marked(j, h, e) \in Entry
BY SyncAssumption DEF Marked, Entry, EntryStates, Jobs

LEMMA MergeEntry ==
    ASSUME NEW b \in Entry, NEW o \in Entry, NEW t \in Entry
    PROVE  Merge(b, o, t) \in Entry
BY DEF Merge, Contest, FailedContest, Tie

\* The tip of a log of commits b, q[1], q[2], ...
Latest(b, q) == IF q = <<>> THEN b ELSE q[Len(q)]

LEMMA LatestBook ==
    ASSUME NEW b \in Book, NEW q \in Seq(Book)
    PROVE  Latest(b, q) \in Book
<1>1. CASE q = <<>>
  BY <1>1 DEF Latest
<1>2. CASE q # <<>>
  BY <1>2, EmptySeq, ElementOfSeq DEF Latest
<1> QED BY <1>1, <1>2

LEMMA TipBook ==
    ASSUME TypeOK, NEW h \in Hosts
    PROVE  Tip(h) = Latest(base[h], commits[h]) /\ Tip(h) \in Book
<1>1. base[h] \in Book /\ commits[h] \in Seq(Book)
  BY DEF TypeOK
<1>2. Tip(h) = Latest(base[h], commits[h])
  BY DEF Tip, Latest
<1> QED BY <1>1, <1>2, LatestBook

\* What a rebase can be asked to replay, and what the replay yields.
LEMMA ReplayBooks ==
    ASSUME TypeOK, NEW h \in Hosts, todo[h] # <<>>
    PROVE  /\ todo[h][1] \in Book
           /\ Tail(todo[h]) \in Seq(Book)
           /\ Replayed(h) \in Book
           /\ \A S \in SUBSET Shards :
                [s \in Shards |-> IF s \in S THEN todo[h][1][s]
                   ELSE Merge(prev[h][s], Tip(h)[s], todo[h][1][s])] \in Book
<1>1. todo[h] \in Seq(Book) /\ prev[h] \in Book /\ Tip(h) \in Book
  BY TipBook DEF TypeOK
<1>2. todo[h][1] \in Book
  BY <1>1, EmptySeq, ElementOfSeq
<1>3. Tail(todo[h]) \in Seq(Book)
  BY <1>1, HeadTailProperties
<1>4. Replayed(h) \in Book
  BY <1>1, <1>2 DEF Replayed, Book
<1>5. ASSUME NEW S \in SUBSET Shards
      PROVE  [s \in Shards |-> IF s \in S THEN todo[h][1][s]
                ELSE Merge(prev[h][s], Tip(h)[s], todo[h][1][s])] \in Book
  <2>1. ASSUME NEW s \in Shards
        PROVE  /\ todo[h][1][s] \in Entry
               /\ Merge(prev[h][s], Tip(h)[s], todo[h][1][s]) \in Entry
    BY <1>1, <1>2, MergeEntry DEF Book
  <2> QED BY <2>1 DEF Book
<1> QED BY <1>2, <1>3, <1>4, <1>5

\* A step of the rebase keeps a clone well typed.
LEMMA ReplayTyped ==
    ASSUME TypeInv, NEW h \in Hosts, todo[h] # <<>>, NEW book \in Book,
           Replay(h, book)
    PROVE  /\ commits' \in [Hosts -> Seq(Book)]
           /\ work' \in [Hosts -> Book \cup {Conflicted}]
           /\ prev' \in [Hosts -> Book]
           /\ todo' \in [Hosts -> Seq(Book)]
           /\ \A g \in Hosts : g # h => work'[g] = work[g] /\ todo'[g] = todo[g]
           /\ work'[h] = book
<1>1. Append(commits[h], book) \in Seq(Book)
  BY AppendProperties DEF TypeInv, TypeOK
<1> QED BY <1>1, ReplayBooks DEF Replay, TypeInv, TypeOK

\* A fetch keeps a clone well typed.
LEMMA BeginRebaseTyped ==
    ASSUME TypeInv, NEW h \in Hosts, NEW command \in {"pull", "push"},
           BeginRebase(h, command)
    PROVE  /\ base' \in [Hosts -> Book]
           /\ stale' \in [Hosts -> BOOLEAN]
           /\ commits' \in [Hosts -> Seq(Book)]
           /\ work' \in [Hosts -> Book \cup {Conflicted}]
           /\ git' \in [Hosts -> {"idle", "pull", "push", "resolve", "stopped"}]
           /\ todo' \in [Hosts -> Seq(Book)]
           /\ prev' \in [Hosts -> Book]
           /\ GitOK'
<1>1. <<>> \in Seq(Book)
  BY EmptySeq
<1>2. upstream \in Book /\ upstream # Conflicted
  BY ConflictAssumption DEF TypeInv, TypeOK
<1> QED BY <1>1, <1>2 DEF BeginRebase, TypeInv, TypeOK, GitOK

LEMMA ReleaseTyped ==
    ASSUME TypeOK, NEW h \in Hosts, Release(h)
    PROVE  claims' \in [Hosts -> SUBSET Shards]
<1>1. claims[h] \ {target[h]} \in SUBSET Shards
  BY DEF TypeOK
<1> QED BY <1>1 DEF Release, TypeOK

\* The ends of a pull and of a push touch only the worker.
LEMMA WorkerEnds ==
    ASSUME TypeInv, NEW h \in Hosts, Bail(h) \/ AfterPush(h)
    PROVE  /\ pc' \in [Hosts -> Ended \cup {"idle", "pull", "update", "commit", "push", "scoring"}]
           /\ claims' \in [Hosts -> SUBSET Shards]
<1>1. Release(h) \/ UNCHANGED claims => claims' \in [Hosts -> SUBSET Shards]
  BY ReleaseTyped DEF TypeInv, TypeOK
<1>2. pc' \in [Hosts -> Ended \cup {"idle", "pull", "update", "commit", "push", "scoring"}]
  BY DEF Bail, AfterPush, TypeInv, TypeOK, Ended
<1> QED BY <1>1, <1>2 DEF Bail, AfterPush

-----------------------------------------------------------------------------
\* Every variable stays in its range; and a working copy with conflict
\* markers means a stopped rebase.
THEOREM SyncTypeInvariant == Spec => []TypeInv
<1>1. Init => TypeInv
  <2> SUFFICES ASSUME Init PROVE TypeInv
    OBVIOUS
  <2>1. Fresh \in Book /\ Fresh # Conflicted /\ 0 \in Shards /\ <<>> \in Seq(Book)
    BY FreshBook, ConflictAssumption, ZeroShard, EmptySeq
  <2> QED BY <2>1, SyncAssumption DEF Init, TypeInv, TypeOK, GitOK, Jobs, Ended
<1>2. TypeInv /\ [Next]_vars => TypeInv'
  <2> SUFFICES ASSUME TypeInv, [Next]_vars PROVE TypeInv'
    OBVIOUS
  <2> USE DEF TypeInv
  <2>1. ASSUME NEW h \in Hosts, Start(h) PROVE TypeInv'
    BY <2>1, SyncAssumption DEF Start, TypeOK, GitOK, repo, worker, Jobs, Ended
  <2>2. ASSUME NEW h \in Hosts, Unreadable(h) PROVE TypeInv'
    BY <2>2, SyncAssumption DEF Unreadable, TypeOK, GitOK, repo, worker, Jobs, Ended
  <2>3. ASSUME NEW h \in Hosts, Select(h) PROVE TypeInv'
    <3>1. PICK s \in Shards : /\ target' = [target EXCEPT ![h] = s]
                             /\ claims' = [claims EXCEPT ![h] = @ \cup {s}]
      BY <2>3 DEF Select, Resumable, Claimable
    <3>2. claims[h] \cup {s} \in SUBSET Shards
      BY DEF TypeOK
    <3>3. claims' \in [Hosts -> SUBSET Shards]
      BY <3>1, <3>2 DEF TypeOK
    <3>4. /\ pc' = [pc EXCEPT ![h] = "pull"]
          /\ \E j \in Jobs : job' = [job EXCEPT ![h] = j]
          /\ UNCHANGED <<upstream, repo, tries, faults>>
      BY <2>3 DEF Select, Goto, Jobs
    <3>5. target' \in [Hosts -> Shards]
      BY <3>1 DEF TypeOK
    <3>6. pc' \in [Hosts -> Ended \cup {"idle", "pull", "update", "commit", "push", "scoring"}]
          /\ job' \in [Hosts -> Jobs]
      BY <3>4 DEF TypeOK
    <3> QED BY <3>3, <3>4, <3>5, <3>6 DEF TypeOK, GitOK, repo
  <2>4. ASSUME NEW h \in Hosts, Drained(h) PROVE TypeInv'
    BY <2>4, SyncAssumption DEF Drained, Goto, TypeOK, GitOK, repo, worker, Jobs, Ended
  <2>5. ASSUME NEW h \in Hosts, Score(h) PROVE TypeInv'
    <3>1. job' \in [Hosts -> Jobs] /\ faults' \in 0 .. MaxFaults
      <4>1. \E j \in Jobs : job' = [job EXCEPT ![h] = j]
        <5>1. job' \in {[job EXCEPT ![h] = j] : j \in {"done", "failed", "checkpoint"}}
          BY <2>5 DEF Score
        <5> QED BY <5>1 DEF Jobs
      <4>2. UNCHANGED faults \/ Fault
        BY <2>5 DEF Score
      <4> QED BY <4>1, <4>2, SyncAssumption DEF TypeOK, Fault
    <3>2. pc' = [pc EXCEPT ![h] = "pull"]
          /\ UNCHANGED <<upstream, repo, target, tries, claims>>
      BY <2>5 DEF Score
    <3> QED BY <3>1, <3>2 DEF TypeOK, GitOK, repo
  <2>6. ASSUME NEW h \in Hosts, PullRefused(h) PROVE TypeInv'
    BY <2>6, WorkerEnds DEF PullRefused, TypeOK, GitOK, repo, worker, Jobs, Ended
  <2>7. ASSUME NEW h \in Hosts, PullFails(h) PROVE TypeInv'
    BY <2>7, SyncAssumption DEF PullFails, Goto, Fault, TypeOK, GitOK, repo, worker, Jobs, Ended
  <2>8. ASSUME NEW h \in Hosts, Pull(h) PROVE TypeInv'
    <3>1. BeginRebase(h, "pull")
      BY <2>8 DEF Pull
    <3> QED BY <2>8, <3>1, BeginRebaseTyped DEF Pull, TypeOK, worker
  <2>9. ASSUME NEW h \in Hosts, ReplayCommit(h) PROVE TypeInv'
    <3>1. Replayed(h) \in Book /\ Replayed(h) # Conflicted
      BY <2>9, ReplayBooks, ConflictAssumption DEF ReplayCommit
    <3> QED BY <2>9, <3>1, ReplayTyped DEF ReplayCommit, TypeOK, GitOK, worker
  <2>10. ASSUME NEW h \in Hosts, ReplayConflict(h) PROVE TypeInv'
    <3>1. pc' \in [Hosts -> Ended \cup {"idle", "pull", "update", "commit", "push", "scoring"}]
          /\ claims' \in [Hosts -> SUBSET Shards]
      BY <2>10, WorkerEnds DEF ReplayConflict, TypeOK
    <3> QED BY <2>10, <3>1 DEF ReplayConflict, TypeOK, GitOK
  <2>11. ASSUME NEW h \in Hosts, RebaseEnd(h) PROVE TypeInv'
    BY <2>11 DEF RebaseEnd, TypeOK, GitOK, repo, worker, Jobs, Ended
  <2>12. ASSUME NEW h \in Hosts, Update(h) PROVE TypeInv'
    <3>1. work[h] \in Book /\ target[h] \in Shards /\ job[h] \in Jobs
      BY <2>12 DEF Update, Goto, TypeOK, GitOK
    <3>2. Marked(job[h], h, work[h][target[h]]) \in Entry
      BY <3>1, MarkedEntry DEF Book
    <3>3. [work[h] EXCEPT ![target[h]] = Marked(job[h], h, work[h][target[h]])] \in Book
      BY <3>1, <3>2 DEF Book
    <3>4. work' = [work EXCEPT ![h] =
                  [work[h] EXCEPT ![target[h]] = Marked(job[h], h, work[h][target[h]])]]
      BY <2>12 DEF Update
    <3>5. work' \in [Hosts -> Book \cup {Conflicted}] /\ work'[h] # Conflicted
      BY <3>3, <3>4, ConflictAssumption DEF TypeOK
    <3> QED BY <2>12, <3>4, <3>5 DEF Update, Goto, TypeOK, GitOK
  <2>13. ASSUME NEW h \in Hosts, UpdateRefused(h) PROVE TypeInv'
    <3>1. claims' \in [Hosts -> SUBSET Shards]
      BY <2>13, ReleaseTyped DEF UpdateRefused, TypeOK
    <3> QED BY <2>13, <3>1 DEF UpdateRefused, TypeOK, GitOK, repo, worker, Jobs, Ended
  <2>14. ASSUME NEW h \in Hosts, Commit(h) PROVE TypeInv'
    <3>1. work[h] \in Book
      BY <2>14 DEF Commit, Goto, TypeOK, GitOK
    <3>2. Append(commits[h], work[h]) \in Seq(Book)
      BY <3>1, AppendProperties DEF TypeOK
    <3> QED BY <2>14, <3>2, SyncAssumption DEF Commit, Goto, TypeOK, GitOK
  <2>15. ASSUME NEW h \in Hosts, Push(h) PROVE TypeInv'
    <3>1. Tip(h) \in Book /\ <<>> \in Seq(Book)
      BY TipBook, EmptySeq
    <3> QED BY <2>15, <3>1, WorkerEnds DEF Push, TypeOK, GitOK
  <2>16. ASSUME NEW h \in Hosts, PushRejected(h) PROVE TypeInv'
    <3>1. BeginRebase(h, "push")
      BY <2>16 DEF PushRejected
    <3>2. tries' \in [Hosts -> 0 .. Retries]
      BY <2>16, SyncAssumption DEF PushRejected, TypeOK
    <3> QED BY <2>16, <3>1, <3>2, BeginRebaseTyped DEF PushRejected, TypeOK, worker
  <2>17. ASSUME NEW h \in Hosts, PushFails(h) PROVE TypeInv'
    BY <2>17, WorkerEnds, SyncAssumption DEF PushFails, Fault, TypeOK, GitOK, repo, worker,
       Jobs, Ended
  <2>18. ASSUME NEW h \in Hosts, ResolveConflict(h) PROVE TypeInv'
    <3>1. todo[h] # <<>>
      BY <2>18 DEF ResolveConflict, GitOK
    <3>2. PICK book \in Book : Replay(h, book)
      BY <2>18, <3>1, ReplayBooks DEF ResolveConflict
    <3>3. book # Conflicted
      BY ConflictAssumption
    <3> QED BY <2>18, <3>1, <3>2, <3>3, ReplayTyped DEF ResolveConflict, TypeOK, GitOK, worker
  <2>19. ASSUME NEW h \in Hosts, Crash(h) PROVE TypeInv'
    BY <2>19, SyncAssumption DEF Crash, Fault, TypeOK, GitOK, repo, worker, Jobs, Ended
  <2>20. CASE UNCHANGED vars
    BY <2>20 DEF vars, TypeOK, GitOK, repo, worker, Jobs, Ended
  <2> QED
    BY <2>1, <2>2, <2>3, <2>4, <2>5, <2>6, <2>7, <2>8, <2>9, <2>10, <2>11, <2>12, <2>13,
       <2>14, <2>15, <2>16, <2>17, <2>18, <2>19, <2>20 DEF Next
<1> QED BY <1>1, <1>2, PTL DEF Spec

\* TypeOK: every book a clone holds, in its working copy, its commits and what
\* a rebase has left to replay, is a whole state.json or one with markers.
THEOREM SyncTypeCorrect == Spec => []TypeOK
BY SyncTypeInvariant, PTL DEF TypeInv

-----------------------------------------------------------------------------
(* An outcome, once shared, stays: why a rebase, a resolution and a push   *)
(* only ever add outcomes.  The order on books is                          *)

Keeps(a, b) == \A s \in Shards : a[s].state \in Outcomes => b[s].state \in Outcomes

\* A log of commits q on top of b loses no outcome on the way.
Grows(b, q) ==
    /\ \A i \in 1 .. Len(q) : Keeps(b, q[i])
    /\ \A i, j \in 1 .. Len(q) : i < j => Keeps(q[i], q[j])

LEMMA KeepsTransitive ==
    ASSUME NEW a, NEW b, NEW c, Keeps(a, b), Keeps(b, c)
    PROVE  Keeps(a, c)
BY DEF Keeps

LEMMA GrowsAppend ==
    ASSUME NEW b \in Book, NEW q \in Seq(Book), NEW e \in Book,
           Grows(b, q), Keeps(Latest(b, q), e)
    PROVE  /\ Grows(b, Append(q, e))
           /\ Latest(b, Append(q, e)) = e
<1> DEFINE r == Append(q, e)
<1>1. /\ Len(q) \in Nat
      /\ Len(r) = Len(q) + 1
      /\ \A i \in 1 .. Len(q) : r[i] = q[i]
      /\ r[Len(q) + 1] = e
      /\ r # <<>>
  BY AppendProperties, LenProperties
<1>2. Latest(b, r) = e
  BY <1>1 DEF Latest
<1>3. Keeps(b, e) /\ \A i \in 1 .. Len(q) : Keeps(q[i], e)
  <2>1. CASE q = <<>>
    BY <2>1, EmptySeq DEF Latest
  <2>2. CASE q # <<>>
    <3>1. Latest(b, q) = q[Len(q)] /\ Len(q) \in 1 .. Len(q)
      BY <1>1, <2>2, EmptySeq DEF Latest
    <3>2. Keeps(b, q[Len(q)])
      BY <3>1 DEF Grows
    <3>3. ASSUME NEW i \in 1 .. Len(q) PROVE Keeps(q[i], e)
      <4>1. CASE i = Len(q)
        BY <3>1, <4>1
      <4>2. CASE i # Len(q)
        <5>1. Keeps(q[i], q[Len(q)])
          BY <1>1, <3>1, <4>2 DEF Grows
        <5> QED BY <3>1, <5>1, KeepsTransitive
      <4> QED BY <4>1, <4>2
    <3> QED BY <3>1, <3>2, <3>3, KeepsTransitive
  <2> QED BY <2>1, <2>2
<1>4. \A i \in 1 .. Len(r) : Keeps(b, r[i])
  BY <1>1, <1>3 DEF Grows
<1>5. ASSUME NEW i \in 1 .. Len(r), NEW j \in 1 .. Len(r), i < j
      PROVE  Keeps(r[i], r[j])
  <2>1. i \in 1 .. Len(q) /\ r[i] = q[i]
    BY <1>1, <1>5
  <2>2. CASE j = Len(q) + 1
    BY <1>1, <1>3, <2>1, <2>2
  <2>3. CASE j # Len(q) + 1
    <3>1. j \in 1 .. Len(q) /\ r[j] = q[j]
      BY <1>1, <2>3
    <3> QED BY <1>5, <2>1, <3>1 DEF Grows
  <2> QED BY <2>2, <2>3
<1> QED BY <1>2, <1>4, <1>5 DEF Grows

LEMMA GrowsTail ==
    ASSUME NEW b \in Book, NEW q \in Seq(Book), q # <<>>, Grows(b, q)
    PROVE  Keeps(b, q[1]) /\ Grows(q[1], Tail(q))
<1>1. /\ Len(q) \in Nat \ {0}
      /\ Len(Tail(q)) = Len(q) - 1
      /\ \A i \in 1 .. Len(q) - 1 : Tail(q)[i] = q[i + 1]
  BY EmptySeq, LenProperties, HeadTailProperties
<1>2. \A i \in 1 .. Len(Tail(q)) :
        i + 1 \in 1 .. Len(q) /\ 1 < i + 1 /\ Tail(q)[i] = q[i + 1]
  BY <1>1
<1>3. 1 \in 1 .. Len(q)
  BY <1>1
<1>4. \A i \in 1 .. Len(Tail(q)) : Keeps(q[1], Tail(q)[i])
  BY <1>2, <1>3 DEF Grows
<1>5. ASSUME NEW i \in 1 .. Len(Tail(q)), NEW j \in 1 .. Len(Tail(q)), i < j
      PROVE  Keeps(Tail(q)[i], Tail(q)[j])
  <2>1. i + 1 < j + 1
    BY <1>5
  <2> QED BY <1>2, <2>1 DEF Grows
<1> QED BY <1>3, <1>4, <1>5 DEF Grows

LEMMA GrowsLatest ==
    ASSUME NEW b \in Book, NEW q \in Seq(Book), Grows(b, q)
    PROVE  Keeps(b, Latest(b, q))
<1>1. CASE q = <<>>
  BY <1>1 DEF Latest, Keeps
<1>2. CASE q # <<>>
  <2>1. Len(q) \in 1 .. Len(q)
    BY <1>2, EmptySeq, LenProperties
  <2> QED BY <1>2, <2>1 DEF Latest, Grows
<1> QED BY <1>1, <1>2

\* A merge keeps an outcome of the side it is merged into, provided that the
\* other side kept those of the common ancestor.
LEMMA MergeKeeps ==
    ASSUME NEW p \in Entry, NEW u \in Entry, NEW c \in Entry,
           p.state \in Outcomes => c.state \in Outcomes,
           u.state \in Outcomes
    PROVE  /\ Merge(p, u, c).state \in Outcomes
           /\ Unresolved(p, u, c) => c.state \in Outcomes
<1>1. u.state \in EntryStates /\ c.state \in EntryStates
  BY DEF Entry
<1>2. Contest(u, c).state \in Outcomes
  BY <1>1 DEF Contest, FailedContest, Tie, Rank, Outcomes, EntryStates
<1>3. Merge(p, u, c).state \in Outcomes
  BY <1>2 DEF Merge
<1>4. Unresolved(p, u, c) => c.state \in Outcomes
  BY <1>1 DEF Unresolved, Rank, Outcomes, EntryStates
<1> QED BY <1>3, <1>4

\* A clean replay and a resolution keep the outcomes of the tip.
LEMMA ReplayKeeps ==
    ASSUME TypeOK, NEW h \in Hosts, todo[h] # <<>>, Keeps(prev[h], todo[h][1])
    PROVE  /\ Ours(h) \cap Theirs(h) \subseteq Shards \ Changed(todo[h][1], Tip(h))
                => Keeps(Tip(h), Replayed(h))
           /\ \A S \in SUBSET {s \in Shards :
                                 Unresolved(prev[h][s], Tip(h)[s], todo[h][1][s])} :
                Keeps(Tip(h), [s \in Shards |-> IF s \in S THEN todo[h][1][s]
                                 ELSE Merge(prev[h][s], Tip(h)[s], todo[h][1][s])])
<1> DEFINE p == prev[h]
           c == todo[h][1]
           u == Tip(h)
<1>1. p \in Book /\ c \in Book /\ u \in Book
  BY TipBook, ReplayBooks DEF TypeOK
<1>2. ASSUME Ours(h) \cap Theirs(h) \subseteq Shards \ Changed(c, u),
             NEW s \in Shards, u[s].state \in Outcomes
      PROVE  Replayed(h)[s].state \in Outcomes
  <2>1. Replayed(h)[s] = IF c[s] = p[s] THEN u[s] ELSE c[s]
    BY DEF Replayed
  <2>2. CASE c[s] = p[s]
    BY <1>2, <2>1, <2>2
  <2>3. CASE c[s] # p[s] /\ c[s] = u[s]
    BY <1>2, <2>1, <2>3
  <2>4. CASE c[s] # p[s] /\ c[s] # u[s]
    <3>1. p[s] = u[s]
      BY <1>2, <2>4 DEF Ours, Theirs, Changed
    <3> QED BY <1>2, <2>1, <2>4, <3>1 DEF Keeps
  <2> QED BY <2>2, <2>3, <2>4
<1>3. ASSUME NEW S \in SUBSET {s \in Shards : Unresolved(p[s], u[s], c[s])},
             NEW s \in Shards, u[s].state \in Outcomes
      PROVE  (IF s \in S THEN c[s] ELSE Merge(p[s], u[s], c[s])).state \in Outcomes
  <2>1. p[s] \in Entry /\ u[s] \in Entry /\ c[s] \in Entry
    BY <1>1 DEF Book
  <2>2. p[s].state \in Outcomes => c[s].state \in Outcomes
    BY DEF Keeps
  <2> QED BY <1>3, <2>1, <2>2, MergeKeeps
<1> QED BY <1>2, <1>3 DEF Keeps

LEMMA UpdateKeeps ==
    ASSUME NEW j \in Jobs, NEW h \in Hosts, NEW e \in Entry,
           Accepts(j, e.state), e.state \in Outcomes
    PROVE  Marked(j, h, e).state \in Outcomes
BY DEF Accepts, Marked, Outcomes, Jobs, Entry

-----------------------------------------------------------------------------
\* The clone knows the upstream it is not behind, its local commits and what
\* a rebase has left to replay only add outcomes, and so does the working
\* copy.
OrderedAt(h) ==
    /\ ~stale[h] => base[h] = upstream
    /\ Grows(base[h], commits[h])
    /\ Grows(prev[h], todo[h])
    /\ work[h] # Conflicted => Keeps(Tip(h), work[h])

Ordered == \A h \in Hosts : OrderedAt(h)

\* The steps that touch one clone only.
LEMMA OtherClones ==
    ASSUME TypeOK, Ordered, UNCHANGED upstream, NEW h \in Hosts, OrderedAt(h)',
           \A g \in Hosts : g # h =>
              /\ base'[g] = base[g] /\ stale'[g] = stale[g]
              /\ commits'[g] = commits[g] /\ work'[g] = work[g]
              /\ todo'[g] = todo[g] /\ prev'[g] = prev[g]
    PROVE  Ordered'
<1>1. ASSUME NEW g \in Hosts, g # h PROVE OrderedAt(g)'
  BY <1>1 DEF Ordered, OrderedAt, Tip
<1> QED BY <1>1 DEF Ordered

LEMMA GrowsEmpty == ASSUME NEW b PROVE Grows(b, <<>>)
BY EmptySeq DEF Grows

LEMMA BeginRebaseOrdered ==
    ASSUME TypeInv, Ordered, UNCHANGED upstream, NEW h \in Hosts,
           NEW command \in {"pull", "push"}, BeginRebase(h, command)
    PROVE  Ordered'
<1>1. /\ base'[h] = upstream /\ work'[h] = upstream /\ ~stale'[h]
      /\ todo'[h] = commits[h] /\ prev'[h] = base[h] /\ commits'[h] = <<>>
  BY DEF BeginRebase, TypeInv, TypeOK
<1>2. Tip(h)' = upstream
  BY <1>1 DEF Tip
<1>3. Keeps(upstream, upstream) /\ Grows(base[h], commits[h])
  BY DEF Keeps, Ordered, OrderedAt
<1>4. OrderedAt(h)'
  BY <1>1, <1>2, <1>3, GrowsEmpty DEF OrderedAt
<1>5. \A g \in Hosts : g # h =>
        /\ base'[g] = base[g] /\ stale'[g] = stale[g]
        /\ commits'[g] = commits[g] /\ work'[g] = work[g]
        /\ todo'[g] = todo[g] /\ prev'[g] = prev[g]
  BY DEF BeginRebase, TypeInv, TypeOK
<1> QED BY <1>4, <1>5, OtherClones DEF TypeInv

LEMMA ReplayOrdered ==
    ASSUME TypeInv, Ordered, NEW h \in Hosts, todo[h] # <<>>, NEW book \in Book,
           Replay(h, book), Keeps(Tip(h), book), UNCHANGED <<upstream, base, stale>>
    PROVE  Ordered'
<1>1. /\ base[h] \in Book /\ commits[h] \in Seq(Book) /\ todo[h] \in Seq(Book)
      /\ prev[h] \in Book
      /\ Tip(h) = Latest(base[h], commits[h])
  BY TipBook DEF TypeInv, TypeOK
<1>2. /\ work'[h] = book /\ prev'[h] = todo[h][1] /\ todo'[h] = Tail(todo[h])
      /\ commits'[h] = IF book = Tip(h) THEN commits[h] ELSE Append(commits[h], book)
  BY DEF Replay, TypeInv, TypeOK
<1>3. Grows(base[h], commits[h]) /\ Grows(prev[h], todo[h])
  BY DEF Ordered, OrderedAt
<1>4. Grows(todo[h][1], Tail(todo[h]))
  BY <1>1, <1>3, GrowsTail
<1>5. Grows(base[h], commits'[h]) /\ Latest(base[h], commits'[h]) = book
  <2>1. CASE book = Tip(h)
    BY <1>1, <1>2, <1>3, <2>1
  <2>2. CASE book # Tip(h)
    BY <1>1, <1>2, <1>3, <2>2, GrowsAppend
  <2> QED BY <2>1, <2>2
<1>6. base'[h] = base[h] /\ stale'[h] = stale[h] /\ Tip(h)' = book
  BY <1>5 DEF Tip, Latest
<1>7. Keeps(book, book)
  BY DEF Keeps
<1>8. OrderedAt(h)'
  BY <1>2, <1>4, <1>5, <1>6, <1>7 DEF OrderedAt, Ordered
<1>9. \A g \in Hosts : g # h =>
        /\ base'[g] = base[g] /\ stale'[g] = stale[g]
        /\ commits'[g] = commits[g] /\ work'[g] = work[g]
        /\ todo'[g] = todo[g] /\ prev'[g] = prev[g]
  BY DEF Replay, TypeInv, TypeOK
<1> QED BY <1>8, <1>9, OtherClones DEF TypeInv

\* The worker's own steps leave the clone alone.
LEMMA WorkerOrdered ==
    ASSUME Ordered, UNCHANGED <<upstream, base, stale, commits, work, todo, prev>>
    PROVE  Ordered'
BY DEF Ordered, OrderedAt, Tip

LEMMA OrderedStep ==
    ASSUME TypeInv, Ordered, [Next]_vars
    PROVE  Ordered'
<1> USE DEF TypeInv
<1>1. ASSUME NEW h \in Hosts,
             \/ Start(h) \/ Unreadable(h) \/ Select(h) \/ Drained(h) \/ Score(h)
             \/ PullRefused(h) \/ PullFails(h) \/ RebaseEnd(h) \/ UpdateRefused(h)
             \/ PushFails(h) \/ Crash(h)
      PROVE  Ordered'
  <2>1. UNCHANGED <<upstream, base, stale, commits, work, todo, prev>>
    BY <1>1 DEF Start, Unreadable, Select, Drained, Score, PullRefused, PullFails,
                RebaseEnd, UpdateRefused, PushFails, Crash, repo
  <2> QED BY <2>1, WorkerOrdered
<1>2. ASSUME NEW h \in Hosts, Pull(h) PROVE Ordered'
  BY <1>2, BeginRebaseOrdered DEF Pull
<1>3. ASSUME NEW h \in Hosts, PushRejected(h) PROVE Ordered'
  BY <1>3, BeginRebaseOrdered DEF PushRejected
<1>4. ASSUME NEW h \in Hosts, ReplayCommit(h) PROVE Ordered'
  <2>1. todo[h] # <<>> /\ Replay(h, Replayed(h))
        /\ UNCHANGED <<upstream, base, stale>>
        /\ Ours(h) \cap Theirs(h) \subseteq Shards \ Changed(todo[h][1], Tip(h))
    BY <1>4 DEF ReplayCommit
  <2>2. Keeps(prev[h], todo[h][1])
    BY <2>1, GrowsTail DEF Ordered, OrderedAt, TypeOK
  <2>3. Replayed(h) \in Book /\ Keeps(Tip(h), Replayed(h))
    BY <2>1, <2>2, ReplayBooks, ReplayKeeps
  <2> QED BY <2>1, <2>3, ReplayOrdered
<1>5. ASSUME NEW h \in Hosts, ReplayConflict(h) PROVE Ordered'
  <2>1. work' = [work EXCEPT ![h] = Conflicted]
        /\ UNCHANGED <<upstream, base, stale, commits, todo, prev>>
    BY <1>5 DEF ReplayConflict
  <2>2. OrderedAt(h)'
    BY <2>1 DEF Ordered, OrderedAt, TypeOK
  <2> QED BY <2>1, <2>2, OtherClones DEF TypeOK
<1>6. ASSUME NEW h \in Hosts, Update(h) PROVE Ordered'
  <2> DEFINE w == work[h]
             x == Marked(job[h], h, w[target[h]])
  <2>1. w \in Book /\ target[h] \in Shards /\ job[h] \in Jobs /\ w # Conflicted
    BY <1>6, ConflictAssumption DEF Update, Goto, TypeOK, GitOK
  <2>2. /\ Accepts(job[h], w[target[h]].state)
        /\ work' = [work EXCEPT ![h] = [w EXCEPT ![target[h]] = x]]
        /\ UNCHANGED <<upstream, base, stale, commits, todo, prev>>
    BY <1>6 DEF Update
  <2>3. w[target[h]] \in Entry
    BY <2>1 DEF Book
  <2>4. w[target[h]].state \in Outcomes => x.state \in Outcomes
    BY <2>1, <2>2, <2>3, UpdateKeeps
  <2>5. work'[h] = [w EXCEPT ![target[h]] = x]
    BY <2>2 DEF TypeOK
  <2> HIDE DEF x
  <2>6. Keeps(w, work'[h])
    BY <2>1, <2>4, <2>5 DEF Keeps, Book
  <2>7. Keeps(Tip(h), work'[h])
    BY <2>1, <2>6, KeepsTransitive DEF Ordered, OrderedAt
  <2>8. Tip(h)' = Tip(h)
    BY <2>2 DEF Tip
  <2>9. OrderedAt(h)'
    BY <2>2, <2>7, <2>8 DEF Ordered, OrderedAt
  <2> QED BY <2>2, <2>9, OtherClones DEF TypeOK
<1>7. ASSUME NEW h \in Hosts, Commit(h) PROVE Ordered'
  <2>1. work[h] \in Book /\ work[h] # Conflicted
    BY <1>7, ConflictAssumption DEF Commit, Goto, TypeOK, GitOK
  <2>2. /\ commits' = [commits EXCEPT ![h] = Append(commits[h], work[h])]
        /\ UNCHANGED <<upstream, base, stale, work, todo, prev>>
    BY <1>7 DEF Commit
  <2>3. /\ base[h] \in Book /\ commits[h] \in Seq(Book)
        /\ Tip(h) = Latest(base[h], commits[h])
    BY TipBook DEF TypeOK
  <2>4. Grows(base[h], commits[h]) /\ Keeps(Tip(h), work[h])
    BY <2>1 DEF Ordered, OrderedAt
  <2>5. /\ Grows(base[h], Append(commits[h], work[h]))
        /\ Latest(base[h], Append(commits[h], work[h])) = work[h]
    BY <2>1, <2>3, <2>4, GrowsAppend
  <2>6. commits'[h] = Append(commits[h], work[h])
    BY <2>2 DEF TypeOK
  <2>7. Tip(h)' = work[h]
    BY <2>2, <2>5, <2>6 DEF Tip, Latest
  <2>8. Keeps(work[h], work[h])
    BY DEF Keeps
  <2>9. OrderedAt(h)'
    BY <2>2, <2>5, <2>6, <2>7, <2>8 DEF Ordered, OrderedAt
  <2>10. \A g \in Hosts : g # h => commits'[g] = commits[g]
    BY <2>2 DEF TypeOK
  <2> QED BY <2>2, <2>9, <2>10, OtherClones
<1>8. ASSUME NEW h \in Hosts, Push(h) PROVE Ordered'
  <2>1. /\ upstream' = Tip(h)
        /\ base' = [base EXCEPT ![h] = Tip(h)]
        /\ commits' = [commits EXCEPT ![h] = <<>>]
        /\ stale' = [g \in Hosts |-> g # h]
        /\ UNCHANGED <<work, todo, prev>>
    BY <1>8 DEF Push
  <2>2. base'[h] = Tip(h) /\ commits'[h] = <<>> /\ Tip(h)' = Tip(h)
    BY <2>1 DEF TypeOK, Tip
  <2>3. OrderedAt(h)'
    BY <2>1, <2>2, GrowsEmpty DEF Ordered, OrderedAt
  <2>4. ASSUME NEW g \in Hosts, g # h PROVE OrderedAt(g)'
    <3>1. stale'[g] /\ base'[g] = base[g] /\ commits'[g] = commits[g]
      BY <2>1, <2>4 DEF TypeOK
    <3>2. Tip(g)' = Tip(g)
      BY <3>1 DEF Tip
    <3> QED BY <2>1, <3>1, <3>2 DEF Ordered, OrderedAt
  <2> QED BY <2>3, <2>4 DEF Ordered
<1>9. ASSUME NEW h \in Hosts, ResolveConflict(h) PROVE Ordered'
  <2>1. todo[h] # <<>> /\ UNCHANGED <<upstream, base, stale>>
    BY <1>9 DEF ResolveConflict, GitOK
  <2>2. PICK S \in SUBSET {s \in Shards :
                             Unresolved(prev[h][s], Tip(h)[s], todo[h][1][s])} :
          Replay(h, [s \in Shards |-> IF s \in S THEN todo[h][1][s]
                       ELSE Merge(prev[h][s], Tip(h)[s], todo[h][1][s])])
    BY <1>9 DEF ResolveConflict
  <2> DEFINE book == [s \in Shards |-> IF s \in S THEN todo[h][1][s]
                        ELSE Merge(prev[h][s], Tip(h)[s], todo[h][1][s])]
  <2>3. Keeps(prev[h], todo[h][1])
    BY <2>1, GrowsTail DEF Ordered, OrderedAt, TypeOK
  <2>4. book \in Book /\ Keeps(Tip(h), book)
    BY <2>1, <2>3, ReplayBooks, ReplayKeeps
  <2> HIDE DEF book
  <2>5. Replay(h, book)
    BY <2>2 DEF book
  <2> QED BY <2>1, <2>4, <2>5, ReplayOrdered
<1>10. CASE UNCHANGED vars
  BY <1>10, WorkerOrdered DEF vars, repo
<1> QED BY <1>1, <1>2, <1>3, <1>4, <1>5, <1>6, <1>7, <1>8, <1>9, <1>10 DEF Next

\* A push replaces upstream by a tip that extends it, so no push of any host
\* takes an outcome back.
LEMMA PushKeeps ==
    ASSUME TypeInv, Ordered, [Next]_vars
    PROVE  Keeps(upstream, upstream')
<1>1. ASSUME NEW h \in Hosts, Push(h) PROVE Keeps(upstream, upstream')
  <2>1. base[h] = upstream /\ upstream' = Tip(h)
    BY <1>1 DEF Push, Ordered, OrderedAt
  <2>2. /\ base[h] \in Book /\ commits[h] \in Seq(Book)
        /\ Tip(h) = Latest(base[h], commits[h])
    BY TipBook DEF TypeInv, TypeOK
  <2> QED BY <2>1, <2>2, GrowsLatest DEF Ordered, OrderedAt
<1>2. CASE UNCHANGED upstream
  BY <1>2 DEF Keeps
<1>3. (\E h \in Hosts : Push(h)) \/ UNCHANGED upstream
  BY DEF Next, vars, Start, Unreadable, Select, Drained, Score, PullRefused, PullFails,
         Pull, ReplayCommit, ReplayConflict, RebaseEnd, Update, UpdateRefused, Commit,
         PushRejected, PushFails, ResolveConflict, Crash
<1> QED BY <1>1, <1>2, <1>3

LEMMA OrderedInvariant == Spec => []Ordered
<1>1. Init => Ordered
  <2> SUFFICES ASSUME Init, NEW h \in Hosts PROVE OrderedAt(h)
    BY DEF Ordered
  <2>1. Tip(h) = Fresh /\ Keeps(Fresh, Fresh)
    BY DEF Init, Tip, Keeps
  <2> QED BY <2>1, GrowsEmpty DEF Init, OrderedAt
<1>2. TypeInv /\ Ordered /\ [Next]_vars => Ordered'
  BY OrderedStep
<1> QED BY <1>1, <1>2, SyncTypeInvariant, PTL DEF Spec

\* A shard with an outcome in the shared history never goes back to work.
THEOREM UpstreamTheorem == Spec => UpstreamKeepsOutcomes
<1>1. TypeInv /\ Ordered /\ [Next]_vars =>
        [\A s \in Shards :
           upstream[s].state \in Outcomes => upstream'[s].state \in Outcomes]_vars
  BY PushKeeps DEF Keeps
<1> QED BY <1>1, SyncTypeInvariant, OrderedInvariant, PTL DEF Spec, UpstreamKeepsOutcomes

-----------------------------------------------------------------------------
(* An outcome, once recorded, stays somewhere: why no pull, replay or      *)
(* resolution drops the only revision that has it.                         *)

\* The shared history only adds to what a clone fetched; the tip a rebase
\* builds adds to the commit replayed last, and is the working copy until the
\* rebase stops; a rebase that ended has nothing left to replay.
HeldAt(h) ==
    /\ Keeps(base[h], upstream)
    /\ Keeps(prev[h], Tip(h))
    /\ git[h] \in {"pull", "push", "resolve"} => work[h] = Tip(h)
    /\ git[h] = "idle" => todo[h] = <<>>
    /\ git[h] = "stopped" => work[h] = Conflicted

Held == \A h \in Hosts : HeldAt(h)

LEMMA KeepsItself == ASSUME NEW a PROVE Keeps(a, a)
BY DEF Keeps

\* A clean replay and a resolution keep the outcomes of the replayed commit.
LEMMA ReplayKeepsCommit ==
    ASSUME TypeOK, NEW h \in Hosts, todo[h] # <<>>, Keeps(prev[h], Tip(h))
    PROVE  /\ Keeps(todo[h][1], Replayed(h))
           /\ \A S \in SUBSET {s \in Shards :
                                 Unresolved(prev[h][s], Tip(h)[s], todo[h][1][s])} :
                Keeps(todo[h][1], [s \in Shards |-> IF s \in S THEN todo[h][1][s]
                                 ELSE Merge(prev[h][s], Tip(h)[s], todo[h][1][s])])
<1> DEFINE p == prev[h]
           c == todo[h][1]
           u == Tip(h)
<1>1. p \in Book /\ c \in Book /\ u \in Book
  BY TipBook, ReplayBooks DEF TypeOK
<1>2. ASSUME NEW s \in Shards, c[s].state \in Outcomes
      PROVE  Replayed(h)[s].state \in Outcomes
  <2>1. Replayed(h)[s] = IF c[s] = p[s] THEN u[s] ELSE c[s]
    BY DEF Replayed
  <2>2. p[s].state \in Outcomes => u[s].state \in Outcomes
    BY DEF Keeps
  <2> QED BY <1>2, <2>1, <2>2
<1>3. ASSUME NEW s \in Shards, c[s].state \in Outcomes
      PROVE  Merge(p[s], u[s], c[s]).state \in Outcomes
  <2>1. u[s].state \in EntryStates /\ c[s].state \in EntryStates
    BY <1>1 DEF Book, Entry
  <2>2. Contest(u[s], c[s]).state \in Outcomes
    BY <1>3, <2>1 DEF Contest, FailedContest, Tie, Rank, Outcomes, EntryStates
  <2>3. p[s].state \in Outcomes => u[s].state \in Outcomes
    BY DEF Keeps
  <2> QED BY <1>3, <2>2, <2>3 DEF Merge
<1> QED BY <1>2, <1>3 DEF Keeps

\* The steps that touch one clone only.
LEMMA OtherClonesHeld ==
    ASSUME TypeOK, Held, UNCHANGED upstream, NEW h \in Hosts, HeldAt(h)',
           \A g \in Hosts : g # h =>
              /\ base'[g] = base[g] /\ commits'[g] = commits[g]
              /\ work'[g] = work[g] /\ prev'[g] = prev[g]
              /\ todo'[g] = todo[g] /\ git'[g] = git[g]
    PROVE  Held'
<1>1. ASSUME NEW g \in Hosts, g # h PROVE HeldAt(g)'
  BY <1>1 DEF Held, HeldAt, Tip
<1> QED BY <1>1 DEF Held

LEMMA BeginRebaseHeld ==
    ASSUME TypeInv, Held, UNCHANGED upstream, NEW h \in Hosts,
           NEW command \in {"pull", "push"}, BeginRebase(h, command)
    PROVE  Held'
<1>1. /\ base'[h] = upstream /\ work'[h] = upstream
      /\ prev'[h] = base[h] /\ commits'[h] = <<>> /\ git'[h] = command
  BY DEF BeginRebase, TypeInv, TypeOK
<1>2. Tip(h)' = upstream
  BY <1>1 DEF Tip
<1>3. HeldAt(h)'
  BY <1>1, <1>2, KeepsItself DEF Held, HeldAt
<1>4. \A g \in Hosts : g # h =>
        /\ base'[g] = base[g] /\ commits'[g] = commits[g]
        /\ work'[g] = work[g] /\ prev'[g] = prev[g]
        /\ todo'[g] = todo[g] /\ git'[g] = git[g]
  BY DEF BeginRebase, TypeInv, TypeOK
<1> QED BY <1>3, <1>4, OtherClonesHeld DEF TypeInv

\* The tip after a replay is the replayed book.
LEMMA ReplayTip ==
    ASSUME TypeInv, NEW h \in Hosts, NEW book \in Book,
           Replay(h, book), UNCHANGED base
    PROVE  Tip(h)' = book
<1>1. /\ base[h] \in Book /\ commits[h] \in Seq(Book)
      /\ Tip(h) = Latest(base[h], commits[h])
  BY TipBook DEF TypeInv, TypeOK
<1>2. commits'[h] = IF book = Tip(h) THEN commits[h] ELSE Append(commits[h], book)
  BY DEF Replay, TypeInv, TypeOK
<1>3. Tip(h)' = Latest(base[h], commits'[h])
  BY DEF Tip, Latest
<1>4. CASE book = Tip(h)
  BY <1>1, <1>2, <1>3, <1>4
<1>5. CASE book # Tip(h)
  <2>1. /\ Append(commits[h], book) # <<>>
        /\ Append(commits[h], book)[Len(Append(commits[h], book))] = book
    BY <1>1, AppendProperties, LenProperties
  <2> QED BY <1>2, <1>3, <1>5, <2>1 DEF Latest
<1> QED BY <1>4, <1>5

LEMMA ReplayHeld ==
    ASSUME TypeInv, Held, NEW h \in Hosts, NEW book \in Book, todo[h] # <<>>,
           Replay(h, book), Keeps(todo[h][1], book), UNCHANGED <<upstream, base>>,
           git'[h] \notin {"idle", "stopped"}, \A g \in Hosts : g # h => git'[g] = git[g]
    PROVE  Held'
<1>1. Tip(h)' = book /\ work'[h] = book /\ prev'[h] = todo[h][1]
  BY ReplayTip DEF Replay, TypeInv, TypeOK
<1>2. HeldAt(h)'
  BY <1>1 DEF Held, HeldAt
<1>3. \A g \in Hosts : g # h =>
        /\ base'[g] = base[g] /\ commits'[g] = commits[g]
        /\ work'[g] = work[g] /\ prev'[g] = prev[g] /\ todo'[g] = todo[g]
  BY DEF Replay, TypeInv, TypeOK
<1> QED BY <1>2, <1>3, OtherClonesHeld DEF TypeInv

LEMMA HeldStep ==
    ASSUME TypeInv, Ordered, Held, [Next]_vars
    PROVE  Held'
<1> USE DEF TypeInv
<1>1. ASSUME NEW h \in Hosts,
             \/ Start(h) \/ Unreadable(h) \/ Select(h) \/ Drained(h) \/ Score(h)
             \/ PullRefused(h) \/ PullFails(h) \/ UpdateRefused(h)
             \/ PushFails(h) \/ Crash(h)
      PROVE  Held'
  <2>1. UNCHANGED <<upstream, base, commits, work, todo, prev, git>>
    BY <1>1 DEF Start, Unreadable, Select, Drained, Score, PullRefused, PullFails,
                UpdateRefused, PushFails, Crash, repo
  <2> QED BY <2>1 DEF Held, HeldAt, Tip
<1>2. ASSUME NEW h \in Hosts, RebaseEnd(h) PROVE Held'
  <2>1. /\ UNCHANGED <<upstream, base, commits, work, todo, prev>> /\ todo[h] = <<>>
        /\ git' = [git EXCEPT ![h] = "idle"]
    BY <1>2 DEF RebaseEnd
  <2> QED BY <2>1 DEF Held, HeldAt, Tip, TypeOK
<1>3. ASSUME NEW h \in Hosts, Pull(h) PROVE Held'
  BY <1>3, BeginRebaseHeld DEF Pull
<1>4. ASSUME NEW h \in Hosts, PushRejected(h) PROVE Held'
  BY <1>4, BeginRebaseHeld DEF PushRejected
<1>5. ASSUME NEW h \in Hosts, ReplayCommit(h) PROVE Held'
  <2>1. /\ todo[h] # <<>> /\ git[h] \in {"pull", "push", "resolve"}
        /\ Replay(h, Replayed(h)) /\ UNCHANGED <<upstream, base, git>>
    BY <1>5 DEF ReplayCommit
  <2>2. Replayed(h) \in Book /\ Keeps(todo[h][1], Replayed(h))
    BY <2>1, ReplayBooks, ReplayKeepsCommit DEF Held, HeldAt
  <2> QED BY <2>1, <2>2, ReplayHeld
<1>6. ASSUME NEW h \in Hosts, ReplayConflict(h) PROVE Held'
  <2>1. /\ work' = [work EXCEPT ![h] = Conflicted]
        /\ git' = [git EXCEPT ![h] = "stopped"]
        /\ UNCHANGED <<upstream, base, commits, todo, prev>>
    BY <1>6 DEF ReplayConflict
  <2> QED BY <2>1 DEF Held, HeldAt, Tip, TypeOK
<1>7. ASSUME NEW h \in Hosts, Update(h) PROVE Held'
  <2>1. /\ git[h] = "idle"
        /\ \A g \in Hosts : g # h => work'[g] = work[g]
        /\ UNCHANGED <<upstream, base, commits, todo, prev, git>>
    BY <1>7 DEF Update, Goto, TypeOK
  <2> QED BY <2>1 DEF Held, HeldAt, Tip
<1>8. ASSUME NEW h \in Hosts, Commit(h) PROVE Held'
  <2>1. /\ git[h] = "idle" /\ work[h] \in Book /\ work[h] # Conflicted
        /\ commits' = [commits EXCEPT ![h] = Append(commits[h], work[h])]
        /\ UNCHANGED <<upstream, base, work, todo, prev, git>>
    BY <1>8, ConflictAssumption DEF Commit, Goto, TypeOK, GitOK
  <2>2. /\ commits'[h] = Append(commits[h], work[h])
        /\ \A g \in Hosts : g # h => commits'[g] = commits[g]
    BY <2>1 DEF TypeOK
  <2>3. /\ Append(commits[h], work[h]) # <<>>
        /\ Append(commits[h], work[h])[Len(Append(commits[h], work[h]))] = work[h]
    <3>1. commits[h] \in Seq(Book)
      BY DEF TypeOK
    <3> QED BY <2>1, <3>1, AppendProperties, LenProperties
  <2>4. Tip(h)' = work[h]
    BY <2>2, <2>3 DEF Tip
  <2>5. Keeps(prev[h], work[h])
    BY <2>1, KeepsTransitive DEF Held, HeldAt, Ordered, OrderedAt
  <2>6. HeldAt(h)'
    BY <2>1, <2>4, <2>5 DEF Held, HeldAt
  <2> QED BY <2>1, <2>2, <2>6, OtherClonesHeld
<1>9. ASSUME NEW h \in Hosts, Push(h) PROVE Held'
  <2>1. /\ upstream' = Tip(h) /\ git[h] = "idle"
        /\ base' = [base EXCEPT ![h] = Tip(h)]
        /\ commits' = [commits EXCEPT ![h] = <<>>]
        /\ UNCHANGED <<work, todo, prev, git>>
    BY <1>9 DEF Push
  <2>2. Keeps(upstream, upstream')
    BY PushKeeps
  <2>3. base'[h] = Tip(h) /\ commits'[h] = <<>> /\ Tip(h)' = Tip(h)
    BY <2>1 DEF TypeOK, Tip
  <2>4. HeldAt(h)'
    BY <2>1, <2>3, KeepsItself DEF Held, HeldAt
  <2>5. ASSUME NEW g \in Hosts, g # h PROVE HeldAt(g)'
    <3>1. base'[g] = base[g] /\ commits'[g] = commits[g]
      BY <2>1, <2>5 DEF TypeOK
    <3>2. Tip(g)' = Tip(g)
      BY <3>1 DEF Tip
    <3>3. Keeps(base[g], upstream')
      BY <2>2, KeepsTransitive DEF Held, HeldAt
    <3> QED BY <2>1, <3>1, <3>2, <3>3 DEF Held, HeldAt
  <2> QED BY <2>4, <2>5 DEF Held
<1>10. ASSUME NEW h \in Hosts, ResolveConflict(h) PROVE Held'
  <2>1. /\ todo[h] # <<>> /\ git' = [git EXCEPT ![h] = "resolve"]
        /\ UNCHANGED <<upstream, base>>
    BY <1>10 DEF ResolveConflict, GitOK
  <2>2. PICK S \in SUBSET {s \in Shards :
                             Unresolved(prev[h][s], Tip(h)[s], todo[h][1][s])} :
          Replay(h, [s \in Shards |-> IF s \in S THEN todo[h][1][s]
                       ELSE Merge(prev[h][s], Tip(h)[s], todo[h][1][s])])
    BY <1>10 DEF ResolveConflict
  <2> DEFINE book == [s \in Shards |-> IF s \in S THEN todo[h][1][s]
                        ELSE Merge(prev[h][s], Tip(h)[s], todo[h][1][s])]
  <2>3. Keeps(prev[h], Tip(h))
    BY DEF Held, HeldAt
  <2>4. book \in Book /\ Keeps(todo[h][1], book)
    BY <2>1, <2>3, ReplayBooks, ReplayKeepsCommit
  <2> HIDE DEF book
  <2>5. Replay(h, book)
    BY <2>2 DEF book
  <2> QED BY <2>1, <2>4, <2>5, ReplayHeld DEF TypeOK
<1>11. CASE UNCHANGED vars
  BY <1>11 DEF vars, repo, Held, HeldAt, Tip
<1> QED BY <1>1, <1>2, <1>3, <1>4, <1>5, <1>6, <1>7, <1>8, <1>9, <1>10, <1>11 DEF Next

InLog(q, s) == \E i \in 1 .. Len(q) : q[i][s].state \in Outcomes

LEMMA LatestInLog ==
    ASSUME NEW b \in Book, NEW q \in Seq(Book), NEW s \in Shards,
           Latest(b, q)[s].state \in Outcomes
    PROVE  b[s].state \in Outcomes \/ InLog(q, s)
<1>1. CASE q = <<>>
  BY <1>1 DEF Latest
<1>2. CASE q # <<>>
  <2>1. Len(q) \in 1 .. Len(q)
    BY <1>2, EmptySeq, LenProperties
  <2> QED BY <1>2, <2>1 DEF Latest, InLog
<1> QED BY <1>1, <1>2

LEMMA InLogLatest ==
    ASSUME NEW b \in Book, NEW q \in Seq(Book), NEW s \in Shards,
           Grows(b, q), InLog(q, s)
    PROVE  Latest(b, q)[s].state \in Outcomes
<1>1. PICK i \in 1 .. Len(q) : q[i][s].state \in Outcomes
  BY DEF InLog
<1>2. Len(q) \in 1 .. Len(q) /\ q # <<>>
  BY LenProperties, EmptySeq
<1>3. Latest(b, q) = q[Len(q)]
  BY <1>2 DEF Latest
<1>4. CASE i = Len(q)
  BY <1>1, <1>3, <1>4
<1>5. CASE i # Len(q)
  <2>1. Keeps(q[i], q[Len(q)])
    BY <1>2, <1>5 DEF Grows
  <2> QED BY <1>1, <1>3, <2>1 DEF Keeps
<1> QED BY <1>4, <1>5

LEMMA AppendInLog ==
    ASSUME NEW q \in Seq(Book), NEW e \in Book, NEW s \in Shards, InLog(q, s)
    PROVE  InLog(Append(q, e), s)
<1>1. PICK i \in 1 .. Len(q) : q[i][s].state \in Outcomes
  BY DEF InLog
<1>2. /\ Len(q) \in Nat /\ Len(Append(q, e)) = Len(q) + 1
      /\ Append(q, e)[i] = q[i]
  BY AppendProperties, LenProperties
<1>3. i \in 1 .. Len(Append(q, e))
  BY <1>2
<1> QED BY <1>1, <1>2, <1>3 DEF InLog

LEMMA TailInLog ==
    ASSUME NEW q \in Seq(Book), NEW s \in Shards, q # <<>>, InLog(q, s)
    PROVE  q[1][s].state \in Outcomes \/ InLog(Tail(q), s)
<1>1. PICK i \in 1 .. Len(q) : q[i][s].state \in Outcomes
  BY DEF InLog
<1>2. /\ Len(q) \in Nat \ {0}
      /\ Len(Tail(q)) = Len(q) - 1
      /\ \A j \in 1 .. Len(q) - 1 : Tail(q)[j] = q[j + 1]
  BY EmptySeq, LenProperties, HeadTailProperties
<1>3. CASE i = 1
  BY <1>1, <1>3
<1>4. CASE i # 1
  <2>1. i - 1 \in 1 .. Len(q) - 1 /\ (i - 1) + 1 = i
    BY <1>2, <1>4
  <2>2. Tail(q)[i - 1] = q[i]
    BY <1>2, <2>1
  <2> QED BY <1>1, <1>2, <2>1, <2>2 DEF InLog
<1> QED BY <1>3, <1>4

\* A clone's working copy, its commits or what it has left to replay.
InClone(h, s) ==
    \/ work[h] # Conflicted /\ work[h][s].state \in Outcomes
    \/ InLog(commits[h], s)
    \/ InLog(todo[h], s)

LEMMA SomewhereInClone ==
    ASSUME NEW s \in Shards
    PROVE  OutcomeSomewhere(s) =
             (upstream[s].state \in Outcomes \/ \E h \in Hosts : InClone(h, s))
BY DEF OutcomeSomewhere, InClone, InLog

\* A step of one clone loses no outcome if it loses none of that clone's.
LEMMA OneCloneKeeps ==
    ASSUME NEW s \in Shards, NEW h \in Hosts,
           Keeps(upstream, upstream'),
           \A g \in Hosts : g # h =>
              work'[g] = work[g] /\ commits'[g] = commits[g] /\ todo'[g] = todo[g],
           InClone(h, s) => upstream'[s].state \in Outcomes \/ InClone(h, s)',
           OutcomeSomewhere(s)
    PROVE  OutcomeSomewhere(s)'
<1>1. OutcomeSomewhere(s)' =
        (upstream'[s].state \in Outcomes \/ \E g \in Hosts : InClone(g, s)')
  BY DEF OutcomeSomewhere, InClone, InLog
<1>2. \A g \in Hosts : g # h => (InClone(g, s) => InClone(g, s)')
  BY DEF InClone
<1>3. upstream[s].state \in Outcomes \/ \E g \in Hosts : InClone(g, s)
  BY SomewhereInClone
<1> QED BY <1>1, <1>2, <1>3 DEF Keeps

\* What the tip of a clone has is shared, or in one of its commits.
LEMMA TipHeld ==
    ASSUME TypeOK, Held, NEW h \in Hosts, NEW s \in Shards,
           Tip(h)[s].state \in Outcomes
    PROVE  upstream[s].state \in Outcomes \/ InLog(commits[h], s)
<1>1. /\ base[h] \in Book /\ commits[h] \in Seq(Book)
      /\ Tip(h) = Latest(base[h], commits[h])
  BY TipBook DEF TypeOK
<1>2. base[h][s].state \in Outcomes \/ InLog(commits[h], s)
  BY <1>1, LatestInLog
<1> QED BY <1>2 DEF Held, HeldAt, Keeps

LEMMA BeginRebaseLoses ==
    ASSUME TypeInv, Held, UNCHANGED upstream, NEW h \in Hosts, git[h] = "idle",
           NEW command, BeginRebase(h, command),
           NEW s \in Shards, OutcomeSomewhere(s)
    PROVE  OutcomeSomewhere(s)'
<1>1. /\ work[h] = Tip(h) /\ todo[h] = <<>>
      /\ work'[h] = upstream /\ todo'[h] = commits[h]
      /\ \A g \in Hosts : g # h =>
           work'[g] = work[g] /\ commits'[g] = commits[g] /\ todo'[g] = todo[g]
  BY DEF BeginRebase, TypeInv, TypeOK, Held, HeldAt
<1>2. ~ InLog(todo[h], s)
  BY <1>1, EmptySeq DEF InLog
<1>3. InClone(h, s) => upstream[s].state \in Outcomes \/ InLog(commits[h], s)
  BY <1>1, <1>2, TipHeld DEF InClone, TypeInv
<1>4. InClone(h, s) => upstream'[s].state \in Outcomes \/ InClone(h, s)'
  BY <1>1, <1>3 DEF InClone
<1> QED BY <1>1, <1>4, KeepsItself, OneCloneKeeps

LEMMA ReplayLoses ==
    ASSUME TypeInv, Held, UNCHANGED upstream, NEW h \in Hosts, git[h] # "idle",
           todo[h] # <<>>, NEW book \in Book, Replay(h, book),
           Keeps(Tip(h), book), Keeps(todo[h][1], book),
           NEW s \in Shards, OutcomeSomewhere(s)
    PROVE  OutcomeSomewhere(s)'
<1>1. /\ work'[h] = book /\ todo'[h] = Tail(todo[h])
      /\ commits'[h] = IF book = Tip(h) THEN commits[h] ELSE Append(commits[h], book)
      /\ \A g \in Hosts : g # h =>
           work'[g] = work[g] /\ commits'[g] = commits[g] /\ todo'[g] = todo[g]
      /\ commits[h] \in Seq(Book) /\ todo[h] \in Seq(Book)
      /\ book # Conflicted
  BY ConflictAssumption DEF Replay, TypeInv, TypeOK
<1>2. ASSUME InClone(h, s) PROVE upstream[s].state \in Outcomes \/ InClone(h, s)'
  <2>1. book[s].state \in Outcomes => InClone(h, s)'
    BY <1>1 DEF InClone
  <2>2. CASE work[h] # Conflicted /\ work[h][s].state \in Outcomes
    <3>1. CASE git[h] = "stopped"
      BY <2>2, <3>1 DEF Held, HeldAt
    <3>2. CASE git[h] # "stopped"
      <4>1. work[h] = Tip(h)
        BY <3>2 DEF Held, HeldAt, TypeInv, TypeOK
      <4> QED BY <2>1, <2>2, <4>1 DEF Keeps
    <3> QED BY <3>1, <3>2
  <2>3. CASE InLog(commits[h], s)
    BY <1>1, <2>3, AppendInLog DEF InClone
  <2>4. CASE InLog(todo[h], s)
    BY <1>1, <2>1, <2>4, TailInLog DEF InClone, Keeps
  <2> QED BY <1>2, <2>2, <2>3, <2>4 DEF InClone
<1> QED BY <1>1, <1>2, KeepsItself, OneCloneKeeps

LEMMA LosesNone ==
    ASSUME TypeInv, Ordered, Held, [Next]_vars, NEW s \in Shards, OutcomeSomewhere(s)
    PROVE  OutcomeSomewhere(s)'
<1> USE DEF TypeInv
<1>1. CASE UNCHANGED <<upstream, work, commits, todo>>
  BY <1>1 DEF OutcomeSomewhere
<1>2. ASSUME NEW h \in Hosts, Pull(h) PROVE OutcomeSomewhere(s)'
  BY <1>2, BeginRebaseLoses DEF Pull
<1>3. ASSUME NEW h \in Hosts, PushRejected(h) PROVE OutcomeSomewhere(s)'
  BY <1>3, BeginRebaseLoses DEF PushRejected
<1>4. ASSUME NEW h \in Hosts, ReplayCommit(h) PROVE OutcomeSomewhere(s)'
  <2>1. /\ todo[h] # <<>> /\ git[h] # "idle"
        /\ Replay(h, Replayed(h)) /\ UNCHANGED upstream
        /\ Ours(h) \cap Theirs(h) \subseteq Shards \ Changed(todo[h][1], Tip(h))
    BY <1>4 DEF ReplayCommit
  <2>2. Keeps(prev[h], todo[h][1]) /\ Keeps(prev[h], Tip(h))
    BY <2>1, GrowsTail DEF Ordered, OrderedAt, Held, HeldAt, TypeOK
  <2>3. /\ Replayed(h) \in Book
        /\ Keeps(Tip(h), Replayed(h)) /\ Keeps(todo[h][1], Replayed(h))
    BY <2>1, <2>2, ReplayBooks, ReplayKeeps, ReplayKeepsCommit
  <2> QED BY <2>1, <2>3, ReplayLoses
<1>5. ASSUME NEW h \in Hosts, ReplayConflict(h) PROVE OutcomeSomewhere(s)'
  <2>1. /\ work[h] = Tip(h) /\ UNCHANGED <<upstream, commits, todo>>
        /\ \A g \in Hosts : g # h => work'[g] = work[g]
    BY <1>5 DEF ReplayConflict, Held, HeldAt, TypeOK
  <2>2. InClone(h, s) => upstream'[s].state \in Outcomes \/ InClone(h, s)'
    BY <2>1, TipHeld DEF InClone
  <2> QED BY <2>1, <2>2, KeepsItself, OneCloneKeeps
<1>6. ASSUME NEW h \in Hosts, Update(h) PROVE OutcomeSomewhere(s)'
  <2> DEFINE w == work[h]
             x == Marked(job[h], h, w[target[h]])
  <2>1. w \in Book /\ target[h] \in Shards /\ job[h] \in Jobs
    BY <1>6 DEF Update, Goto, TypeOK, GitOK
  <2>2. /\ Accepts(job[h], w[target[h]].state)
        /\ work' = [work EXCEPT ![h] = [w EXCEPT ![target[h]] = x]]
        /\ UNCHANGED <<upstream, commits, todo>>
    BY <1>6 DEF Update
  <2>3. w[target[h]] \in Entry
    BY <2>1 DEF Book
  <2>4. w[target[h]].state \in Outcomes => x.state \in Outcomes
    BY <2>1, <2>2, <2>3, UpdateKeeps
  <2>5. x \in Entry
    BY <2>1, <2>3, MarkedEntry
  <2>6. /\ work'[h] = [w EXCEPT ![target[h]] = x]
        /\ \A g \in Hosts : g # h => work'[g] = work[g]
    BY <2>2 DEF TypeOK
  <2> HIDE DEF x
  <2>7. work'[h] \in Book /\ work'[h] # Conflicted
    BY <2>1, <2>5, <2>6, ConflictAssumption DEF Book
  <2>8. w[s].state \in Outcomes => work'[h][s].state \in Outcomes
    BY <2>1, <2>4, <2>6 DEF Book
  <2>9. InClone(h, s) => InClone(h, s)'
    BY <2>2, <2>7, <2>8 DEF InClone
  <2> QED BY <2>2, <2>6, <2>9, KeepsItself, OneCloneKeeps
<1>7. ASSUME NEW h \in Hosts, Commit(h) PROVE OutcomeSomewhere(s)'
  <2>1. work[h] \in Book /\ commits[h] \in Seq(Book)
    BY <1>7 DEF Commit, Goto, TypeOK, GitOK
  <2>2. /\ commits'[h] = Append(commits[h], work[h])
        /\ \A g \in Hosts : g # h => commits'[g] = commits[g]
        /\ UNCHANGED <<upstream, work, todo>>
    BY <1>7 DEF Commit, TypeOK
  <2>3. InClone(h, s) => InClone(h, s)'
    BY <2>1, <2>2, AppendInLog DEF InClone
  <2> QED BY <2>2, <2>3, KeepsItself, OneCloneKeeps
<1>8. ASSUME NEW h \in Hosts, Push(h) PROVE OutcomeSomewhere(s)'
  <2>1. /\ upstream' = Tip(h)
        /\ \A g \in Hosts : g # h => commits'[g] = commits[g]
        /\ UNCHANGED <<work, todo>>
    BY <1>8 DEF Push, TypeOK
  <2>2. Keeps(upstream, upstream')
    BY PushKeeps
  <2>3. InLog(commits[h], s) => Tip(h)[s].state \in Outcomes
    <3>1. /\ base[h] \in Book /\ commits[h] \in Seq(Book) /\ Grows(base[h], commits[h])
          /\ Tip(h) = Latest(base[h], commits[h])
      BY TipBook DEF TypeOK, Ordered, OrderedAt
    <3> QED BY <3>1, InLogLatest
  <2>4. InClone(h, s) => upstream'[s].state \in Outcomes \/ InClone(h, s)'
    BY <2>1, <2>3 DEF InClone
  <2> QED BY <2>1, <2>2, <2>4, OneCloneKeeps
<1>9. ASSUME NEW h \in Hosts, ResolveConflict(h) PROVE OutcomeSomewhere(s)'
  <2>1. todo[h] # <<>> /\ git[h] # "idle" /\ UNCHANGED upstream
    BY <1>9 DEF ResolveConflict, GitOK
  <2>2. PICK S \in SUBSET {r \in Shards :
                             Unresolved(prev[h][r], Tip(h)[r], todo[h][1][r])} :
          Replay(h, [r \in Shards |-> IF r \in S THEN todo[h][1][r]
                       ELSE Merge(prev[h][r], Tip(h)[r], todo[h][1][r])])
    BY <1>9 DEF ResolveConflict
  <2> DEFINE book == [r \in Shards |-> IF r \in S THEN todo[h][1][r]
                        ELSE Merge(prev[h][r], Tip(h)[r], todo[h][1][r])]
  <2>3. Keeps(prev[h], todo[h][1]) /\ Keeps(prev[h], Tip(h))
    BY <2>1, GrowsTail DEF Ordered, OrderedAt, Held, HeldAt, TypeOK
  <2>4. book \in Book /\ Keeps(Tip(h), book) /\ Keeps(todo[h][1], book)
    BY <2>1, <2>3, ReplayBooks, ReplayKeeps, ReplayKeepsCommit
  <2> HIDE DEF book
  <2>5. Replay(h, book)
    BY <2>2 DEF book
  <2> QED BY <2>1, <2>4, <2>5, ReplayLoses
<1>10. \/ UNCHANGED <<upstream, work, commits, todo>>
       \/ \E h \in Hosts : \/ Pull(h) \/ PushRejected(h) \/ ReplayCommit(h)
                           \/ ReplayConflict(h) \/ Update(h) \/ Commit(h) \/ Push(h)
                           \/ ResolveConflict(h)
  BY DEF Next, vars, repo, Start, Unreadable, Select, Drained, Score, PullRefused,
         PullFails, RebaseEnd, UpdateRefused, PushFails, Crash
<1> QED BY <1>1, <1>2, <1>3, <1>4, <1>5, <1>6, <1>7, <1>8, <1>9, <1>10

\* OutcomeNeverLost: no failed push, retry, rebase, resolution or crash makes
\* the run forget an outcome that some worker recorded.
THEOREM OutcomeTheorem == Spec => OutcomeNeverLost
<1>1. Init => Held
  <2> SUFFICES ASSUME Init, NEW h \in Hosts PROVE HeldAt(h)
    BY DEF Held
  <2>1. Tip(h) = Fresh
    BY DEF Init, Tip
  <2> QED BY <2>1, KeepsItself DEF Init, HeldAt
<1>2. TypeInv /\ Ordered /\ Held /\ [Next]_vars => Held'
  BY HeldStep
<1>3. TypeInv /\ Ordered /\ Held /\ [Next]_vars =>
        [\A s \in Shards : OutcomeSomewhere(s) => OutcomeSomewhere(s)']_vars
  BY LosesNone
<1> QED BY <1>1, <1>2, <1>3, SyncTypeInvariant, OrderedInvariant,
           PTL DEF Spec, OutcomeNeverLost
=============================================================================
