-------------------------- MODULE PackageTransaction --------------------------
(***************************************************************************)
(* publish_authority_package: the projected manifest, the artifact and the *)
(* receipt of an authority package, created exclusively in this order in   *)
(* one private root; files with exactly the wanted bytes are adopted.      *)
(* Publishers with equal or different packages may run at once, die, fail  *)
(* and be run again, and no lock keeps them apart.  On POSIX a name exists *)
(* before its bytes do; on Windows a file takes its name whole, and the    *)
(* publisher holds it exclusively until it has verified it or taken it     *)
(* back.                                                                   *)
(***************************************************************************)
EXTENDS Integers

CONSTANTS
    Publishers,  \* the processes
    Bytes,       \* the contents of files
    Payload,     \* Payload[p][i]: what publisher p wants in the i-th file
    Platforms,   \* the platforms explored: posix, nt
    MaxRuns,     \* bound on how often publishers are started, all together
    None,        \* an absent file; nobody
    Torn         \* the contents of a file not yet written in full

\* The receipt names the hashes of the two other files.
ASSUME PackageAssumption ==
    /\ Payload \in [Publishers -> [1..3 -> Bytes]]
    /\ \A p, q \in Publishers : Payload[p][3] = Payload[q][3] => Payload[p] = Payload[q]
    /\ Platforms \subseteq {"posix", "nt"}
    /\ MaxRuns \in Nat
    /\ None \notin Bytes /\ Torn \notin Bytes /\ None # Torn
    /\ None \notin Publishers

VARIABLES
    platform,
    file,    \* file[i]: what the name of the i-th file holds
    holder,  \* holder[i]: the publisher that has it open since it created it
    pc,      \* pc[p]: where publisher p is
    at,      \* at[p]: the file its loop is at
    check,   \* check[p]: the file its reads are at
    seen,    \* seen[p][i]: what its first read of the i-th file returned
    runs     \* how often one was started

vars == <<platform, file, holder, pc, at, check, seen, runs>>

Files == 1..3
Contents == Bytes \cup {None, Torn}
Steps == {"idle", "read", "publish", "fill", "verify", "raced", "exact", "prefix", "final",
          "committed", "refused"}

TypeOK ==
    /\ platform \in Platforms
    /\ file \in [Files -> Contents]
    /\ holder \in [Files -> Publishers \cup {None}]
    /\ pc \in [Publishers -> Steps]
    /\ at \in [Publishers -> Files]
    /\ check \in [Publishers -> Files]
    /\ seen \in [Publishers -> [Files -> Contents]]
    /\ runs \in 0..MaxRuns

Init ==
    /\ platform \in Platforms
    /\ file = [i \in Files |-> None]
    /\ holder = [i \in Files |-> None]
    /\ pc = [p \in Publishers |-> "idle"]
    /\ at = [p \in Publishers |-> 1]
    /\ check = [p \in Publishers |-> 1]
    /\ seen = [p \in Publishers |-> [i \in Files |-> None]]
    /\ runs = 0

----------------------------------------------------------------------------
\* MUTATION of Reads: on Windows the control handle is opened to be shared.
ReadsShared(i) ==
    IF holder[i] = None \/ platform = "nt" THEN {file[i]} ELSE {file[i], None, Torn}

\* _read_existing.  A file its creator still has open cannot be opened on
\* Windows, which reads as absent; on POSIX it may change under the first read,
\* which reads as absent, or under the second, which equals no wanted bytes.
Reads(i) ==
    CASE holder[i] = None -> {file[i]}
      [] platform = "nt" -> {None}
      [] OTHER -> {file[i], None, Torn}

\* MUTATION of Wanted: any complete file that is there is adopted.
WantedAny(p, i, raw) == raw \in Bytes

Wanted(p, i, raw) == raw = Payload[p][i]

Go(p, step) == pc' = [pc EXCEPT ![p] = step]

Begin(p) ==
    /\ pc[p] \in {"idle", "committed", "refused"}
    /\ runs < MaxRuns
    /\ runs' = runs + 1
    /\ Go(p, "read")
    /\ at' = [at EXCEPT ![p] = 1]
    /\ check' = [check EXCEPT ![p] = 1]
    /\ UNCHANGED <<platform, file, holder, seen>>

Kill(p) ==
    /\ pc[p] \notin {"idle", "committed", "refused"}
    /\ Go(p, "idle")
    /\ holder' = [i \in Files |-> IF holder[i] = p THEN None ELSE holder[i]]
    /\ at' = [at EXCEPT ![p] = 1]
    /\ check' = [check EXCEPT ![p] = 1]
    /\ seen' = [seen EXCEPT ![p] = [i \in Files |-> None]]
    /\ UNCHANGED <<platform, file, runs>>

\* Equal bytes, or nothing, in every file, and the files that are there come first.
Adoptable(p, found) ==
    /\ \A i \in Files : found[i] # None => Wanted(p, i, found[i])
    /\ \A i \in 2..3 : found[i] # None => found[i - 1] # None

\* MUTATION of ReadPresent: the later reads go on where these end.
ReadPresentOn(p) ==
    /\ pc[p] = "read"
    /\ \E raw \in Reads(check[p]) :
         /\ seen' = [seen EXCEPT ![p][check[p]] = raw]
         /\ Go(p, IF check[p] < 3 THEN "read"
                  ELSE IF Adoptable(p, seen'[p]) THEN "publish" ELSE "refused")
    /\ check' = [check EXCEPT ![p] = @ + 1]
    /\ UNCHANGED <<platform, file, holder, at, runs>>

\* The reads before anything is created; the last one is followed by the verdict.
ReadPresent(p) ==
    /\ pc[p] = "read"
    /\ \E raw \in Reads(check[p]) :
         /\ seen' = [seen EXCEPT ![p][check[p]] = raw]
         /\ Go(p, IF check[p] < 3 THEN "read"
                  ELSE IF Adoptable(p, seen'[p]) THEN "publish" ELSE "refused")
    /\ check' = [check EXCEPT ![p] = IF @ < 3 THEN @ + 1 ELSE 1]
    /\ UNCHANGED <<platform, file, holder, at, runs>>

\* PinnedPrivateRoot.publish: the exclusive creation of an absent file ...
Create(p) ==
    /\ pc[p] = "publish"
    /\ seen[p][at[p]] = None /\ file[at[p]] = None
    /\ file' = [file EXCEPT ![at[p]] = IF platform = "nt" THEN Payload[p][at[p]] ELSE Torn]
    /\ holder' = [holder EXCEPT ![at[p]] = p]
    /\ Go(p, IF platform = "nt" THEN "verify" ELSE "fill")
    /\ UNCHANGED <<platform, at, check, seen, runs>>

\* ... which fails with nothing created ...
CreateFails(p) ==
    /\ pc[p] = "publish"
    /\ seen[p][at[p]] = None
    /\ Go(p, "refused")
    /\ UNCHANGED <<platform, file, holder, at, check, seen, runs>>

\* ... or meets a name that appeared since the first reads.
Raced(p) ==
    /\ pc[p] = "publish"
    /\ seen[p][at[p]] = None /\ file[at[p]] # None
    /\ Go(p, "raced")
    /\ UNCHANGED <<platform, file, holder, at, check, seen, runs>>

Adopt(p) ==
    /\ pc[p] = "publish"
    /\ seen[p][at[p]] # None
    /\ Go(p, "exact")
    /\ UNCHANGED <<platform, file, holder, at, check, seen, runs>>

\* _publish_posix writes the bytes into the created file.
Fill(p) ==
    /\ pc[p] = "fill"
    /\ file' = [file EXCEPT ![at[p]] = Payload[p][at[p]]]
    /\ Go(p, "verify")
    /\ UNCHANGED <<platform, holder, at, check, seen, runs>>

Verified(p) ==
    /\ pc[p] = "verify"
    /\ holder' = [holder EXCEPT ![at[p]] = None]
    /\ Go(p, "exact")
    /\ UNCHANGED <<platform, file, at, check, seen, runs>>

\* A failure after the creation.  POSIX leaves the file as it is; Windows takes
\* it back through the handle it holds, or leaves it if that fails too.
PublishFails(p) ==
    /\ pc[p] \in {"fill", "verify"}
    /\ holder' = [holder EXCEPT ![at[p]] = None]
    /\ \/ UNCHANGED file
       \/ platform = "nt" /\ file' = [file EXCEPT ![at[p]] = None]
    /\ Go(p, "refused")
    /\ UNCHANGED <<platform, at, check, seen, runs>>

\* The loser of a race goes on if the winner wrote the same bytes.
ReadRaced(p) ==
    /\ pc[p] = "raced"
    /\ \E raw \in Reads(at[p]) :
         Go(p, IF Wanted(p, at[p], raw) THEN "exact" ELSE "refused")
    /\ UNCHANGED <<platform, file, holder, at, check, seen, runs>>

\* Every file is read again before the loop goes on.
ReadExact(p) ==
    /\ pc[p] = "exact"
    /\ \E raw \in Reads(at[p]) :
         IF ~ Wanted(p, at[p], raw) THEN Go(p, "refused") /\ UNCHANGED at
         ELSE IF at[p] = 3 THEN Go(p, "final") /\ UNCHANGED at
         ELSE /\ Go(p, IF at[p] = 2 THEN "prefix" ELSE "publish")
              /\ at' = [at EXCEPT ![p] = @ + 1]
    /\ UNCHANGED <<platform, file, holder, check, seen, runs>>

\* _revalidate_package_prefix: two files before the receipt, all three at the end.
Revalidate(p, step, count, next) ==
    /\ pc[p] = step
    /\ \E raw \in Reads(check[p]) :
         Go(p, IF ~ Wanted(p, check[p], raw) THEN "refused"
               ELSE IF check[p] < count THEN step ELSE next)
    /\ check' = [check EXCEPT ![p] = IF @ < count THEN @ + 1 ELSE 1]
    /\ UNCHANGED <<platform, file, holder, at, seen, runs>>

Step(p) ==
    \/ ReadPresent(p) \/ Create(p) \/ CreateFails(p) \/ Raced(p) \/ Adopt(p) \/ Fill(p)
    \/ Verified(p) \/ PublishFails(p) \/ ReadRaced(p) \/ ReadExact(p)
    \/ Revalidate(p, "prefix", 2, "publish") \/ Revalidate(p, "final", 3, "committed")

Next == \E p \in Publishers : Begin(p) \/ Kill(p) \/ Step(p)

Spec == Init /\ [][Next]_vars

----------------------------------------------------------------------------
(* What the transaction promises.                                          *)

\* A publisher that returned "committed" can rely on its three files for good:
\* nobody overwrites them, and no publisher takes back a file another one has
\* adopted ("A committed result is only observable after ...").
CommittedIsExact ==
    \A p \in Publishers : pc[p] = "committed" =>
        \A i \in Files : file[i] = Payload[p][i]

\* What a reader that goes by the receipt finds: nothing without a complete
\* receipt its creator has let go of (on Windows nobody else can open it).
Visible == file[3] \in Bytes /\ (platform = "nt" => holder[3] = None)
Package == IF Visible THEN file ELSE None

Commit == INSTANCE PackageCommit
             WITH Packages <- {Payload[p] : p \in Publishers}, package <- Package

\* The receipt is the commit marker: the three files appear to a reader as one
\* whole package of one publisher, at once and for good, however publishers of
\* different packages race, fail and die ("manifest -> artifact -> receipt").
ImplementsCommit == Commit!CommitSpec
=============================================================================
