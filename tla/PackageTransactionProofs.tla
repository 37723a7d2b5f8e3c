----------------------- MODULE PackageTransactionProofs -----------------------
(***************************************************************************)
(* What PackageTransaction promises, for every set of publishers, of       *)
(* contents and of packages, and any number of runs.  The run of           *)
(* PackageTransactionMC checks the same on three publishers.               *)
(***************************************************************************)
EXTENDS PackageTransaction, TLAPS

\* A file that a publisher has confirmed: it has the wanted bytes, and on
\* Windows nobody holds the handle that could take it back.
Exact(p, i) ==
    /\ file[i] = Payload[p][i]
    /\ platform = "nt" => holder[i] = None

\* A publisher holds what it created, torn until it is filled.
Created ==
    \A p \in Publishers :
        /\ pc[p] = "fill" => /\ platform = "posix"
                             /\ holder[at[p]] = p /\ file[at[p]] = Torn
        /\ pc[p] = "verify" => /\ holder[at[p]] = p
                               /\ file[at[p]] = Payload[p][at[p]]

\* Steps at which a publisher has confirmed the files before the one it is at.
Looping == {"publish", "fill", "verify", "raced", "exact", "prefix"}

Confirmed ==
    \A p \in Publishers :
        /\ pc[p] \in Looping => \A i \in Files : i < at[p] => Exact(p, i)
        /\ pc[p] \in {"final", "committed"} => \A i \in Files : Exact(p, i)

\* Receipts come last, and before them the two files they name.
Sealed ==
    file[3] \in Bytes =>
        \E p \in Publishers : /\ file = Payload[p]
                              /\ Exact(p, 1) /\ Exact(p, 2)

Positions ==
    /\ platform \in {"posix", "nt"}
    /\ \A p \in Publishers :
         /\ pc[p] = "read" => at[p] = 1
         /\ pc[p] = "prefix" => at[p] = 3

IInv == TypeOK /\ Created /\ Confirmed /\ Sealed /\ Positions

----------------------------------------------------------------------------
(* Type correctness.                                                       *)

LEMMA ReadsType ==
    ASSUME TypeOK, NEW i \in Files
    PROVE  Reads(i) \subseteq Contents
BY DEF TypeOK, Reads, Contents, Files

LEMMA InitType == Init => TypeOK
BY PackageAssumption DEF Init, TypeOK, Files, Contents, Steps

LEMMA TypeStep == TypeOK /\ [Next]_vars => TypeOK'
<1> SUFFICES ASSUME TypeOK, [Next]_vars PROVE TypeOK'
  OBVIOUS
<1> USE PackageAssumption DEF Files, Contents, Steps
<1>1. CASE UNCHANGED vars
  BY <1>1 DEF TypeOK, vars
<1>2. ASSUME NEW p \in Publishers, Begin(p) PROVE TypeOK'
  BY <1>2 DEF Begin, Go, TypeOK
<1>3. ASSUME NEW p \in Publishers, Kill(p) PROVE TypeOK'
  BY <1>3 DEF Kill, Go, TypeOK
<1>4. ASSUME NEW p \in Publishers, Step(p) PROVE TypeOK'
  <2>1. CASE ReadPresent(p)
    <3>1. PICK raw \in Reads(check[p]) : seen' = [seen EXCEPT ![p][check[p]] = raw]
      BY <2>1 DEF ReadPresent
    <3>2. raw \in Contents /\ seen' \in [Publishers -> [Files -> Contents]]
      BY <3>1, ReadsType DEF TypeOK
    <3>3. pc' \in [Publishers -> Steps] /\ check' \in [Publishers -> Files]
      BY <2>1 DEF ReadPresent, Go, TypeOK
    <3> QED
      BY <2>1, <3>2, <3>3 DEF ReadPresent, TypeOK
  <2>2. CASE Create(p)
    BY <2>2 DEF Create, Go, TypeOK
  <2>3. CASE CreateFails(p) \/ Raced(p) \/ Adopt(p)
    BY <2>3 DEF CreateFails, Raced, Adopt, Go, TypeOK
  <2>4. CASE Fill(p)
    BY <2>4 DEF Fill, Go, TypeOK
  <2>5. CASE Verified(p)
    BY <2>5 DEF Verified, Go, TypeOK
  <2>6. CASE PublishFails(p)
    BY <2>6 DEF PublishFails, Go, TypeOK
  <2>7. CASE ReadRaced(p)
    BY <2>7 DEF ReadRaced, Go, TypeOK
  <2>8. CASE ReadExact(p)
    <3>1. pc' \in [Publishers -> Steps]
      BY <2>8 DEF ReadExact, Go, TypeOK
    <3>2. at' = at \/ (at[p] # 3 /\ at' = [at EXCEPT ![p] = @ + 1])
      BY <2>8 DEF ReadExact
    <3>3. at' \in [Publishers -> Files]
      BY <3>2 DEF TypeOK
    <3>4. UNCHANGED <<platform, file, holder, check, seen, runs>>
      BY <2>8 DEF ReadExact
    <3> QED
      BY <3>1, <3>3, <3>4 DEF TypeOK
  <2>9. CASE Revalidate(p, "prefix", 2, "publish")
    <3>1. pc' \in [Publishers -> Steps]
      BY <2>9 DEF Revalidate, Go, TypeOK
    <3>2. check' \in [Publishers -> Files]
      <4>1. check' = [check EXCEPT ![p] = IF @ < 2 THEN @ + 1 ELSE 1]
        BY <2>9 DEF Revalidate
      <4> QED
        BY <4>1 DEF TypeOK
    <3>3. UNCHANGED <<platform, file, holder, at, seen, runs>>
      BY <2>9 DEF Revalidate
    <3> QED
      BY <3>1, <3>2, <3>3 DEF TypeOK
  <2>10. CASE Revalidate(p, "final", 3, "committed")
    <3>1. pc' \in [Publishers -> Steps]
      BY <2>10 DEF Revalidate, Go, TypeOK
    <3>2. check' \in [Publishers -> Files]
      <4>1. check' = [check EXCEPT ![p] = IF @ < 3 THEN @ + 1 ELSE 1]
        BY <2>10 DEF Revalidate
      <4> QED
        BY <4>1 DEF TypeOK
    <3>3. UNCHANGED <<platform, file, holder, at, seen, runs>>
      BY <2>10 DEF Revalidate
    <3> QED
      BY <3>1, <3>2, <3>3 DEF TypeOK
  <2> QED
    BY <1>4, <2>1, <2>2, <2>3, <2>4, <2>5, <2>6, <2>7, <2>8, <2>9, <2>10 DEF Step
<1> QED
  BY <1>1, <1>2, <1>3, <1>4 DEF Next

\* TypeOK: every variable keeps its type, for every bound on the runs.
THEOREM TypeCorrect == Spec => []TypeOK
BY InitType, TypeStep, PTL DEF Spec

----------------------------------------------------------------------------
(* The inductive invariant.                                                *)

Acts(p) == Begin(p) \/ Kill(p) \/ Step(p)

\* The publisher takes back the file it has just put in place.
RollsBack(p) ==
    /\ pc[p] = "verify" /\ platform = "nt" /\ holder[at[p]] = p
    /\ file' = [file EXCEPT ![at[p]] = None]
    /\ holder' = [holder EXCEPT ![at[p]] = None]

\* Three kinds of steps touch a file; the others may only let go of handles.
LEMMA FileStep ==
    ASSUME IInv, NEW p \in Publishers, Acts(p)
    PROVE  /\ platform' = platform
           /\ \/ /\ file' = file
                 /\ \A i \in Files : holder'[i] = holder[i]
                                     \/ (holder[i] = p /\ holder'[i] = None)
              \/ Create(p) \/ Fill(p) \/ RollsBack(p)
<1> USE DEF IInv, TypeOK, Files
<1>1. CASE Begin(p) \/ ReadPresent(p) \/ CreateFails(p) \/ Raced(p) \/ Adopt(p)
  BY <1>1 DEF Begin, ReadPresent, CreateFails, Raced, Adopt
<1>2. CASE Kill(p)
  BY <1>2 DEF Kill
<1>3. CASE Create(p) \/ Fill(p)
  BY <1>3 DEF Create, Fill
<1>4. CASE Verified(p)
  BY <1>4 DEF Verified, Created
<1>5. CASE PublishFails(p)
  BY <1>5 DEF PublishFails, Created, RollsBack
<1>6. CASE ReadRaced(p) \/ ReadExact(p)
  BY <1>6 DEF ReadRaced, ReadExact
<1>7. CASE Revalidate(p, "prefix", 2, "publish") \/ Revalidate(p, "final", 3, "committed")
  BY <1>7 DEF Revalidate
<1> QED
  BY <1>1, <1>2, <1>3, <1>4, <1>5, <1>6, <1>7 DEF Acts, Step

\* Nobody undoes what a publisher has confirmed.
LEMMA ExactStays ==
    ASSUME IInv, NEW p \in Publishers, Acts(p),
           NEW q \in Publishers, NEW i \in Files, Exact(q, i)
    PROVE  Exact(q, i)'
<1> USE PackageAssumption DEF IInv, TypeOK, Files, Exact
<1>1. Payload[q][i] \in Bytes
  OBVIOUS
<1>2. CASE file' = file /\ \A j \in Files : holder'[j] = holder[j]
                                            \/ (holder[j] = p /\ holder'[j] = None)
  BY <1>2, FileStep
<1>3. CASE Create(p)
  BY <1>1, <1>3, FileStep DEF Create
<1>4. CASE Fill(p)
  BY <1>1, <1>4, FileStep DEF Fill, Created
<1>5. CASE RollsBack(p)
  BY <1>1, <1>5, FileStep DEF RollsBack
<1> QED
  BY <1>2, <1>3, <1>4, <1>5, FileStep

\* A step of one publisher leaves the others where they are.
LEMMA OthersStay ==
    ASSUME TypeOK, NEW p \in Publishers, Acts(p), NEW q \in Publishers, q # p
    PROVE  pc'[q] = pc[q] /\ at'[q] = at[q]
<1> USE DEF TypeOK, Go
<1>1. CASE Begin(p) \/ Kill(p) \/ ReadPresent(p)
  BY <1>1 DEF Begin, Kill, ReadPresent
<1>2. CASE Create(p) \/ CreateFails(p) \/ Raced(p) \/ Adopt(p) \/ Fill(p)
  BY <1>2 DEF Create, CreateFails, Raced, Adopt, Fill
<1>3. CASE Verified(p) \/ PublishFails(p) \/ ReadRaced(p)
  BY <1>3 DEF Verified, PublishFails, ReadRaced
<1>4. CASE ReadExact(p)
  BY <1>4 DEF ReadExact
<1>5. CASE Revalidate(p, "prefix", 2, "publish") \/ Revalidate(p, "final", 3, "committed")
  BY <1>5 DEF Revalidate
<1> QED
  BY <1>1, <1>2, <1>3, <1>4, <1>5 DEF Acts, Step

LEMMA CreatedStep ==
    ASSUME IInv, TypeOK', NEW p \in Publishers, Acts(p)
    PROVE  Created'
<1> USE PackageAssumption DEF IInv, TypeOK, Files
<1>1. ASSUME NEW q \in Publishers, q # p, pc[q] \in {"fill", "verify"}
      PROVE  holder'[at[q]] = q /\ file'[at[q]] = file[at[q]]
  <2>1. holder[at[q]] = q /\ file[at[q]] # None
    BY <1>1 DEF Created
  <2>2. at[p] = at[q] => ~ Create(p) /\ ~ Fill(p) /\ ~ RollsBack(p)
    BY <1>1, <2>1 DEF Create, Fill, RollsBack, Created
  <2> QED
    BY <1>1, <2>1, <2>2, FileStep DEF Create, Fill, RollsBack
<1>2. ASSUME NEW q \in Publishers, q # p
      PROVE  /\ pc'[q] = "fill" => /\ platform' = "posix"
                                   /\ holder'[at'[q]] = q /\ file'[at'[q]] = Torn
             /\ pc'[q] = "verify" => /\ holder'[at'[q]] = q
                                     /\ file'[at'[q]] = Payload[q][at'[q]]
  BY <1>1, <1>2, OthersStay, FileStep DEF Created
<1>3. /\ pc'[p] = "fill" => /\ platform' = "posix"
                            /\ holder'[at'[p]] = p /\ file'[at'[p]] = Torn
      /\ pc'[p] = "verify" => /\ holder'[at'[p]] = p
                              /\ file'[at'[p]] = Payload[p][at'[p]]
  <2>1. CASE Create(p)
    BY <2>1 DEF Create, Go, Positions
  <2>2. CASE Fill(p)
    BY <2>2 DEF Fill, Go, Created
  <2>3. CASE ~ Create(p) /\ ~ Fill(p)
    <3>1. pc'[p] \notin {"fill", "verify"}
      <4>1. CASE Begin(p) \/ Kill(p) \/ ReadPresent(p) \/ CreateFails(p) \/ Raced(p) \/ Adopt(p)
        BY <4>1 DEF Begin, Kill, ReadPresent, CreateFails, Raced, Adopt, Go
      <4>2. CASE Verified(p) \/ PublishFails(p) \/ ReadRaced(p) \/ ReadExact(p)
        BY <4>2 DEF Verified, PublishFails, ReadRaced, ReadExact, Go
      <4>3. CASE Revalidate(p, "prefix", 2, "publish") \/ Revalidate(p, "final", 3, "committed")
        BY <4>3 DEF Revalidate, Go
      <4> QED
        BY <2>3, <4>1, <4>2, <4>3 DEF Acts, Step
    <3> QED
      BY <3>1
  <2> QED
    BY <2>1, <2>2, <2>3
<1> QED
  BY <1>2, <1>3 DEF Created

\* The steps that put one more file, or all of them, behind a publisher.
LEMMA ConfirmedStep ==
    ASSUME IInv, TypeOK', NEW p \in Publishers, Acts(p)
    PROVE  Confirmed'
<1> USE PackageAssumption DEF IInv, TypeOK, Files
<1> DEFINE Behind(q) ==
      /\ pc[q] \in Looping => \A i \in Files : i < at[q] => Exact(q, i)
      /\ pc[q] \in {"final", "committed"} => \A i \in Files : Exact(q, i)
<1>1. ASSUME NEW q \in Publishers, q # p PROVE Behind(q)'
  <2>1. pc'[q] = pc[q] /\ at'[q] = at[q]
    BY <1>1, OthersStay
  <2>2. \A i \in Files : Exact(q, i) => Exact(q, i)'
    BY ExactStays
  <2> QED
    BY <2>1, <2>2 DEF Confirmed
<1>2. Behind(p)'
  <2>1. \A i \in Files : Exact(p, i) => Exact(p, i)'
    BY ExactStays
  <2>2. CASE Begin(p) \/ Kill(p)
    BY <2>2 DEF Begin, Kill, Go, Looping
  <2>3. CASE ReadPresent(p)
    BY <2>3 DEF ReadPresent, Go, Looping, Positions
  <2>4. CASE \/ Create(p) \/ CreateFails(p) \/ Raced(p) \/ Adopt(p)
             \/ Fill(p) \/ Verified(p) \/ PublishFails(p)
    <3>1. pc[p] \in Looping /\ pc'[p] \in Looping \cup {"refused"} /\ at'[p] = at[p]
      BY <2>4 DEF Create, CreateFails, Raced, Adopt, Fill, Verified, PublishFails, Go, Looping
    <3> QED
      BY <2>1, <3>1 DEF Confirmed, Looping
  <2>5. CASE ReadRaced(p)
    <3>1. pc[p] \in Looping /\ pc'[p] \in Looping \cup {"refused"} /\ at'[p] = at[p]
      BY <2>5 DEF ReadRaced, Go, Looping
    <3> QED
      BY <2>1, <3>1 DEF Confirmed, Looping
  <2>6. CASE ReadExact(p)
    <3>1. PICK raw \in Reads(at[p]) :
            IF ~ Wanted(p, at[p], raw) THEN Go(p, "refused") /\ UNCHANGED at
            ELSE IF at[p] = 3 THEN Go(p, "final") /\ UNCHANGED at
            ELSE /\ Go(p, IF at[p] = 2 THEN "prefix" ELSE "publish")
                 /\ at' = [at EXCEPT ![p] = @ + 1]
      BY <2>6 DEF ReadExact
    <3>2. CASE ~ Wanted(p, at[p], raw)
      BY <3>1, <3>2 DEF Go, Looping
    <3>3. CASE Wanted(p, at[p], raw)
      <4>1. Exact(p, at[p])
        BY <3>3 DEF Wanted, Reads, Exact
      <4>2. \A i \in Files : i < at[p] \/ i = at[p] => Exact(p, i)'
        BY <2>1, <2>6, <4>1 DEF Confirmed, ReadExact, Looping
      <4>3. CASE at[p] = 3
        BY <3>1, <3>3, <4>2, <4>3 DEF Go, Looping
      <4>4. CASE at[p] # 3
        BY <3>1, <3>3, <4>2, <4>4 DEF Go, Looping
      <4> QED
        BY <4>3, <4>4
    <3> QED
      BY <3>2, <3>3
  <2>7. CASE Revalidate(p, "prefix", 2, "publish")
    <3>1. pc[p] \in Looping /\ pc'[p] \in Looping \cup {"refused"} /\ at'[p] = at[p]
      BY <2>7 DEF Revalidate, Go, Looping
    <3> QED
      BY <2>1, <3>1 DEF Confirmed, Looping
  <2>8. CASE Revalidate(p, "final", 3, "committed")
    <3>1. pc[p] = "final" /\ pc'[p] \in {"final", "committed", "refused"}
      BY <2>8 DEF Revalidate, Go
    <3> QED
      BY <2>1, <3>1 DEF Confirmed, Looping
  <2> QED
    BY <2>2, <2>3, <2>4, <2>5, <2>6, <2>7, <2>8 DEF Acts, Step
<1> QED
  BY <1>1, <1>2 DEF Confirmed

LEMMA PositionsStep ==
    ASSUME IInv, TypeOK', NEW p \in Publishers, Acts(p)
    PROVE  Positions'
<1> USE DEF IInv, TypeOK, Files
<1>1. \A q \in Publishers : q # p => pc'[q] = pc[q] /\ at'[q] = at[q]
  BY OthersStay
<1>2. (pc'[p] = "read" => at'[p] = 1) /\ (pc'[p] = "prefix" => at'[p] = 3)
  <2>1. CASE Begin(p) \/ Kill(p) \/ ReadPresent(p)
    BY <2>1 DEF Begin, Kill, ReadPresent, Go, Positions
  <2>2. CASE Create(p) \/ CreateFails(p) \/ Raced(p) \/ Adopt(p) \/ Fill(p)
    BY <2>2 DEF Create, CreateFails, Raced, Adopt, Fill, Go
  <2>3. CASE Verified(p) \/ PublishFails(p) \/ ReadRaced(p)
    BY <2>3 DEF Verified, PublishFails, ReadRaced, Go
  <2>4. CASE ReadExact(p)
    BY <2>4 DEF ReadExact, Go
  <2>5. CASE Revalidate(p, "prefix", 2, "publish") \/ Revalidate(p, "final", 3, "committed")
    BY <2>5 DEF Revalidate, Go, Positions
  <2> QED
    BY <2>1, <2>2, <2>3, <2>4, <2>5 DEF Acts, Step
<1>3. platform' = platform
  BY FileStep
<1> QED
  BY <1>1, <1>2, <1>3 DEF Positions

\* Files that agree name by name are the same files.
LEMMA SameBytes ==
    ASSUME NEW q \in Publishers, NEW f \in [Files -> Contents],
           \A i \in 1..3 : f[i] = Payload[q][i]
    PROVE  f = Payload[q]
BY PackageAssumption DEF Files

\* The receipt appears only over the two files its publisher has confirmed.
LEMMA SealedStep ==
    ASSUME IInv, TypeOK', NEW p \in Publishers, Acts(p)
    PROVE  Sealed'
<1> USE PackageAssumption DEF IInv, TypeOK, Files
<1> SUFFICES ASSUME file'[3] \in Bytes
             PROVE  \E q \in Publishers : /\ file' = Payload[q]
                                          /\ Exact(q, 1)' /\ Exact(q, 2)'
  BY DEF Sealed
<1>1. CASE file[3] \in Bytes
  <2>1. PICK q \in Publishers : file = Payload[q] /\ Exact(q, 1) /\ Exact(q, 2)
    BY <1>1 DEF Sealed
  <2>2. Exact(q, 1)' /\ Exact(q, 2)'
    BY <2>1, ExactStays
  <2>3. file'[3] = file[3]
    BY <1>1, FileStep DEF Create, Fill, RollsBack, Created
  <2>4. \A i \in 1..3 : file'[i] = Payload[q][i]
    BY <2>1, <2>2, <2>3 DEF Exact
  <2>5. file' = Payload[q]
    BY <2>4, SameBytes
  <2> QED
    BY <2>2, <2>5
<1>2. CASE file[3] \notin Bytes
  <2>1. Create(p) \/ Fill(p)
    <3>1. file' # file
      BY <1>2
    <3>2. ~ RollsBack(p)
      BY <1>2 DEF RollsBack
    <3> QED
      BY <3>1, <3>2, FileStep
  <2>2. at[p] = 3 /\ pc[p] \in Looping
    BY <1>2, <2>1 DEF Create, Fill, Looping
  <2>3. Exact(p, 1) /\ Exact(p, 2)
    BY <2>2 DEF Confirmed
  <2>4. Exact(p, 1)' /\ Exact(p, 2)'
    BY <2>3, ExactStays
  <2>5. file'[3] = Payload[p][3]
    BY <2>1, <2>2 DEF Create, Fill
  <2>6. \A i \in 1..3 : file'[i] = Payload[p][i]
    BY <2>4, <2>5 DEF Exact
  <2>7. file' = Payload[p]
    BY <2>6, SameBytes
  <2> QED
    BY <2>4, <2>7
<1> QED
  BY <1>1, <1>2

LEMMA InvInit == Init => IInv
BY InitType, PackageAssumption
   DEF Init, IInv, Created, Confirmed, Sealed, Positions, Looping, Files

LEMMA InvStep == IInv /\ [Next]_vars => IInv'
<1> SUFFICES ASSUME IInv, [Next]_vars PROVE IInv'
  OBVIOUS
<1>1. TypeOK'
  BY TypeStep DEF IInv
<1>2. CASE UNCHANGED vars
  BY <1>1, <1>2 DEF IInv, TypeOK, Created, Confirmed, Sealed, Positions, Exact, vars
<1>3. ASSUME NEW p \in Publishers, Acts(p) PROVE IInv'
  BY <1>1, <1>3, CreatedStep, ConfirmedStep, SealedStep, PositionsStep DEF IInv
<1> QED
  BY <1>2, <1>3 DEF Next, Acts

LEMMA Invariant == Spec => []IInv
BY InvInit, InvStep, PTL DEF Spec

----------------------------------------------------------------------------
\* CommittedIsExact: a publisher that returned "committed" has its three files
\* in place for good, whoever else publishes, fails or dies in the same root.
THEOREM CommittedStaysExact == Spec => []CommittedIsExact
<1>1. IInv => CommittedIsExact
  BY DEF IInv, Confirmed, CommittedIsExact, Exact
<1> QED
  BY <1>1, Invariant, PTL

\* No two publishers of different packages are both told "committed".
THEOREM OnePackageCommits ==
    Spec => [](\A p, q \in Publishers :
                 pc[p] = "committed" /\ pc[q] = "committed" => Payload[p] = Payload[q])
<1>1. IInv => \A p, q \in Publishers :
                pc[p] = "committed" /\ pc[q] = "committed" => Payload[p] = Payload[q]
  BY PackageAssumption DEF IInv, Confirmed, Exact, Files
<1> QED
  BY <1>1, Invariant, PTL

\* ImplementsCommit: read through its receipt, the publication of three files
\* is one step, to a whole package, and nothing changes afterwards.
THEOREM TransactionImplementsCommit == Spec => ImplementsCommit
<1>1. Init => Package = None
  BY PackageAssumption DEF Init, Package, Visible, Files
<1>2. IInv /\ IInv' /\ [Next]_vars => [Commit!Publish]_Package
  <2> SUFFICES ASSUME IInv, IInv', [Next]_vars PROVE [Commit!Publish]_Package
    OBVIOUS
  <2>1. CASE UNCHANGED vars
    BY <2>1 DEF vars, Package, Visible
  <2>2. ASSUME NEW p \in Publishers, Acts(p) PROVE [Commit!Publish]_Package
    <3>1. CASE Visible
      <4>1. PICK q \in Publishers : file = Payload[q] /\ \A i \in Files : Exact(q, i)
        BY <3>1 DEF IInv, Sealed, Visible, Exact, Files
      <4>2. \A i \in Files : Exact(q, i)'
        BY <2>2, <4>1, ExactStays
      <4>3. file' = file
        <5>1. \A i \in 1..3 : file'[i] = Payload[q][i]
          BY <4>2 DEF Exact, Files
        <5> QED
          BY <4>1, <5>1, SameBytes DEF IInv, TypeOK
      <4>4. Visible'
        BY PackageAssumption, <4>2 DEF Exact, Visible, Files
      <4> QED
        BY <3>1, <4>3, <4>4 DEF Package
    <3>2. CASE ~ Visible /\ Visible'
      <4>1. Package = None /\ Package' = file'
        BY <3>2 DEF Package
      <4>2. \E q \in Publishers : file' = Payload[q]
        BY <3>2 DEF IInv, Sealed, Visible
      <4> QED
        BY <4>1, <4>2 DEF Commit!Publish
    <3>3. CASE ~ Visible /\ ~ Visible'
      BY <3>3 DEF Package
    <3> QED
      BY <3>1, <3>2, <3>3
  <2> QED
    BY <2>1, <2>2 DEF Next, Acts
<1> QED
  BY <1>1, <1>2, Invariant, PTL DEF Spec, ImplementsCommit, Commit!CommitSpec
=============================================================================
