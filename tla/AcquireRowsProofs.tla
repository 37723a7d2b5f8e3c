---------------------------- MODULE AcquireRowsProofs ----------------------------
(***************************************************************************)
(* What the row publisher keeps true of its run directory, for every       *)
(* number of rows, publishers and deaths.                                  *)
(***************************************************************************)
EXTENDS AcquireRows, FiniteSetTheorems, SequenceTheorems, TLAPS

Whole(i) == i \in DOMAIN rows /\ rows[i] = AllParts
Covered(k) == \A i \in plan.kept : i <= k => Whole(i)

\* A ledger that closes committed rows only.
Good(l) == l.closed \in Nat /\ Covered(l.closed)
Fits(j) == DOMAIN j = {"row", "state"} /\ j.state \in JournalStates

Fields == {"names", "ledger", "checkpoint", "chk", "journal", "ledgered", "staged"}

\* Places of publish_planned_rows at which the process has read the ledger ...
Informed == {"checkpoint", "journal", "tree", "repair", "next_row", "init_checkpoint",
             "manifest", "receipt"}
\* ... and those inside the transaction of one row.
Transacting == {"resume", "clear", "mk_stage", "text", "sidecar", "fragment", "seal",
                "journal_staged", "commit", "rename", "journal_committed", "close_ledger",
                "journal_ledger", "close_checkpoint", "journal_checkpoint", "drop_journal",
                "unlink_journal"}

\* Where resume goes on with a row that must have been committed.
Committed(m) ==
    /\ m.journal.state # "prepared"
    /\ m.journal.state = "staged" => m.staged = "committed"

\* What a process that stands at l with m has made sure of.
Knows(l, m) ==
    /\ DOMAIN m = Fields
    /\ l \in {"ledger", "checkpoint", "journal"} => m.journal = None
    /\ l \in Informed \cup Transacting => Good(m.ledger)
    /\ l = "tree" => /\ m.journal # None => /\ m.journal.row \in 1..plan.n /\ Fits(m.journal)
                                            /\ m.ledger.closed \in
                                                 {m.journal.row - 1, m.journal.row}
                                            /\ m.ledgered <=> m.ledger.closed = m.journal.row
    /\ l \in Transacting =>
         /\ m.journal.row \in 1..plan.n
         /\ Fits(m.journal)
         /\ m.ledger.closed \in {m.journal.row - 1, m.journal.row}
    /\ (l = "resume" /\ Kept(m.journal.row) /\ Committed(m)) => Whole(m.journal.row)
    /\ (l \in {"journal_committed", "close_ledger"} /\ Kept(m.journal.row)) =>
         Whole(m.journal.row)

\* A durable write under way.
Writes(w) ==
    /\ DOMAIN w = {"target", "val", "was", "step", "then", "mem"}
    /\ Knows(w.then, w.mem)
    /\ w.step \in {"compare", "swap", "aside", "fill", "drop"} => w.was # None
    /\ w.target = "ledger" => Good(w.val) /\ (w.was # None => Good(w.was))
    /\ w.target = "journal" => Fits(w.val) /\ (w.was # None => Fits(w.was))

LedgersGood ==
    /\ file["ledger"] # None => Good(file["ledger"])
    /\ \A t \in temps : t.target = "ledger" /\ t.kind = "replaced" => Good(t.val)

JournalsFit ==
    /\ file["journal"] # None => Fits(file["journal"])
    /\ \A t \in temps : t.target = "journal" => t.val = Torn \/ Fits(t.val)

Shape ==
    /\ plan.n \in Nat /\ plan.n <= MaxRows /\ plan.kept \subseteq 1..plan.n
    /\ DOMAIN pc = Publishers /\ DOMAIN mem = Publishers /\ DOMAIN io = Publishers

DiskGood ==
    /\ DOMAIN file = StateFiles /\ IsFiniteSet(temps)
    /\ LedgersGood /\ JournalsFit

CoverInv ==
    /\ Shape /\ DiskGood
    /\ \A p \in Publishers : /\ Knows(pc[p], mem[p])
                             /\ io[p].step # "none" => Writes(io[p])

----------------------------------------------------------------------------
(* Frames.                                                                 *)

\* Temporaries may go, and others be made that no recovery takes for a ledger.
TempsFit ==
    \A t \in temps' : \/ t \in temps
                      \/ /\ t.kind # "replaced"
                         /\ t.target = "journal" => t.val = Torn \/ Fits(t.val)

\* Committed rows stay: the plan is fixed and no step takes a file from rows/.
Grows == plan' = plan /\ \A i : Whole(i) => Whole(i)'

LEMMA GrowGood == ASSUME Grows PROVE \A l : Good(l) => Good(l)'
BY DEF Grows, Good, Covered

LEMMA GrowKnows == ASSUME Grows PROVE \A l, m : Knows(l, m) => Knows(l, m)'
<1> SUFFICES ASSUME NEW l, NEW m, Knows(l, m) PROVE Knows(l, m)'
  OBVIOUS
<1>1. l \in Informed \cup Transacting => Good(m.ledger)'
  BY GrowGood DEF Knows
<1>2. \A i : Whole(i) => Whole(i)'
  BY DEF Grows
<1>3. plan' = plan
  BY DEF Grows
<1> QED
  BY <1>1, <1>2, <1>3 DEF Knows, Fits, Kept, Committed

LEMMA GrowWrites == ASSUME Grows PROVE \A w : Writes(w) => Writes(w)'
<1> SUFFICES ASSUME NEW w, Writes(w) PROVE Writes(w)'
  OBVIOUS
<1>1. Knows(w.then, w.mem)'
  BY GrowKnows DEF Writes
<1> QED
  BY <1>1, GrowGood DEF Writes, Fits

LEMMA GrowLedgers ==
    ASSUME Grows, LedgersGood, file'["ledger"] = file["ledger"],
           \A t \in temps' : t.target = "ledger" /\ t.kind = "replaced" => t \in temps
    PROVE  LedgersGood'
BY GrowGood DEF LedgersGood

LEMMA SameRows == ASSUME UNCHANGED <<plan, rows>> PROVE Grows
BY DEF Grows, Whole

\* What publisher p does to the control state.
Sets(p, l, m, w) ==
    /\ DOMAIN pc' = Publishers /\ DOMAIN mem' = Publishers /\ DOMAIN io' = Publishers
    /\ \A q \in Publishers : /\ pc'[q] = IF q = p THEN l ELSE pc[q]
                             /\ mem'[q] = IF q = p THEN m ELSE mem[q]
                             /\ io'[q] = IF q = p THEN w ELSE io[q]

LEMMA ControlAfter ==
    ASSUME CoverInv, NEW p \in Publishers, NEW l, NEW m, NEW w, Grows, Sets(p, l, m, w),
           DiskGood',
           Knows(l, m)', w.step # "none" => Writes(w)
    PROVE  CoverInv'
<1>1. Shape'
  BY DEF CoverInv, Shape, Sets, Grows
<1>2. ASSUME NEW q \in Publishers
      PROVE  Knows(pc[q], mem[q])'
  <2>1. ASSUME NEW l1, NEW m1, Knows(l1, m1)', pc'[q] = l1, mem'[q] = m1
        PROVE  Knows(pc[q], mem[q])'
    BY <2>1 DEF Knows
  <2>2. ASSUME NEW l1, NEW m1, Knows(l1, m1), pc'[q] = l1, mem'[q] = m1
        PROVE  Knows(pc[q], mem[q])'
    BY <2>1, <2>2, GrowKnows
  <2>3. CASE q = p
    <3>1. pc'[q] = l /\ mem'[q] = m
      BY <2>3 DEF Sets
    <3> QED
      BY <2>1, <3>1
  <2>4. CASE q # p
    <3>1. Knows(pc'[q], mem'[q])
      BY <2>4 DEF CoverInv, Sets
    <3> QED
      BY <2>2, <3>1
  <2> QED
    BY <2>3, <2>4
<1>3. ASSUME NEW q \in Publishers
      PROVE  (io[q].step # "none" => Writes(io[q]))'
  <2>1. ASSUME NEW v, v.step # "none" => Writes(v), io'[q] = v
        PROVE  (io[q].step # "none" => Writes(io[q]))'
    <3>1. v.step # "none" => Writes(v)'
      BY <2>1, GrowWrites
    <3> QED
      BY <2>1, <3>1 DEF Writes
  <2>2. io'[q].step # "none" => Writes(io'[q])
    BY DEF CoverInv, Sets
  <2> QED
    BY <2>1, <2>2
<1> QED
  BY <1>1, <1>2, <1>3 DEF CoverInv

LEMMA ControlStep ==
    ASSUME CoverInv, NEW p \in Publishers, NEW l, NEW m, NEW w, Grows, Sets(p, l, m, w),
           DiskGood', Knows(l, m), w.step # "none" => Writes(w)
    PROVE  CoverInv'
<1>1. Knows(l, m)'
  BY GrowKnows
<1> QED
  BY <1>1, ControlAfter

\* Every memory may be forgotten.
LEMMA NothingKnown ==
    ASSUME NEW l, l \notin Informed \cup Transacting \cup {"ledger"} PROVE Knows(l, NoMem)
BY DEF Knows, NoMem, Fields, Informed, Transacting

LEMMA Outside ==
    {"idle", "refused", "names", "recover"} \cap (Informed \cup Transacting \cup {"ledger"}) = {}
BY DEF Informed, Transacting

LEMMA NoWrite == NoIo.step = "none"
BY DEF NoIo

LEMMA FewerTemps ==
    ASSUME CoverInv, Grows, file' = file, IsFiniteSet(temps'),
           TempsFit
    PROVE  DiskGood'
<1>1. LedgersGood'
  BY GrowLedgers DEF CoverInv, DiskGood, TempsFit
<1>2. JournalsFit'
  BY DEF CoverInv, DiskGood, JournalsFit, Fits, TempsFit
<1> QED
  BY <1>1, <1>2 DEF CoverInv, DiskGood

LEMMA SameFiles ==
    ASSUME CoverInv, Grows, file' = file, temps' = temps
    PROVE  DiskGood'
<1>1. LedgersGood'
  BY GrowLedgers DEF CoverInv, DiskGood
<1> QED
  BY <1>1 DEF CoverInv, DiskGood, JournalsFit, Fits

\* The process ends, or dies.
LEMMA EndStep ==
    ASSUME CoverInv, NEW p \in Publishers, NEW l \in {"idle", "refused"},
           pc' = [pc EXCEPT ![p] = l], mem' = [mem EXCEPT ![p] = NoMem],
           io' = [io EXCEPT ![p] = NoIo], Grows,
           DiskGood'
    PROVE  CoverInv'
<1>1. Sets(p, l, NoMem, NoIo)
  BY DEF CoverInv, Shape, Sets
<1>2. Knows(l, NoMem)
  BY NothingKnown, Outside
<1> QED
  BY <1>1, <1>2, ControlStep, NoWrite

LEMMA RefuseStep == ASSUME CoverInv, NEW p \in Publishers, Refuse(p) PROVE CoverInv'
<1>1. Grows /\ file' = file /\ temps' = temps
  BY SameRows DEF Refuse, disk
<1> QED
  BY <1>1, SameFiles, EndStep DEF Refuse

\* The process goes on at l and knows m.
LEMMA GoStep ==
    ASSUME CoverInv, NEW p \in Publishers, NEW l, NEW m, Knows(l, m),
           Goto(p, l), Know(p, m) \/ (m = mem[p] /\ mem' = mem),
           io' = io, Grows, file' = file, temps' = temps
    PROVE  CoverInv'
<1>1. Sets(p, l, m, io[p])
  BY DEF CoverInv, Shape, Sets, Goto, Know
<1>2. io[p].step # "none" => Writes(io[p])
  BY DEF CoverInv
<1> QED
  BY <1>1, <1>2, ControlStep, SameFiles

LEMMA ReadStep ==
    ASSUME CoverInv, NEW p \in Publishers, NEW l, NEW m, Knows(l, m),
           Goto(p, l), Know(p, m), UNCHANGED <<mode, plan, disk, io, crashes>>
    PROVE  CoverInv'
<1>1. Grows /\ file' = file /\ temps' = temps /\ io' = io
  BY SameRows DEF disk
<1> QED
  BY <1>1, GoStep

LEMMA WriteStep ==
    ASSUME CoverInv, NEW p \in Publishers, NEW f, NEW v, NEW was, NEW l, NEW m,
           Write(p, f, v, was, l, m), Knows(l, m),
           f = "ledger" => Good(v) /\ (was # None => Good(was)),
           f = "journal" => Fits(v) /\ (was # None => Fits(was))
    PROVE  CoverInv'
<1> DEFINE w == [target |-> f, val |-> v, was |-> was, step |-> "create", then |-> l, mem |-> m]
<1>1. Grows /\ file' = file /\ temps' = temps
  BY SameRows DEF Write, disk
<1>2. Sets(p, "io", mem[p], w)
  BY DEF Write, CoverInv, Shape, Sets, Goto
<1>3. Writes(w)
  BY DEF Writes
<1>4. Knows("io", mem[p])
  BY DEF CoverInv, Knows, Informed, Transacting
<1> QED
  BY <1>1, <1>2, <1>3, <1>4, ControlStep, SameFiles

----------------------------------------------------------------------------
(* Durable writes.                                                         *)

LEMMA IoStep ==
    ASSUME CoverInv, NEW p \in Publishers, NEW s, Step(p, s), io[p].step # "none",
           s \in {"compare", "swap", "aside", "fill", "drop"} => io[p].was # None,
           Grows, DiskGood'
    PROVE  CoverInv'
<1> DEFINE w == [io[p] EXCEPT !.step = s]
<1>1. Sets(p, pc[p], mem[p], w)
  BY DEF CoverInv, Shape, Sets, Step
<1>2. Writes(io[p]) /\ Knows(pc[p], mem[p])
  BY DEF CoverInv
<1>3. Writes(w)
  BY <1>2 DEF Writes
<1> QED
  BY <1>1, <1>2, <1>3, ControlStep

LEMMA FinishStep ==
    ASSUME CoverInv, NEW p \in Publishers, Finish(p), io[p].step # "none",
           Grows, DiskGood'
    PROVE  CoverInv'
<1>1. Sets(p, io[p].then, io[p].mem, NoIo)
  BY DEF CoverInv, Shape, Sets, Finish, Goto, Know
<1>2. Knows(io[p].then, io[p].mem)
  BY DEF CoverInv, Writes
<1> QED
  BY <1>1, <1>2, ControlStep, NoWrite

LEMMA FewTemps ==
    ASSUME CoverInv
    PROVE  /\ IsFiniteSet(temps)
           /\ \A t, u : /\ IsFiniteSet(temps \cup {t}) /\ IsFiniteSet(temps \ {t})
                       /\ IsFiniteSet((temps \ {t}) \cup {u})
<1>1. IsFiniteSet(temps)
  BY DEF CoverInv, DiskGood
<1>2. \A t : IsFiniteSet(temps \cup {t}) /\ IsFiniteSet(temps \ {t})
  BY <1>1, FS_AddElement, FS_RemoveElement
<1>3. \A t, u : IsFiniteSet((temps \ {t}) \cup {u})
  BY <1>2, FS_AddElement
<1> QED
  BY <1>1, <1>2, <1>3

\* A state file that takes a value its writer vouched for.
LEMMA FileStep ==
    ASSUME CoverInv, Grows, NEW f, NEW v,
           f = "ledger" => Good(v), f = "journal" => Fits(v),
           file' = file \/ file' = [file EXCEPT ![f] = v],
           IsFiniteSet(temps'), TempsFit
    PROVE  DiskGood'
<1> USE DEF CoverInv, DiskGood
<1>1. DOMAIN file' = StateFiles
  OBVIOUS
<1>2. \A g \in {"ledger", "journal"} : file'[g] = file[g] \/ (f = g /\ file'[g] = v)
  BY DEF StateFiles
<1>3. LedgersGood'
  BY <1>2, GrowGood DEF LedgersGood, TempsFit
<1>4. JournalsFit'
  BY <1>2 DEF JournalsFit, Fits, TempsFit
<1> QED
  BY <1>1, <1>3, <1>4

LEMMA Vouched ==
    ASSUME CoverInv, NEW p \in Publishers, io[p].step # "none"
    PROVE  /\ io[p].target = "ledger" =>
                Good(io[p].val) /\ (io[p].was # None => Good(io[p].was))
           /\ io[p].target = "journal" =>
                Fits(io[p].val) /\ (io[p].was # None => Fits(io[p].was))
           /\ io[p].step \in {"compare", "swap", "aside", "fill", "drop"} => io[p].was # None
BY DEF CoverInv, Writes

LEMMA PutStep ==
    ASSUME CoverInv, NEW p \in Publishers, io[p].step # "none", Put(io[p].target, io[p].val),
           UNCHANGED <<plan, rows>>, IsFiniteSet(temps'),
           TempsFit
    PROVE  Grows /\ DiskGood'
<1>1. Grows
  BY SameRows
<1>2. file' = file \/ file' = [file EXCEPT ![io[p].target] = io[p].val]
  BY DEF Put
<1>3. ASSUME NEW f, NEW v, f = io[p].target, v = io[p].val
      PROVE  DiskGood'
  <2>1. /\ f = "ledger" => Good(v)
        /\ f = "journal" => Fits(v)
    BY <1>3, Vouched
  <2> QED
    BY <1>1, <1>2, <1>3, <2>1, FileStep
<1> QED
  BY <1>1, <1>3

LEMMA TempKind ==
    \A p \in Publishers : \A v, k :
        Temp(p, v, k).kind = k /\ Temp(p, v, k).val = v /\ Temp(p, v, k).target = io[p].target
BY DEF Temp

LEMMA DurableWriteStep == ASSUME CoverInv, NEW p \in Publishers, DurableWrite(p) PROVE CoverInv'
<1> USE TempKind, FewTemps
<1>1. CASE IoCreate(p)
  <2>1. CASE Refuse(p)
    BY <2>1, RefuseStep
  <2>2. CASE /\ temps' = temps \cup {Temp(p, Torn, "tmp")} /\ Step(p, "flush")
             /\ UNCHANGED <<mode, plan, file, dirs, stage, rows, crashes>>
    <3>1. Grows
      BY <2>2, SameRows
    <3>2. TempsFit
      BY <2>2 DEF Temp, TempsFit
    <3>3. DiskGood'
      BY <2>2, <3>1, <3>2, Vouched, <1>1, FileStep DEF IoCreate
    <3> QED
      BY <1>1, <2>2, <3>1, <3>3, IoStep DEF IoCreate
  <2> QED
    BY <1>1, <2>1, <2>2 DEF IoCreate
<1>2. CASE IoFlush(p)
  <2>1. Grows
    BY <1>2, SameRows DEF IoFlush
  <2>2. TempsFit
    BY <1>2, Vouched DEF IoFlush, Temp, TempsFit
  <2>3. DiskGood'
    BY <1>2, <2>1, <2>2, Vouched, FileStep DEF IoFlush
  <2> QED
    BY <1>2, <2>1, <2>3, IoStep DEF IoFlush
<1>3. CASE IoPublish(p)
  <2>1. CASE Refuse(p)
    BY <2>1, RefuseStep
  <2>2. CASE /\ Put(io[p].target, io[p].val) /\ temps' = temps \ {Temp(p, io[p].val, "tmp")}
             /\ Finish(p) /\ UNCHANGED <<mode, plan, dirs, rows, crashes>>
    BY <1>3, <2>2, PutStep, FinishStep DEF IoPublish, TempsFit
  <2> QED
    BY <1>3, <2>1, <2>2 DEF IoPublish
<1>4. CASE IoCompare(p)
  <2>1. CASE Refuse(p)
    BY <2>1, RefuseStep
  <2>2. CASE Step(p, "swap") /\ UNCHANGED <<mode, plan, disk, crashes>>
    <3>1. Grows /\ file' = file /\ temps' = temps
      BY <2>2, SameRows DEF disk
    <3> QED
      BY <1>4, <2>2, <3>1, SameFiles, Vouched, IoStep DEF IoCompare
  <2> QED
    BY <1>4, <2>1, <2>2 DEF IoCompare
<1>5. CASE IoSwap(p)
  <2>1. CASE Refuse(p)
    BY <2>1, RefuseStep
  <2>2. CASE ~ Refuse(p)
    <3>1. /\ Put(io[p].target, io[p].val) /\ UNCHANGED <<plan, rows>>
          /\ IsFiniteSet(temps') /\ TempsFit
      <4>1. /\ Put(io[p].target, io[p].val) /\ UNCHANGED <<plan, rows>>
            /\ temps' = (temps \ {Temp(p, io[p].val, "tmp")})
                          \cup {Temp(p, file[io[p].target], "tmp")}
        BY <1>5, <2>2 DEF IoSwap
      <4>2. IsFiniteSet(temps')
        BY <4>1
      <4> QED
        <5>1. io[p].target = "journal" => Fits(file[io[p].target])
          BY <1>5, <2>2 DEF IoSwap, CoverInv, DiskGood, JournalsFit
        <5>2. TempsFit
          BY <4>1, <5>1 DEF Temp, TempsFit
        <5> QED
          BY <4>1, <4>2, <5>2
    <3>2. Grows /\ DiskGood'
      BY <1>5, <3>1, PutStep DEF IoSwap
    <3>3. CASE Step(p, "drop")
      BY <1>5, <3>2, <3>3, Vouched, IoStep DEF IoSwap
    <3>4. CASE /\ Goto(p, "refused") /\ Know(p, NoMem)
               /\ io' = [io EXCEPT ![p] = NoIo]
      BY <3>2, <3>4, EndStep DEF Goto, Know
    <3> QED
      BY <1>5, <2>2, <3>3, <3>4 DEF IoSwap
  <2> QED
    BY <2>1, <2>2
<1>6. CASE IoAside(p)
  <2>1. CASE Refuse(p)
    BY <2>1, RefuseStep
  <2>2. CASE ~ Refuse(p)
    <3>1. /\ file' = [file EXCEPT ![io[p].target] = None]
          /\ temps' = temps \cup {Temp(p, io[p].was, "replaced")}
          /\ Step(p, "fill") /\ UNCHANGED <<mode, plan, dirs, stage, rows, crashes>>
      BY <1>6, <2>2 DEF IoAside
    <3>2. Grows
      BY <3>1, SameRows
    <3>3. io[p].step # "none" /\ io[p].was # None
      BY <1>6, Vouched DEF IoAside
    <3>4. DOMAIN file' = StateFiles /\ IsFiniteSet(temps')
      BY <3>1 DEF CoverInv, DiskGood
    <3>5. \A g \in {"ledger", "journal"} : file'[g] = file[g] \/ file'[g] = None
      BY <3>1 DEF CoverInv, DiskGood, StateFiles
    <3>6. LedgersGood'
      BY <3>1, <3>2, <3>3, <3>5, GrowGood, Vouched DEF CoverInv, DiskGood, LedgersGood
    <3>7. JournalsFit'
      BY <3>1, <3>3, <3>5, Vouched DEF CoverInv, DiskGood, JournalsFit, Fits
    <3> QED
      BY <3>1, <3>2, <3>3, <3>4, <3>6, <3>7, IoStep DEF DiskGood
  <2> QED
    BY <2>1, <2>2
<1>7. CASE IoFill(p)
  <2>1. CASE Refuse(p)
    BY <2>1, RefuseStep
  <2>2. CASE ~ Refuse(p)
    <3>1. /\ Put(io[p].target, io[p].val) /\ UNCHANGED <<plan, rows>> /\ Step(p, "drop")
          /\ IsFiniteSet(temps') /\ TempsFit
      BY <1>7, <2>2 DEF IoFill, TempsFit
    <3>2. Grows /\ DiskGood'
      BY <1>7, <3>1, PutStep DEF IoFill
    <3> QED
      BY <1>7, <3>1, <3>2, Vouched, IoStep DEF IoFill
  <2> QED
    BY <2>1, <2>2
<1>8. CASE IoDrop(p)
  <2>1. CASE Refuse(p)
    BY <2>1, RefuseStep
  <2>2. CASE ~ Refuse(p)
    <3>1. /\ Finish(p) /\ file' = file /\ UNCHANGED <<plan, rows>>
          /\ IsFiniteSet(temps') /\ TempsFit
      BY <1>8, <2>2 DEF IoDrop, TempsFit
    <3>2. Grows
      BY <3>1, SameRows
    <3>3. DiskGood'
      BY <3>1, <3>2, FewerTemps
    <3> QED
      BY <1>8, <3>1, <3>2, <3>3, FinishStep DEF IoDrop
  <2> QED
    BY <2>1, <2>2
<1> QED
  BY <1>1, <1>2, <1>3, <1>4, <1>5, <1>6, <1>7, <1>8 DEF DurableWrite

----------------------------------------------------------------------------
(* recover_row_journal_rewrite.                                            *)

LEMMA OneOf ==
    ASSUME NEW S, IsFiniteSet(S), ~ Cardinality(S) > 1, S # {}
    PROVE  \E t : S = {t}
<1>1. Cardinality(S) \in Nat
  BY FS_CardinalityType
<1>2. Cardinality(S) # 0
  BY FS_EmptySet
<1>3. Cardinality(S) = 1
  BY <1>1, <1>2
<1> QED
  BY <1>3, FS_Singleton

\* The values of a set of at most one file.
LEMMA OneValue ==
    ASSUME NEW t
    PROVE  [n \in 1..Cardinality({t}) |-> (CHOOSE u \in {t} : TRUE).val] = <<t.val>>
<1>1. Cardinality({t}) = 1
  BY FS_Singleton
<1>2. (CHOOSE u \in {t} : TRUE) = t
  OBVIOUS
<1> QED
  BY <1>1, <1>2

LEMMA NoValue ==
    [n \in 1..Cardinality({}) |-> (CHOOSE u \in {} : TRUE).val] = <<>>
<1>1. Cardinality({}) = 0
  BY FS_EmptySet
<1> QED
  BY <1>1

LEMMA Pair == ASSUME NEW x, NEW y PROVE <<x>> \o <<y>> = <<x, y>>
<1>1. /\ <<x>> \in Seq({x, y}) /\ <<y>> \in Seq({x, y}) /\ <<x, y>> \in Seq({x, y})
      /\ Len(<<x>>) = 1 /\ Len(<<y>>) = 1
  OBVIOUS
<1>2. /\ <<x>> \o <<y>> \in Seq({x, y})
      /\ Len(<<x>> \o <<y>>) = 2
      /\ \A i \in 1..2 : (<<x>> \o <<y>>)[i] = <<x, y>>[i]
  BY <1>1
<1> QED
  BY <1>1, <1>2, SeqEqual

LEMMA Triple == ASSUME NEW x, NEW y, NEW z PROVE (<<x>> \o <<y>>) \o <<z>> = <<x, y, z>>
<1> DEFINE S == {x, y, z}
<1>1. /\ <<x, y>> \in Seq(S) /\ <<z>> \in Seq(S) /\ <<x, y, z>> \in Seq(S)
      /\ Len(<<x, y>>) = 2 /\ Len(<<z>>) = 1
  OBVIOUS
<1>2. /\ <<x, y>> \o <<z>> \in Seq(S)
      /\ Len(<<x, y>> \o <<z>>) = 3
      /\ \A i \in 1..3 : (<<x, y>> \o <<z>>)[i] = <<x, y, z>>[i]
  BY <1>1
<1>3. <<x, y>> \o <<z>> = <<x, y, z>>
  BY <1>1, <1>2, SeqEqual
<1> QED
  BY <1>3, Pair

LEMMA ChainOf ==
    LET j == file["journal"]
    IN  /\ \A t : RewriteChain({t}, {}) = IF j = None THEN <<t.val>> ELSE <<t.val, j>>
        /\ \A u : RewriteChain({}, {u}) = IF j = None THEN <<u.val>> ELSE <<j, u.val>>
        /\ \A t, u : RewriteChain({t}, {u}) = IF j = None THEN <<t.val, u.val>>
                                              ELSE <<t.val, j, u.val>>
<1> DEFINE j == file["journal"]
           mid == IF j = None THEN <<>> ELSE <<j>>
<1>1. ASSUME NEW t PROVE RewriteChain({t}, {}) = (<<t.val>> \o mid) \o <<>>
  BY OneValue, NoValue, Zenon DEF RewriteChain
<1>2. ASSUME NEW u PROVE RewriteChain({}, {u}) = (<<>> \o mid) \o <<u.val>>
  BY OneValue, NoValue, Zenon DEF RewriteChain
<1>3. ASSUME NEW t, NEW u PROVE RewriteChain({t}, {u}) = (<<t.val>> \o mid) \o <<u.val>>
  BY OneValue, NoValue, Zenon DEF RewriteChain
<1>4. \A x : <<x>> \o <<>> = <<x>> /\ <<>> \o <<x>> = <<x>>
  OBVIOUS
<1>5. \A x, y : (<<x>> \o <<y>>) \o <<>> = <<x, y>>
  <2>1. ASSUME NEW x, NEW y PROVE <<x, y>> \o <<>> = <<x, y>>
    OBVIOUS
  <2> QED
    BY <2>1, Pair
<1>6. (<<>> \o <<>>) = <<>>
  OBVIOUS
<1>7. CASE j = None
  <2>1. mid = <<>>
    BY <1>7
  <2>2. \A t : RewriteChain({t}, {}) = <<t.val>>
    BY <1>1, <2>1, <1>4
  <2>3. \A u : RewriteChain({}, {u}) = <<u.val>>
    BY <1>2, <2>1, <1>4, <1>6
  <2>4. ASSUME NEW t, NEW u PROVE RewriteChain({t}, {u}) = <<t.val, u.val>>
    <3>1. RewriteChain({t}, {u}) = (<<t.val>> \o <<>>) \o <<u.val>>
      BY <1>3, <2>1
    <3>2. RewriteChain({t}, {u}) = <<t.val>> \o <<u.val>>
      BY <3>1, <1>4
    <3> QED
      BY <3>2, Pair
  <2> QED
    BY <1>7, <2>2, <2>3, <2>4
<1>8. CASE j # None
  <2>1. mid = <<j>>
    BY <1>8
  <2>2. \A t : RewriteChain({t}, {}) = <<t.val, j>>
    BY <1>1, <2>1, <1>5
  <2>3. \A u : RewriteChain({}, {u}) = <<j, u.val>>
    BY <1>2, <2>1, <1>4, Pair
  <2>4. \A t, u : RewriteChain({t}, {u}) = <<t.val, j, u.val>>
    BY <1>3, <2>1, Triple
  <2> QED
    BY <1>8, <2>2, <2>3, <2>4
<1> QED
  BY <1>7, <1>8

\* The two ends of an interrupted rewrite that may be finished.
LEMMA ChainEnds ==
    ASSUME CoverInv, ~ Cardinality(Residue("replaced")) > 1, ~ Cardinality(Residue("tmp")) > 1,
           ~ (Residue("replaced") = {} /\ Residue("tmp") = {}),
           NEW chain, chain = RewriteChain(Residue("replaced"), Residue("tmp")), ChainOk(chain)
    PROVE  /\ Residue("replaced") # {} =>
                \E t : Residue("replaced") = {t} /\ chain[1] = t.val /\ t.val # Torn
           /\ Residue("replaced") = {} =>
                \E u : Residue("tmp") = {u} /\ chain[Len(chain)] = u.val /\ u.val # Torn
<1> DEFINE old == Residue("replaced")
           new == Residue("tmp")
<1>1. IsFiniteSet(old) /\ IsFiniteSet(new)
  <2>1. IsFiniteSet(temps)
    BY FewTemps
  <2> QED
    BY <2>1, FS_Subset DEF Residue
<1>2. CASE old # {}
  <2>1. PICK t : old = {t}
    BY <1>1, <1>2, OneOf
  <2>2. chain[1] = t.val /\ Len(chain) \in Nat \ {0}
    <3>1. CASE new = {}
      <4>1. chain = RewriteChain({t}, {})
        BY <2>1, <3>1
      <4>2. chain = <<t.val>> \/ chain = <<t.val, file["journal"]>>
        BY <4>1, ChainOf
      <4> QED
        BY <4>2
    <3>2. CASE new # {}
      <4>1. PICK u : new = {u}
        BY <1>1, <3>2, OneOf
      <4>2. chain = RewriteChain({t}, {u})
        BY <2>1, <4>1
      <4>3. chain = <<t.val, u.val>> \/ chain = <<t.val, file["journal"], u.val>>
        BY <4>2, ChainOf
      <4> QED
        BY <4>3
    <3> QED
      BY <3>1, <3>2
  <2>3. t.val # Torn
    BY <2>2 DEF ChainOk
  <2> QED
    BY <1>2, <2>1, <2>2, <2>3
<1>3. CASE old = {}
  <2>1. PICK u : new = {u}
    BY <1>1, <1>3, OneOf
  <2>2. chain[Len(chain)] = u.val /\ Len(chain) \in Nat \ {0}
    <3>1. chain = RewriteChain({}, {u})
      BY <1>3, <2>1
    <3>2. chain = <<u.val>> \/ chain = <<file["journal"], u.val>>
      BY <3>1, ChainOf
    <3>3. \A x, y : /\ Len(<<x>>) = 1 /\ <<x>>[1] = x
                   /\ Len(<<y, x>>) = 2 /\ <<y, x>>[2] = x
      OBVIOUS
    <3>4. CASE chain = <<u.val>>
      <4>1. Len(chain) = 1
        BY <3>3, <3>4
      <4>2. chain[1] = u.val
        BY <3>3, <3>4
      <4> QED
        BY <4>1, <4>2
    <3>5. CASE chain = <<file["journal"], u.val>>
      <4>1. Len(chain) = 2
        BY <3>3, <3>5
      <4>2. chain[2] = u.val
        BY <3>3, <3>5
      <4> QED
        BY <4>1, <4>2
    <3> QED
      BY <3>2, <3>4, <3>5
  <2>3. u.val # Torn
    BY <2>2 DEF ChainOk
  <2> QED
    BY <1>3, <2>1, <2>2, <2>3
<1> QED
  BY <1>2, <1>3

\* A pass of the recovery that changes something: the set-aside predecessor is
\* put back or deleted, or the temporary takes the name.
LEMMA RecoverPass ==
    ASSUME CoverInv, NEW p \in Publishers, Recover(p), ~ Refuse(p),
           ~ (Residue("replaced") = {} /\ Residue("tmp") = {})
    PROVE  /\ UNCHANGED <<mode, plan, dirs, stage, rows, pc, mem, io, crashes>>
           /\ Residue("replaced") # {} =>
                \E t : /\ Residue("replaced") = {t} /\ t.val # Torn
                       /\ temps' = temps \ Residue("replaced")
                       /\ file' = IF file["journal"] = None
                                  THEN [file EXCEPT !["journal"] = t.val] ELSE file
           /\ Residue("replaced") = {} =>
                \E u : /\ Residue("tmp") = {u} /\ u.val # Torn
                       /\ temps' = temps \ Residue("tmp")
                       /\ file' = [file EXCEPT !["journal"] = u.val]
<1> DEFINE old == Residue("replaced")
           new == Residue("tmp")
           chain == RewriteChain(old, new)
<1>1. /\ ~ Cardinality(old) > 1 /\ ~ Cardinality(new) > 1
      /\ ChainOk(chain)
      /\ UNCHANGED <<mode, plan, dirs, stage, rows, pc, mem, io, crashes>>
      /\ IF old # {}
         THEN /\ temps' = temps \ old
              /\ file' = IF file["journal"] = None
                         THEN [file EXCEPT !["journal"] = chain[1]] ELSE file
         ELSE /\ temps' = temps \ new
              /\ file' = [file EXCEPT !["journal"] = chain[Len(chain)]]
  BY DEF Recover
<1>2. /\ old # {} => \E t : old = {t} /\ chain[1] = t.val /\ t.val # Torn
      /\ old = {} => \E u : new = {u} /\ chain[Len(chain)] = u.val /\ u.val # Torn
  BY <1>1, ChainEnds
<1> HIDE DEF chain
<1> QED
  BY <1>1, <1>2

LEMMA RecoverStep == ASSUME CoverInv, NEW p \in Publishers, Recover(p) PROVE CoverInv'
<1> DEFINE old == Residue("replaced")
           new == Residue("tmp")
<1>1. CASE Refuse(p)
  BY <1>1, RefuseStep
<1>2. CASE Read(p, TRUE, NoMem, "names")
  <2>1. Knows("names", NoMem)
    BY NothingKnown, Outside
  <2> QED
    BY <1>2, <2>1, ReadStep DEF Read
<1>3. ASSUME ~ Refuse(p), ~ (old = {} /\ new = {})
      PROVE  CoverInv'
  <2>1. /\ UNCHANGED <<mode, plan, dirs, stage, rows, pc, mem, io, crashes>>
        /\ \E t \in temps : /\ t.val # Torn /\ t.target = "journal"
                            /\ file' = file \/ file' = [file EXCEPT !["journal"] = t.val]
        /\ temps' \subseteq temps
    <3>1. old \subseteq temps /\ new \subseteq temps /\ \A t \in old \cup new : t.target = "journal"
      BY DEF Residue
    <3> QED
      BY <1>3, <3>1, RecoverPass
  <2>2. IsFiniteSet(temps')
    BY <2>1, FewTemps, FS_Subset
  <2>3. Grows
    BY <2>1, SameRows
  <2>4. file' = file \/ \E v : Fits(v) /\ file' = [file EXCEPT !["journal"] = v]
    BY <2>1 DEF CoverInv, DiskGood, JournalsFit
  <2>5. DiskGood'
    <3>1. TempsFit
      BY <2>1 DEF TempsFit
    <3>2. CASE file' = file
      BY <2>2, <2>3, <3>1, <3>2, FewerTemps
    <3>3. ASSUME NEW v, Fits(v), file' = [file EXCEPT !["journal"] = v] PROVE DiskGood'
      <4>1. ASSUME NEW f, f = "journal" PROVE DiskGood'
        <5>1. file' = [file EXCEPT ![f] = v] /\ f # "ledger"
          BY <3>3, <4>1
        <5> QED
          BY <2>2, <2>3, <3>1, <3>3, <5>1, FileStep
      <4> QED
        BY <4>1
    <3> QED
      BY <2>4, <3>2, <3>3
  <2>6. Sets(p, pc[p], mem[p], io[p])
    BY <2>1 DEF CoverInv, Shape, Sets
  <2>7. Knows(pc[p], mem[p]) /\ (io[p].step # "none" => Writes(io[p]))
    BY DEF CoverInv
  <2> QED
    BY <2>3, <2>5, <2>6, <2>7, ControlStep
<1> QED
  BY <1>1, <1>2, <1>3 DEF Recover

----------------------------------------------------------------------------
(* _preflight_row_publication.                                             *)

LEMMA Known == ASSUME CoverInv, NEW p \in Publishers PROVE Knows(pc[p], mem[p])
BY DEF CoverInv

\* A step that reads: refused, or on with what was made sure of.
LEMMA Reading ==
    ASSUME CoverInv, NEW p \in Publishers, NEW l, NEW m, NEW ok \in BOOLEAN,
           Read(p, ok, m, l), ok => Knows(l, m)
    PROVE  CoverInv'
<1>1. CASE ok
  BY <1>1, ReadStep DEF Read
<1>2. CASE ~ ok
  BY <1>2, RefuseStep DEF Read
<1> QED
  BY <1>1, <1>2

LEMMA ReadNamesStep == ASSUME CoverInv, NEW p \in Publishers, ReadNames(p) PROVE CoverInv'
<1> DEFINE names == {f \in StateFiles : file[f] # None}
           m == [NoMem EXCEPT !.names = names]
           l == IF names = {} THEN "fresh" ELSE "ledger"
<1>1. Knows(l, m)
  BY DEF Knows, NoMem, Fields, Informed, Transacting
<1>2. Refuse(p) \/ (Goto(p, l) /\ Know(p, m) /\ UNCHANGED <<mode, plan, disk, io, crashes>>)
  BY DEF ReadNames, Read
<1> QED
  BY <1>1, <1>2, RefuseStep, ReadStep

LEMMA ReadFreshStep == ASSUME CoverInv, NEW p \in Publishers, ReadFresh(p) PROVE CoverInv'
<1>1. Knows("mk_rows", mem[p])
  BY Known DEF Knows, Informed, Transacting
<1>2. \/ Refuse(p)
      \/ /\ Goto(p, "mk_rows") /\ Know(p, mem[p])
         /\ UNCHANGED <<mode, plan, disk, io, crashes>>
  BY DEF ReadFresh, Read
<1> QED
  BY <1>1, <1>2, RefuseStep, ReadStep

LEMMA ReadLedgerStep == ASSUME CoverInv, NEW p \in Publishers, ReadLedger(p) PROVE CoverInv'
<1> DEFINE m == [mem[p] EXCEPT !.ledger = file["ledger"]]
           l == IF "checkpoint" \in mem[p].names THEN "checkpoint" ELSE "journal"
<1>1. ASSUME file["ledger"] # None PROVE Knows(l, m)
  <2>1. Good(file["ledger"])
    BY <1>1 DEF CoverInv, DiskGood, LedgersGood
  <2>2. DOMAIN mem[p] = Fields /\ mem[p].journal = None
    BY Known DEF Knows, ReadLedger
  <2>3. m.ledger = file["ledger"] /\ m.journal = None /\ DOMAIN m = Fields
    BY <2>2 DEF Fields
  <2> QED
    BY <2>1, <2>3 DEF Knows, Transacting
<1>2. \/ Refuse(p)
      \/ /\ file["ledger"] # None
         /\ Goto(p, l) /\ Know(p, m) /\ UNCHANGED <<mode, plan, disk, io, crashes>>
  BY DEF ReadLedger, Read
<1> QED
  BY <1>1, <1>2, RefuseStep, ReadStep

LEMMA ReadCheckpointStep ==
    ASSUME CoverInv, NEW p \in Publishers, ReadCheckpoint(p) PROVE CoverInv'
<1> DEFINE c == file["checkpoint"]
           k == IF c = mem[p].ledger THEN "current" ELSE "predecessor"
           m == [mem[p] EXCEPT !.checkpoint = c, !.chk = k]
<1>1. Knows("journal", m)
  <2>1. DOMAIN mem[p] = Fields /\ mem[p].journal = None /\ Good(mem[p].ledger)
    BY Known DEF Knows, ReadCheckpoint, Informed
  <2>2. m.ledger = mem[p].ledger /\ m.journal = None /\ DOMAIN m = Fields
    BY <2>1 DEF Fields
  <2> QED
    BY <2>1, <2>2 DEF Knows, Transacting
<1>2. \/ Refuse(p)
      \/ Goto(p, "journal") /\ Know(p, m) /\ UNCHANGED <<mode, plan, disk, io, crashes>>
  BY DEF ReadCheckpoint, Read
<1> QED
  BY <1>1, <1>2, RefuseStep, ReadStep

LEMMA ReadJournalStep ==
    ASSUME CoverInv, NEW p \in Publishers, ReadJournal(p) PROVE CoverInv'
<1> DEFINE j == file["journal"]
           b == (mem[p].ledger.closed = j.row)
           m == [mem[p] EXCEPT !.journal = j, !.ledgered = b]
<1>1. DOMAIN mem[p] = Fields /\ mem[p].journal = None /\ Good(mem[p].ledger)
  BY Known DEF Knows, ReadJournal, Informed
<1>2. Knows("tree", mem[p])
  BY <1>1 DEF Knows, Transacting
<1>3. ASSUME j # None, JournalFits(j, mem[p].ledger, mem[p].chk) PROVE Knows("tree", m)
  <2>1. Fits(j)
    BY <1>3 DEF CoverInv, DiskGood, JournalsFit
  <2>2. /\ m.ledger = mem[p].ledger /\ m.journal = j /\ m.ledgered = b /\ DOMAIN m = Fields
    BY <1>1 DEF Fields
  <2>3. j.row \in 1..plan.n /\ mem[p].ledger.closed \in {j.row - 1, j.row}
    BY <1>3 DEF JournalFits
  <2> QED
    BY <1>1, <2>1, <2>2, <2>3 DEF Knows, Transacting
<1>4. \/ Refuse(p)
      \/ /\ j # None /\ JournalFits(j, mem[p].ledger, mem[p].chk)
         /\ Goto(p, "tree") /\ Know(p, m) /\ UNCHANGED <<mode, plan, disk, io, crashes>>
      \/ /\ Goto(p, "tree") /\ Know(p, mem[p]) /\ UNCHANGED <<mode, plan, disk, io, crashes>>
  BY DEF ReadJournal, Read
<1> QED
  BY <1>2, <1>3, <1>4, RefuseStep, ReadStep

LEMMA ReadTreeStep == ASSUME CoverInv, NEW p \in Publishers, ReadTree(p) PROVE CoverInv'
<1> DEFINE m == mem[p]
           j == m.journal
           due == {i \in plan.kept : i <= m.ledger.closed}
           open == j # None /\ Kept(j.row)
           inRows == open /\ j.row \in DOMAIN rows
           inStage == open /\ stage # None /\ stage.row = j.row
           placed == open /\ \/ m.ledgered
                             \/ j.state \in {"committed_unledgered", "ledger_closed",
                                             "checkpoint_closed"}
                             \/ j.state = "staged" /\ inRows
           want == due \cup (IF placed THEN {j.row} ELSE {})
           s == IF ~ open \/ m.ledgered THEN None
                ELSE IF j.state = "staged" THEN IF inRows THEN "committed" ELSE "staged"
                ELSE IF j.state = "prepared" /\ inStage THEN "partial" ELSE None
           n == [m EXCEPT !.names = {}, !.staged = s]
           l == IF j # None THEN "resume" ELSE "repair"
<1>1. /\ DOMAIN m = Fields /\ Good(m.ledger)
      /\ j # None => /\ j.row \in 1..plan.n /\ Fits(j)
                     /\ m.ledger.closed \in {j.row - 1, j.row}
                     /\ m.ledgered <=> m.ledger.closed = j.row
  BY Known DEF Knows, ReadTree, Informed
<1>2. \/ Refuse(p)
      \/ /\ DOMAIN rows = want
         /\ \A i \in want : rows[i] = AllParts
         /\ (open /\ ~ m.ledgered /\ j.state = "staged") => (inRows # inStage)
         /\ Goto(p, l) /\ Know(p, n) /\ UNCHANGED <<mode, plan, disk, io, crashes>>
  BY DEF ReadTree, Read
<1>3. /\ DOMAIN n = Fields /\ n.ledger = m.ledger /\ n.journal = j /\ n.staged = s
  BY <1>1 DEF Fields
<1>4. ASSUME DOMAIN rows = want, \A i \in want : rows[i] = AllParts
      PROVE  Knows(l, n)
  <2>1. CASE j = None
    <3>1. l = "repair"
      BY <2>1
    <3> QED
      BY <1>1, <1>3, <3>1 DEF Knows, Transacting
  <2>2. CASE j # None
    <3>1. l = "resume"
      BY <2>2
    <3>2. ASSUME Kept(j.row), Committed(n) PROVE placed
      <4>1. j.state # "prepared"
        BY <3>2, <1>3 DEF Committed
      <4>2. CASE j.state = "staged"
        <5>1. s = "committed"
          BY <4>2, <3>2, <1>3 DEF Committed
        <5> QED
          BY <2>2, <3>2, <4>2, <5>1
      <4> QED
        BY <2>2, <3>2, <4>1, <4>2, <1>1 DEF Fits, JournalStates
    <3>3. (Kept(j.row) /\ Committed(n)) => Whole(j.row)
      BY <1>4, <3>2 DEF Whole
    <3> QED
      BY <1>1, <1>3, <2>2, <3>1, <3>3 DEF Knows, Transacting
  <2> QED
    BY <2>1, <2>2
<1> QED
  BY <1>2, <1>4, RefuseStep, ReadStep

LEMMA PreflightStep == ASSUME CoverInv, NEW p \in Publishers, Preflight(p) PROVE CoverInv'
BY ReadNamesStep, ReadFreshStep, ReadLedgerStep, ReadCheckpointStep, ReadJournalStep,
   ReadTreeStep DEF Preflight

----------------------------------------------------------------------------
(* publish_planned_rows.                                                   *)

LEMMA Steps ==
    Transacting \cap (Informed \cup {"ledger"}) = {}
BY DEF Transacting, Informed

\* The ledger behind row i is good once row i is.
LEMMA NextGood ==
    ASSUME CoverInv, NEW i \in 1..plan.n, NEW k \in {i - 1, i}, Covered(k),
           Kept(i) => Whole(i)
    PROVE  Good(LedgerAt(i))
<1>1. LedgerAt(i).closed = i
  BY DEF LedgerAt, FinalLedger, Ledger
<1>2. Covered(i)
  <2> SUFFICES ASSUME NEW r \in plan.kept, r <= i PROVE Whole(r)
    BY DEF Covered
  <2>1. r \in 1..plan.n /\ plan.n \in Nat
    BY DEF CoverInv, Shape
  <2> QED
    BY <2>1 DEF Covered, Kept
<1> QED
  BY <1>1, <1>2 DEF Good, CoverInv, Shape

LEMMA EmptyGood == ASSUME CoverInv PROVE Good(Ledger(0))
<1>1. \A i \in plan.kept : ~ (i <= 0)
  BY DEF CoverInv, Shape
<1> QED
  BY <1>1 DEF Good, Covered, Ledger

LEMMA MakeDirStep ==
    ASSUME CoverInv, NEW p \in Publishers, NEW d, NEW l, MakeDir(p, d, l), Knows(l, mem[p])
    PROVE  CoverInv'
<1>1. Grows /\ file' = file /\ temps' = temps /\ mem' = mem /\ io' = io
  BY SameRows DEF MakeDir
<1> QED
  BY <1>1, GoStep DEF MakeDir

LEMMA StartsStep ==
    ASSUME CoverInv, NEW p \in Publishers,
           MakeRows(p) \/ MakeStaging(p) \/ InitialLedger(p) \/ InitialCheckpoint(p)
    PROVE  CoverInv'
<1>1. CASE MakeRows(p)
  <2>1. Knows("mk_staging", mem[p])
    BY <1>1, Known DEF MakeRows, Knows, Informed, Transacting
  <2> QED
    BY <1>1, <2>1, MakeDirStep DEF MakeRows
<1>2. CASE MakeStaging(p)
  <2>1. Knows("init_ledger", mem[p])
    BY <1>2, Known DEF MakeStaging, Knows, Informed, Transacting
  <2> QED
    BY <1>2, <2>1, MakeDirStep DEF MakeStaging
<1>3. CASE InitialLedger(p)
  <2> DEFINE m == [mem[p] EXCEPT !.ledger = Ledger(0)]
  <2>1. DOMAIN mem[p] = Fields
    BY Known DEF Knows
  <2>2. m.ledger = Ledger(0) /\ DOMAIN m = Fields
    BY <2>1 DEF Fields
  <2>3. Knows("init_checkpoint", m) /\ Good(Ledger(0))
    BY <2>2, EmptyGood DEF Knows, Informed, Transacting
  <2>4. Write(p, "ledger", Ledger(0), None, "init_checkpoint", m)
    BY <1>3 DEF InitialLedger
  <2> QED
    BY <2>3, <2>4, WriteStep
<1>4. CASE InitialCheckpoint(p)
  <2> DEFINE m == [mem[p] EXCEPT !.checkpoint = mem[p].ledger, !.chk = "current"]
  <2>1. DOMAIN mem[p] = Fields /\ Good(mem[p].ledger)
    BY <1>4, Known DEF InitialCheckpoint, Knows, Informed
  <2>2. m.ledger = mem[p].ledger /\ DOMAIN m = Fields
    BY <2>1 DEF Fields
  <2>3. Knows("next_row", m)
    BY <2>1, <2>2 DEF Knows, Transacting
  <2>4. Write(p, "checkpoint", mem[p].ledger, None, "next_row", m)
    BY <1>4 DEF InitialCheckpoint
  <2> QED
    BY <2>3, <2>4, WriteStep
<1> QED
  BY <1>1, <1>2, <1>3, <1>4

LEMMA RepairCheckpointStep ==
    ASSUME CoverInv, NEW p \in Publishers, RepairCheckpoint(p) PROVE CoverInv'
<1> DEFINE m == [mem[p] EXCEPT !.checkpoint = mem[p].ledger, !.chk = "current"]
<1>1. DOMAIN mem[p] = Fields /\ Good(mem[p].ledger)
  BY Known DEF Knows, RepairCheckpoint, Informed
<1>2. m.ledger = mem[p].ledger /\ DOMAIN m = Fields
  BY <1>1 DEF Fields
<1>3. Knows("next_row", m) /\ Knows("next_row", mem[p])
  BY <1>1, <1>2 DEF Knows, Transacting
<1>4. \/ /\ Goto(p, "next_row") /\ Know(p, mem[p])
         /\ UNCHANGED <<mode, plan, disk, io, crashes>>
      \/ Write(p, "checkpoint", mem[p].ledger, mem[p].checkpoint, "next_row", m)
  BY DEF RepairCheckpoint, Read
<1> QED
  BY <1>3, <1>4, ReadStep, WriteStep

LEMMA NextRowStep == ASSUME CoverInv, NEW p \in Publishers, NextRow(p) PROVE CoverInv'
<1> DEFINE m == mem[p]
           j == Journal(m.ledger.closed + 1, "prepared")
           n == [m EXCEPT !.journal = j, !.ledgered = FALSE, !.staged = None]
           f == [m EXCEPT !.ledger = FinalLedger, !.chk = "predecessor"]
<1>1. DOMAIN m = Fields /\ Good(m.ledger)
  BY Known DEF Knows, NextRow, Informed
<1>2. \/ Refuse(p)
      \/ /\ Goto(p, "manifest") /\ Know(p, m) /\ UNCHANGED <<mode, plan, disk, io, crashes>>
      \/ m.ledger.closed < plan.n /\ Write(p, "journal", j, None, "resume", n)
      \/ /\ ~ plan.n > 0 /\ ~ m.ledger.closed < plan.n
         /\ Write(p, "ledger", FinalLedger, m.ledger, "repair", f)
  BY DEF NextRow, Read
<1>3. Knows("manifest", m)
  BY <1>1 DEF Knows, Transacting
<1>4. ASSUME m.ledger.closed < plan.n PROVE Knows("resume", n) /\ Fits(j)
  <2>1. n.journal = j /\ n.ledger = m.ledger /\ DOMAIN n = Fields
    BY <1>1 DEF Fields
  <2>2. j.row = m.ledger.closed + 1 /\ j.state = "prepared"
    BY DEF Journal
  <2>3. j.row \in 1..plan.n /\ m.ledger.closed = j.row - 1
    BY <1>1, <1>4, <2>2 DEF Good, CoverInv, Shape
  <2> QED
    BY <1>1, <2>1, <2>2, <2>3 DEF Knows, Fits, JournalStates, Informed, Committed, Journal
<1>5. ASSUME ~ plan.n > 0 PROVE Knows("repair", f) /\ Good(FinalLedger)
  <2>1. f.ledger = FinalLedger /\ DOMAIN f = Fields
    BY <1>1 DEF Fields
  <2>2. Good(FinalLedger)
    BY <1>5 DEF Good, Covered, FinalLedger, CoverInv, Shape
  <2> QED
    BY <2>1, <2>2 DEF Knows, Transacting
<1>6. CASE Refuse(p)
  BY <1>6, RefuseStep
<1>7. CASE /\ Goto(p, "manifest") /\ Know(p, m)
           /\ UNCHANGED <<mode, plan, disk, io, crashes>>
  BY <1>3, <1>7, ReadStep
<1>8. CASE m.ledger.closed < plan.n /\ Write(p, "journal", j, None, "resume", n)
  BY <1>4, <1>8, WriteStep
<1>9. CASE ~ plan.n > 0 /\ Write(p, "ledger", FinalLedger, m.ledger, "repair", f)
  BY <1>1, <1>5, <1>9, WriteStep
<1> QED
  BY <1>2, <1>6, <1>7, <1>8, <1>9

LEMMA CreateOrEqualStep ==
    ASSUME CoverInv, NEW p \in Publishers, NEW f, f \notin {"ledger", "journal"}, NEW v, NEW l,
           CreateOrEqual(p, f, v, l), Knows(l, mem[p])
    PROVE  CoverInv'
<1>1. \/ Refuse(p)
      \/ /\ Goto(p, l) /\ Know(p, mem[p]) /\ UNCHANGED <<mode, plan, disk, io, crashes>>
      \/ Write(p, f, v, None, l, mem[p])
  BY DEF CreateOrEqual, Read
<1> QED
  BY <1>1, RefuseStep, ReadStep, WriteStep

LEMMA SealingStep ==
    ASSUME CoverInv, NEW p \in Publishers, Manifest(p) \/ Receipt(p) PROVE CoverInv'
<1>1. CASE Manifest(p)
  <2>1. Knows("receipt", mem[p])
    BY <1>1, Known DEF Manifest, Knows, Informed, Transacting
  <2> QED
    <3>1. CreateOrEqual(p, "manifest", plan.kept, "receipt")
      BY <1>1 DEF Manifest
    <3> QED
      BY <2>1, <3>1, CreateOrEqualStep
<1>2. CASE Receipt(p)
  <2>1. Knows("done", mem[p])
    BY <1>2, Known DEF Receipt, Knows, Informed, Transacting
  <2>2. \/ Refuse(p)
        \/ CreateOrEqual(p, "receipt", [ledger |-> mem[p].ledger, tree |-> Tree], "done")
    BY <1>2 DEF Receipt
  <2> QED
    BY <2>1, <2>2, RefuseStep, CreateOrEqualStep
<1> QED
  BY <1>1, <1>2

LEMMA PublishStep == ASSUME CoverInv, NEW p \in Publishers, Publish(p) PROVE CoverInv'
BY StartsStep, RepairCheckpointStep, NextRowStep, SealingStep DEF Publish

----------------------------------------------------------------------------
(* The transaction of one row.                                             *)

LEMMA InTransaction ==
    ASSUME CoverInv, NEW p \in Publishers, pc[p] \in Transacting
    PROVE  /\ DOMAIN mem[p] = Fields /\ Good(mem[p].ledger)
           /\ mem[p].journal.row \in 1..plan.n /\ Fits(mem[p].journal)
           /\ mem[p].ledger.closed \in {mem[p].journal.row - 1, mem[p].journal.row}
BY Known DEF Knows

\* Places at which nothing more need be known of the row.
Plain == {"clear", "mk_stage", "text", "sidecar", "fragment", "seal", "journal_staged",
          "commit", "rename", "journal_ledger", "close_checkpoint", "journal_checkpoint",
          "drop_journal", "unlink_journal"}

LEMMA PlainKnows ==
    ASSUME CoverInv, NEW p \in Publishers, pc[p] \in Transacting, NEW l \in Plain
    PROVE  Knows(l, mem[p])
BY InTransaction DEF Knows, Plain, Transacting, Informed

LEMMA ResumeStep == ASSUME CoverInv, NEW p \in Publishers, Resume(p) PROVE CoverInv'
<1> DEFINE m == mem[p]
           s == m.journal.state
           l == CASE s = "prepared" /\ Kept(m.journal.row) ->
                       IF m.staged = "partial" THEN "clear" ELSE "mk_stage"
                  [] s = "staged" ->
                       IF m.staged = "committed" THEN "journal_committed" ELSE "commit"
                  [] s = "ledger_closed" -> "close_checkpoint"
                  [] s = "checkpoint_closed" -> "drop_journal"
                  [] OTHER -> IF m.ledgered THEN "journal_ledger" ELSE "close_ledger"
<1>1. pc[p] = "resume" /\ pc[p] \in Transacting
  BY DEF Resume, Transacting
<1>2. Goto(p, l) /\ Know(p, m) /\ UNCHANGED <<mode, plan, disk, io, crashes>>
  BY DEF Resume, Read
<1>3. (Kept(m.journal.row) /\ Committed(m)) => Whole(m.journal.row)
  BY <1>1, Known DEF Knows
<1>4. s \in JournalStates
  BY <1>1, InTransaction DEF Fits
<1>5. CASE s = "prepared" /\ Kept(m.journal.row)
  <2>1. l \in Plain
    BY <1>5 DEF Plain
  <2> QED
    BY <1>1, <1>2, <2>1, PlainKnows, ReadStep
<1>6. CASE s = "prepared" /\ ~ Kept(m.journal.row)
  <2>1. l \in {"journal_ledger", "close_ledger"}
    BY <1>6
  <2>2. Knows(l, m)
    BY <1>1, <1>6, <2>1, InTransaction DEF Knows, Transacting, Informed
  <2> QED
    BY <1>2, <2>2, ReadStep
<1>7. CASE s = "staged"
  <2>1. CASE m.staged = "committed"
    <3>1. l = "journal_committed"
      BY <1>7, <2>1
    <3>2. Knows(l, m)
      BY <1>1, <1>3, <1>7, <2>1, <3>1, InTransaction DEF Knows, Transacting, Informed, Committed
    <3> QED
      BY <1>2, <3>2, ReadStep
  <2>2. CASE m.staged # "committed"
    <3>1. l \in Plain
      BY <1>7, <2>2 DEF Plain
    <3> QED
      BY <1>1, <1>2, <3>1, PlainKnows, ReadStep
  <2> QED
    BY <2>1, <2>2
<1>8. CASE s \in {"ledger_closed", "checkpoint_closed"}
  <2>1. l \in Plain
    BY <1>8 DEF Plain
  <2> QED
    BY <1>1, <1>2, <2>1, PlainKnows, ReadStep
<1>9. CASE s = "committed_unledgered"
  <2>1. l \in {"journal_ledger", "close_ledger"}
    BY <1>9
  <2>2. Knows(l, m)
    BY <1>1, <1>3, <1>9, <2>1, InTransaction DEF Knows, Transacting, Informed, Committed
  <2> QED
    BY <1>2, <2>2, ReadStep
<1> QED
  BY <1>4, <1>5, <1>6, <1>7, <1>8, <1>9 DEF JournalStates

\* Steps inside the transaction that leave rows, state files and temporaries alone.
LEMMA PlainStep ==
    ASSUME CoverInv, NEW p \in Publishers, pc[p] \in Transacting, NEW l \in Plain, Goto(p, l),
           Know(p, mem[p]) \/ mem' = mem, UNCHANGED <<plan, file, rows, temps, io>>
    PROVE  CoverInv'
<1>1. Grows
  BY SameRows
<1> QED
  BY <1>1, PlainKnows, GoStep

LEMMA StagingStep ==
    ASSUME CoverInv, NEW p \in Publishers, ClearStage(p) \/ MakeStage(p) \/ WritePart(p)
    PROVE  CoverInv'
<1>1. CASE ClearStage(p)
  <2>1. pc[p] = "clear" /\ pc[p] \in Transacting /\ "mk_stage" \in Plain
    BY <1>1 DEF ClearStage, Transacting, Plain
  <2>2. CASE Refuse(p)
    BY <2>2, RefuseStep
  <2>3. CASE /\ Goto(p, "mk_stage")
             /\ UNCHANGED <<mode, plan, file, dirs, rows, temps, mem, io, crashes>>
    BY <2>1, <2>3, PlainStep
  <2>4. CASE UNCHANGED <<mode, plan, file, dirs, rows, temps, pc, mem, io, crashes>>
    <3>1. Grows
      BY <2>4, SameRows
    <3>2. Sets(p, pc[p], mem[p], io[p])
      BY <2>4 DEF CoverInv, Shape, Sets
    <3>3. Knows(pc[p], mem[p]) /\ (io[p].step # "none" => Writes(io[p]))
      BY DEF CoverInv
    <3> QED
      BY <2>4, <3>1, <3>2, <3>3, SameFiles, ControlStep
  <2> QED
    BY <1>1, <2>2, <2>3, <2>4 DEF ClearStage
<1>2. CASE MakeStage(p)
  <2>1. pc[p] \in Transacting /\ Parts[1] \in Plain
    BY <1>2 DEF MakeStage, Transacting, Plain, Parts
  <2> QED
    BY <1>2, <2>1, PlainStep DEF MakeStage
<1>3. CASE WritePart(p)
  <2>1. PICK n \in 1..3 :
          /\ pc[p] = Parts[n]
          /\ Write(p, Parts[n], Parts[n], None,
                   IF n = 3 THEN "seal" ELSE Parts[n + 1], mem[p])
    BY <1>3, Zenon DEF WritePart
  <2>2. /\ pc[p] \in Transacting /\ Parts[n] \notin {"ledger", "journal"}
        /\ (IF n = 3 THEN "seal" ELSE Parts[n + 1]) \in Plain
    BY <2>1 DEF Parts, Transacting, Plain
  <2>3. Knows(IF n = 3 THEN "seal" ELSE Parts[n + 1], mem[p])
    BY <2>2, PlainKnows
  <2> QED
    BY <2>1, <2>2, <2>3, WriteStep
<1> QED
  BY <1>1, <1>2, <1>3

LEMMA CheckingStep ==
    ASSUME CoverInv, NEW p \in Publishers, Seal(p) \/ Commit(p) \/ DropJournal(p)
    PROVE  CoverInv'
<1>1. /\ pc[p] \in Transacting
      /\ \/ Refuse(p)
         \/ \E l \in Plain : Goto(p, l) /\ Know(p, mem[p])
                             /\ UNCHANGED <<mode, plan, disk, io, crashes>>
  BY DEF Seal, Commit, DropJournal, Read, Plain, Transacting
<1> QED
  BY <1>1, RefuseStep, PlainStep DEF disk

LEMMA AdvanceStep ==
    ASSUME CoverInv, NEW p \in Publishers, pc[p] \in Transacting, NEW s \in JournalStates,
           NEW l \in Plain \cup {"close_ledger"}, NEW m, Advance(p, s, l, m),
           DOMAIN m = Fields, m.ledger = mem[p].ledger,
           l = "close_ledger" => (Kept(mem[p].journal.row) => Whole(mem[p].journal.row))
    PROVE  CoverInv'
<1> DEFINE k == mem[p].journal
           j == [k EXCEPT !.state = s]
           n == [m EXCEPT !.journal = j]
<1>1. Write(p, "journal", j, k, l, n)
  BY DEF Advance
<1>2. /\ Fits(k) /\ k.row \in 1..plan.n /\ Good(mem[p].ledger)
      /\ mem[p].ledger.closed \in {k.row - 1, k.row}
  BY InTransaction
<1>3. Fits(j) /\ j.row = k.row
  BY <1>2 DEF Fits
<1>4. DOMAIN n = Fields /\ n.journal = j /\ n.ledger = mem[p].ledger
  BY DEF Fields
<1>5. Knows(l, n)
  BY <1>2, <1>3, <1>4 DEF Knows, Plain, Transacting, Informed
<1> QED
  BY <1>1, <1>2, <1>3, <1>5, WriteStep

LEMMA JournalStep ==
    ASSUME CoverInv, NEW p \in Publishers,
           JournalStaged(p) \/ JournalCommitted(p) \/ JournalLedger(p) \/ JournalCheckpoint(p)
    PROVE  CoverInv'
<1> DEFINE a == [mem[p] EXCEPT !.staged = "staged"]
           b == [mem[p] EXCEPT !.staged = "committed"]
           c == [mem[p] EXCEPT !.chk = "current"]
<1>1. pc[p] \in Transacting
  BY DEF JournalStaged, JournalCommitted, JournalLedger, JournalCheckpoint, Transacting
<1>2. /\ DOMAIN a = Fields /\ a.ledger = mem[p].ledger
      /\ DOMAIN b = Fields /\ b.ledger = mem[p].ledger
      /\ DOMAIN c = Fields /\ c.ledger = mem[p].ledger
  BY <1>1, InTransaction DEF Fields
<1>3. CASE JournalStaged(p)
  BY <1>1, <1>2, <1>3, AdvanceStep DEF JournalStaged, Plain, JournalStates
<1>4. CASE JournalCommitted(p)
  <2>1. pc[p] = "journal_committed"
    BY <1>4 DEF JournalCommitted
  <2>2. Kept(mem[p].journal.row) => Whole(mem[p].journal.row)
    BY <2>1, Known DEF Knows
  <2> QED
    BY <1>1, <1>2, <1>4, <2>2, AdvanceStep DEF JournalCommitted, Plain, JournalStates
<1>5. CASE JournalLedger(p)
  BY <1>1, <1>5, InTransaction, AdvanceStep DEF JournalLedger, Plain, JournalStates
<1>6. CASE JournalCheckpoint(p)
  BY <1>1, <1>2, <1>6, AdvanceStep DEF JournalCheckpoint, Plain, JournalStates
<1> QED
  BY <1>3, <1>4, <1>5, <1>6

\* The exclusive rename adds a row and takes none.
LEMMA RenameStep == ASSUME CoverInv, NEW p \in Publishers, Rename(p) PROVE CoverInv'
<1> DEFINE i == mem[p].journal.row
           moved == stage # None /\ stage.row = i /\ i \notin DOMAIN rows
           whole == moved /\ stage.files = AllParts
<1>1. pc[p] \in Transacting
  BY DEF Rename, Transacting
<1>2. /\ UNCHANGED <<plan, file, temps, io>>
      /\ \/ rows' = rows /\ ~ whole
         \/ /\ i \notin DOMAIN rows
            /\ rows' = [r \in DOMAIN rows \cup {i} |-> IF r = i THEN stage.files ELSE rows[r]]
      /\ \/ ~ whole /\ Goto(p, "refused") /\ Know(p, NoMem)
         \/ whole /\ Goto(p, "journal_committed") /\ Know(p, mem[p])
  BY DEF Rename
<1>3. Grows
  BY <1>2 DEF Grows, Whole
<1>4. DiskGood'
  BY <1>2, <1>3, SameFiles
<1>5. CASE ~ whole
  <2>1. Goto(p, "refused") /\ Know(p, NoMem)
    BY <1>2, <1>5
  <2>2. Sets(p, "refused", NoMem, io[p])
    BY <1>2, <2>1 DEF CoverInv, Shape, Sets, Goto, Know
  <2>3. Knows("refused", NoMem)
    BY NothingKnown, Outside
  <2>4. io[p].step # "none" => Writes(io[p])
    BY DEF CoverInv
  <2> QED
    BY <1>3, <1>4, <2>2, <2>3, <2>4, ControlStep
<1>6. CASE whole
  <2>1. Goto(p, "journal_committed") /\ Know(p, mem[p])
    BY <1>2, <1>6
  <2>2. rows'[i] = AllParts /\ i \in DOMAIN rows'
    BY <1>2, <1>6
  <2>3. ASSUME NEW m, m = mem[p] PROVE CoverInv'
    <3>1. Knows("rename", m)
      BY <1>1, <2>3, PlainKnows DEF Plain
    <3>2. Knows("rename", m)' /\ Whole(m.journal.row)'
      BY <1>3, <2>2, <2>3, <3>1, GrowKnows DEF Whole
    <3>3. Knows("journal_committed", m)'
      BY <3>2 DEF Knows, Transacting, Informed
    <3>4. Sets(p, "journal_committed", m, io[p])
      BY <1>2, <2>1, <2>3 DEF CoverInv, Shape, Sets, Goto, Know
    <3>5. io[p].step # "none" => Writes(io[p])
      BY DEF CoverInv
    <3> QED
      BY <1>3, <1>4, <3>3, <3>4, <3>5, ControlAfter
  <2> QED
    BY <2>3
<1> QED
  BY <1>5, <1>6

LEMMA CloseLedgerStep == ASSUME CoverInv, NEW p \in Publishers, CloseLedger(p) PROVE CoverInv'
<1> DEFINE m == mem[p]
           l == LedgerAt(m.journal.row)
           n == [m EXCEPT !.ledger = l, !.ledgered = TRUE]
<1>1. pc[p] = "close_ledger" /\ pc[p] \in Transacting
  BY DEF CloseLedger, Transacting
<1>2. \/ /\ Goto(p, "journal_ledger") /\ Know(p, m)
         /\ UNCHANGED <<mode, plan, disk, io, crashes>>
      \/ Write(p, "ledger", l, m.ledger, "journal_ledger", n)
  BY DEF CloseLedger, Read
<1>3. /\ DOMAIN m = Fields /\ Good(m.ledger)
      /\ m.journal.row \in 1..plan.n /\ Fits(m.journal)
      /\ m.ledger.closed \in {m.journal.row - 1, m.journal.row}
  BY <1>1, InTransaction
<1>4. Kept(m.journal.row) => Whole(m.journal.row)
  BY <1>1, Known DEF Knows
<1>5. Good(l) /\ l.closed = m.journal.row
  <2>1. Covered(m.ledger.closed)
    BY <1>3 DEF Good
  <2>2. Good(l)
    BY <1>3, <1>4, <2>1, NextGood
  <2> QED
    BY <2>2 DEF LedgerAt, FinalLedger, Ledger
<1>6. n.ledger = l /\ n.journal = m.journal /\ DOMAIN n = Fields
  BY <1>3 DEF Fields
<1>7. Knows("journal_ledger", n)
  BY <1>3, <1>5, <1>6 DEF Knows, Transacting, Informed
<1>8. Knows("journal_ledger", m)
  BY <1>1, PlainKnows DEF Plain
<1> QED
  BY <1>2, <1>3, <1>5, <1>7, <1>8, ReadStep, WriteStep

LEMMA CloseCheckpointStep ==
    ASSUME CoverInv, NEW p \in Publishers, CloseCheckpoint(p) PROVE CoverInv'
<1> DEFINE m == mem[p]
           n == [m EXCEPT !.checkpoint = m.ledger, !.chk = "current"]
<1>1. pc[p] \in Transacting
  BY DEF CloseCheckpoint, Transacting
<1>2. \/ /\ Goto(p, "journal_checkpoint") /\ Know(p, m)
         /\ UNCHANGED <<mode, plan, disk, io, crashes>>
      \/ Write(p, "checkpoint", m.ledger, m.checkpoint, "journal_checkpoint", n)
  BY DEF CloseCheckpoint, Read
<1>3. Knows("journal_checkpoint", m)
  BY <1>1, PlainKnows DEF Plain
<1>4. DOMAIN m = Fields
  BY <1>1, InTransaction
<1>5. n.ledger = m.ledger /\ n.journal = m.journal /\ DOMAIN n = Fields
  BY <1>4 DEF Fields
<1>6. Knows("journal_checkpoint", n)
  BY <1>3, <1>5 DEF Knows, Transacting, Informed
<1> QED
  BY <1>2, <1>3, <1>6, ReadStep, WriteStep

LEMMA UnlinkJournalStep ==
    ASSUME CoverInv, NEW p \in Publishers, UnlinkJournal(p) PROVE CoverInv'
<1> DEFINE n == [mem[p] EXCEPT !.journal = None, !.ledgered = FALSE,
                               !.staged = None, !.chk = "current"]
<1>1. pc[p] \in Transacting
  BY DEF UnlinkJournal, Transacting
<1>2. CASE Refuse(p)
  BY <1>2, RefuseStep
<1>3. CASE /\ file' = [file EXCEPT !["journal"] = None]
           /\ Goto(p, "repair") /\ Know(p, n)
           /\ UNCHANGED <<mode, plan, dirs, stage, rows, temps, io, crashes>>
  <2>1. Grows
    BY <1>3, SameRows
  <2>2. LedgersGood'
    BY <1>3, <2>1, GrowLedgers DEF CoverInv, DiskGood, StateFiles
  <2>3. JournalsFit'
    BY <1>3 DEF CoverInv, DiskGood, JournalsFit, Fits, StateFiles
  <2>4. DiskGood'
    BY <1>3, <2>2, <2>3 DEF CoverInv, DiskGood
  <2>5. DOMAIN mem[p] = Fields /\ Good(mem[p].ledger)
    BY <1>1, InTransaction
  <2>6. n.ledger = mem[p].ledger /\ DOMAIN n = Fields
    BY <2>5 DEF Fields
  <2>7. Knows("repair", n)
    BY <2>5, <2>6 DEF Knows, Transacting, Informed
  <2>8. Sets(p, "repair", n, io[p])
    BY <1>3 DEF CoverInv, Shape, Sets, Goto, Know
  <2>9. io[p].step # "none" => Writes(io[p])
    BY DEF CoverInv
  <2> QED
    BY <2>1, <2>4, <2>7, <2>8, <2>9, ControlStep
<1> QED
  BY <1>2, <1>3 DEF UnlinkJournal

LEMMA TransactionStep == ASSUME CoverInv, NEW p \in Publishers, RowTransaction(p) PROVE CoverInv'
BY ResumeStep, StagingStep, CheckingStep, JournalStep, RenameStep, CloseLedgerStep,
   CloseCheckpointStep, UnlinkJournalStep DEF RowTransaction

----------------------------------------------------------------------------
(* Every step.                                                             *)

LEMMA WorkStep == ASSUME CoverInv, NEW p \in Publishers, Work(p) PROVE CoverInv'
BY RecoverStep, PreflightStep, PublishStep, TransactionStep, DurableWriteStep DEF Work

LEMMA StartStep == ASSUME CoverInv, NEW p \in Publishers, Start(p) PROVE CoverInv'
<1> DEFINE l == IF Exchange THEN "names" ELSE "recover"
<1>1. Knows(l, NoMem)
  BY NothingKnown, Outside
<1>2. Goto(p, l) /\ Know(p, NoMem) /\ UNCHANGED <<mode, plan, disk, io, crashes>>
  BY DEF Start
<1> QED
  BY <1>1, <1>2, ReadStep

LEMMA CrashStep == ASSUME CoverInv, NEW p \in Publishers, Crash(p) PROVE CoverInv'
<1>1. Grows /\ file' = file /\ temps' = temps
  BY SameRows DEF Crash, disk
<1> QED
  BY <1>1, SameFiles, EndStep DEF Crash, Goto, Know

\* A step of the bootstrap, or none: only the count of deaths may change.
LEMMA IdleStep ==
    ASSUME CoverInv, UNCHANGED <<plan, file, rows, temps, pc, mem, io>> PROVE CoverInv'
<1>1. Grows
  BY SameRows
<1>2. DiskGood'
  BY <1>1, SameFiles
<1>3. ASSUME NEW q \in Publishers PROVE Knows(pc[q], mem[q])'
  <2>1. ASSUME NEW l, NEW m, l = pc[q], m = mem[q] PROVE Knows(pc[q], mem[q])'
    <3>1. Knows(l, m)'
      BY <1>1, <2>1, Known, GrowKnows
    <3> QED
      BY <2>1, <3>1 DEF Knows
  <2> QED
    BY <2>1
<1>4. ASSUME NEW q \in Publishers PROVE (io[q].step # "none" => Writes(io[q]))'
  <2>1. ASSUME NEW w, w = io[q] PROVE (io[q].step # "none" => Writes(io[q]))'
    <3>1. w.step # "none" => Writes(w)'
      BY <1>1, <2>1, GrowWrites DEF CoverInv
    <3> QED
      BY <2>1, <3>1 DEF Writes
  <2> QED
    BY <2>1
<1>5. Shape'
  BY DEF CoverInv, Shape
<1> QED
  BY <1>2, <1>3, <1>4, <1>5 DEF CoverInv

LEMMA CoverInit == Init => CoverInv
<1> SUFFICES ASSUME Init PROVE CoverInv
  OBVIOUS
<1>1. Shape
  BY RowsAssumption DEF Init, Shape
<1>2. DiskGood
  BY FS_EmptySet DEF Init, DiskGood, LedgersGood, JournalsFit, StateFiles
<1>3. \A p \in Publishers : Knows(pc[p], mem[p]) /\ io[p].step = "none"
  BY NothingKnown, Outside DEF Init, NoIo
<1> QED
  BY <1>1, <1>2, <1>3 DEF CoverInv

LEMMA CoverNext == CoverInv /\ [Next]_vars => CoverInv'
<1> SUFFICES ASSUME CoverInv, [Next]_vars PROVE CoverInv'
  OBVIOUS
<1>1. CASE UNCHANGED vars
  BY <1>1, IdleStep DEF vars
<1>2. CASE Next
  BY <1>2, StartStep, CrashStep, WorkStep DEF Next
<1> QED
  BY <1>1, <1>2

LEMMA CoverOnDisk == CoverInv => RowsBeforeLedger
<1> SUFFICES ASSUME CoverInv PROVE RowsBeforeLedger
  OBVIOUS
<1> DEFINE aside == {t.val : t \in {u \in temps : u.target = "ledger" /\ u.kind = "replaced"}}
<1>1. \A l \in aside : Good(l)
  BY DEF CoverInv, DiskGood, LedgersGood
<1>2. aside # {} => (CHOOSE l \in aside : TRUE) \in aside
  OBVIOUS
<1>3. Good(LedgerOnDisk)
  BY <1>1, <1>2, EmptyGood DEF CoverInv, DiskGood, LedgersGood, LedgerOnDisk
<1> QED
  BY <1>3 DEF Good, Covered, Whole, RowsBeforeLedger

\* RowsBeforeLedger: however many publishers follow each other and wherever they
\* die, a row the source ledger has closed is committed with all of its files.
THEOREM LedgerNeverAhead == Spec => []RowsBeforeLedger
BY CoverInit, CoverNext, CoverOnDisk, PTL DEF Spec

----------------------------------------------------------------------------
(* One publisher at a time: what the disk accounts for.  g is the state    *)
(* files as they are, or as they will be when a write under way is done.   *)

Due(k) == {i \in plan.kept : i <= k}
RowsAre(S) == DOMAIN rows = S /\ \A i \in S : rows[i] = AllParts
Staged(i, S) ==
    /\ stage # None /\ DOMAIN stage = {"row", "files"}
    /\ stage.row = i /\ stage.files = S

\* No acquisition has begun.
Unbegun(g) ==
    /\ \A f \in StateFiles : g[f] = None
    /\ RowsAre({}) /\ rows = [i \in {} |-> {}] /\ stage = None

\* Between two transactions.
Settled(g) ==
    LET l == g["ledger"]
        c == g["checkpoint"]
    IN  /\ l = Ledger(0) \/ \E k \in 0..plan.n : l = LedgerAt(k)
        /\ RowsAre(Due(l.closed)) /\ stage = None
        /\ \/ c = l
           \/ c = None /\ l = Ledger(0)
           \/ c = Ledger(0) /\ l = FinalLedger /\ plan.n = 0
        /\ g["manifest"] # None => l = FinalLedger /\ c = l /\ g["manifest"] = plan.kept
        /\ g["receipt"] # None =>
             /\ l = FinalLedger /\ c = l /\ g["manifest"] = plan.kept
             /\ g["receipt"] = [ledger |-> l, tree |-> [ledger |-> l, checkpoint |-> c,
                                       manifest |-> g["manifest"], rows |-> rows]]

\* The ledger and the checkpoint before a row is closed, and behind it.
Before(g) ==
    g["ledger"] = Ledger(g["journal"].row - 1) /\ g["checkpoint"] = Ledger(g["journal"].row - 1)
Behind(g) ==
    g["ledger"] = LedgerAt(g["journal"].row) /\ g["checkpoint"] = Ledger(g["journal"].row - 1)

\* In the transaction of row i.
Open(g) ==
    LET j == g["journal"]
        i == j.row
        s == j.state
        in == RowsAre(Due(i)) /\ stage = None
    IN  /\ i \in 1..plan.n /\ j = Journal(i, s)
        /\ g["manifest"] = None /\ g["receipt"] = None
        /\ \/ /\ s = "prepared" /\ Kept(i) /\ Before(g) /\ RowsAre(Due(i - 1))
              /\ stage = None \/ \E S \in Prefixes : Staged(i, S)
           \/ s = "prepared" /\ ~ Kept(i) /\ (Before(g) \/ Behind(g)) /\ in
           \/ /\ s = "staged" /\ Kept(i) /\ Before(g)
              /\ in \/ (RowsAre(Due(i - 1)) /\ Staged(i, AllParts))
           \/ s = "committed_unledgered" /\ Kept(i) /\ (Before(g) \/ Behind(g)) /\ in
           \/ /\ s = "ledger_closed" /\ g["ledger"] = LedgerAt(i)
              /\ g["checkpoint"] \in {Ledger(i - 1), LedgerAt(i)} /\ in
           \/ /\ s = "checkpoint_closed" /\ g["ledger"] = LedgerAt(i)
              /\ g["checkpoint"] = LedgerAt(i) /\ in

Accounts(g) ==
    \/ Unbegun(g)
    \/ g["ledger"] # None /\ g["journal"] = None /\ Settled(g)
    \/ g["ledger"] # None /\ g["journal"] # None /\ Open(g)

With(f, v) == [file EXCEPT ![f] = v]

\* Nothing of a durable write is left, but for a part of a row being staged.
Clean ==
    /\ Accounts(file)
    /\ \A t \in temps : /\ t.target \in AllParts /\ stage # None
                        /\ file["journal"] # None /\ file["journal"].state = "prepared"

\* A durable write of one state file was broken off: with what is left of it
\* put in place, or without, the disk is accounted for.
Broken ==
    \E f \in StateFiles :
        /\ temps # {}
        /\ \A t \in temps :
              /\ t.target = f
              /\ t.kind \in {"tmp", "replaced"}
              /\ (t.kind = "replaced" \/ t.val # Torn) => Accounts(With(f, t.val))
              /\ t.kind = "replaced" => t.val # None
        /\ Accounts(file) \/ (file[f] = None /\ \E t \in temps : t.kind = "replaced")
        /\ file["receipt"] = None

Rest == Clean \/ Broken

----------------------------------------------------------------------------
(* What the process at work knows when it stands at l with m.              *)

Match(m, g) ==
    m.ledger = g["ledger"] /\ m.checkpoint = g["checkpoint"] /\ m.journal = g["journal"]

Chk(g) == IF g["checkpoint"] = None THEN "missing"
          ELSE IF g["checkpoint"] = g["ledger"] THEN "current" ELSE "predecessor"

Beginning == {"fresh", "mk_rows", "mk_staging", "init_ledger"}
Surveying == {"ledger", "checkpoint", "journal", "tree"}
Settling == {"repair", "next_row", "manifest", "receipt"}

PartsBefore(l) == CASE l = "text" -> {}
                    [] l = "sidecar" -> {"text"}
                    [] l = "fragment" -> {"text", "sidecar"}
                    [] OTHER -> AllParts

AtBeginning(l, m, g) == Unbegun(g) /\ m.checkpoint = None /\ m.journal = None

AtSurveying(l, m, g) ==
    /\ g["ledger"] # None
    /\ l # "tree" => /\ m.names = {f \in StateFiles : g[f] # None}
                     /\ m.journal = None /\ ~ m.ledgered
    /\ l \in {"ledger", "checkpoint"} => m.checkpoint = None /\ m.chk = "missing"
    /\ l \in {"checkpoint", "journal"} => m.ledger = g["ledger"]
    /\ l = "checkpoint" => g["checkpoint"] # None
    /\ l = "journal" => m.checkpoint = g["checkpoint"]
    /\ l \in {"journal", "tree"} => m.chk = Chk(g)
    /\ l = "tree" => /\ Match(m, g)
                     /\ m.ledgered <=> (m.journal # None /\ m.ledger.closed = m.journal.row)

AtSettling(l, m, g) ==
    /\ g["ledger"] # None /\ g["journal"] = None /\ Match(m, g)
    /\ l = "repair" => (m.chk = "current" <=> g["checkpoint"] = g["ledger"])
    /\ l # "repair" => g["checkpoint"] = g["ledger"]
    /\ l \in {"manifest", "receipt"} => g["ledger"] = FinalLedger
    /\ l = "receipt" => g["manifest"] = plan.kept

AtRow(l, m, g) ==
    LET j == g["journal"]
        staging == j.state = "prepared" /\ Kept(j.row)
    IN  /\ j # None /\ Match(m, g)
        /\ m.ledgered <=> g["ledger"].closed = j.row
        /\ l = "resume" =>
             /\ staging => (m.staged = "partial" <=> stage # None)
             /\ j.state = "staged" => (m.staged = "committed" <=> j.row \in DOMAIN rows)
        /\ l = "clear" => staging /\ stage # None
        /\ l = "mk_stage" => staging /\ stage = None
        /\ l \in AllParts \cup {"seal", "journal_staged"} =>
             staging /\ Staged(j.row, PartsBefore(l))
        /\ l \in {"commit", "rename"} => j.state = "staged" /\ stage # None
        /\ l = "journal_committed" => j.state = "staged" /\ stage = None
        /\ l \in {"close_ledger", "journal_ledger"} =>
             j.state = "committed_unledgered" \/ (j.state = "prepared" /\ ~ Kept(j.row))
        /\ l = "close_ledger" => Before(g)
        /\ l = "journal_ledger" => g["ledger"] = LedgerAt(j.row)
        /\ l \in {"close_checkpoint", "journal_checkpoint"} => j.state = "ledger_closed"
        /\ l = "journal_checkpoint" => g["checkpoint"] = g["ledger"]
        /\ l \in {"drop_journal", "unlink_journal"} => j.state = "checkpoint_closed"

At(l, m, g) ==
    /\ Accounts(g)
    /\ l \in Beginning => AtBeginning(l, m, g)
    /\ l \in Surveying => AtSurveying(l, m, g)
    /\ l = "init_checkpoint" =>
         /\ Match(m, g) /\ g["ledger"] = Ledger(0)
         /\ g["checkpoint"] = None /\ g["journal"] = None
    /\ l \in Settling => AtSettling(l, m, g)
    /\ l \in Transacting => AtRow(l, m, g)

Left(p, w, v, k) == [by |-> p, target |-> w.target, val |-> v, kind |-> k]

\* How far the durable write w of p has come.
Progress(p, w) ==
    LET there == IF w.target \in StateFiles THEN file[w.target] ELSE None
        new == Left(p, w, w.val, "tmp")
        old == Left(p, w, w.was, IF Exchange THEN "tmp" ELSE "replaced")
    IN  \/ w.step = "create" /\ there = w.was /\ temps = {}
        \/ w.step = "flush" /\ there = w.was /\ temps = {Left(p, w, Torn, "tmp")}
        \/ w.step = "publish" /\ w.was = None /\ there = None /\ temps = {new}
        \/ /\ w.step \in {"compare", "swap"} /\ Exchange
           /\ w.was # None /\ there = w.was /\ temps = {new}
        \/ w.step = "aside" /\ ~ Exchange /\ w.was # None /\ there = w.was /\ temps = {new}
        \/ w.step = "fill" /\ ~ Exchange /\ w.was # None /\ there = None /\ temps = {new, old}
        \/ w.step = "drop" /\ w.was # None /\ there = w.val /\ temps = {old}

AfterWrite == Settling \cup Transacting \cup {"init_checkpoint", "done"}

\* A state file is written: before and behind the write the disk is accounted
\* for, and the source ledger does not lose a row.
WritesFile(w) ==
    /\ w.target \in StateFiles
    /\ file["receipt"] = None
    /\ Accounts(With(w.target, w.was))
    /\ At(w.then, w.mem, With(w.target, w.val))
    /\ w.then \in AfterWrite
    /\ w.target = "receipt" => w.was = None
    /\ w.target = "ledger" => IF w.was = None THEN w.val = Ledger(0)
                              ELSE w.val # None /\ w.was.closed <= w.val.closed

\* A part of the row of the journal is written into its stage.
WritesPart(w) ==
    \E n \in 1..3 : /\ w.target = Parts[n] /\ w.was = None
                    /\ w.then = (IF n = 3 THEN "seal" ELSE Parts[n + 1])
                    /\ At(Parts[n], w.mem, file)

Anywhere == {"recover", "names", "io"}
Places == Anywhere \cup Beginning \cup Surveying \cup Settling \cup Transacting
            \cup {"init_checkpoint"}

\* Where the one process at work stands.
Stands(p, l, m, w) ==
    /\ l \in Places
    /\ l # "io" => w.step = "none"
    /\ l \in {"recover", "names"} => Rest
    /\ l = "names" /\ ~ Exchange => \A t \in temps : t.target # "journal"
    /\ l \in Surveying => Clean
    /\ l \notin Anywhere \cup Surveying => temps = {}
    /\ l \notin Anywhere => At(l, m, file)
    /\ l = "io" => Progress(p, w) /\ (WritesFile(w) \/ WritesPart(w))

Standing(p) == Stands(p, pc[p], mem[p], io[p])

AloneInv ==
    /\ (\A p \in Publishers : ~ Active(p)) => Rest
    /\ \A p \in Publishers : Active(p) => /\ Standing(p)
                                          /\ \A q \in Publishers : Active(q) => q = p

----------------------------------------------------------------------------
(* The accounts, whichever way the state files are written down.           *)

Same(g, h) == \A f \in StateFiles : g[f] = h[f]

LEMMA SameAccounts == ASSUME NEW g, NEW h, Same(g, h), Accounts(g) PROVE Accounts(h)
<1>1. /\ g["ledger"] = h["ledger"] /\ g["checkpoint"] = h["checkpoint"]
      /\ g["journal"] = h["journal"] /\ g["manifest"] = h["manifest"]
      /\ g["receipt"] = h["receipt"]
  BY DEF Same, StateFiles
<1>2. Unbegun(g) => Unbegun(h)
  BY DEF Same, Unbegun
<1>3. Settled(g) => Settled(h)
  BY <1>1, Zenon DEF Settled
<1>4. Open(g) => Open(h)
  BY <1>1, Zenon DEF Open, Before, Behind
<1> QED
  BY <1>1, <1>2, <1>3, <1>4 DEF Accounts

LEMMA SameAt == ASSUME NEW l, NEW m, NEW g, NEW h, Same(g, h), At(l, m, g) PROVE At(l, m, h)
<1>1. /\ g["ledger"] = h["ledger"] /\ g["checkpoint"] = h["checkpoint"]
      /\ g["journal"] = h["journal"] /\ g["manifest"] = h["manifest"]
      /\ g["receipt"] = h["receipt"]
  BY DEF Same, StateFiles
<1>2. {f \in StateFiles : g[f] # None} = {f \in StateFiles : h[f] # None}
  BY DEF Same
<1>3. Unbegun(g) => Unbegun(h)
  BY DEF Same, Unbegun
<1>4. AtBeginning(l, m, g) => AtBeginning(l, m, h)
  BY <1>3 DEF AtBeginning
<1>5. AtSurveying(l, m, g) => AtSurveying(l, m, h)
  BY <1>1, <1>2, Zenon DEF AtSurveying, Chk, Match
<1>6. AtSettling(l, m, g) => AtSettling(l, m, h)
  BY <1>1, Zenon DEF AtSettling, Match
<1>7. AtRow(l, m, g) => AtRow(l, m, h)
  BY <1>1, Zenon DEF AtRow, Match, Before
<1> QED
  BY <1>1, <1>4, <1>5, <1>6, <1>7, SameAccounts DEF At, Match

LEMMA WithIs ==
    ASSUME DOMAIN file = StateFiles, NEW f \in StateFiles, NEW v
    PROVE  /\ With(f, v)[f] = v
           /\ \A h \in StateFiles \ {f} : With(f, v)[h] = file[h]
           /\ file[f] = v => Same(With(f, v), file) /\ Same(file, With(f, v))
BY DEF With, Same

\* Steps that leave the plan, the committed rows and the stage.
Still == UNCHANGED <<mode, plan, rows, stage>>

LEMMA StillAccounts == ASSUME Still PROVE \A g : Accounts(g) => Accounts(g)'
<1> SUFFICES ASSUME NEW g, Accounts(g) PROVE Accounts(g)'
  OBVIOUS
<1> USE DEF Still
<1>1. Unbegun(g) => Unbegun(g)'
  BY DEF Unbegun, RowsAre
<1>2. Settled(g) => Settled(g)'
  BY DEF Settled, RowsAre, LedgerAt, FinalLedger, Ledger, Due
<1>3. Open(g) => Open(g)'
  BY DEF Open, RowsAre, LedgerAt, FinalLedger, Ledger, Due, Before, Behind, Kept, Journal, Staged
<1> QED
  BY <1>1, <1>2, <1>3 DEF Accounts

LEMMA StillAt == ASSUME Still PROVE \A l, m, g : At(l, m, g) => At(l, m, g)'
<1> SUFFICES ASSUME NEW l, NEW m, NEW g, At(l, m, g) PROVE At(l, m, g)'
  OBVIOUS
<1> USE DEF Still
<1>1. Accounts(g)'
  BY StillAccounts DEF At
<1>2. AtBeginning(l, m, g) => AtBeginning(l, m, g)'
  BY DEF AtBeginning, Unbegun, RowsAre
<1>3. AtSurveying(l, m, g) => AtSurveying(l, m, g)'
  BY DEF AtSurveying, Chk, Match
<1>4. AtSettling(l, m, g) => AtSettling(l, m, g)'
  BY DEF AtSettling, Match, FinalLedger
<1>5. AtRow(l, m, g) => AtRow(l, m, g)'
  BY DEF AtRow, Match, Before, Kept, Staged, LedgerAt, FinalLedger, Ledger
<1> QED
  BY <1>1, <1>2, <1>3, <1>4, <1>5 DEF At, Match, Ledger

----------------------------------------------------------------------------
(* What a step of the process at work leaves.                              *)

Here(p) == CoverInv /\ p \in Publishers /\ Active(p) /\ Standing(p)

\* The process goes on and knows what it needs, or it ends and the disk is at
\* rest; it is refused only over something left of a durable write.
After(p) == /\ Active(p)' => Standing(p)'
            /\ ~ Active(p)' => Rest'
            /\ pc'[p] = "refused" => temps' # {}

LEMMA ShapeHere ==
    ASSUME NEW p, Here(p)
    PROVE  /\ DOMAIN file = StateFiles /\ IsFiniteSet(temps)
           /\ plan.n \in Nat /\ plan.n <= MaxRows /\ plan.kept \subseteq 1..plan.n
           /\ DOMAIN pc = Publishers /\ DOMAIN mem = Publishers /\ DOMAIN io = Publishers
           /\ p \in Publishers /\ pc[p] \notin Idle
BY DEF Here, CoverInv, Shape, DiskGood, Active

LEMMA RestStill == ASSUME Still, file' = file, temps' = temps, Rest PROVE Rest'
<1>1. \A g : Accounts(g) => Accounts(g)'
  BY StillAccounts
<1>2. stage' = stage
  BY DEF Still
<1>3. Clean => Clean'
  BY <1>1, <1>2 DEF Clean
<1>4. \A f, v : With(f, v)' = With(f, v)
  BY DEF With
<1>5. \A f, v : Accounts(With(f, v)) => Accounts(With(f, v))'
  BY <1>1 DEF With
<1>6. Accounts(file) => Accounts(file)'
  BY <1>1
<1>7. Broken => Broken'
  BY <1>5, <1>6 DEF Broken
<1> QED
  BY <1>3, <1>7 DEF Rest

LEMMA StandsThen ==
    ASSUME NEW p, NEW l, NEW m, NEW w, pc'[p] = l, mem'[p] = m, io'[p] = w, Stands(p, l, m, w)'
    PROVE  Standing(p)'
BY DEF Standing

LEMMA CleanRest == Clean => Rest
BY DEF Rest

LEMMA AtClean == ASSUME NEW l, NEW m, At(l, m, file), temps = {} PROVE Clean
BY DEF At, Clean

LEMMA PlacesAre ==
    /\ Places \cap Idle = {} /\ Surveying \cap Anywhere = {} /\ Settling \cap Anywhere = {}
    /\ Transacting \cap Anywhere = {} /\ Beginning \cap Anywhere = {}
    /\ (Settling \cup Transacting \cup Beginning) \cap Surveying = {}
    /\ Settling \cap Transacting = {} /\ Settling \cap Beginning = {}
    /\ Transacting \cap Beginning = {}
BY DEF Places, Anywhere, Idle, Beginning, Surveying, Settling, Transacting

\* An acquisition that is refused, over something that was left.
LEMMA RefuseAfter ==
    ASSUME NEW p, Here(p), Refuse(p), Rest, temps # {} PROVE After(p)
<1>1. pc'[p] = "refused"
  BY ShapeHere DEF Refuse
<1>2. ~ Active(p)'
  BY <1>1 DEF Active, Idle
<1>3. Still /\ file' = file /\ temps' = temps
  BY DEF Refuse, disk, Still
<1> QED
  BY <1>2, <1>3, RestStill DEF After

\* The process stands at l with m, and nothing changed on the disk ...
LEMMA GoAfter ==
    ASSUME NEW p, Here(p), NEW l \in Places \ Anywhere, NEW m, At(l, m, file),
           l \in Surveying => Clean, l \notin Surveying => temps = {},
           io[p].step = "none", pc'[p] = l, mem'[p] = m, io' = io,
           Still, file' = file, temps' = temps
    PROVE  After(p)
<1>1. At(l, m, file)'
  BY StillAt
<1>2. Clean => Clean'
  BY StillAccounts DEF Clean, Still
<1>3. ASSUME NEW w, w = io[p] PROVE Standing(p)'
  <2>1. Stands(p, l, m, w)'
    BY <1>1, <1>2, <1>3, PlacesAre DEF Stands, Anywhere
  <2> QED
    BY <1>3, <2>1, StandsThen
<1>4. l \notin Idle
  BY PlacesAre
<1> QED
  BY <1>3, <1>4 DEF After, Active, Idle

LEMMA ReadAfter ==
    ASSUME NEW p, Here(p), NEW l \in Places \ Anywhere, NEW m, At(l, m, file),
           l \in Surveying => Clean, l \notin Surveying => temps = {},
           io[p].step = "none", Read(p, TRUE, m, l)
    PROVE  After(p)
<1>1. /\ pc'[p] = l /\ mem'[p] = m /\ io' = io
      /\ Still /\ file' = file /\ temps' = temps
  BY ShapeHere DEF Read, Goto, Know, disk, Still
<1> QED
  BY <1>1, GoAfter

\* ... or it has begun a durable write of a state file.
LEMMA WriteAfter ==
    ASSUME NEW p, Here(p), NEW f \in StateFiles, NEW v, NEW was, NEW l \in AfterWrite, NEW m,
           Write(p, f, v, was, l, m), file[f] = was, temps = {},
           Accounts(file), file["receipt"] = None, At(l, m, With(f, v)),
           f = "ledger" => IF was = None THEN v = Ledger(0)
                           ELSE v # None /\ was.closed <= v.closed
    PROVE  After(p)
<1> DEFINE w == [target |-> f, val |-> v, was |-> was, step |-> "create", then |-> l, mem |-> m]
<1>1. /\ pc'[p] = "io" /\ mem'[p] = mem[p] /\ io'[p] = w
      /\ Still /\ file' = file /\ temps' = temps
  BY ShapeHere DEF Write, Goto, disk, Still
<1>2. Accounts(With(f, was))
  BY ShapeHere, WithIs, SameAccounts
<1>3. Accounts(With(f, was))' /\ At(l, m, With(f, v))'
  <2>1. With(f, was)' = With(f, was) /\ With(f, v)' = With(f, v)
    BY <1>1 DEF With
  <2> QED
    BY <1>1, <1>2, <2>1, StillAccounts, StillAt
<1>4. ASSUME NEW u, u = w, NEW k, k = mem[p] PROVE Standing(p)'
  <2>1. WritesFile(u)'
    BY <1>1, <1>3, <1>4 DEF WritesFile, Ledger
  <2>2. Progress(p, u)'
    BY <1>1, <1>4 DEF Progress
  <2>3. Stands(p, "io", k, u)'
    BY <2>1, <2>2, <1>4 DEF Stands, Places, Anywhere, Surveying
  <2> QED
    BY <1>1, <1>4, <2>3, StandsThen
<1> QED
  BY <1>1, <1>4 DEF After, Active, Idle

----------------------------------------------------------------------------
(* The inventory finds what it expects.                                    *)

LEMMA HereAt ==
    ASSUME NEW p, Here(p), pc[p] \notin Anywhere
    PROVE  /\ At(pc[p], mem[p], file) /\ Accounts(file) /\ io[p].step = "none"
           /\ pc[p] \in Surveying => Clean
           /\ pc[p] \notin Surveying => temps = {}
           /\ Rest
BY CleanRest, AtClean DEF Here, Standing, Stands, At, Anywhere

LEMMA NamesAre == "ledger" \in StateFiles /\ "checkpoint" \in StateFiles /\ "journal" \in StateFiles
                  /\ "manifest" \in StateFiles /\ "receipt" \in StateFiles
                  /\ AllParts \cap StateFiles = {}
BY DEF StateFiles, AllParts

LEMMA NoMemIs ==
    /\ NoMem.checkpoint = None /\ NoMem.journal = None /\ NoMem.ledgered = FALSE
    /\ NoMem.chk = "missing" /\ DOMAIN NoMem = Fields
BY DEF NoMem, Fields

LEMMA ReadNamesAlone == ASSUME NEW p, Here(p), ReadNames(p) PROVE After(p)
<1> DEFINE names == {f \in StateFiles : file[f] # None}
           residue == \E t \in temps : t.target \in StateFiles
           m == [NoMem EXCEPT !.names = names]
           l == IF names = {} THEN "fresh" ELSE "ledger"
<1>1. Rest /\ io[p].step = "none"
  BY DEF Here, Standing, Stands, ReadNames
<1>2. CASE residue
  <2>1. Refuse(p)
    BY <1>2 DEF ReadNames, Read
  <2> QED
    BY <1>1, <1>2, <2>1, RefuseAfter
<1>3. CASE ~ residue
  <2>1. Clean
    BY <1>1, <1>3 DEF Rest, Broken
  <2>2. names = {} => Unbegun(file)
    BY <2>1, NamesAre DEF Clean, Accounts
  <2>3. names # {} => file["ledger"] # None
    BY <2>1 DEF Clean, Accounts, Unbegun
  <2>4. Read(p, TRUE, m, l)
    BY <1>3, <2>3, NamesAre DEF ReadNames
  <2>5. /\ m.names = names /\ m.checkpoint = None /\ m.journal = None /\ m.ledgered = FALSE
        /\ m.chk = "missing"
    BY DEF NoMem
  <2>6. CASE names = {}
    <3>1. temps = {}
      BY <2>1, <2>2, <2>6, NamesAre DEF Clean, Unbegun
    <3>2. l \in Places \ Anywhere /\ l \notin Surveying
      BY <2>6 DEF Places, Anywhere, Surveying, Beginning
    <3>3. At(l, m, file)
      BY <2>1, <2>2, <2>5, <2>6
      DEF At, Clean, Beginning, Surveying, Settling, Transacting, AtBeginning
    <3> QED
      BY <1>1, <2>4, <3>1, <3>2, <3>3, ReadAfter
  <2>7. CASE names # {}
    <3>1. l \in Places \ Anywhere /\ l \in Surveying
      BY <2>7 DEF Places, Anywhere, Surveying
    <3>2. At(l, m, file)
      BY <2>1, <2>3, <2>5, <2>7
      DEF At, Clean, Beginning, Surveying, Settling, Transacting, AtSurveying
    <3> QED
      BY <1>1, <2>1, <2>4, <3>1, <3>2, ReadAfter
  <2> QED
    BY <2>6, <2>7
<1> QED
  BY <1>2, <1>3

LEMMA ReadFreshAlone == ASSUME NEW p, Here(p), ReadFresh(p) PROVE After(p)
<1>1. pc[p] = "fresh" /\ pc[p] \notin Anywhere
  BY DEF ReadFresh, Anywhere
<1>2. Unbegun(file) /\ mem[p].checkpoint = None /\ mem[p].journal = None
  BY <1>1, HereAt DEF At, AtBeginning, Beginning
<1>3. Read(p, TRUE, mem[p], "mk_rows")
  BY <1>2 DEF ReadFresh, Unbegun
<1>4. At("mk_rows", mem[p], file)
  BY <1>1, <1>2, HereAt DEF At, AtBeginning, Beginning, Surveying, Settling, Transacting
<1>5. temps = {}
  BY <1>1, HereAt DEF Surveying
<1>6. "mk_rows" \in Places \ Anywhere /\ "mk_rows" \notin Surveying
  BY DEF Places, Anywhere, Beginning, Surveying
<1> QED
  BY <1>1, <1>3, <1>4, <1>5, <1>6, HereAt, ReadAfter

\* The ledgers of a run.
LEMMA LedgerIs ==
    /\ FinalLedger.closed = plan.n /\ FinalLedger.complete = TRUE
    /\ \A k : /\ Ledger(k).closed = k /\ Ledger(k).complete = FALSE
              /\ LedgerAt(k).closed = k
              /\ k # plan.n => LedgerAt(k) = Ledger(k)
              /\ k = plan.n => LedgerAt(k) = FinalLedger
    /\ plan.n \in Nat => /\ FinalLedger # None
                         /\ \A k \in Nat : Ledger(k) # None /\ LedgerAt(k) # None
<1>1. \A l \in [closed : Nat, complete : BOOLEAN] : l # None
  BY ValuesAssumption
<1>2. plan.n \in Nat => FinalLedger \in [closed : Nat, complete : BOOLEAN]
  BY DEF FinalLedger
<1>3. \A k \in Nat : Ledger(k) \in [closed : Nat, complete : BOOLEAN]
  BY DEF Ledger
<1>4. \A k : /\ Ledger(k).closed = k /\ Ledger(k).complete = FALSE
             /\ LedgerAt(k) = IF k = plan.n THEN FinalLedger ELSE Ledger(k)
  BY DEF Ledger, LedgerAt
<1>5. FinalLedger.closed = plan.n /\ FinalLedger.complete = TRUE
  BY DEF FinalLedger
<1> QED
  BY <1>1, <1>2, <1>3, <1>4, <1>5

LEMMA JournalIs == \A i \in Nat : \A s \in JournalStates : Journal(i, s) \notin {None, Torn}
BY ValuesAssumption DEF Journal

\* What a ledger that is there may be.
LEMMA LedgerThere ==
    ASSUME plan.n \in Nat, NEW g, Accounts(g), g["ledger"] # None
    PROVE  LET l == g["ledger"]
           IN  /\ l.closed \in 0..plan.n
               /\ l.complete => l.closed = plan.n
               /\ (l.closed = plan.n /\ plan.n > 0) => l.complete
               /\ g["checkpoint"] # None => g["checkpoint"] \in {l, Predecessor(l)}
<1>1. ~ Unbegun(g)
  BY NamesAre DEF Unbegun
<1>2. CASE Settled(g) /\ g["journal"] = None
  BY <1>2, LedgerIs DEF Settled, Predecessor
<1>3. CASE Open(g) /\ g["journal"] # None
  BY <1>3, LedgerIs DEF Open, Before, Behind, Predecessor
<1> QED
  BY <1>1, <1>2, <1>3 DEF Accounts

LEMMA SurveyHere ==
    ASSUME NEW p, Here(p), pc[p] \in Surveying
    PROVE  /\ AtSurveying(pc[p], mem[p], file) /\ Accounts(file) /\ Clean
           /\ io[p].step = "none" /\ DOMAIN mem[p] = Fields /\ pc[p] \notin Anywhere
           /\ Surveying \subseteq Places \ Anywhere
<1>1. pc[p] \notin Anywhere /\ Surveying \subseteq Places \ Anywhere
  BY PlacesAre DEF Places
<1>2. DOMAIN mem[p] = Fields
  BY Known, ShapeHere DEF Knows, Here
<1> QED
  BY <1>1, <1>2, HereAt DEF At

LEMMA AtSurvey ==
    ASSUME NEW l \in Surveying, NEW m, Accounts(file), AtSurveying(l, m, file)
    PROVE  At(l, m, file)
BY DEF At, Beginning, Surveying, Settling, Transacting

LEMMA ReadLedgerAlone == ASSUME NEW p, Here(p), ReadLedger(p) PROVE After(p)
<1> DEFINE n == [mem[p] EXCEPT !.ledger = file["ledger"]]
           l == IF "checkpoint" \in mem[p].names THEN "checkpoint" ELSE "journal"
<1>1. pc[p] = "ledger" /\ pc[p] \in Surveying
  BY DEF ReadLedger, Surveying
<1>2. AtSurveying("ledger", mem[p], file)
  BY <1>1, SurveyHere
<1>3. Read(p, TRUE, n, l)
  BY <1>1, <1>2, SurveyHere, LedgerThere, ShapeHere DEF ReadLedger, AtSurveying
<1>4. /\ n.ledger = file["ledger"] /\ n.names = mem[p].names /\ n.journal = mem[p].journal
      /\ n.checkpoint = mem[p].checkpoint /\ n.chk = mem[p].chk /\ n.ledgered = mem[p].ledgered
  BY <1>1, SurveyHere DEF Fields
<1>5. l \in Surveying
  BY DEF Surveying
<1>6. AtSurveying(l, n, file)
  BY <1>2, <1>4, NamesAre DEF AtSurveying, Chk
<1> QED
  BY <1>1, <1>3, <1>5, <1>6, SurveyHere, AtSurvey, ReadAfter

LEMMA ReadCheckpointAlone == ASSUME NEW p, Here(p), ReadCheckpoint(p) PROVE After(p)
<1> DEFINE m == mem[p]
           c == file["checkpoint"]
           n == [m EXCEPT !.checkpoint = c,
                          !.chk = IF c = m.ledger THEN "current" ELSE "predecessor"]
<1>1. pc[p] = "checkpoint" /\ pc[p] \in Surveying
  BY DEF ReadCheckpoint, Surveying
<1>2. AtSurveying("checkpoint", m, file)
  BY <1>1, SurveyHere
<1>3. Read(p, TRUE, n, "journal")
  BY <1>1, <1>2, SurveyHere, LedgerThere, ShapeHere DEF ReadCheckpoint, AtSurveying
<1>4. /\ n.ledger = m.ledger /\ n.names = m.names /\ n.journal = m.journal
      /\ n.checkpoint = c /\ n.ledgered = m.ledgered
      /\ n.chk = IF c = m.ledger THEN "current" ELSE "predecessor"
  BY <1>1, SurveyHere DEF Fields
<1>5. AtSurveying("journal", n, file) /\ "journal" \in Surveying
  BY <1>2, <1>4, NamesAre DEF AtSurveying, Chk, Surveying
<1> QED
  BY <1>1, <1>3, <1>5, SurveyHere, AtSurvey, ReadAfter

\* An open transaction fits the ledger and the checkpoint it is found with.
LEMMA FitsLedger ==
    ASSUME plan.n \in Nat, NEW g, Open(g)
    PROVE  /\ JournalFits(g["journal"], g["ledger"], Chk(g))
<1>1. g["journal"].row \in 1..plan.n
  BY DEF Open
<1>2. CASE Before(g)
  BY <1>1, <1>2, LedgerIs DEF Open, Before, JournalFits, Chk
<1>3. CASE ~ Before(g)
  BY <1>1, <1>3, LedgerIs DEF Open, Behind, JournalFits, Chk
<1> QED
  BY <1>2, <1>3

LEMMA ReadJournalAlone == ASSUME NEW p, Here(p), ReadJournal(p) PROVE After(p)
<1> DEFINE m == mem[p]
           j == file["journal"]
           n == [m EXCEPT !.journal = j, !.ledgered = (m.ledger.closed = j.row)]
<1>1. pc[p] = "journal" /\ pc[p] \in Surveying
  BY DEF ReadJournal, Surveying
<1>2. AtSurveying("journal", m, file)
  BY <1>1, SurveyHere
<1>3. "tree" \in Surveying
  BY DEF Surveying
<1>4. CASE "journal" \in m.names
  <2>1. j # None /\ Open(file)
    BY <1>1, <1>2, <1>4, SurveyHere, NamesAre DEF AtSurveying, Accounts, Unbegun
  <2>2. Read(p, TRUE, n, "tree")
    BY <1>2, <1>4, <2>1, FitsLedger, ShapeHere DEF ReadJournal, AtSurveying
  <2>3. /\ n.ledger = m.ledger /\ n.journal = j /\ n.checkpoint = m.checkpoint
        /\ n.ledgered = (m.ledger.closed = j.row) /\ n.chk = m.chk
    BY <1>1, SurveyHere DEF Fields
  <2>4. AtSurveying("tree", n, file)
    BY <1>2, <2>1, <2>3 DEF AtSurveying, Match
  <2> QED
    BY <1>1, <1>3, <2>2, <2>4, SurveyHere, AtSurvey, ReadAfter
<1>5. CASE "journal" \notin m.names
  <2>1. j = None /\ file["ledger"] # None /\ Settled(file)
    BY <1>1, <1>2, <1>5, SurveyHere, NamesAre DEF AtSurveying, Accounts, Unbegun
  <2>2. /\ m.chk = "current" \/ (m.ledger.closed = 0 /\ (~ m.ledger.complete \/ plan.n = 0))
        /\ m.ledger.complete \/ (file["manifest"] = None /\ file["receipt"] = None)
    BY <1>2, <2>1, LedgerIs DEF AtSurveying, Settled, Chk
  <2>3. Read(p, TRUE, m, "tree")
    BY <1>2, <1>5, <2>2 DEF ReadJournal, AtSurveying
  <2>4. AtSurveying("tree", m, file)
    BY <1>2, <2>1 DEF AtSurveying, Match
  <2> QED
    BY <1>1, <1>3, <2>3, <2>4, SurveyHere, AtSurvey, ReadAfter
<1> QED
  BY <1>4, <1>5

LEMMA DueNext ==
    ASSUME plan.n \in Nat, plan.kept \subseteq 1..plan.n, NEW i \in 1..plan.n
    PROVE  /\ Kept(i) => Due(i) = Due(i - 1) \cup {i} /\ i \in Due(i)
           /\ ~ Kept(i) => Due(i) = Due(i - 1)
           /\ i \notin Due(i - 1)
           /\ Due(plan.n) = plan.kept
BY DEF Due, Kept

LEMMA ReadTreeAlone == ASSUME NEW p, Here(p), ReadTree(p) PROVE After(p)
<1> DEFINE m == mem[p]
           j == m.journal
           due == Due(m.ledger.closed)
           open == j # None /\ Kept(j.row)
           inRows == open /\ j.row \in DOMAIN rows
           inStage == open /\ stage # None /\ stage.row = j.row
           placed == open /\ \/ m.ledgered
                             \/ j.state \in {"committed_unledgered", "ledger_closed",
                                             "checkpoint_closed"}
                             \/ j.state = "staged" /\ inRows
           staged == open /\ ~ placed /\ inStage
           want == due \cup (IF placed THEN {j.row} ELSE {})
           free == \A t \in temps : t.target \notin AllParts
           ok == /\ (open /\ ~ m.ledgered /\ j.state = "staged") => (inRows # inStage)
                 /\ DOMAIN rows = want
                 /\ \A i \in want : rows[i] = AllParts
                 /\ (stage # None) = staged
                 /\ staged => /\ free
                              /\ IF j.state = "prepared" THEN stage.files \in Prefixes
                                 ELSE stage.files = AllParts
           s == IF ~ open \/ m.ledgered THEN None
                ELSE IF j.state = "staged" THEN IF inRows THEN "committed" ELSE "staged"
                ELSE IF j.state = "prepared" /\ inStage THEN "partial" ELSE None
           n == [m EXCEPT !.names = {}, !.staged = s]
           l == IF j # None THEN "resume" ELSE "repair"
<1>1. pc[p] = "tree" /\ pc[p] \in Surveying
  BY DEF ReadTree, Surveying
<1>2. Read(p, ok, n, l)
  BY DEF ReadTree, Due
<1>3. AtSurveying("tree", m, file)
  BY <1>1, SurveyHere
<1>4. /\ n.ledger = m.ledger /\ n.journal = j /\ n.checkpoint = m.checkpoint
      /\ n.ledgered = m.ledgered /\ n.chk = m.chk /\ n.staged = s
  BY <1>1, SurveyHere DEF Fields
<1>5. l \in Places \ Anywhere /\ l \notin Surveying
  BY PlacesAre DEF Places, Settling, Transacting, Surveying
<1>6. /\ Match(m, file)
      /\ m.ledgered <=> (j # None /\ m.ledger.closed = j.row)
      /\ file["ledger"] # None
  BY <1>3 DEF AtSurveying
<1>7. Accounts(file) /\ Clean /\ Rest /\ io[p].step = "none"
  BY <1>1, SurveyHere, CleanRest
<1>8. plan.n \in Nat /\ plan.kept \subseteq 1..plan.n
  BY ShapeHere
<1> HIDE DEF n
<1>9. CASE j = None
  <2>1. Settled(file) /\ temps = {} /\ file["journal"] = None
    BY <1>6, <1>7, <1>9, NamesAre DEF Accounts, Unbegun, Clean, Match
  <2>2. ok
    BY <1>6, <1>9, <2>1 DEF Settled, RowsAre, Match
  <2>3. AtSettling("repair", n, file)
    BY <1>3, <1>4, <1>6, <1>9, <2>1 DEF AtSettling, AtSurveying, Match, Chk
  <2>4. At(l, n, file)
    BY <1>7, <1>9, <2>3 DEF At, Beginning, Surveying, Settling, Transacting
  <2>5. Read(p, TRUE, n, l)
    BY <1>2, <2>2
  <2> QED
    BY <1>5, <1>7, <2>1, <2>4, <2>5, ReadAfter
<1>10. CASE j # None
  <2>1. Open(file) /\ file["journal"] = j /\ file["ledger"] = m.ledger
    BY <1>6, <1>7, <1>10, NamesAre DEF Accounts, Unbegun, Match
  <2>2. j.row \in 1..plan.n
    BY <2>1 DEF Open
  <2>3. m.ledgered <=> m.ledger.closed = j.row
    BY <1>6, <1>10
  <2>4. /\ Before(file) => ~ m.ledgered /\ m.ledger.closed = j.row - 1
        /\ m.ledger = LedgerAt(j.row) => m.ledgered /\ m.ledger.closed = j.row
    BY <2>1, <2>2, <2>3, <1>8, LedgerIs DEF Before
  <2>5. /\ Before(file) \/ m.ledger = LedgerAt(j.row)
        /\ Before(file) \/ Behind(file) => due \in {Due(j.row - 1), Due(j.row)}
    BY <2>1, <2>4 DEF Open, Behind
  <2>6. /\ Kept(j.row) => Due(j.row) = Due(j.row - 1) \cup {j.row} /\ j.row \in Due(j.row)
        /\ ~ Kept(j.row) => Due(j.row) = Due(j.row - 1)
        /\ j.row \notin Due(j.row - 1)
    BY <1>8, <2>2, DueNext
  <2>7. free => ok
    BY <1>10, <2>1, <2>4, <2>5, <2>6 DEF Open, RowsAre, Staged, Before
  <2>8. CASE temps # {}
    <3>1. j.state = "prepared" /\ stage # None /\ ~ free
      BY <1>7, <2>1, <2>8 DEF Clean
    <3>2. Kept(j.row) /\ Before(file) /\ stage.row = j.row
      BY <2>1, <3>1 DEF Open, Staged
    <3>3. staged
      BY <1>10, <2>4, <3>1, <3>2
    <3>4. ~ ok
      BY <3>1, <3>3
    <3> QED
      BY <1>2, <1>7, <2>8, <3>4, RefuseAfter DEF Read
  <2>9. CASE temps = {}
    <3>1. Read(p, TRUE, n, l)
      BY <1>2, <2>7, <2>9
    <3>2. AtRow("resume", n, file)
      <4>1. Match(n, file) /\ (n.ledgered <=> file["ledger"].closed = j.row)
        BY <1>4, <1>6, <2>1, <2>3 DEF Match
      <4>2. (j.state = "prepared" /\ Kept(j.row)) => (n.staged = "partial" <=> stage # None)
        <5>1. (j.state = "prepared" /\ Kept(j.row)) =>
                 Before(file) /\ (stage # None => stage.row = j.row)
          BY <2>1 DEF Open, Staged
        <5>2. None # "partial"
          BY ValuesAssumption
        <5>3. ASSUME j.state = "prepared", Kept(j.row), stage # None PROVE s = "partial"
          BY <1>10, <2>4, <5>1, <5>3
        <5>4. ASSUME j.state = "prepared", Kept(j.row), stage = None PROVE s # "partial"
          BY <1>10, <2>4, <5>1, <5>2, <5>4
        <5> QED
          BY <1>4, <5>3, <5>4
      <4>3. j.state = "staged" => (n.staged = "committed" <=> j.row \in DOMAIN rows)
        <5>1. j.state = "staged" => Before(file) /\ Kept(j.row)
          BY <2>1 DEF Open
        <5> QED
          BY <1>4, <1>10, <2>4, <5>1
      <4> QED
        BY <1>10, <2>1, <4>1, <4>2, <4>3 DEF AtRow, AllParts
    <3>3. At(l, n, file)
      BY <1>7, <1>10, <3>2 DEF At, Beginning, Surveying, Settling, Transacting
    <3> QED
      BY <1>5, <1>7, <2>9, <3>1, <3>3, ReadAfter
  <2> QED
    BY <2>8, <2>9
<1> QED
  BY <1>9, <1>10

\* The recovery of a journal rewrite leaves the disk at rest, with less to do.
LEMMA RecoverAlone == ASSUME NEW p, Here(p), Recover(p) PROVE After(p)
<1> DEFINE old == Residue("replaced")
           new == Residue("tmp")
<1>1. /\ pc[p] = "recover" /\ Rest /\ io[p].step = "none" /\ p \in Publishers /\ CoverInv
  BY DEF Recover, Here, Standing, Stands
<1>2. \A t \in old \cup new : t \in temps /\ t.target = "journal"
  BY DEF Residue
<1>3. CASE Refuse(p) /\ ~ (old = {} /\ new = {})
  <2>1. temps # {}
    BY <1>2, <1>3
  <2> QED
    BY <1>1, <1>3, <2>1, RefuseAfter
<1>4. CASE old = {} /\ new = {}
  <2>1. Read(p, TRUE, NoMem, "names")
    BY <1>4 DEF Recover
  <2>2. /\ pc'[p] = "names" /\ mem'[p] = NoMem /\ io' = io
        /\ Still /\ file' = file /\ temps' = temps
    BY <2>1, ShapeHere DEF Read, Goto, Know, disk, Still
  <2>3. \A t \in temps : t.target # "journal"
    BY <1>1, <1>4, NamesAre DEF Rest, Clean, Broken, Residue
  <2>4. Rest'
    BY <1>1, <2>2, RestStill
  <2>5. ASSUME NEW w, w = io[p] PROVE Standing(p)'
    <3>1. Stands(p, "names", NoMem, w)'
      BY <1>1, <2>2, <2>3, <2>4, <2>5 DEF Stands, Places, Anywhere, Surveying
    <3> QED
      BY <2>2, <2>5, <3>1, StandsThen
  <2> QED
    BY <2>2, <2>5 DEF After, Active, Idle
<1>5. CASE ~ Refuse(p) /\ ~ (old = {} /\ new = {})
  <2>1. /\ UNCHANGED <<mode, plan, dirs, stage, rows, pc, mem, io, crashes>>
        /\ old # {} => \E t : /\ old = {t} /\ t.val # Torn
                              /\ temps' = temps \ old
                              /\ file' = IF file["journal"] = None
                                         THEN With("journal", t.val) ELSE file
        /\ old = {} => \E u : /\ new = {u} /\ u.val # Torn
                              /\ temps' = temps \ new
                              /\ file' = With("journal", u.val)
    BY <1>1, <1>5, RecoverPass DEF With
  <2>2. Still
    BY <2>1 DEF Still
  <2>3. Broken
    BY <1>1, <1>2, <1>5, NamesAre DEF Rest, Clean
  <2>4. /\ \A t \in temps : /\ t.target = "journal" /\ t.kind \in {"tmp", "replaced"}
                            /\ (t.kind = "replaced" \/ t.val # Torn) =>
                                 Accounts(With("journal", t.val))
                            /\ t.kind = "replaced" => t.val # None
        /\ Accounts(file) \/ (file["journal"] = None /\ \E t \in temps : t.kind = "replaced")
        /\ file["receipt"] = None
    BY <1>2, <1>5, <2>3 DEF Broken
  <2>5. Accounts(file')
    <3>1. CASE old # {}
      <4>1. PICK t : /\ old = {t} /\ file' = IF file["journal"] = None
                                             THEN With("journal", t.val) ELSE file
        BY <2>1, <3>1
      <4>2. t \in temps /\ t.kind = "replaced"
        BY <4>1 DEF Residue
      <4> QED
        BY <2>4, <4>1, <4>2
    <3>2. CASE old = {}
      <4>1. PICK u : new = {u} /\ u.val # Torn /\ file' = With("journal", u.val)
        BY <2>1, <3>2
      <4>2. u \in temps
        BY <4>1 DEF Residue
      <4> QED
        BY <2>4, <4>1, <4>2
    <3> QED
      BY <3>1, <3>2
  <2>6. /\ file'["receipt"] = None
        /\ \A v : With("journal", v)' = With("journal", v)
    BY <2>1, <2>4, ShapeHere, NamesAre DEF With, StateFiles
  <2>7. Accounts(file)' /\ \A v : Accounts(With("journal", v)) => Accounts(With("journal", v))'
    <3>1. ASSUME NEW v, Accounts(With("journal", v)) PROVE Accounts(With("journal", v))'
      BY <2>2, <2>6, <3>1, StillAccounts
    <3>2. Accounts(file)'
      <4>1. ASSUME NEW g, g = file' PROVE Accounts(file)'
        BY <2>2, <2>5, <4>1, StillAccounts
      <4> QED
        BY <4>1
    <3> QED
      BY <3>1, <3>2
  <2>8. temps' \subseteq temps
    BY <2>1
  <2>9. Rest'
    <3>1. CASE temps' = {}
      BY <2>7, <3>1 DEF Rest, Clean
    <3>2. CASE temps' # {}
      <4>1. \A t \in temps' :
              /\ t.target = "journal" /\ t.kind \in {"tmp", "replaced"}
              /\ (t.kind = "replaced" \/ t.val # Torn) => Accounts(With("journal", t.val))'
              /\ t.kind = "replaced" => t.val # None
        BY <2>4, <2>7, <2>8
      <4>2. Broken'
        BY <2>6, <2>7, <3>2, <4>1, NamesAre DEF Broken
      <4> QED
        BY <4>2 DEF Rest
    <3> QED
      BY <3>1, <3>2
  <2>10. ASSUME NEW w, w = io[p], NEW m, m = mem[p] PROVE Standing(p)'
    <3>1. Stands(p, "recover", m, w)'
      BY <1>1, <2>9, <2>10 DEF Stands, Places, Anywhere, Surveying
    <3> QED
      BY <1>1, <2>1, <2>10, <3>1, StandsThen
  <2> QED
    BY <1>1, <2>1, <2>10 DEF After, Active, Idle
<1>6. Refuse(p) => ~ (old = {} /\ new = {})
  BY <1>1, ShapeHere DEF Recover, Read, Refuse, Goto
<1> QED
  BY <1>3, <1>4, <1>5, <1>6

----------------------------------------------------------------------------
(* publish_planned_rows outside the row transactions.                      *)

LEMMA MemIs ==
    ASSUME NEW p, Here(p), pc[p] \in Informed \cup Transacting
    PROVE  DOMAIN mem[p] = Fields
BY Known, ShapeHere DEF Knows, Here

LEMMA SettledHere ==
    ASSUME NEW p, Here(p), pc[p] \in Settling
    PROVE  /\ AtSettling(pc[p], mem[p], file) /\ Settled(file) /\ Accounts(file)
           /\ file["journal"] = None /\ file["ledger"] # None
           /\ temps = {} /\ io[p].step = "none" /\ DOMAIN mem[p] = Fields
<1>1. pc[p] \notin Anywhere \cup Surveying /\ pc[p] \in Informed
  BY PlacesAre DEF Settling, Informed, Surveying
<1>2. AtSettling(pc[p], mem[p], file)
  BY <1>1, HereAt DEF At
<1>3. Settled(file)
  BY <1>1, <1>2, HereAt, NamesAre DEF AtSettling, Accounts, Unbegun
<1> QED
  BY <1>1, <1>2, <1>3, HereAt, MemIs DEF AtSettling

\* A place between two transactions, with the state files g.
LEMMA AtSettled ==
    ASSUME NEW l \in Settling, NEW m, NEW g, g["ledger"] # None, g["journal"] = None, Settled(g),
           AtSettling(l, m, g)
    PROVE  At(l, m, g) /\ l \in AfterWrite /\ l \in Places \ Anywhere /\ l \notin Surveying
<1>1. l \notin Beginning \cup Surveying \cup Transacting \cup {"init_checkpoint"}
  BY DEF Settling, Beginning, Surveying, Transacting
<1> QED
  BY <1>1, PlacesAre DEF At, Accounts, AfterWrite, Places

LEMMA SettleGo ==
    ASSUME NEW p, Here(p), pc[p] \in Settling, NEW l \in Settling, NEW m,
           AtSettling(l, m, file), Read(p, TRUE, m, l)
    PROVE  After(p)
BY SettledHere, AtSettled, ReadAfter

LEMMA BeginningAlone ==
    ASSUME NEW p, Here(p), MakeRows(p) \/ MakeStaging(p) PROVE After(p)
<1> DEFINE l == IF pc[p] = "mk_rows" THEN "mk_staging" ELSE "init_ledger"
<1>1. /\ pc[p] \in Beginning /\ pc[p] \notin Anywhere \cup Surveying /\ l \in Beginning
      /\ l \notin Surveying \cup Settling \cup Transacting /\ l # "init_checkpoint"
      /\ l \in Places \ Anywhere
  BY DEF MakeRows, MakeStaging, Beginning, Anywhere, Surveying, Settling, Transacting, Places
<1>2. /\ pc'[p] = l /\ mem' = mem /\ io' = io /\ Still /\ file' = file /\ temps' = temps
  BY ShapeHere DEF MakeRows, MakeStaging, MakeDir, Goto, Still
<1>3. At(l, mem[p], file) /\ temps = {} /\ io[p].step = "none"
  BY <1>1, HereAt DEF At, AtBeginning
<1> QED
  BY <1>1, <1>2, <1>3, GoAfter

LEMMA InitialLedgerAlone == ASSUME NEW p, Here(p), InitialLedger(p) PROVE After(p)
<1> DEFINE v == Ledger(0)
           n == [mem[p] EXCEPT !.ledger = v]
           g == With("ledger", v)
<1>1. pc[p] = "init_ledger" /\ pc[p] \in Beginning /\ pc[p] \notin Anywhere \cup Surveying
  BY DEF InitialLedger, Beginning, Anywhere, Surveying
<1>2. /\ Unbegun(file) /\ mem[p].checkpoint = None /\ mem[p].journal = None
      /\ temps = {} /\ Accounts(file)
  BY <1>1, HereAt DEF At, AtBeginning
<1>3. DOMAIN mem[p] = Fields
  BY <1>1, Known, ShapeHere DEF Here, Knows
<1>4. n.ledger = v /\ n.checkpoint = None /\ n.journal = None
  BY <1>2, <1>3 DEF Fields
<1>5. /\ g["ledger"] = v /\ g["checkpoint"] = None /\ g["journal"] = None
      /\ g["manifest"] = None /\ g["receipt"] = None /\ v # None /\ v.closed = 0
  BY <1>2, ShapeHere, WithIs, NamesAre, LedgerIs DEF Unbegun, StateFiles
<1>6. Settled(g)
  <2>1. Due(0) = {}
    BY ShapeHere DEF Due
  <2> QED
    BY <1>2, <1>5, <2>1 DEF Settled, Unbegun
<1>7. At("init_checkpoint", n, g)
  BY <1>4, <1>5, <1>6 DEF At, Accounts, Match, Beginning, Surveying, Settling, Transacting
<1>8. "init_checkpoint" \in AfterWrite
  BY DEF AfterWrite
<1>9. file["ledger"] = None /\ file["receipt"] = None
  BY <1>2, NamesAre DEF Unbegun
<1>10. Write(p, "ledger", v, None, "init_checkpoint", n)
  BY DEF InitialLedger
<1> QED
  BY <1>2, <1>7, <1>8, <1>9, <1>10, NamesAre, WriteAfter

LEMMA InitialCheckpointAlone == ASSUME NEW p, Here(p), InitialCheckpoint(p) PROVE After(p)
<1> DEFINE m == mem[p]
           n == [m EXCEPT !.checkpoint = m.ledger, !.chk = "current"]
           g == With("checkpoint", m.ledger)
<1>1. pc[p] = "init_checkpoint" /\ pc[p] \notin Anywhere \cup Surveying /\ pc[p] \in Informed
  BY DEF InitialCheckpoint, Anywhere, Surveying, Informed
<1>2. /\ Match(m, file) /\ file["ledger"] = Ledger(0) /\ file["checkpoint"] = None
      /\ file["journal"] = None /\ temps = {} /\ Accounts(file) /\ DOMAIN m = Fields
  BY <1>1, HereAt, MemIs DEF At
<1>3. Ledger(0) # None
  BY ShapeHere, LedgerIs
<1>4. Settled(file) /\ file["manifest"] = None /\ file["receipt"] = None
  BY <1>2, <1>3, NamesAre DEF Accounts, Unbegun, Settled
<1>5. n.ledger = Ledger(0) /\ n.checkpoint = Ledger(0) /\ n.journal = None
  BY <1>2 DEF Fields, Match
<1>6. /\ g["ledger"] = Ledger(0) /\ g["checkpoint"] = Ledger(0) /\ g["journal"] = None
      /\ g["manifest"] = None /\ g["receipt"] = None
  BY <1>2, <1>4, ShapeHere, WithIs, NamesAre DEF StateFiles, Match
<1>7. Settled(g)
  BY <1>2, <1>4, <1>6 DEF Settled
<1>8. AtSettling("next_row", n, g)
  BY <1>3, <1>5, <1>6 DEF AtSettling, Match
<1>9. At("next_row", n, g) /\ "next_row" \in AfterWrite
  BY <1>3, <1>6, <1>7, <1>8, AtSettled DEF Settling
<1>10. Write(p, "checkpoint", m.ledger, None, "next_row", n)
  BY DEF InitialCheckpoint
<1> QED
  BY <1>2, <1>4, <1>9, <1>10, NamesAre, WriteAfter

LEMMA RepairCheckpointAlone == ASSUME NEW p, Here(p), RepairCheckpoint(p) PROVE After(p)
<1> DEFINE m == mem[p]
           n == [m EXCEPT !.checkpoint = m.ledger, !.chk = "current"]
           g == With("checkpoint", m.ledger)
<1>1. pc[p] = "repair" /\ pc[p] \in Settling /\ "next_row" \in Settling
  BY DEF RepairCheckpoint, Settling
<1>2. /\ AtSettling("repair", m, file) /\ Settled(file) /\ Match(m, file)
      /\ m.chk = "current" <=> file["checkpoint"] = file["ledger"]
  BY <1>1, SettledHere DEF AtSettling
<1>3. CASE m.chk = "current"
  <2>1. AtSettling("next_row", m, file)
    BY <1>2, <1>3 DEF AtSettling
  <2>2. Read(p, TRUE, m, "next_row")
    BY <1>3 DEF RepairCheckpoint
  <2> QED
    BY <1>1, <2>1, <2>2, SettleGo
<1>4. CASE m.chk # "current"
  <2>1. Write(p, "checkpoint", m.ledger, m.checkpoint, "next_row", n)
    BY <1>4 DEF RepairCheckpoint
  <2>2. file["checkpoint"] # file["ledger"] /\ file["receipt"] = None /\ file["manifest"] = None
    BY <1>2, <1>4 DEF Settled
  <2>3. n.ledger = m.ledger /\ n.checkpoint = m.ledger /\ n.journal = m.journal
    BY <1>1, SettledHere DEF Fields
  <2>4. /\ g["ledger"] = m.ledger /\ g["checkpoint"] = m.ledger /\ g["journal"] = None
        /\ g["manifest"] = None /\ g["receipt"] = None /\ m.ledger = file["ledger"]
        /\ m.ledger # None /\ m.checkpoint = file["checkpoint"] /\ m.journal = None
    BY <1>1, <1>2, <2>2, SettledHere, ShapeHere, WithIs, NamesAre DEF StateFiles, Match
  <2>5. Settled(g)
    BY <1>2, <2>4 DEF Settled
  <2>6. AtSettling("next_row", n, g)
    BY <2>3, <2>4 DEF AtSettling, Match
  <2>7. At("next_row", n, g) /\ "next_row" \in AfterWrite
    BY <1>1, <2>4, <2>5, <2>6, AtSettled
  <2> QED
    BY <1>1, <2>1, <2>2, <2>4, <2>7, SettledHere, NamesAre, WriteAfter
<1> QED
  BY <1>3, <1>4

\* The places inside the transaction of a row, with the state files g.
LEMMA AtOpen ==
    ASSUME NEW l \in Transacting, NEW m, NEW g, g["ledger"] # None, g["journal"] # None, Open(g),
           AtRow(l, m, g)
    PROVE  At(l, m, g) /\ l \in AfterWrite /\ l \in Places \ Anywhere /\ l \notin Surveying
<1>1. l \notin Beginning \cup Surveying \cup Settling \cup {"init_checkpoint"}
  BY DEF Settling, Beginning, Surveying, Transacting
<1> QED
  BY <1>1, PlacesAre DEF At, Accounts, AfterWrite, Places

LEMMA StatesAre == {"prepared", "staged", "committed_unledgered", "ledger_closed",
                    "checkpoint_closed"} \subseteq JournalStates
BY DEF JournalStates

LEMMA NextRowAlone == ASSUME NEW p, Here(p), NextRow(p) PROVE After(p)
<1> DEFINE m == mem[p]
           i == m.ledger.closed + 1
           j == Journal(i, "prepared")
           n == [m EXCEPT !.journal = j, !.ledgered = FALSE, !.staged = None]
           g == With("journal", j)
           k == [m EXCEPT !.ledger = FinalLedger, !.chk = "predecessor"]
           h == With("ledger", FinalLedger)
<1>1. pc[p] = "next_row" /\ pc[p] \in Settling /\ {"manifest", "repair"} \subseteq Settling
  BY DEF NextRow, Settling
<1>2. /\ AtSettling("next_row", m, file) /\ Settled(file) /\ Match(m, file)
      /\ Accounts(file) /\ temps = {}
      /\ file["checkpoint"] = file["ledger"] /\ file["ledger"] # None /\ file["journal"] = None
  BY <1>1, SettledHere DEF AtSettling
<1>3. plan.n \in Nat /\ plan.kept \subseteq 1..plan.n
  BY ShapeHere
<1>4. /\ m.ledger.closed \in 0..plan.n
      /\ m.ledger.complete => m.ledger.closed = plan.n
      /\ (m.ledger.closed = plan.n /\ plan.n > 0) => m.ledger.complete
      /\ m.ledger = file["ledger"] /\ m.checkpoint = m.ledger /\ m.journal = None
  BY <1>2, <1>3, LedgerThere DEF Match
<1>5. CASE m.ledger.closed < plan.n
  <2>1. Write(p, "journal", j, None, "resume", n)
    BY <1>5 DEF NextRow
  <2>2. i \in 1..plan.n /\ m.ledger = Ledger(i - 1) /\ i - 1 = m.ledger.closed
    BY <1>2, <1>3, <1>4, <1>5, LedgerIs DEF Settled
  <2>3. file["receipt"] = None /\ file["manifest"] = None
    BY <1>2, <1>3, <1>4, <1>5, LedgerIs DEF Settled
  <2>4. n.ledger = m.ledger /\ n.checkpoint = m.ledger /\ n.journal = j /\ n.ledgered = FALSE
        /\ n.staged = None
    BY <1>1, <1>4, SettledHere DEF Fields
  <2>5. /\ g["ledger"] = m.ledger /\ g["checkpoint"] = m.ledger /\ g["journal"] = j
        /\ g["manifest"] = None /\ g["receipt"] = None
    BY <1>2, <1>4, <2>3, ShapeHere, WithIs, NamesAre DEF StateFiles
  <2>6. j # None /\ j.row = i /\ j.state = "prepared" /\ j = Journal(j.row, j.state)
    BY <2>2, JournalIs, StatesAre DEF Journal
  <2>7. Before(g)
    BY <2>2, <2>5, <2>6 DEF Before
  <2>8. RowsAre(Due(i - 1)) /\ stage = None
    BY <1>2, <1>4, <2>2 DEF Settled
  <2>9. ~ Kept(i) => RowsAre(Due(i))
    BY <1>3, <2>2, <2>8, DueNext
  <2>10. Open(g)
    BY <2>2, <2>5, <2>6, <2>7, <2>8, <2>9 DEF Open
  <2>11. AtRow("resume", n, g)
    <3>1. None # "partial"
      BY ValuesAssumption
    <3>2. g["ledger"].closed # j.row
      BY <2>2, <2>5, <2>6
    <3> QED
      BY <2>4, <2>5, <2>6, <2>8, <3>1, <3>2 DEF AtRow, Match, AllParts
  <2>12. At("resume", n, g) /\ "resume" \in AfterWrite
    BY <1>2, <1>4, <2>5, <2>6, <2>10, <2>11, AtOpen DEF Transacting
  <2> QED
    BY <1>2, <2>1, <2>3, <2>12, NamesAre, WriteAfter
<1>6. CASE m.ledger.closed = plan.n /\ ~ m.ledger.complete
  <2>1. plan.n = 0 /\ m.ledger = Ledger(0)
    BY <1>2, <1>3, <1>4, <1>6, LedgerIs DEF Settled
  <2>2. Write(p, "ledger", FinalLedger, m.ledger, "repair", k)
    BY <1>6, <2>1 DEF NextRow
  <2>3. file["receipt"] = None /\ file["manifest"] = None
    BY <1>2, <1>4, <1>6, LedgerIs DEF Settled
  <2>4. k.ledger = FinalLedger /\ k.checkpoint = m.ledger /\ k.journal = None
        /\ k.chk = "predecessor"
    BY <1>1, <1>4, SettledHere DEF Fields
  <2>5. /\ h["ledger"] = FinalLedger /\ h["checkpoint"] = m.ledger /\ h["journal"] = None
        /\ h["manifest"] = None /\ h["receipt"] = None
    BY <1>2, <1>4, <2>3, ShapeHere, WithIs, NamesAre DEF StateFiles
  <2>6. FinalLedger # None /\ FinalLedger # Ledger(0) /\ FinalLedger.closed = 0
        /\ LedgerAt(0) = FinalLedger
    BY <1>3, <2>1, LedgerIs
  <2>7. Settled(h)
    BY <1>2, <1>3, <1>6, <2>1, <2>5, <2>6 DEF Settled
  <2>8. AtSettling("repair", k, h)
    BY <2>1, <2>4, <2>5, <2>6 DEF AtSettling, Match
  <2>9. At("repair", k, h) /\ "repair" \in AfterWrite
    BY <1>1, <2>5, <2>6, <2>7, <2>8, AtSettled
  <2>10. m.ledger.closed <= FinalLedger.closed
    BY <1>3, <1>6, LedgerIs
  <2> QED
    BY <1>2, <1>4, <2>2, <2>3, <2>6, <2>9, <2>10, NamesAre, WriteAfter
<1>7. CASE m.ledger.complete
  <2>1. m.ledger = FinalLedger
    BY <1>2, <1>3, <1>4, <1>7, LedgerIs DEF Settled
  <2>2. AtSettling("manifest", m, file)
    BY <1>2, <1>4, <2>1 DEF AtSettling
  <2>3. Read(p, TRUE, m, "manifest")
    <3>1. ~ m.ledger.closed < plan.n
      BY <1>3, <1>4, <1>7
    <3> QED
      BY <1>4, <1>7, <3>1 DEF NextRow, Read
  <2> QED
    BY <1>1, <2>2, <2>3, SettleGo
<1> QED
  BY <1>3, <1>4, <1>5, <1>6, <1>7

LEMMA KeptIs == ASSUME NEW p, Here(p) PROVE plan.kept # None
BY ShapeHere, RowsAssumption, ValuesAssumption

LEMMA ManifestAlone == ASSUME NEW p, Here(p), Manifest(p) PROVE After(p)
<1> DEFINE m == mem[p]
           g == With("manifest", plan.kept)
<1>1. pc[p] = "manifest" /\ pc[p] \in Settling /\ "receipt" \in Settling
  BY DEF Manifest, Settling
<1>2. /\ AtSettling("manifest", m, file) /\ Settled(file) /\ Match(m, file)
      /\ file["ledger"] = FinalLedger /\ file["checkpoint"] = FinalLedger
      /\ temps = {} /\ Accounts(file) /\ file["ledger"] # None /\ file["journal"] = None
  BY <1>1, SettledHere DEF AtSettling
<1>3. CASE file["manifest"] = None
  <2>1. Write(p, "manifest", plan.kept, None, "receipt", m)
    BY <1>3 DEF Manifest, CreateOrEqual
  <2>2. file["receipt"] = None
    BY <1>2, <1>3, KeptIs DEF Settled
  <2>3. /\ g["ledger"] = FinalLedger /\ g["checkpoint"] = FinalLedger /\ g["journal"] = None
        /\ g["manifest"] = plan.kept /\ g["receipt"] = None
    BY <1>2, <2>2, ShapeHere, WithIs, NamesAre DEF StateFiles
  <2>4. Settled(g)
    BY <1>2, <2>3 DEF Settled
  <2>5. AtSettling("receipt", m, g)
    BY <1>2, <2>3 DEF AtSettling, Match
  <2>6. At("receipt", m, g) /\ "receipt" \in AfterWrite
    BY <1>1, <1>2, <2>3, <2>4, <2>5, AtSettled
  <2> QED
    BY <1>2, <1>3, <2>1, <2>2, <2>6, NamesAre, WriteAfter
<1>4. CASE file["manifest"] # None
  <2>1. file["manifest"] = plan.kept
    BY <1>2, <1>4 DEF Settled
  <2>2. Read(p, TRUE, m, "receipt")
    BY <1>4, <2>1 DEF Manifest, CreateOrEqual
  <2>3. AtSettling("receipt", m, file)
    BY <1>2, <2>1 DEF AtSettling
  <2> QED
    BY <1>1, <2>2, <2>3, SettleGo
<1> QED
  BY <1>3, <1>4

LEMMA ReceiptAlone == ASSUME NEW p, Here(p), Receipt(p) PROVE After(p)
<1> DEFINE m == mem[p]
           v == [ledger |-> m.ledger, tree |-> Tree]
           g == With("receipt", v)
<1>1. pc[p] = "receipt" /\ pc[p] \in Settling
  BY DEF Receipt, Settling
<1>2. /\ AtSettling("receipt", m, file) /\ Settled(file) /\ Match(m, file)
      /\ file["ledger"] = FinalLedger /\ file["checkpoint"] = FinalLedger
      /\ file["manifest"] = plan.kept
      /\ temps = {} /\ Accounts(file) /\ file["ledger"] # None /\ file["journal"] = None
  BY <1>1, SettledHere DEF AtSettling
<1>3. CreateOrEqual(p, "receipt", v, "done")
  BY <1>2 DEF Receipt
<1>4. v = [ledger |-> file["ledger"], tree |-> [ledger |-> file["ledger"],
             checkpoint |-> file["checkpoint"], manifest |-> file["manifest"], rows |-> rows]]
  BY <1>2 DEF Match, Tree
<1>5. CASE file["receipt"] = None
  <2>1. Write(p, "receipt", v, None, "done", m)
    BY <1>3, <1>5 DEF CreateOrEqual
  <2>2. /\ g["ledger"] = FinalLedger /\ g["checkpoint"] = FinalLedger /\ g["journal"] = None
        /\ g["manifest"] = plan.kept /\ g["receipt"] = v
    BY <1>2, ShapeHere, WithIs, NamesAre DEF StateFiles
  <2>3. Settled(g)
    BY <1>2, <1>4, <2>2 DEF Settled
  <2>4. At("done", m, g) /\ "done" \in AfterWrite
    BY <1>2, <2>2, <2>3
    DEF At, Accounts, AfterWrite, Beginning, Surveying, Settling, Transacting
  <2> QED
    BY <1>2, <1>5, <2>1, <2>4, NamesAre, WriteAfter
<1>6. CASE file["receipt"] # None
  <2>1. file["receipt"] = v
    BY <1>2, <1>4, <1>6 DEF Settled
  <2>2. Read(p, TRUE, m, "done")
    BY <1>3, <1>6, <2>1 DEF CreateOrEqual
  <2>3. pc'[p] = "done" /\ Still /\ file' = file /\ temps' = temps
    BY <2>2, ShapeHere DEF Read, Goto, disk, Still
  <2>4. Rest'
    BY <1>2, <2>3, RestStill DEF Rest, Clean
  <2> QED
    BY <2>3, <2>4 DEF After, Active, Idle
<1> QED
  BY <1>5, <1>6

LEMMA PublishAlone == ASSUME NEW p, Here(p), Publish(p) PROVE After(p)
BY BeginningAlone, InitialLedgerAlone, InitialCheckpointAlone, RepairCheckpointAlone,
   NextRowAlone, ManifestAlone, ReceiptAlone DEF Publish

----------------------------------------------------------------------------
(* The transaction of one row.                                             *)

LEMMA RowHere ==
    ASSUME NEW p, Here(p), pc[p] \in Transacting
    PROVE  /\ AtRow(pc[p], mem[p], file) /\ Open(file) /\ Accounts(file) /\ Match(mem[p], file)
           /\ file["journal"] # None /\ file["ledger"] # None
           /\ mem[p].journal = file["journal"] /\ mem[p].journal.row \in 1..plan.n
           /\ temps = {} /\ io[p].step = "none" /\ DOMAIN mem[p] = Fields
           /\ file["receipt"] = None /\ plan.n \in Nat /\ plan.kept \subseteq 1..plan.n
<1>1. pc[p] \notin Anywhere \cup Surveying
  BY PlacesAre
<1>2. AtRow(pc[p], mem[p], file)
  BY <1>1, HereAt DEF At
<1>3. Open(file) /\ file["ledger"] # None
  BY <1>1, <1>2, HereAt, NamesAre DEF AtRow, Accounts, Unbegun
<1> QED
  BY <1>1, <1>2, <1>3, HereAt, MemIs, ShapeHere DEF AtRow, Match, Open

LEMMA RowGo ==
    ASSUME NEW p, Here(p), pc[p] \in Transacting, NEW l \in Transacting, NEW m,
           AtRow(l, m, file), Read(p, TRUE, m, l)
    PROVE  After(p)
BY RowHere, AtOpen, ReadAfter

\* The next state of the row journal is written.
LEMMA AdvanceGo ==
    ASSUME NEW p, Here(p), pc[p] \in Transacting, NEW s \in JournalStates, NEW l \in Transacting,
           NEW m, Advance(p, s, l, m), NEW g, g = With("journal", Journal(mem[p].journal.row, s)),
           Open(g),
           \A n : Match(n, g) /\ n.ledgered = m.ledgered /\ n.staged = m.staged => AtRow(l, n, g),
           DOMAIN m = Fields, m.ledger = mem[p].ledger, m.checkpoint = mem[p].checkpoint
    PROVE  After(p)
<1> DEFINE k == mem[p].journal
           j == [k EXCEPT !.state = s]
           n == [m EXCEPT !.journal = j]
<1>1. j = Journal(k.row, s) /\ j # None
  <2>1. k = Journal(k.row, k.state)
    BY RowHere DEF Open
  <2>2. k.row \in Nat
    BY RowHere
  <2>3. j = Journal(k.row, s)
    BY <2>1 DEF Journal
  <2> QED
    BY <2>2, <2>3, JournalIs
<1>2. /\ n.journal = j /\ n.ledger = m.ledger /\ n.checkpoint = m.checkpoint
      /\ n.ledgered = m.ledgered /\ n.staged = m.staged
  BY DEF Fields
<1>3. /\ g["journal"] = j /\ g["ledger"] = file["ledger"] /\ g["checkpoint"] = file["checkpoint"]
  BY <1>1, ShapeHere, WithIs, NamesAre DEF StateFiles
<1>4. Match(n, g)
  BY <1>2, <1>3, RowHere DEF Match
<1>5. AtRow(l, n, g)
  BY <1>2, <1>4
<1>6. At(l, n, g) /\ l \in AfterWrite
  BY <1>1, <1>3, <1>5, RowHere, AtOpen
<1>7. Write(p, "journal", j, k, l, n)
  BY DEF Advance
<1>8. At(l, n, With("journal", j))
  BY <1>1, <1>6
<1> HIDE DEF j, n
<1> QED
  BY <1>6, <1>7, <1>8, RowHere, NamesAre, WriteAfter

\* The state files while the journal of row i goes to state s.
LEMMA JournalPut ==
    ASSUME NEW p, Here(p), pc[p] \in Transacting, NEW s \in JournalStates
    PROVE  LET i == mem[p].journal.row
               g == With("journal", Journal(i, s))
           IN  /\ g["journal"].row = i /\ g["journal"].state = s /\ g["journal"] = Journal(i, s)
               /\ g["journal"] # None
               /\ g["ledger"] = file["ledger"] /\ g["checkpoint"] = file["checkpoint"]
               /\ g["manifest"] = None /\ g["receipt"] = None
               /\ Before(g) <=> Before(file)
               /\ Behind(g) <=> Behind(file)
<1> DEFINE i == mem[p].journal.row
           g == With("journal", Journal(i, s))
<1>1. /\ g["journal"] = Journal(i, s)
      /\ g["ledger"] = file["ledger"] /\ g["checkpoint"] = file["checkpoint"]
      /\ g["manifest"] = file["manifest"] /\ g["receipt"] = file["receipt"]
  BY ShapeHere, WithIs, NamesAre DEF StateFiles
<1>2. Journal(i, s).row = i /\ Journal(i, s).state = s
  BY DEF Journal
<1>3. Journal(i, s) # None
  BY RowHere, JournalIs
<1>4. file["manifest"] = None /\ file["receipt"] = None /\ file["journal"].row = i
  BY RowHere DEF Open
<1> QED
  BY <1>1, <1>2, <1>3, <1>4 DEF Before, Behind

LEMMA ResumeAlone == ASSUME NEW p, Here(p), Resume(p) PROVE After(p)
<1> DEFINE m == mem[p]
           j == m.journal
           l == CASE j.state = "prepared" /\ Kept(j.row) ->
                       IF m.staged = "partial" THEN "clear" ELSE "mk_stage"
                  [] j.state = "staged" ->
                       IF m.staged = "committed" THEN "journal_committed" ELSE "commit"
                  [] j.state = "ledger_closed" -> "close_checkpoint"
                  [] j.state = "checkpoint_closed" -> "drop_journal"
                  [] OTHER -> IF m.ledgered THEN "journal_ledger" ELSE "close_ledger"
<1>1. pc[p] = "resume" /\ pc[p] \in Transacting
  BY DEF Resume, Transacting
<1>2. Read(p, TRUE, m, l)
  BY DEF Resume
<1>3. AtRow("resume", m, file) /\ Open(file) /\ file["journal"] = j /\ file["ledger"] = m.ledger
  BY <1>1, RowHere DEF Match
<1>4. m.ledgered <=> file["ledger"].closed = j.row
  BY <1>3 DEF AtRow
<1>5. j.row \in 1..plan.n /\ j.row \notin Due(j.row - 1)
  BY <1>1, RowHere, DueNext
<1>6. /\ Before(file) => ~ m.ledgered
      /\ file["ledger"] = LedgerAt(j.row) => m.ledgered
  BY <1>3, <1>4, <1>5, LedgerIs DEF Before
<1>7. CASE j.state = "prepared" /\ Kept(j.row)
  <2>1. l = IF stage # None THEN "clear" ELSE "mk_stage"
    BY <1>3, <1>7 DEF AtRow
  <2>2. AtRow(l, m, file) /\ l \in Transacting
    BY <1>3, <1>7, <2>1 DEF AtRow, Transacting, AllParts
  <2> QED
    BY <1>1, <1>2, <2>2, RowGo
<1>8. CASE j.state = "staged"
  <2>1. l = IF j.row \in DOMAIN rows THEN "journal_committed" ELSE "commit"
    BY <1>3, <1>8 DEF AtRow
  <2>2. j.row \in DOMAIN rows <=> stage = None
    BY <1>3, <1>5, <1>8, DueNext, RowHere, <1>1 DEF Open, RowsAre, Staged
  <2>3. AtRow(l, m, file) /\ l \in Transacting
    BY <1>3, <1>8, <2>1, <2>2 DEF AtRow, Transacting, AllParts
  <2> QED
    BY <1>1, <1>2, <2>3, RowGo
<1>9. CASE j.state \in {"ledger_closed", "checkpoint_closed"}
  <2>1. AtRow(l, m, file) /\ l \in Transacting
    BY <1>3, <1>9 DEF AtRow, Transacting, AllParts
  <2> QED
    BY <1>1, <1>2, <2>1, RowGo
<1>10. CASE j.state = "committed_unledgered" \/ (j.state = "prepared" /\ ~ Kept(j.row))
  <2>1. l = IF m.ledgered THEN "journal_ledger" ELSE "close_ledger"
    BY <1>10
  <2>2. /\ m.ledgered => file["ledger"] = LedgerAt(j.row)
        /\ ~ m.ledgered => Before(file)
    BY <1>3, <1>6, <1>10 DEF Open, Behind
  <2>3. AtRow(l, m, file) /\ l \in Transacting
    BY <1>3, <1>10, <2>1, <2>2 DEF AtRow, Transacting, AllParts
  <2> QED
    BY <1>1, <1>2, <2>3, RowGo
<1> QED
  BY <1>3, <1>7, <1>8, <1>9, <1>10 DEF Open

\* Steps that change the stage or commit it.
LEMMA StageGo ==
    ASSUME NEW p, Here(p), pc[p] \in Transacting, NEW l \in Transacting, NEW m,
           pc'[p] = l, mem'[p] = m, UNCHANGED <<mode, plan, file, temps>>,
           NEW w, w = io'[p], w.step = "none", temps' = {},
           Open(file)', AtRow(l, m, file)'
    PROVE  After(p)
<1>1. file["journal"] # None /\ file["ledger"] # None
  BY RowHere
<1>2. l \notin Beginning \cup Surveying \cup Settling \cup {"init_checkpoint"} \cup Anywhere
      /\ l \in Places
  BY DEF Settling, Beginning, Surveying, Transacting, Places, Anywhere
<1>3. At(l, m, file)'
  BY <1>1, <1>2 DEF At, Accounts
<1>4. Stands(p, l, m, w)'
  BY <1>2, <1>3 DEF Stands, Anywhere
<1>5. l \notin Idle
  BY PlacesAre DEF Places
<1> QED
  BY <1>4, <1>5, StandsThen DEF After, Active, Idle

LEMMA StageIs == \A i \in Nat : \A S \in Prefixes : [row |-> i, files |-> S] # None
BY ValuesAssumption DEF Prefixes, AllParts

LEMMA ClearStageAlone == ASSUME NEW p, Here(p), ClearStage(p) PROVE After(p)
<1> DEFINE i == mem[p].journal.row
<1>1. pc[p] = "clear" /\ pc[p] \in Transacting /\ "mk_stage" \in Transacting
  BY DEF ClearStage, Transacting
<1>2. /\ AtRow("clear", mem[p], file) /\ Open(file) /\ temps = {} /\ io[p].step = "none"
      /\ file["journal"] = mem[p].journal
  BY <1>1, RowHere
<1>3. PICK S \in Prefixes : Staged(i, S)
  BY <1>2 DEF AtRow, Open
<1>4. /\ file["journal"].state = "prepared" /\ Kept(i) /\ Before(file) /\ RowsAre(Due(i - 1))
      /\ stage # None
  BY <1>2 DEF AtRow, Open
<1>5. CASE stage.files = {}
  <2>1. /\ stage' = None /\ Goto(p, "mk_stage")
        /\ UNCHANGED <<mode, plan, file, dirs, rows, temps, mem, io, crashes>>
    BY <1>2, <1>4, <1>5 DEF ClearStage
  <2>2. pc'[p] = "mk_stage"
    BY <2>1, ShapeHere DEF Goto
  <2>3. ASSUME NEW m, m = mem[p], NEW w, w = io[p] PROVE After(p)
    <3>1. Open(file)'
      BY <1>2, <1>4, <2>1 DEF Open, Kept, Journal, Before, Ledger, RowsAre, Due
    <3>2. AtRow("mk_stage", m, file)'
      BY <1>2, <1>4, <2>1, <2>3 DEF AtRow, Match, Kept, AllParts
    <3> QED
      BY <1>1, <1>2, <2>1, <2>2, <2>3, <3>1, <3>2, StageGo
  <2> QED
    BY <2>3
<1>6. CASE stage.files # {}
  <2> DEFINE P(n) == /\ ClearOrder[n] \in stage.files
                     /\ \A k \in 1..(n - 1) : ClearOrder[k] \notin stage.files
             c == CHOOSE n \in 1..3 : P(n)
  <2>1. /\ stage' = [stage EXCEPT !.files = @ \ {ClearOrder[c]}]
        /\ UNCHANGED <<mode, plan, file, dirs, rows, temps, pc, mem, io, crashes>>
    BY <1>2, <1>4, <1>6 DEF ClearStage
  <2>2. \E n \in 1..3 : P(n)
    <3>1. P(1) \/ P(2) \/ P(3)
      BY <1>3, <1>6 DEF Prefixes, AllParts, Staged, ClearOrder
    <3> QED
      BY <3>1
  <2>3. c \in 1..3 /\ P(c)
    BY <2>2
  <2> HIDE DEF c
  <2>4. stage.files \ {ClearOrder[c]} \in Prefixes
    <3>1. stage.files \in Prefixes
      BY <1>3 DEF Staged
    <3>2. CASE c = 1
      BY <2>3, <3>1, <3>2 DEF Prefixes, AllParts, ClearOrder
    <3>3. CASE c = 2
      BY <2>3, <3>1, <3>3 DEF Prefixes, AllParts, ClearOrder
    <3>4. CASE c = 3
      BY <2>3, <3>1, <3>4 DEF Prefixes, AllParts, ClearOrder
    <3> QED
      BY <2>3, <3>2, <3>3, <3>4
  <2>5. /\ DOMAIN stage' = {"row", "files"} /\ stage'.row = i
        /\ stage'.files = stage.files \ {ClearOrder[c]} /\ stage' # None
    <3>1. stage'.row = stage.row /\ stage'.files = stage.files \ {ClearOrder[c]}
          /\ DOMAIN stage' = {"row", "files"}
      BY <1>3, <2>1 DEF Staged
    <3>2. stage' = [row |-> i, files |-> stage.files \ {ClearOrder[c]}]
      BY <1>3, <2>1 DEF Staged
    <3>3. \A T \in Prefixes : [row |-> i, files |-> T] # None
      BY <1>1, RowHere, StageIs
    <3> QED
      BY <1>3, <2>4, <3>1, <3>2, <3>3 DEF Staged
  <2>6. \E T \in Prefixes : Staged(i, T)'
    <3>1. ASSUME NEW T \in Prefixes, T = stage.files \ {ClearOrder[c]} PROVE Staged(i, T)'
      BY <2>1, <2>5, <3>1 DEF Staged
    <3> QED
      BY <2>4, <3>1
  <2>7. ASSUME NEW m, m = mem[p], NEW w, w = io[p] PROVE After(p)
    <3>1. Open(file)'
      BY <1>2, <1>4, <2>1, <2>6 DEF Open, Kept, Journal, Before, Ledger, RowsAre, Due, Staged
    <3>2. AtRow("clear", m, file)'
      BY <1>2, <1>4, <2>1, <2>5, <2>7 DEF AtRow, Match, Kept, AllParts
    <3> QED
      BY <1>1, <1>2, <2>1, <2>7, <3>1, <3>2, StageGo
  <2> QED
    BY <2>7
<1> QED
  BY <1>5, <1>6

LEMMA MakeStageAlone == ASSUME NEW p, Here(p), MakeStage(p) PROVE After(p)
<1> DEFINE i == mem[p].journal.row
<1>1. pc[p] = "mk_stage" /\ pc[p] \in Transacting /\ Parts[1] = "text" /\ "text" \in Transacting
  BY DEF MakeStage, Transacting, Parts
<1>2. /\ AtRow("mk_stage", mem[p], file) /\ Open(file) /\ temps = {} /\ io[p].step = "none"
      /\ file["journal"] = mem[p].journal
  BY <1>1, RowHere
<1>3. /\ file["journal"].state = "prepared" /\ Kept(i) /\ Before(file) /\ RowsAre(Due(i - 1))
      /\ stage = None
  BY <1>2 DEF AtRow, Open
<1>4. /\ stage' = [row |-> i, files |-> {}] /\ pc'[p] = "text"
      /\ UNCHANGED <<mode, plan, file, dirs, rows, temps, mem, io, crashes>>
  BY <1>1, <1>3, ShapeHere DEF MakeStage, Goto
<1>5. Staged(i, {})'
  <2>1. {} \in Prefixes
    BY DEF Prefixes
  <2>2. [row |-> i, files |-> {}] # None
    BY <1>1, <2>1, RowHere, StageIs
  <2> QED
    BY <1>4, <2>2 DEF Staged
<1>6. ASSUME NEW m, m = mem[p], NEW w, w = io[p] PROVE After(p)
  <2>1. Open(file)'
    BY <1>2, <1>3, <1>4, <1>5
    DEF Open, Kept, Journal, Before, Ledger, RowsAre, Due, Staged, Prefixes
  <2>2. AtRow("text", m, file)'
    BY <1>2, <1>3, <1>4, <1>5, <1>6 DEF AtRow, Match, Kept, AllParts, PartsBefore, Staged
  <2> QED
    BY <1>1, <1>2, <1>4, <1>6, <2>1, <2>2, StageGo
<1> QED
  BY <1>6

LEMMA PartIs ==
    ASSUME NEW n \in 1..3
    PROVE  /\ Parts[n] \in AllParts /\ Parts[n] \notin StateFiles /\ Parts[n] \in Transacting
           /\ (IF n = 3 THEN "seal" ELSE Parts[n + 1]) \in Transacting
           /\ Parts[n] \notin PartsBefore(Parts[n])
           /\ PartsBefore(IF n = 3 THEN "seal" ELSE Parts[n + 1])
                 = PartsBefore(Parts[n]) \cup {Parts[n]}
<1>1. n = 1 \/ n = 2 \/ n = 3
  OBVIOUS
<1> QED
  BY <1>1 DEF Parts, AllParts, StateFiles, Transacting, PartsBefore

LEMMA WritePartAlone == ASSUME NEW p, Here(p), WritePart(p) PROVE After(p)
<1>1. PICK n \in 1..3 :
        /\ pc[p] = Parts[n]
        /\ Write(p, Parts[n], Parts[n], None,
                 IF n = 3 THEN "seal" ELSE Parts[n + 1], mem[p])
  BY Zenon DEF WritePart
<1> DEFINE w == [target |-> Parts[n], val |-> Parts[n], was |-> None, step |-> "create",
                 then |-> IF n = 3 THEN "seal" ELSE Parts[n + 1], mem |-> mem[p]]
<1>2. /\ pc'[p] = "io" /\ mem'[p] = mem[p] /\ io'[p] = w
      /\ Still /\ file' = file /\ temps' = temps
  BY <1>1, ShapeHere DEF Write, Goto, disk, Still
<1>3. /\ temps = {} /\ At(Parts[n], mem[p], file)
  BY <1>1, PartIs, RowHere, AtOpen
<1>4. ASSUME NEW u, u = w, NEW k, k = mem[p], NEW f, f = Parts[n] PROVE Standing(p)'
  <2>1. At(f, k, file)'
    BY <1>2, <1>3, <1>4, StillAt
  <2>2. u.mem = k /\ u.target = f /\ u.was = None /\ u.step = "create"
        /\ u.then = IF n = 3 THEN "seal" ELSE Parts[n + 1]
    BY <1>4
  <2>3. WritesPart(u)'
    BY <2>1, <2>2, <1>4 DEF WritesPart, Parts
  <2>4. Progress(p, u)'
    BY <1>2, <1>3, <1>4, <2>2, PartIs DEF Progress
  <2>5. Stands(p, "io", k, u)'
    BY <2>3, <2>4 DEF Stands, Places, Anywhere, Surveying
  <2> QED
    BY <1>2, <1>4, <2>5, StandsThen
<1> QED
  BY <1>2, <1>4 DEF After, Active, Idle

\* What the places of the transaction say of it.
LEMMA RowIs ==
    ASSUME NEW p, Here(p), pc[p] \in Transacting
    PROVE  LET j == mem[p].journal
               i == j.row
           IN  /\ pc[p] \in {"seal", "journal_staged"} =>
                    /\ j.state = "prepared" /\ Kept(i) /\ Before(file) /\ RowsAre(Due(i - 1))
                    /\ Staged(i, AllParts)
               /\ pc[p] \in {"commit", "rename"} =>
                    /\ j.state = "staged" /\ Kept(i) /\ Before(file) /\ RowsAre(Due(i - 1))
                    /\ Staged(i, AllParts)
               /\ pc[p] = "journal_committed" =>
                    /\ j.state = "staged" /\ Kept(i) /\ Before(file) /\ RowsAre(Due(i))
                    /\ stage = None
               /\ pc[p] \in {"close_ledger", "journal_ledger"} =>
                    /\ j.state = "committed_unledgered" \/ (j.state = "prepared" /\ ~ Kept(i))
                    /\ RowsAre(Due(i)) /\ stage = None
               /\ pc[p] = "close_ledger" => Before(file)
               /\ pc[p] = "journal_ledger" => Behind(file)
               /\ pc[p] \in {"close_checkpoint", "journal_checkpoint"} =>
                    /\ j.state = "ledger_closed" /\ RowsAre(Due(i)) /\ stage = None
                    /\ file["ledger"] = LedgerAt(i)
                    /\ file["checkpoint"] \in {Ledger(i - 1), LedgerAt(i)}
               /\ pc[p] = "journal_checkpoint" => file["checkpoint"] = LedgerAt(i)
               /\ pc[p] \in {"drop_journal", "unlink_journal"} =>
                    /\ j.state = "checkpoint_closed" /\ RowsAre(Due(i)) /\ stage = None
                    /\ file["ledger"] = LedgerAt(i) /\ file["checkpoint"] = LedgerAt(i)
<1> DEFINE j == mem[p].journal
<1>1. AtRow(pc[p], mem[p], file) /\ Open(file) /\ file["journal"] = j
  BY RowHere
<1>2. ~ (Before(file) /\ file["ledger"] = LedgerAt(j.row))
  BY <1>1, RowHere, LedgerIs DEF Before
<1>3. pc[p] \in {"seal", "journal_staged"} => Staged(j.row, AllParts)
  BY <1>1 DEF AtRow, PartsBefore
<1> QED
  BY <1>1, <1>2, <1>3 DEF AtRow, Open, Staged, Behind

LEMMA SealAlone == ASSUME NEW p, Here(p), Seal(p) PROVE After(p)
<1>1. pc[p] = "seal" /\ pc[p] \in Transacting /\ "journal_staged" \in Transacting
  BY DEF Seal, Transacting
<1>2. temps = {} /\ AtRow("seal", mem[p], file)
  BY <1>1, RowHere
<1>3. Read(p, TRUE, mem[p], "journal_staged")
  BY <1>1, <1>2, RowIs DEF Seal, Staged, Read
<1>4. AtRow("journal_staged", mem[p], file)
  BY <1>2 DEF AtRow, AllParts, PartsBefore
<1> QED
  BY <1>1, <1>3, <1>4, RowGo

LEMMA CommitAlone == ASSUME NEW p, Here(p), Commit(p) PROVE After(p)
<1>1. pc[p] = "commit" /\ pc[p] \in Transacting /\ "rename" \in Transacting
  BY DEF Commit, Transacting
<1>2. temps = {} /\ AtRow("commit", mem[p], file)
  BY <1>1, RowHere
<1>3. mem[p].journal.row \notin DOMAIN rows
  BY <1>1, RowIs, RowHere, DueNext DEF RowsAre
<1>4. Read(p, TRUE, mem[p], "rename")
  BY <1>1, <1>2, <1>3, RowIs DEF Commit, Staged, Read
<1>5. AtRow("rename", mem[p], file)
  BY <1>2 DEF AtRow, AllParts
<1> QED
  BY <1>1, <1>4, <1>5, RowGo

\* The staged row moves into rows/ as it is.
LEMMA RenameAlone == ASSUME NEW p, Here(p), Rename(p) PROVE After(p)
<1> DEFINE i == mem[p].journal.row
<1>1. pc[p] = "rename" /\ pc[p] \in Transacting /\ "journal_committed" \in Transacting
  BY DEF Rename, Transacting
<1>2. /\ AtRow("rename", mem[p], file) /\ Open(file) /\ temps = {} /\ io[p].step = "none"
      /\ file["journal"] = mem[p].journal
  BY <1>1, RowHere
<1>3. /\ file["journal"].state = "staged" /\ Kept(i) /\ Before(file) /\ RowsAre(Due(i - 1))
      /\ Staged(i, AllParts)
  BY <1>1, <1>2, RowIs
<1>4. Due(i) = Due(i - 1) \cup {i} /\ i \notin Due(i - 1)
  BY <1>1, <1>3, RowHere, DueNext
<1>5. /\ rows' = [r \in DOMAIN rows \cup {i} |-> IF r = i THEN stage.files ELSE rows[r]]
      /\ stage' = None /\ pc'[p] = "journal_committed" /\ mem'[p] = mem[p]
      /\ UNCHANGED <<mode, plan, file, dirs, temps, io, crashes>>
  <2>1. stage # None /\ stage.row = i /\ i \notin DOMAIN rows /\ stage.files = AllParts
    BY <1>3, <1>4 DEF Staged, RowsAre
  <2> QED
    BY <2>1, ShapeHere DEF Rename, Goto, Know
<1>6. DOMAIN rows' = Due(i) /\ \A r \in Due(i) : rows'[r] = AllParts
  BY <1>3, <1>4, <1>5 DEF RowsAre, Staged
<1>7. ASSUME NEW m, m = mem[p], NEW w, w = io[p] PROVE After(p)
  <2>1. RowsAre(Due(i))'
    <3>1. ASSUME NEW D, D = Due(i) PROVE RowsAre(Due(i))'
      <4>1. Due(i)' = D
        BY <1>2, <1>5, <3>1 DEF Due
      <4> QED
        BY <1>6, <3>1, <4>1 DEF RowsAre
    <3> QED
      BY <3>1
  <2>2. Open(file)'
    BY <1>2, <1>3, <1>5, <2>1 DEF Open, Kept, Journal, Before, Ledger
  <2>3. AtRow("journal_committed", m, file)'
    BY <1>2, <1>3, <1>5, <1>7 DEF AtRow, Match, Kept, AllParts
  <2> QED
    BY <1>1, <1>2, <1>5, <1>7, <2>2, <2>3, StageGo
<1> QED
  BY <1>7

LEMMA JournalAlone ==
    ASSUME NEW p, Here(p),
           JournalStaged(p) \/ JournalCommitted(p) \/ JournalLedger(p) \/ JournalCheckpoint(p)
    PROVE  After(p)
<1> DEFINE m == mem[p]
           i == m.journal.row
           g(s) == With("journal", Journal(i, s))
           a == [m EXCEPT !.staged = "staged"]
           b == [m EXCEPT !.staged = "committed"]
           c == [m EXCEPT !.chk = "current"]
<1>1. pc[p] \in Transacting
      /\ {"commit", "close_ledger", "close_checkpoint", "drop_journal"} \subseteq Transacting
  BY DEF JournalStaged, JournalCommitted, JournalLedger, JournalCheckpoint, Transacting
<1>2. /\ DOMAIN m = Fields /\ i \in 1..plan.n
      /\ AtRow(pc[p], m, file) /\ m.journal = file["journal"]
      /\ m.ledger = file["ledger"]
  BY <1>1, RowHere DEF Match
<1>3. /\ DOMAIN a = Fields /\ a.ledger = m.ledger /\ a.checkpoint = m.checkpoint
      /\ a.ledgered = m.ledgered
      /\ DOMAIN b = Fields /\ b.ledger = m.ledger /\ b.checkpoint = m.checkpoint
      /\ b.ledgered = m.ledgered
      /\ DOMAIN c = Fields /\ c.ledger = m.ledger /\ c.checkpoint = m.checkpoint
      /\ c.ledgered = m.ledgered
  BY <1>2 DEF Fields
<1>4. \A s \in JournalStates :
        /\ g(s)["journal"].row = i /\ g(s)["journal"].state = s /\ g(s)["journal"] = Journal(i, s)
        /\ g(s)["journal"] # None
        /\ g(s)["ledger"] = file["ledger"] /\ g(s)["checkpoint"] = file["checkpoint"]
        /\ g(s)["manifest"] = None /\ g(s)["receipt"] = None
        /\ Before(g(s)) <=> Before(file)
        /\ Behind(g(s)) <=> Behind(file)
  BY <1>1, JournalPut
<1>5. m.ledgered <=> file["ledger"].closed = i
  BY <1>2 DEF AtRow
<1> HIDE DEF g, a, b, c
<1>6. CASE JournalStaged(p)
  <2>1. pc[p] = "journal_staged" /\ Advance(p, "staged", "commit", a) /\ "staged" \in JournalStates
    BY <1>6 DEF JournalStaged, a, JournalStates
  <2>2. Kept(i) /\ Before(file) /\ RowsAre(Due(i - 1)) /\ Staged(i, AllParts)
    BY <1>1, <2>1, RowIs
  <2>3. Open(g("staged"))
    BY <1>2, <1>4, <2>1, <2>2 DEF Open
  <2>4. ASSUME NEW n, Match(n, g("staged")), n.ledgered = a.ledgered
        PROVE  AtRow("commit", n, g("staged"))
    BY <1>3, <1>4, <1>5, <2>1, <2>2, <2>4 DEF AtRow, AllParts, Staged
  <2> QED
    BY <1>1, <1>3, <2>1, <2>3, <2>4, AdvanceGo DEF g
<1>7. CASE JournalCommitted(p)
  <2>1. /\ pc[p] = "journal_committed" /\ Advance(p, "committed_unledgered", "close_ledger", b)
        /\ "committed_unledgered" \in JournalStates
    BY <1>7 DEF JournalCommitted, b, JournalStates
  <2>2. Kept(i) /\ Before(file) /\ RowsAre(Due(i)) /\ stage = None
    BY <1>1, <2>1, RowIs
  <2>3. Open(g("committed_unledgered"))
    BY <1>2, <1>4, <2>1, <2>2 DEF Open
  <2>4. ASSUME NEW n, Match(n, g("committed_unledgered")), n.ledgered = b.ledgered
        PROVE  AtRow("close_ledger", n, g("committed_unledgered"))
    BY <1>3, <1>4, <1>5, <2>1, <2>2, <2>4 DEF AtRow, AllParts
  <2> QED
    BY <1>1, <1>3, <2>1, <2>3, <2>4, AdvanceGo DEF g
<1>8. CASE JournalLedger(p)
  <2>1. /\ pc[p] = "journal_ledger" /\ Advance(p, "ledger_closed", "close_checkpoint", m)
        /\ "ledger_closed" \in JournalStates
    BY <1>8 DEF JournalLedger, JournalStates
  <2>2. Behind(file) /\ RowsAre(Due(i)) /\ stage = None
    BY <1>1, <2>1, RowIs
  <2>3. Open(g("ledger_closed"))
    BY <1>2, <1>4, <2>1, <2>2 DEF Open, Behind
  <2>4. ASSUME NEW n, Match(n, g("ledger_closed")), n.ledgered = m.ledgered
        PROVE  AtRow("close_checkpoint", n, g("ledger_closed"))
    BY <1>3, <1>4, <1>5, <2>1, <2>2, <2>4 DEF AtRow, AllParts
  <2> QED
    BY <1>1, <1>2, <2>1, <2>3, <2>4, AdvanceGo DEF g
<1>9. CASE JournalCheckpoint(p)
  <2>1. /\ pc[p] = "journal_checkpoint" /\ Advance(p, "checkpoint_closed", "drop_journal", c)
        /\ "checkpoint_closed" \in JournalStates
    BY <1>9 DEF JournalCheckpoint, c, JournalStates
  <2>2. /\ RowsAre(Due(i)) /\ stage = None
        /\ file["ledger"] = LedgerAt(i) /\ file["checkpoint"] = LedgerAt(i)
    BY <1>1, <2>1, RowIs
  <2>3. Open(g("checkpoint_closed"))
    BY <1>2, <1>4, <2>1, <2>2 DEF Open
  <2>4. ASSUME NEW n, Match(n, g("checkpoint_closed")), n.ledgered = c.ledgered
        PROVE  AtRow("drop_journal", n, g("checkpoint_closed"))
    BY <1>3, <1>4, <1>5, <2>1, <2>2, <2>4 DEF AtRow, AllParts
  <2> QED
    BY <1>1, <1>3, <2>1, <2>3, <2>4, AdvanceGo DEF g
<1> QED
  BY <1>6, <1>7, <1>8, <1>9

LEMMA CloseLedgerAlone == ASSUME NEW p, Here(p), CloseLedger(p) PROVE After(p)
<1> DEFINE m == mem[p]
           i == m.journal.row
           v == LedgerAt(i)
           n == [m EXCEPT !.ledger = v, !.ledgered = TRUE]
           g == With("ledger", v)
<1>1. pc[p] = "close_ledger" /\ pc[p] \in Transacting /\ "journal_ledger" \in Transacting
  BY DEF CloseLedger, Transacting
<1>2. /\ AtRow("close_ledger", m, file) /\ Open(file) /\ temps = {} /\ DOMAIN m = Fields
      /\ i \in 1..plan.n /\ m.journal = file["journal"] /\ m.ledger = file["ledger"]
      /\ m.checkpoint = file["checkpoint"] /\ file["journal"] # None /\ file["ledger"] # None
      /\ file["receipt"] = None /\ Accounts(file)
  BY <1>1, RowHere DEF Match
<1>3. /\ m.journal.state = "committed_unledgered" \/ (m.journal.state = "prepared" /\ ~ Kept(i))
      /\ RowsAre(Due(i)) /\ stage = None /\ Before(file)
  BY <1>1, RowIs
<1>4. /\ file["ledger"] = Ledger(i - 1) /\ file["ledger"].closed = i - 1 /\ v.closed = i
      /\ v # None /\ i - 1 # i /\ i - 1 <= i
  BY <1>2, <1>3, ShapeHere, LedgerIs DEF Before
<1>5. ~ m.ledgered
  BY <1>2, <1>4 DEF AtRow
<1>6. Write(p, "ledger", v, m.ledger, "journal_ledger", n)
  BY <1>5 DEF CloseLedger
<1>7. /\ n.ledger = v /\ n.ledgered = TRUE /\ n.checkpoint = m.checkpoint /\ n.journal = m.journal
      /\ n.staged = m.staged
  BY <1>2 DEF Fields
<1>8. /\ g["ledger"] = v /\ g["checkpoint"] = file["checkpoint"] /\ g["journal"] = file["journal"]
      /\ g["manifest"] = file["manifest"] /\ g["receipt"] = file["receipt"]
  BY ShapeHere, WithIs, NamesAre DEF StateFiles
<1>9. Behind(g)
  BY <1>2, <1>3, <1>8 DEF Behind, Before
<1>10. Open(g)
  BY <1>2, <1>3, <1>8, <1>9 DEF Open
<1>11. AtRow("journal_ledger", n, g)
  BY <1>2, <1>3, <1>4, <1>7, <1>8 DEF AtRow, Match, AllParts
<1>12. At("journal_ledger", n, g) /\ "journal_ledger" \in AfterWrite
  BY <1>1, <1>2, <1>4, <1>8, <1>10, <1>11, AtOpen
<1>13. m.ledger.closed <= v.closed
  BY <1>2, <1>4
<1> QED
  BY <1>2, <1>4, <1>6, <1>12, <1>13, NamesAre, WriteAfter

LEMMA CloseCheckpointAlone == ASSUME NEW p, Here(p), CloseCheckpoint(p) PROVE After(p)
<1> DEFINE m == mem[p]
           i == m.journal.row
           n == [m EXCEPT !.checkpoint = m.ledger, !.chk = "current"]
           g == With("checkpoint", m.ledger)
<1>1. pc[p] = "close_checkpoint" /\ pc[p] \in Transacting /\ "journal_checkpoint" \in Transacting
  BY DEF CloseCheckpoint, Transacting
<1>2. /\ AtRow("close_checkpoint", m, file) /\ Open(file) /\ temps = {} /\ DOMAIN m = Fields
      /\ i \in 1..plan.n /\ m.journal = file["journal"] /\ m.ledger = file["ledger"]
      /\ m.checkpoint = file["checkpoint"] /\ file["journal"] # None /\ file["ledger"] # None
      /\ file["receipt"] = None /\ Accounts(file)
  BY <1>1, RowHere DEF Match
<1>3. /\ m.journal.state = "ledger_closed" /\ RowsAre(Due(i)) /\ stage = None
      /\ file["ledger"] = LedgerAt(i)
  BY <1>1, RowIs
<1>4. CASE m.checkpoint = m.ledger
  <2>1. Read(p, TRUE, m, "journal_checkpoint")
    BY <1>4 DEF CloseCheckpoint
  <2>2. AtRow("journal_checkpoint", m, file)
    BY <1>2, <1>3, <1>4 DEF AtRow, Match, AllParts
  <2> QED
    BY <1>1, <2>1, <2>2, RowGo
<1>5. CASE m.checkpoint # m.ledger
  <2>1. Write(p, "checkpoint", m.ledger, m.checkpoint, "journal_checkpoint", n)
    BY <1>5 DEF CloseCheckpoint
  <2>2. /\ n.ledger = m.ledger /\ n.ledgered = m.ledgered /\ n.checkpoint = m.ledger
        /\ n.journal = m.journal /\ n.staged = m.staged
    BY <1>2 DEF Fields
  <2>3. /\ g["ledger"] = m.ledger /\ g["checkpoint"] = m.ledger /\ g["journal"] = file["journal"]
        /\ g["manifest"] = file["manifest"] /\ g["receipt"] = file["receipt"]
    BY <1>2, ShapeHere, WithIs, NamesAre DEF StateFiles
  <2>4. Open(g)
    BY <1>2, <1>3, <2>3 DEF Open
  <2>5. AtRow("journal_checkpoint", n, g)
    BY <1>2, <1>3, <2>2, <2>3 DEF AtRow, Match, AllParts
  <2>6. At("journal_checkpoint", n, g) /\ "journal_checkpoint" \in AfterWrite
    BY <1>1, <1>2, <2>3, <2>4, <2>5, AtOpen
  <2> QED
    BY <1>2, <2>1, <2>6, NamesAre, WriteAfter
<1> QED
  BY <1>4, <1>5

LEMMA DropJournalAlone == ASSUME NEW p, Here(p), DropJournal(p) PROVE After(p)
<1>1. pc[p] = "drop_journal" /\ pc[p] \in Transacting /\ "unlink_journal" \in Transacting
  BY DEF DropJournal, Transacting
<1>2. AtRow("drop_journal", mem[p], file) /\ file["journal"] = mem[p].journal
  BY <1>1, RowHere
<1>3. Read(p, TRUE, mem[p], "unlink_journal")
  BY <1>2 DEF DropJournal
<1>4. AtRow("unlink_journal", mem[p], file)
  BY <1>2 DEF AtRow, AllParts
<1> QED
  BY <1>1, <1>3, <1>4, RowGo

\* The process stands at l with m, and the state files are g now.
LEMMA FileGo ==
    ASSUME NEW p, NEW l \in Places \ Anywhere, l \notin Surveying, NEW m, NEW g, At(l, m, g),
           pc'[p] = l, mem'[p] = m, NEW w, w = io'[p], w.step = "none",
           Still, file' = g, temps' = {}
    PROVE  After(p)
<1>1. At(l, m, file)'
  BY StillAt
<1>2. Stands(p, l, m, w)'
  BY <1>1, PlacesAre DEF Stands, Anywhere
<1>3. l \notin Idle
  BY PlacesAre
<1> QED
  BY <1>2, <1>3, StandsThen DEF After, Active, Idle

LEMMA UnlinkJournalAlone == ASSUME NEW p, Here(p), UnlinkJournal(p) PROVE After(p)
<1> DEFINE m == mem[p]
           i == m.journal.row
           n == [m EXCEPT !.journal = None, !.ledgered = FALSE, !.staged = None, !.chk = "current"]
           g == With("journal", None)
<1>1. pc[p] = "unlink_journal" /\ pc[p] \in Transacting /\ "repair" \in Settling
  BY DEF UnlinkJournal, Transacting, Settling
<1>2. /\ Open(file) /\ temps = {} /\ DOMAIN m = Fields /\ io[p].step = "none"
      /\ i \in 1..plan.n /\ m.journal = file["journal"] /\ m.ledger = file["ledger"]
      /\ m.checkpoint = file["checkpoint"] /\ file["journal"] # None /\ file["ledger"] # None
  BY <1>1, RowHere DEF Match
<1>3. /\ m.journal.state = "checkpoint_closed" /\ RowsAre(Due(i)) /\ stage = None
      /\ file["ledger"] = LedgerAt(i) /\ file["checkpoint"] = LedgerAt(i)
  BY <1>1, RowIs
<1>4. /\ file' = g /\ pc'[p] = "repair" /\ mem'[p] = n /\ io' = io /\ Still /\ temps' = temps
  BY <1>2, ShapeHere DEF UnlinkJournal, Goto, Know, With, Still
<1>5. n.ledger = m.ledger /\ n.checkpoint = m.checkpoint /\ n.journal = None /\ n.chk = "current"
  BY <1>2 DEF Fields
<1>6. /\ g["ledger"] = file["ledger"] /\ g["checkpoint"] = file["checkpoint"] /\ g["journal"] = None
      /\ g["manifest"] = file["manifest"] /\ g["receipt"] = file["receipt"]
  BY ShapeHere, WithIs, NamesAre DEF StateFiles
<1>7. Settled(g)
  <2>1. i \in 0..plan.n /\ LedgerAt(i).closed = i
    BY <1>2, ShapeHere, LedgerIs
  <2>2. file["manifest"] = None /\ file["receipt"] = None
    BY <1>2 DEF Open
  <2> QED
    BY <1>3, <1>6, <2>1, <2>2 DEF Settled
<1>8. AtSettling("repair", n, g)
  BY <1>2, <1>3, <1>5, <1>6 DEF AtSettling, Match
<1>9. At("repair", n, g) /\ "repair" \in Places \ Anywhere /\ "repair" \notin Surveying
  BY <1>1, <1>2, <1>6, <1>7, <1>8, AtSettled
<1> QED
  BY <1>2, <1>4, <1>9, FileGo

LEMMA TransactionAlone == ASSUME NEW p, Here(p), RowTransaction(p) PROVE After(p)
BY ResumeAlone, ClearStageAlone, MakeStageAlone, WritePartAlone, SealAlone, JournalAlone,
   CommitAlone, RenameAlone, CloseLedgerAlone, CloseCheckpointAlone, DropJournalAlone,
   UnlinkJournalAlone DEF RowTransaction

----------------------------------------------------------------------------
(* A durable write of the process at work.                                 *)

LEMMA WriteHere ==
    ASSUME NEW p, Here(p), io[p].step # "none"
    PROVE  /\ pc[p] = "io" /\ Progress(p, io[p]) /\ (WritesFile(io[p]) \/ WritesPart(io[p]))
           /\ DOMAIN io[p] = {"target", "val", "was", "step", "then", "mem"}
BY DEF Here, Standing, Stands, CoverInv, Writes

\* A part is written into the stage of the row in the journal.
LEMMA PartHere ==
    ASSUME NEW p, Here(p), NEW w, w = io[p], w.step # "none", WritesPart(w)
    PROVE  \E n \in 1..3 :
             /\ w.target = Parts[n] /\ w.was = None /\ w.target \notin StateFiles
             /\ w.then = (IF n = 3 THEN "seal" ELSE Parts[n + 1])
             /\ At(Parts[n], w.mem, file) /\ AtRow(Parts[n], w.mem, file) /\ Open(file)
             /\ file["journal"] # None /\ file["ledger"] # None
             /\ w.mem.journal = file["journal"] /\ file["journal"].row \in 1..plan.n
             /\ file["journal"].state = "prepared" /\ Kept(file["journal"].row)
             /\ Before(file) /\ RowsAre(Due(file["journal"].row - 1))
             /\ Staged(file["journal"].row, PartsBefore(Parts[n]))
             /\ stage # None /\ w.target \notin stage.files
             /\ file["receipt"] = None
<1>1. PICK n \in 1..3 : /\ w.target = Parts[n] /\ w.was = None
                        /\ w.then = (IF n = 3 THEN "seal" ELSE Parts[n + 1])
                        /\ At(Parts[n], w.mem, file)
  BY DEF WritesPart
<1>2. AtRow(Parts[n], w.mem, file) /\ Accounts(file)
  BY <1>1, PartIs DEF At
<1>3. /\ file["journal"] # None /\ w.mem.journal = file["journal"]
      /\ file["journal"].state = "prepared" /\ Kept(file["journal"].row)
      /\ Staged(file["journal"].row, PartsBefore(Parts[n]))
  BY <1>2, PartIs DEF AtRow, Match
<1>4. Open(file) /\ file["ledger"] # None
  BY <1>2, <1>3, NamesAre DEF Accounts, Unbegun
<1>5. /\ file["journal"].row \in 1..plan.n /\ Before(file) /\ file["receipt"] = None
      /\ RowsAre(Due(file["journal"].row - 1))
  BY <1>3, <1>4 DEF Open
<1>6. stage # None /\ w.target \notin stage.files /\ w.target \notin StateFiles
  BY <1>1, <1>3, PartIs DEF Staged
<1> QED
  BY <1>1, <1>2, <1>3, <1>4, <1>5, <1>6

\* Its next step.
LEMMA WriteOn ==
    ASSUME NEW p, Here(p), NEW s, s # "none", io[p].step # "none", Step(p, s),
           NEW w, w = [io[p] EXCEPT !.step = s], Progress(p, w)', WritesFile(w)' \/ WritesPart(w)'
    PROVE  After(p)
<1>1. pc' = pc /\ mem' = mem /\ io'[p] = w
  BY ShapeHere DEF Step
<1>2. pc[p] = "io"
  BY WriteHere
<1>3. ASSUME NEW m, m = mem[p] PROVE Standing(p)'
  <2>1. Stands(p, "io", m, w)'
    BY DEF Stands, Places, Anywhere, Surveying
  <2> QED
    BY <1>1, <1>2, <1>3, <2>1, StandsThen
<1> QED
  BY <1>1, <1>2, <1>3 DEF After, Active, Idle

\* What it writes stays true while only its target changes.
LEMMA WritesOn ==
    ASSUME NEW p, Here(p), NEW s, io[p].step # "none", NEW w, w = [io[p] EXCEPT !.step = s],
           Still, file' = file \/ (io[p].was # None /\ \E v : file' = With(io[p].target, v))
    PROVE  /\ WritesFile(io[p]) => WritesFile(w)'
           /\ (WritesPart(io[p]) /\ file' = file) => WritesPart(w)'
           /\ w.target = io[p].target /\ w.val = io[p].val /\ w.was = io[p].was /\ w.step = s
<1>1. /\ w.target = io[p].target /\ w.val = io[p].val /\ w.was = io[p].was
      /\ w.then = io[p].then /\ w.mem = io[p].mem /\ w.step = s
  BY WriteHere
<1>2. ASSUME WritesFile(io[p]) PROVE WritesFile(w)'
  <2>1. \A v : With(w.target, v)' = With(w.target, v)
    BY <1>1, ShapeHere DEF With
  <2>2. Accounts(With(w.target, w.was))'
    BY <1>1, <1>2, <2>1, StillAccounts DEF WritesFile
  <2>3. At(w.then, w.mem, With(w.target, w.val))'
    BY <1>1, <1>2, <2>1, StillAt DEF WritesFile
  <2>4. file'["receipt"] = None
    BY <1>2, ShapeHere, NamesAre DEF WritesFile, With
  <2> QED
    BY <1>1, <1>2, <2>2, <2>3, <2>4 DEF WritesFile, Ledger
<1>3. ASSUME WritesPart(io[p]), file' = file PROVE WritesPart(w)'
  <2>1. PICK n \in 1..3 : /\ io[p].target = Parts[n] /\ io[p].was = None
                          /\ io[p].then = (IF n = 3 THEN "seal" ELSE Parts[n + 1])
                          /\ At(Parts[n], io[p].mem, file)
    BY <1>3 DEF WritesPart
  <2>2. At(Parts[n], w.mem, file)'
    <3>1. ASSUME NEW l, l = Parts[n], NEW g, g = file PROVE At(l, w.mem, g)'
      BY <1>1, <2>1, <3>1, StillAt
    <3> QED
      BY <1>3, <3>1 DEF Parts
  <2> QED
    BY <1>1, <2>1, <2>2 DEF WritesPart, Parts
<1> QED
  BY <1>1, <1>2, <1>3

\* The file is written: the process goes on where it was sent, or is done.
LEMMA FileDone ==
    ASSUME NEW p, Here(p), io[p].step # "none", Finish(p), WritesFile(io[p]), Still, temps' = {},
           Same(With(io[p].target, io[p].val), file')
    PROVE  After(p)
<1>1. /\ pc'[p] = io[p].then /\ mem'[p] = io[p].mem /\ io'[p] = NoIo
  BY ShapeHere DEF Finish, Goto, Know
<1>2. At(io[p].then, io[p].mem, file') /\ io[p].then \in AfterWrite
  BY SameAt DEF WritesFile
<1>3. ASSUME NEW l, l = io[p].then, NEW m, m = io[p].mem, NEW g, g = file' PROVE After(p)
  <2>1. CASE l = "done"
    <3>1. At(l, m, g)'
      BY <1>2, <1>3, StillAt
    <3>2. Clean'
      BY <1>3, <3>1 DEF Clean, At
    <3> QED
      BY <1>1, <1>3, <2>1, <3>2 DEF After, Active, Idle, Rest
  <2>2. CASE l # "done"
    <3>1. l \in Places \ Anywhere /\ l \notin Surveying
      BY <1>2, <1>3, <2>2, PlacesAre DEF AfterWrite, Places, Anywhere, Surveying
    <3> QED
      BY <1>1, <1>2, <1>3, <3>1, NoWrite, FileGo
  <2> QED
    BY <2>1, <2>2
<1> QED
  BY <1>3

LEMMA LeftIs ==
    ASSUME NEW p, NEW w, w = io[p]
    PROVE  /\ \A v, k : Temp(p, v, k) = Left(p, w, v, k)
           /\ \A v, u : Left(p, w, v, "tmp") # Left(p, w, u, "replaced")
<1>1. \A v, k : Temp(p, v, k) = Left(p, w, v, k)
  BY DEF Temp, Left
<1>2. ASSUME NEW v, NEW u PROVE Left(p, w, v, "tmp") # Left(p, w, u, "replaced")
  <2>1. Left(p, w, v, "tmp").kind = "tmp" /\ Left(p, w, u, "replaced").kind = "replaced"
    BY DEF Left
  <2> QED
    BY <2>1
<1> QED
  BY <1>1, <1>2

LEMMA CreateAlone == ASSUME NEW p, Here(p), IoCreate(p) PROVE After(p)
<1>1. io[p].step = "create" /\ io[p].step # "none" /\ temps = {}
  BY WriteHere DEF IoCreate, Progress
<1>2. IF io[p].target \in StateFiles THEN file[io[p].target] = io[p].was
      ELSE io[p].was = None /\ stage # None /\ io[p].target \notin stage.files
  BY <1>1, WriteHere, PartHere DEF Progress, WritesFile
<1>3. /\ temps' = {Temp(p, Torn, "tmp")} /\ Step(p, "flush")
      /\ UNCHANGED <<mode, plan, file, dirs, stage, rows, crashes>>
  BY <1>1, <1>2 DEF IoCreate, Present
<1>4. ASSUME NEW w, w = [io[p] EXCEPT !.step = "flush"] PROVE After(p)
  <2>1. (WritesFile(w) \/ WritesPart(w))'
    BY <1>1, <1>3, <1>4, WriteHere, WritesOn DEF Still
  <2>2. /\ w.target = io[p].target /\ w.was = io[p].was /\ w.step = "flush"
    BY <1>4, <1>1, WriteHere
  <2>3. temps' = {Left(p, w, Torn, "tmp")}
    BY <1>3, <2>2 DEF Temp, Left
  <2>4. Progress(p, w)'
    BY <1>1, <1>3, <2>2, <2>3, WriteHere DEF Progress, Left
  <2> QED
    BY <1>1, <1>3, <1>4, <2>1, <2>4, WriteOn
<1> QED
  BY <1>4

LEMMA FlushAlone == ASSUME NEW p, Here(p), IoFlush(p) PROVE After(p)
<1> DEFINE s == IF io[p].was = None THEN "publish" ELSE IF Exchange THEN "compare" ELSE "aside"
<1>1. io[p].step = "flush" /\ io[p].step # "none" /\ temps = {Temp(p, Torn, "tmp")}
  BY WriteHere, LeftIs DEF IoFlush, Progress
<1>2. IF io[p].target \in StateFiles THEN file[io[p].target] = io[p].was ELSE io[p].was = None
  BY <1>1, WriteHere DEF Progress
<1>3. /\ temps' = {Temp(p, io[p].val, "tmp")} /\ Step(p, s) /\ s # "none"
      /\ UNCHANGED <<mode, plan, file, dirs, stage, rows, crashes>>
  BY <1>1 DEF IoFlush
<1>4. ASSUME NEW w, w = [io[p] EXCEPT !.step = s] PROVE After(p)
  <2>1. (WritesFile(w) \/ WritesPart(w))'
    BY <1>1, <1>3, <1>4, WriteHere, WritesOn DEF Still
  <2>2. /\ w.target = io[p].target /\ w.was = io[p].was /\ w.val = io[p].val /\ w.step = s
    BY <1>4, <1>1, WriteHere
  <2>3. temps' = {Left(p, w, w.val, "tmp")}
    BY <1>3, <2>2 DEF Temp, Left
  <2>4. Progress(p, w)'
    BY <1>2, <1>3, <2>2, <2>3 DEF Progress, Exchange, Left
  <2> QED
    BY <1>1, <1>3, <1>4, <2>1, <2>4, WriteOn
<1> QED
  BY <1>4

\* A part of the row is there now.
LEMMA PartDone ==
    ASSUME NEW p, Here(p), io[p].step # "none", Finish(p), WritesPart(io[p]),
           stage' = [stage EXCEPT !.files = @ \cup {io[p].target}], temps' = {},
           UNCHANGED <<mode, plan, rows, file>>
    PROVE  After(p)
<1> SUFFICES ASSUME NEW l, l = io[p].then, NEW m, m = io[p].mem,
                    NEW i, i = file["journal"].row
             PROVE  After(p)
  OBVIOUS
<1>1. PICK n \in 1..3 :
             /\ io[p].target = Parts[n] /\ l = (IF n = 3 THEN "seal" ELSE Parts[n + 1])
             /\ AtRow(Parts[n], m, file) /\ Open(file)
             /\ file["journal"] # None /\ file["ledger"] # None
             /\ m.journal = file["journal"] /\ i \in 1..plan.n
             /\ file["journal"].state = "prepared" /\ Kept(i)
             /\ Before(file) /\ RowsAre(Due(i - 1))
             /\ Staged(i, PartsBefore(Parts[n]))
             /\ file["receipt"] = None
  BY PartHere
<1>2. /\ pc'[p] = l /\ mem'[p] = m /\ io'[p] = NoIo
  BY ShapeHere DEF Finish, Goto, Know
<1>3. /\ l \in Transacting /\ PartsBefore(l) = PartsBefore(Parts[n]) \cup {Parts[n]}
      /\ PartsBefore(l) \in Prefixes /\ l \in {"sidecar", "fragment", "seal"}
  <2>1. n = 1 \/ n = 2 \/ n = 3
    OBVIOUS
  <2> QED
    BY <1>1, <2>1, PartIs DEF PartsBefore, Prefixes, Parts, AllParts
<1>4. Staged(i, PartsBefore(l))'
  <2>1. stage' = [row |-> i, files |-> PartsBefore(l)]
    BY <1>1, <1>3 DEF Staged
  <2>2. stage' # None
    <3>1. i \in Nat
      BY <1>1, ShapeHere
    <3>2. [row |-> i, files |-> PartsBefore(l)] # None
      BY <1>3, <3>1, StageIs
    <3> QED
      BY <2>1, <3>2
  <2> QED
    BY <2>1, <2>2 DEF Staged, PartsBefore
<1>5. Open(file)'
  BY <1>1, <1>3, <1>4 DEF Open, Kept, Journal, Before, Ledger, RowsAre, Due, PartsBefore
<1>6. AtRow(l, m, file)'
  BY <1>1, <1>3, <1>4 DEF AtRow, Match, Kept, Staged, AllParts, PartsBefore
<1>7. /\ l \notin Beginning \cup Surveying \cup Settling \cup {"init_checkpoint"} \cup Anywhere
      /\ l \in Places
  BY <1>3 DEF Settling, Beginning, Surveying, Transacting, Places, Anywhere
<1>8. At(l, m, file)'
  BY <1>1, <1>5, <1>6, <1>7 DEF At, Accounts
<1>9. ASSUME NEW w, w = NoIo PROVE Standing(p)'
  <2>1. Stands(p, l, m, w)'
    BY <1>7, <1>8, <1>9, NoWrite DEF Stands, Anywhere
  <2> QED
    BY <1>2, <1>9, <2>1, StandsThen
<1>10. l \notin Idle
  BY <1>3 DEF Idle
<1> QED
  BY <1>2, <1>9, <1>10 DEF After, Active, Idle

LEMMA PublishedAlone == ASSUME NEW p, Here(p), IoPublish(p) PROVE After(p)
<1>1. /\ io[p].step = "publish" /\ io[p].step # "none" /\ temps = {Temp(p, io[p].val, "tmp")}
      /\ io[p].was = None
      /\ io[p].target \in StateFiles => file[io[p].target] = None
  BY WriteHere, LeftIs DEF IoPublish, Progress
<1>2. CASE WritesFile(io[p])
  <2>1. io[p].target \in StateFiles
    BY <1>2 DEF WritesFile
  <2>2. /\ file' = With(io[p].target, io[p].val) /\ Finish(p) /\ temps' = {} /\ Still
    BY <1>1, <2>1 DEF IoPublish, Put, Present, Still, With
  <2>3. Same(With(io[p].target, io[p].val), file')
    BY <2>2 DEF Same
  <2> QED
    BY <1>1, <1>2, <2>2, <2>3, FileDone
<1>3. CASE WritesPart(io[p])
  <2>1. io[p].target \notin StateFiles /\ stage # None /\ io[p].target \notin stage.files
    BY <1>1, <1>3, PartHere
  <2>2. /\ stage' = [stage EXCEPT !.files = @ \cup {io[p].target}] /\ Finish(p) /\ temps' = {}
        /\ UNCHANGED <<mode, plan, rows, file>>
    BY <1>1, <2>1 DEF IoPublish, Put, Present
  <2> QED
    BY <1>1, <1>3, <2>2, PartDone
<1> QED
  BY <1>1, <1>2, <1>3, WriteHere

\* Only state files are replaced.
LEMMA ReplaceHere ==
    ASSUME NEW p, Here(p), io[p].step \in {"compare", "swap", "aside", "fill", "drop"}
    PROVE  /\ io[p].target \in StateFiles /\ WritesFile(io[p]) /\ io[p].was # None
           /\ io[p].step # "none"
BY WriteHere DEF Progress, WritesFile, WritesPart

LEMMA SwapAlone == ASSUME NEW p, Here(p), IoCompare(p) \/ IoSwap(p) PROVE After(p)
<1>1. /\ io[p].step \in {"compare", "swap"} /\ temps = {Temp(p, io[p].val, "tmp")} /\ Exchange
      /\ file[io[p].target] = io[p].was /\ io[p].target \in StateFiles /\ io[p].was # None
      /\ WritesFile(io[p])
  BY WriteHere, ReplaceHere, LeftIs DEF IoCompare, IoSwap, Progress
<1>2. CASE IoCompare(p)
  <2>1. Step(p, "swap") /\ Still /\ file' = file /\ temps' = temps
    BY <1>1, <1>2 DEF IoCompare, disk, Still
  <2>2. ASSUME NEW w, w = [io[p] EXCEPT !.step = "swap"] PROVE After(p)
    <3>1. WritesFile(w)'
      BY <1>1, <2>1, <2>2, ReplaceHere, WritesOn
    <3>2. /\ w.target = io[p].target /\ w.was = io[p].was /\ w.val = io[p].val /\ w.step = "swap"
      BY <1>1, <2>2, ReplaceHere, WriteHere
    <3>3. temps' = {Left(p, w, w.val, "tmp")}
      BY <1>1, <2>1, <3>2 DEF Temp, Left
    <3>4. Progress(p, w)'
      BY <1>1, <2>1, <3>2, <3>3 DEF Progress, Exchange, Left, Still
    <3> QED
      BY <1>1, <2>1, <2>2, <3>1, <3>4, ReplaceHere, WriteOn
  <2> QED
    BY <2>2
<1>3. CASE IoSwap(p)
  <2>1. /\ Step(p, "drop") /\ Still /\ file' = With(io[p].target, io[p].val)
        /\ temps' = {Temp(p, io[p].was, "tmp")}
    BY <1>1, <1>3 DEF IoSwap, Put, Still, With
  <2>2. ASSUME NEW w, w = [io[p] EXCEPT !.step = "drop"] PROVE After(p)
    <3>1. WritesFile(w)'
      BY <1>1, <2>1, <2>2, ReplaceHere, WritesOn
    <3>2. /\ w.target = io[p].target /\ w.was = io[p].was /\ w.val = io[p].val /\ w.step = "drop"
      BY <1>1, <2>2, ReplaceHere, WriteHere
    <3>3. temps' = {Left(p, w, w.was, "tmp")} /\ file'[w.target] = w.val
      BY <1>1, <2>1, <3>2, ShapeHere, WithIs DEF Temp, Left
    <3>4. Progress(p, w)'
      BY <1>1, <2>1, <3>2, <3>3 DEF Progress, Exchange, Left, Still
    <3> QED
      BY <1>1, <2>1, <2>2, <3>1, <3>4, ReplaceHere, WriteOn
  <2> QED
    BY <2>2
<1> QED
  BY <1>2, <1>3

LEMMA AsideAlone == ASSUME NEW p, Here(p), IoAside(p) PROVE After(p)
<1>1. /\ io[p].step = "aside" /\ temps = {Temp(p, io[p].val, "tmp")} /\ ~ Exchange
      /\ file[io[p].target] = io[p].was /\ io[p].target \in StateFiles /\ io[p].was # None
      /\ WritesFile(io[p])
  BY WriteHere, ReplaceHere, LeftIs DEF IoAside, Progress
<1>2. /\ Step(p, "fill") /\ Still /\ file' = With(io[p].target, None)
      /\ temps' = {Temp(p, io[p].val, "tmp"), Temp(p, io[p].was, "replaced")}
  BY <1>1 DEF IoAside, Still, With
<1>3. ASSUME NEW w, w = [io[p] EXCEPT !.step = "fill"] PROVE After(p)
  <2>1. WritesFile(w)'
    BY <1>1, <1>2, <1>3, ReplaceHere, WritesOn
  <2>2. /\ w.target = io[p].target /\ w.was = io[p].was /\ w.val = io[p].val /\ w.step = "fill"
    BY <1>1, <1>3, ReplaceHere, WriteHere
  <2>3. /\ temps' = {Left(p, w, w.val, "tmp"), Left(p, w, w.was, "replaced")}
        /\ file'[w.target] = None
    BY <1>1, <1>2, <2>2, ShapeHere, WithIs DEF Temp, Left
  <2>4. Progress(p, w)'
    BY <1>1, <1>2, <2>2, <2>3 DEF Progress, Exchange, Left, Still
  <2> QED
    BY <1>1, <1>2, <1>3, <2>1, <2>4, ReplaceHere, WriteOn
<1> QED
  BY <1>3

LEMMA FillAlone == ASSUME NEW p, Here(p), IoFill(p) PROVE After(p)
<1>1. /\ io[p].step = "fill" /\ ~ Exchange /\ file[io[p].target] = None
      /\ temps = {Temp(p, io[p].val, "tmp"), Temp(p, io[p].was, "replaced")}
      /\ io[p].target \in StateFiles /\ io[p].was # None /\ WritesFile(io[p])
  BY WriteHere, ReplaceHere, LeftIs DEF IoFill, Progress
<1>2. /\ Step(p, "drop") /\ Still /\ file' = With(io[p].target, io[p].val)
      /\ temps' = {Temp(p, io[p].was, "replaced")}
  <2>1. Temp(p, io[p].val, "tmp") # Temp(p, io[p].was, "replaced")
    BY LeftIs
  <2> QED
    BY <1>1, <2>1 DEF IoFill, Put, Still, With
<1>3. ASSUME NEW w, w = [io[p] EXCEPT !.step = "drop"] PROVE After(p)
  <2>1. WritesFile(w)'
    BY <1>1, <1>2, <1>3, ReplaceHere, WritesOn
  <2>2. /\ w.target = io[p].target /\ w.was = io[p].was /\ w.val = io[p].val /\ w.step = "drop"
    BY <1>1, <1>3, ReplaceHere, WriteHere
  <2>3. temps' = {Left(p, w, w.was, "replaced")} /\ file'[w.target] = w.val
    BY <1>1, <1>2, <2>2, ShapeHere, WithIs DEF Temp, Left
  <2>4. Progress(p, w)'
    BY <1>1, <1>2, <2>2, <2>3 DEF Progress, Exchange, Left, Still
  <2> QED
    BY <1>1, <1>2, <1>3, <2>1, <2>4, ReplaceHere, WriteOn
<1> QED
  BY <1>3

LEMMA DropAlone == ASSUME NEW p, Here(p), IoDrop(p) PROVE After(p)
<1> DEFINE kind == IF Exchange THEN "tmp" ELSE "replaced"
<1>1. /\ io[p].step = "drop" /\ file[io[p].target] = io[p].val
      /\ temps = {Temp(p, io[p].was, kind)}
      /\ io[p].target \in StateFiles /\ io[p].was # None /\ WritesFile(io[p])
  BY WriteHere, ReplaceHere, LeftIs DEF IoDrop, Progress
<1>2. temps' = {} /\ Finish(p) /\ Still /\ file' = file
  BY <1>1 DEF IoDrop, Still
<1>3. Same(With(io[p].target, io[p].val), file)
  BY <1>1, ShapeHere, WithIs
<1> QED
  BY <1>1, <1>2, <1>3, FileDone

LEMMA DurableWriteAlone == ASSUME NEW p, Here(p), DurableWrite(p) PROVE After(p)
BY CreateAlone, FlushAlone, PublishedAlone, SwapAlone, AsideAlone, FillAlone, DropAlone
DEF DurableWrite

LEMMA WorkAlone == ASSUME NEW p, Here(p), Work(p) PROVE After(p)
<1>1. CASE Preflight(p)
  BY <1>1, ReadNamesAlone, ReadFreshAlone, ReadLedgerAlone, ReadCheckpointAlone,
     ReadJournalAlone, ReadTreeAlone DEF Preflight
<1> QED
  BY <1>1, RecoverAlone, PublishAlone, TransactionAlone, DurableWriteAlone DEF Work

----------------------------------------------------------------------------
(* Types.  A process is inside a durable write exactly when it stands at   *)
(* io; what it stages is a row the plan keeps.                             *)

DiskTyped ==
    /\ mode \in Modes
    /\ plan.n \in 0..MaxRows /\ plan.kept \subseteq 1..plan.n
    /\ DOMAIN file = StateFiles
    /\ dirs \subseteq {"rows", "staging"}
    /\ stage # None => stage.row \in plan.kept /\ stage.files \subseteq AllParts
    /\ DOMAIN rows \subseteq plan.kept
    /\ \A t \in temps : t.target \in StateFiles \cup AllParts
    /\ crashes \in 0..MaxCrashes

Placed(l, m, w) ==
    /\ w.step # "none" <=> l = "io"
    /\ l \in {"clear", "mk_stage"} => Kept(m.journal.row)
    /\ w.step # "none" => /\ w.target \in StateFiles \cup AllParts
                          /\ w.target \in AllParts => w.was = None
                          /\ w.then \notin {"io", "clear", "mk_stage"}

TypeInv == DiskTyped /\ \A p \in Publishers : Placed(pc[p], mem[p], io[p])

\* A step of p keeps the types, and touches no other process.
Types(p) ==
    /\ TypeInv'
    /\ mode' = mode /\ \A q \in Publishers \ {p} : pc'[q] = pc[q]

LEMMA TypesStep ==
    ASSUME CoverInv, TypeInv, NEW p \in Publishers, NEW l, NEW m, NEW w, Sets(p, l, m, w),
           Placed(l, m, w), mode' = mode, plan' = plan, DiskTyped'
    PROVE  Types(p)
<1>1. \A k, n, v : Placed(k, n, v) => Placed(k, n, v)'
  BY DEF Placed, Kept
<1>2. ASSUME NEW q \in Publishers PROVE Placed(pc[q], mem[q], io[q])'
  <2>1. ASSUME NEW k, NEW n, NEW v, pc'[q] = k, mem'[q] = n, io'[q] = v, Placed(k, n, v)'
        PROVE  Placed(pc[q], mem[q], io[q])'
    BY <2>1 DEF Placed
  <2>2. CASE q = p
    BY <1>1, <2>1, <2>2 DEF Sets
  <2>3. CASE q # p
    BY <1>1, <2>1, <2>3 DEF Sets, TypeInv
  <2> QED
    BY <2>2, <2>3
<1>3. \A q \in Publishers \ {p} : pc'[q] = pc[q]
  BY DEF Sets
<1> QED
  BY <1>2, <1>3 DEF Types, TypeInv

LEMMA SameDisk ==
    ASSUME TypeInv, UNCHANGED <<mode, plan, disk>>, crashes' \in 0..MaxCrashes PROVE DiskTyped'
BY DEF TypeInv, DiskTyped, disk

LEMMA Count == ASSUME TypeInv, crashes' = crashes PROVE crashes' \in 0..MaxCrashes
BY DEF TypeInv, DiskTyped

LEMMA RefuseTypes == ASSUME CoverInv, TypeInv, NEW p \in Publishers, Refuse(p) PROVE Types(p)
<1>1. Sets(p, "refused", NoMem, NoIo)
  BY DEF Refuse, CoverInv, Shape, Sets
<1>2. Placed("refused", NoMem, NoIo)
  BY DEF Placed, NoIo
<1> QED
  BY <1>1, <1>2, SameDisk, Count, TypesStep DEF Refuse

LEMMA ReadTypes ==
    ASSUME CoverInv, TypeInv, NEW p \in Publishers, pc[p] # "io", NEW ok, NEW m, NEW l,
           Read(p, ok, m, l), l # "io", l \in {"clear", "mk_stage"} => Kept(m.journal.row)
    PROVE  Types(p)
<1>1. CASE Refuse(p)
  BY <1>1, RefuseTypes
<1>2. CASE Goto(p, l) /\ Know(p, m) /\ UNCHANGED <<mode, plan, disk, io, crashes>>
  <2>1. Sets(p, l, m, io[p])
    BY <1>2 DEF Goto, Know, CoverInv, Shape, Sets
  <2>2. Placed(l, m, io[p])
    BY DEF Placed, TypeInv
  <2> QED
    BY <1>2, <2>1, <2>2, SameDisk, Count, TypesStep
<1> QED
  BY <1>1, <1>2 DEF Read

LEMMA WriteTypes ==
    ASSUME CoverInv, TypeInv, NEW p \in Publishers, NEW f, NEW v, NEW was, NEW l, NEW m,
           Write(p, f, v, was, l, m), f \in StateFiles \cup AllParts, f \in AllParts => was = None,
           l \notin {"io", "clear", "mk_stage"}
    PROVE  Types(p)
<1> DEFINE w == [target |-> f, val |-> v, was |-> was, step |-> "create", then |-> l, mem |-> m]
<1>1. Sets(p, "io", mem[p], w)
  BY DEF Write, Goto, CoverInv, Shape, Sets
<1>2. Placed("io", mem[p], w)
  BY DEF Placed
<1> QED
  BY <1>1, <1>2, SameDisk, Count, TypesStep DEF Write

\* A step that goes from one place to another one.
LEMMA PlainTypes ==
    ASSUME CoverInv, TypeInv, NEW p \in Publishers, pc[p] # "io", NEW l, NEW m,
           Sets(p, l, m, io[p]), l # "io", l \in {"clear", "mk_stage"} => Kept(m.journal.row),
           mode' = mode, plan' = plan, DiskTyped'
    PROVE  Types(p)
<1>1. Placed(l, m, io[p])
  BY DEF Placed, TypeInv
<1> QED
  BY <1>1, TypesStep

LEMMA WriteTyped ==
    ASSUME CoverInv, TypeInv, NEW p \in Publishers, io[p].step # "none"
    PROVE  /\ io[p].target \in StateFiles \cup AllParts
           /\ io[p].target \in AllParts => io[p].was = None
           /\ io[p].then \notin {"io", "clear", "mk_stage"}
           /\ pc[p] = "io"
BY DEF TypeInv, Placed

LEMMA IoTypes ==
    ASSUME CoverInv, TypeInv, NEW p \in Publishers, io[p].step # "none", NEW s, s # "none",
           Step(p, s), mode' = mode, plan' = plan, DiskTyped'
    PROVE  Types(p)
<1> DEFINE w == [io[p] EXCEPT !.step = s]
<1>1. Sets(p, pc[p], mem[p], w)
  BY DEF Step, CoverInv, Shape, Sets
<1>2. DOMAIN io[p] = {"target", "val", "was", "step", "then", "mem"}
  BY DEF CoverInv, Writes
<1>3. Placed(pc[p], mem[p], w)
  BY <1>2 DEF Placed, TypeInv
<1> QED
  BY <1>1, <1>3, TypesStep

LEMMA FinishTypes ==
    ASSUME CoverInv, TypeInv, NEW p \in Publishers, io[p].step # "none", Finish(p),
           mode' = mode, plan' = plan, DiskTyped'
    PROVE  Types(p)
<1>1. Sets(p, io[p].then, io[p].mem, NoIo)
  BY DEF Finish, Goto, Know, CoverInv, Shape, Sets
<1>2. Placed(io[p].then, io[p].mem, NoIo)
  BY WriteTyped DEF Placed, NoIo
<1> QED
  BY <1>1, <1>2, TypesStep

\* A durable write puts its target in place, and leaves temporaries of it.
LEMMA PutTyped ==
    ASSUME CoverInv, TypeInv, NEW p \in Publishers, io[p].step # "none",
           UNCHANGED <<mode, plan, dirs, rows, crashes>>,
           \/ UNCHANGED <<file, stage>>
           \/ Put(io[p].target, io[p].val) /\ (io[p].target \notin StateFiles => stage # None)
           \/ file' = [file EXCEPT ![io[p].target] = None] /\ stage' = stage,
           \A t \in temps' : t \in temps \/ \E v, k : t = Temp(p, v, k)
    PROVE  DiskTyped'
<1>1. DOMAIN file' = StateFiles
  BY DEF Put, TypeInv, DiskTyped
<1>2. stage' # None => stage'.row \in plan.kept /\ stage'.files \subseteq AllParts
  <2>1. CASE stage' = stage
    BY <2>1 DEF TypeInv, DiskTyped
  <2>2. CASE stage' # stage
    <3>1. stage' = [stage EXCEPT !.files = @ \cup {io[p].target}] /\ stage # None
          /\ io[p].target \in AllParts
      BY <2>2, WriteTyped DEF Put
    <3> QED
      BY <3>1 DEF TypeInv, DiskTyped
  <2> QED
    BY <2>1, <2>2
<1>3. \A t \in temps' : t.target \in StateFiles \cup AllParts
  BY WriteTyped DEF TypeInv, DiskTyped, Temp
<1> QED
  BY <1>1, <1>2, <1>3 DEF TypeInv, DiskTyped

LEMMA DurableWriteTypes ==
    ASSUME CoverInv, TypeInv, NEW p \in Publishers, DurableWrite(p) PROVE Types(p)
<1>0. io[p].step # "none"
  BY DEF DurableWrite, IoCreate, IoFlush, IoPublish, IoCompare, IoSwap, IoAside, IoFill, IoDrop
<1>1. CASE Refuse(p)
  BY <1>1, RefuseTypes
<1>2. CASE ~ Refuse(p) /\ (IoCreate(p) \/ IoFlush(p) \/ IoCompare(p))
  <2>1. \E s : s # "none" /\ Step(p, s)
    BY <1>2 DEF IoCreate, IoFlush, IoCompare
  <2>2. UNCHANGED <<mode, plan, dirs, rows, crashes, file, stage>>
    BY <1>2 DEF IoCreate, IoFlush, IoCompare, disk
  <2>3. \A t \in temps' : t \in temps \/ \E v, k : t = Temp(p, v, k)
    BY <1>2 DEF IoCreate, IoFlush, IoCompare, disk
  <2> QED
    BY <1>0, <2>1, <2>2, <2>3, PutTyped, IoTypes
<1>3. CASE ~ Refuse(p) /\ IoPublish(p)
  <2>1. /\ Put(io[p].target, io[p].val) /\ (io[p].target \notin StateFiles => stage # None)
        /\ Finish(p) /\ UNCHANGED <<mode, plan, dirs, rows, crashes>>
        /\ \A t \in temps' : t \in temps
    BY <1>3 DEF IoPublish
  <2> QED
    BY <1>0, <2>1, PutTyped, FinishTypes
<1>4. CASE ~ Refuse(p) /\ IoSwap(p)
  <2>1. io[p].target \in StateFiles
    BY <1>0, <1>4, WriteTyped, Vouched DEF IoSwap
  <2>2. /\ Put(io[p].target, io[p].val) /\ UNCHANGED <<mode, plan, dirs, rows, crashes>>
        /\ \A t \in temps' : t \in temps \/ \E v, k : t = Temp(p, v, k)
    BY <1>4 DEF IoSwap
  <2>3. DiskTyped'
    BY <1>0, <2>1, <2>2, PutTyped
  <2>4. CASE Step(p, "drop")
    BY <1>0, <2>2, <2>3, <2>4, IoTypes
  <2>5. CASE Goto(p, "refused") /\ Know(p, NoMem) /\ io' = [io EXCEPT ![p] = NoIo]
    <3>1. Sets(p, "refused", NoMem, NoIo)
      BY <2>5 DEF Goto, Know, CoverInv, Shape, Sets
    <3>2. Placed("refused", NoMem, NoIo)
      BY DEF Placed, NoIo
    <3> QED
      BY <2>2, <2>3, <3>1, <3>2, TypesStep
  <2> QED
    BY <1>4, <2>4, <2>5 DEF IoSwap
<1>5. CASE ~ Refuse(p) /\ IoAside(p)
  <2>1. /\ file' = [file EXCEPT ![io[p].target] = None] /\ stage' = stage
        /\ UNCHANGED <<mode, plan, dirs, rows, crashes>> /\ Step(p, "fill")
        /\ \A t \in temps' : t \in temps \/ \E v, k : t = Temp(p, v, k)
    BY <1>5 DEF IoAside
  <2> QED
    BY <1>0, <2>1, PutTyped, IoTypes
<1>6. CASE ~ Refuse(p) /\ IoFill(p)
  <2>1. io[p].target \in StateFiles
    BY <1>0, <1>6, WriteTyped, Vouched DEF IoFill
  <2>2. /\ Put(io[p].target, io[p].val) /\ UNCHANGED <<mode, plan, dirs, rows, crashes>>
        /\ \A t \in temps' : t \in temps
        /\ Step(p, "drop")
    BY <1>6 DEF IoFill
  <2> QED
    BY <1>0, <2>1, <2>2, PutTyped, IoTypes
<1>7. CASE ~ Refuse(p) /\ IoDrop(p)
  <2>1. /\ Finish(p) /\ UNCHANGED <<mode, plan, dirs, rows, crashes, file, stage>>
        /\ \A t \in temps' : t \in temps
    BY <1>7 DEF IoDrop
  <2> QED
    BY <1>0, <2>1, PutTyped, FinishTypes
<1> QED
  BY <1>1, <1>2, <1>3, <1>4, <1>5, <1>6, <1>7 DEF DurableWrite

LEMMA RecoverTypes == ASSUME CoverInv, TypeInv, NEW p \in Publishers, Recover(p) PROVE Types(p)
<1>1. CASE Refuse(p)
  BY <1>1, RefuseTypes
<1>2. CASE Residue("replaced") = {} /\ Residue("tmp") = {}
  <2>1. Read(p, TRUE, NoMem, "names") /\ pc[p] = "recover"
    BY <1>2 DEF Recover
  <2> QED
    BY <2>1, ReadTypes
<1>3. CASE ~ Refuse(p) /\ ~ (Residue("replaced") = {} /\ Residue("tmp") = {})
  <2>1. UNCHANGED <<mode, plan, dirs, stage, rows, pc, mem, io, crashes>>
    BY <1>3, RecoverPass
  <2>2. temps' \subseteq temps /\ DOMAIN file' = DOMAIN file
    BY <1>3, RecoverPass
  <2>3. Sets(p, pc[p], mem[p], io[p])
    BY <2>1 DEF Sets, CoverInv, Shape
  <2>4. DiskTyped'
    BY <2>1, <2>2 DEF TypeInv, DiskTyped
  <2> QED
    BY <2>1, <2>3, <2>4, PlainTypes DEF Recover
<1> QED
  BY <1>1, <1>2, <1>3

LEMMA PreflightTypes == ASSUME CoverInv, TypeInv, NEW p \in Publishers, Preflight(p) PROVE Types(p)
<1>1. CASE ReadNames(p)
  BY <1>1, ReadTypes DEF ReadNames
<1>2. CASE ReadFresh(p)
  BY <1>2, ReadTypes DEF ReadFresh
<1>3. CASE ReadLedger(p)
  BY <1>3, ReadTypes DEF ReadLedger
<1>4. CASE ReadCheckpoint(p)
  BY <1>4, ReadTypes DEF ReadCheckpoint
<1>5. CASE ReadJournal(p)
  BY <1>5, ReadTypes DEF ReadJournal
<1>6. CASE ReadTree(p)
  BY <1>6, ReadTypes DEF ReadTree
<1> QED
  BY <1>1, <1>2, <1>3, <1>4, <1>5, <1>6 DEF Preflight

LEMMA PublishTypes == ASSUME CoverInv, TypeInv, NEW p \in Publishers, Publish(p) PROVE Types(p)
<1> USE NamesAre
<1>1. CASE MakeRows(p) \/ MakeStaging(p)
  <2>1. \E d \in {"rows", "staging"}, l \in {"mk_staging", "init_ledger"} :
            MakeDir(p, d, l) /\ pc[p] # "io"
    BY <1>1 DEF MakeRows, MakeStaging
  <2>2. PICK d \in {"rows", "staging"}, l \in {"mk_staging", "init_ledger"} : MakeDir(p, d, l)
    BY <2>1
  <2>3. Sets(p, l, mem[p], io[p])
    BY <2>2 DEF MakeDir, Goto, Sets, CoverInv, Shape
  <2>4. DiskTyped'
    BY <2>2 DEF MakeDir, TypeInv, DiskTyped
  <2> QED
    BY <2>1, <2>2, <2>3, <2>4, PlainTypes DEF MakeDir
<1>2. CASE InitialLedger(p)
  BY <1>2, WriteTypes DEF InitialLedger
<1>3. CASE InitialCheckpoint(p)
  BY <1>3, WriteTypes DEF InitialCheckpoint
<1>4. CASE RepairCheckpoint(p)
  <2>1. /\ pc[p] = "repair"
        /\ \/ Read(p, TRUE, mem[p], "next_row")
           \/ \E v, m : Write(p, "checkpoint", v, mem[p].checkpoint, "next_row", m)
    BY <1>4, Zenon DEF RepairCheckpoint
  <2>2. ASSUME NEW v, NEW m, Write(p, "checkpoint", v, mem[p].checkpoint, "next_row", m)
        PROVE  Types(p)
    BY <2>2, WriteTypes
  <2> QED
    BY <2>1, <2>2, ReadTypes
<1>5. CASE NextRow(p)
  <2>1. /\ pc[p] = "next_row"
        /\ \/ \E j, m : Write(p, "journal", j, None, "resume", m)
           \/ Refuse(p)
           \/ \E v, m : Write(p, "ledger", v, mem[p].ledger, "repair", m)
           \/ \E ok : Read(p, ok, mem[p], "manifest")
    BY <1>5, Zenon DEF NextRow
  <2>2. ASSUME NEW j, NEW m, Write(p, "journal", j, None, "resume", m) PROVE Types(p)
    BY <2>2, WriteTypes
  <2>3. ASSUME NEW v, NEW m, Write(p, "ledger", v, mem[p].ledger, "repair", m) PROVE Types(p)
    BY <2>3, WriteTypes
  <2> QED
    BY <2>1, <2>2, <2>3, ReadTypes, RefuseTypes
<1>6. CASE Manifest(p)
  BY <1>6, ReadTypes, WriteTypes DEF Manifest, CreateOrEqual
<1>7. CASE Receipt(p)
  BY <1>7, ReadTypes, WriteTypes, RefuseTypes DEF Receipt, CreateOrEqual
<1> QED
  BY <1>1, <1>2, <1>3, <1>4, <1>5, <1>6, <1>7 DEF Publish

LEMMA TransactionTypes ==
    ASSUME CoverInv, TypeInv, NEW p \in Publishers, RowTransaction(p) PROVE Types(p)
<1> USE NamesAre
<1>1. CASE Resume(p)
  <2> DEFINE m == mem[p]
             j == m.journal
             l == CASE j.state = "prepared" /\ Kept(j.row) ->
                         IF m.staged = "partial" THEN "clear" ELSE "mk_stage"
                    [] j.state = "staged" ->
                         IF m.staged = "committed" THEN "journal_committed" ELSE "commit"
                    [] j.state = "ledger_closed" -> "close_checkpoint"
                    [] j.state = "checkpoint_closed" -> "drop_journal"
                    [] OTHER -> IF m.ledgered THEN "journal_ledger" ELSE "close_ledger"
  <2>1. Read(p, TRUE, m, l) /\ pc[p] = "resume"
    BY <1>1 DEF Resume
  <2>2. l # "io" /\ (l \in {"clear", "mk_stage"} => Kept(m.journal.row))
    OBVIOUS
  <2> HIDE DEF l
  <2> QED
    BY <2>1, <2>2, ReadTypes
<1>2. CASE ClearStage(p)
  <2>1. CASE Refuse(p)
    BY <2>1, RefuseTypes
  <2>2. CASE /\ stage' = None /\ Goto(p, "mk_stage") /\ pc[p] = "clear"
             /\ UNCHANGED <<mode, plan, file, dirs, rows, temps, mem, io, crashes>>
    <3>1. Sets(p, "mk_stage", mem[p], io[p])
      BY <2>2 DEF Goto, Sets, CoverInv, Shape
    <3>2. DiskTyped'
      BY <2>2 DEF TypeInv, DiskTyped
    <3>3. Kept(mem[p].journal.row)
      BY <2>2 DEF TypeInv, Placed
    <3> QED
      BY <2>2, <3>1, <3>2, <3>3, PlainTypes
  <2>3. CASE /\ stage # None /\ \E x : stage' = [stage EXCEPT !.files = @ \ {x}]
             /\ UNCHANGED <<mode, plan, file, dirs, rows, temps, pc, mem, io, crashes>>
    <3>1. Sets(p, pc[p], mem[p], io[p])
      BY <2>3 DEF Sets, CoverInv, Shape
    <3>2. DiskTyped'
      BY <2>3 DEF TypeInv, DiskTyped
    <3>3. Placed(pc[p], mem[p], io[p])
      BY DEF TypeInv
    <3> QED
      BY <2>3, <3>1, <3>2, <3>3, TypesStep
  <2> QED
    BY <1>2, <2>1, <2>2, <2>3 DEF ClearStage
<1>3. CASE MakeStage(p)
  <2>1. /\ pc[p] = "mk_stage" /\ Goto(p, "text")
        /\ stage' = IF stage = None THEN [row |-> mem[p].journal.row, files |-> {}] ELSE stage
        /\ UNCHANGED <<mode, plan, file, dirs, rows, temps, mem, io, crashes>>
    BY <1>3 DEF MakeStage, Parts
  <2>2. Sets(p, "text", mem[p], io[p])
    BY <2>1 DEF Goto, Sets, CoverInv, Shape
  <2>3. DiskTyped'
    BY <2>1 DEF TypeInv, DiskTyped, Placed, Kept
  <2> QED
    BY <2>1, <2>2, <2>3, PlainTypes
<1>4. CASE WritePart(p)
  <2>1. PICK n \in 1..3 :
          /\ pc[p] = Parts[n]
          /\ Write(p, Parts[n], Parts[n], None,
                   IF n = 3 THEN "seal" ELSE Parts[n + 1], mem[p])
    BY <1>4, Zenon DEF WritePart
  <2>2. /\ Parts[n] \in AllParts
        /\ (IF n = 3 THEN "seal" ELSE Parts[n + 1]) \notin {"io", "clear", "mk_stage"}
    <3>1. n = 1 \/ n = 2 \/ n = 3
      OBVIOUS
    <3> QED
      BY <3>1 DEF Parts, AllParts
  <2> QED
    BY <2>1, <2>2, WriteTypes
<1>5. CASE Seal(p)
  BY <1>5, ReadTypes DEF Seal
<1>6. CASE Commit(p)
  BY <1>6, ReadTypes DEF Commit
<1>7. CASE JournalStaged(p)
  BY <1>7, WriteTypes DEF JournalStaged, Advance
<1>8. CASE JournalCommitted(p)
  BY <1>8, WriteTypes DEF JournalCommitted, Advance
<1>9. CASE JournalLedger(p)
  BY <1>9, WriteTypes DEF JournalLedger, Advance
<1>10. CASE JournalCheckpoint(p)
  BY <1>10, WriteTypes DEF JournalCheckpoint, Advance
<1>11. CASE CloseLedger(p)
  <2>1. /\ pc[p] = "close_ledger"
        /\ \/ Read(p, TRUE, mem[p], "journal_ledger")
           \/ \E v, m : Write(p, "ledger", v, mem[p].ledger, "journal_ledger", m)
    BY <1>11, Zenon DEF CloseLedger
  <2>2. ASSUME NEW v, NEW m, Write(p, "ledger", v, mem[p].ledger, "journal_ledger", m)
        PROVE  Types(p)
    BY <2>2, WriteTypes
  <2> QED
    BY <2>1, <2>2, ReadTypes
<1>12. CASE CloseCheckpoint(p)
  <2>1. /\ pc[p] = "close_checkpoint"
        /\ \/ Read(p, TRUE, mem[p], "journal_checkpoint")
           \/ \E v, m : Write(p, "checkpoint", v, mem[p].checkpoint, "journal_checkpoint", m)
    BY <1>12, Zenon DEF CloseCheckpoint
  <2>2. ASSUME NEW v, NEW m, Write(p, "checkpoint", v, mem[p].checkpoint, "journal_checkpoint", m)
        PROVE  Types(p)
    BY <2>2, WriteTypes
  <2> QED
    BY <2>1, <2>2, ReadTypes
<1>13. CASE DropJournal(p)
  BY <1>13, ReadTypes DEF DropJournal
<1>14. CASE UnlinkJournal(p)
  <2>1. CASE Refuse(p)
    BY <2>1, RefuseTypes
  <2>2. CASE ~ Refuse(p)
    <3>1. PICK m : /\ pc[p] = "unlink_journal" /\ Goto(p, "repair") /\ Know(p, m)
                   /\ file' = [file EXCEPT !["journal"] = None]
                   /\ UNCHANGED <<mode, plan, dirs, stage, rows, temps, io, crashes>>
      BY <1>14, <2>2 DEF UnlinkJournal
    <3>2. Sets(p, "repair", m, io[p])
      BY <3>1 DEF Goto, Know, Sets, CoverInv, Shape
    <3>3. DiskTyped'
      BY <3>1 DEF TypeInv, DiskTyped
    <3> QED
      BY <3>1, <3>2, <3>3, PlainTypes
  <2> QED
    BY <2>1, <2>2
<1>15. CASE Rename(p)
  <2>1. PICK l, m :
          /\ l \in {"journal_committed", "refused"} /\ pc[p] = "rename" /\ Goto(p, l) /\ Know(p, m)
          /\ UNCHANGED <<mode, plan, file, dirs, temps, io, crashes>>
    BY <1>15 DEF Rename
  <2>2. Sets(p, l, m, io[p])
    BY <2>1 DEF Goto, Know, Sets, CoverInv, Shape
  <2>3. stage' = None \/ stage' = stage
    BY <1>15 DEF Rename
  <2>4. DOMAIN rows' \subseteq plan.kept
    BY <1>15 DEF Rename, TypeInv, DiskTyped
  <2>5. DiskTyped'
    BY <2>1, <2>3, <2>4 DEF TypeInv, DiskTyped
  <2> QED
    BY <2>1, <2>2, <2>5, PlainTypes
<1> QED
  BY <1>1, <1>2, <1>3, <1>4, <1>5, <1>6, <1>7, <1>8, <1>9, <1>10, <1>11, <1>12, <1>13, <1>14,
     <1>15 DEF RowTransaction

LEMMA WorkTypes == ASSUME CoverInv, TypeInv, NEW p \in Publishers, Work(p) PROVE Types(p)
BY RecoverTypes, PreflightTypes, PublishTypes, TransactionTypes, DurableWriteTypes DEF Work

LEMMA StartTypes == ASSUME CoverInv, TypeInv, NEW p \in Publishers, Start(p) PROVE Types(p)
<1> DEFINE l == IF Exchange THEN "names" ELSE "recover"
<1>1. Read(p, TRUE, NoMem, l)
  BY DEF Start, Read
<1>2. pc[p] # "io"
  BY DEF Start, Active, Idle
<1> QED
  BY <1>1, <1>2, ReadTypes

LEMMA CrashTypes == ASSUME CoverInv, TypeInv, NEW p \in Publishers, Crash(p) PROVE Types(p)
<1>1. Sets(p, "idle", NoMem, NoIo)
  BY DEF Crash, Goto, Know, CoverInv, Shape, Sets
<1>2. Placed("idle", NoMem, NoIo)
  BY DEF Placed, NoIo
<1>3. crashes' \in 0..MaxCrashes
  BY RowsAssumption DEF Crash, TypeInv, DiskTyped
<1> QED
  BY <1>1, <1>2, <1>3, SameDisk, TypesStep DEF Crash

LEMMA TypeInit == Init => TypeInv
BY RowsAssumption DEF Init, TypeInv, DiskTyped, Placed, NoIo

LEMMA TypeNext == CoverInv /\ TypeInv /\ [Next]_vars => TypeInv'
<1> SUFFICES ASSUME CoverInv, TypeInv, [Next]_vars PROVE TypeInv'
  OBVIOUS
<1>1. CASE UNCHANGED vars
  BY <1>1 DEF vars, TypeInv, DiskTyped, Placed, Kept
<1>2. CASE Next
  BY <1>2, StartTypes, CrashTypes, WorkTypes DEF Next, Types
<1> QED
  BY <1>1, <1>2

LEMMA TypesAre == TypeInv => TypeOK
BY DEF TypeInv, DiskTyped, Placed, TypeOK

\* The row publisher is typed, whichever publishers run or die.
THEOREM RowsTypeCorrect == Spec => []TypeOK
BY CoverInit, CoverNext, TypeInit, TypeNext, TypesAre, PTL DEF Spec

----------------------------------------------------------------------------
(* One publisher at a time, in every step.                                 *)

\* Wherever the process dies, the disk is at rest.
LEMMA StandingRests == ASSUME NEW p, Here(p) PROVE Rest
<1>1. CASE pc[p] \notin Anywhere
  BY <1>1, HereAt
<1>2. CASE pc[p] \in {"recover", "names"}
  BY <1>2 DEF Here, Standing, Stands
<1>3. CASE pc[p] = "io"
  <2> SUFFICES ASSUME NEW w, w = io[p] PROVE Rest
    OBVIOUS
  <2>1. Progress(p, w) /\ (WritesFile(w) \/ WritesPart(w))
    BY <1>3 DEF Here, Standing, Stands
  <2>2. w.step # "none"
    BY <2>1 DEF Progress
  <2>3. CASE WritesPart(w)
    <3>1. /\ w.target \in AllParts /\ w.was = None /\ w.target \notin StateFiles
          /\ stage # None /\ file["journal"] # None /\ file["journal"].state = "prepared"
      BY <2>2, <2>3, PartHere, PartIs
    <3>2. Accounts(file)
      <4>1. PICK n \in 1..3 : At(Parts[n], w.mem, file)
        BY <2>2, <2>3, PartHere
      <4> QED
        BY <4>1 DEF At
    <3>3. \A t \in temps : t.target \in AllParts
      BY <2>1, <3>1 DEF Progress, Left
    <3> QED
      BY <3>1, <3>2, <3>3 DEF Rest, Clean
  <2>4. CASE WritesFile(w)
    <3> DEFINE f == w.target
    <3>1. /\ f \in StateFiles /\ file["receipt"] = None /\ Accounts(With(f, w.was))
          /\ Accounts(With(f, w.val))
      BY <2>4 DEF WritesFile, At
    <3>2. /\ file[f] = w.was => Accounts(file)
          /\ file[f] = w.val => Accounts(file)
      BY <3>1, ShapeHere, WithIs, SameAccounts
    <3>3. \A t \in temps : /\ t.target = f /\ t.kind \in {"tmp", "replaced"}
                           /\ t.val = Torn \/ Accounts(With(f, t.val))
                           /\ t.kind = "replaced" => Accounts(With(f, t.val)) /\ t.val # None
      BY <2>1, <3>1 DEF Progress, Left
    <3>4. CASE temps = {}
      <4>1. file[f] = w.was
        BY <2>1, <3>1, <3>4 DEF Progress
      <4> QED
        BY <3>2, <3>4, <4>1 DEF Rest, Clean
    <3>5. CASE temps # {}
      <4>1. Accounts(file) \/ (file[f] = None /\ \E t \in temps : t.kind = "replaced")
        <5>1. \/ file[f] = w.was \/ file[f] = w.val
              \/ file[f] = None /\ Left(p, w, w.was, "replaced") \in temps
          BY <2>1, <3>1 DEF Progress
        <5>2. Left(p, w, w.was, "replaced").kind = "replaced"
          BY DEF Left
        <5> QED
          BY <3>2, <5>1, <5>2
      <4>2. Broken
        BY <3>1, <3>3, <3>5, <4>1 DEF Broken
      <4> QED
        BY <4>2 DEF Rest
    <3> QED
      BY <3>4, <3>5
  <2> QED
    BY <2>1, <2>3, <2>4
<1> QED
  BY <1>1, <1>2, <1>3 DEF Anywhere

LEMMA WorkActive ==
    ASSUME CoverInv, TypeInv, NEW p \in Publishers, Work(p) PROVE Active(p)
<1>1. CASE Recover(p) \/ Preflight(p)
  BY <1>1 DEF Recover, Preflight, ReadNames, ReadFresh, ReadLedger, ReadCheckpoint, ReadJournal,
     ReadTree, Active, Idle
<1>2. CASE Publish(p)
  BY <1>2 DEF Publish, MakeRows, MakeStaging, InitialLedger, InitialCheckpoint, RepairCheckpoint,
     NextRow, Manifest, Receipt, Active, Idle
<1>3. CASE RowTransaction(p)
  <2>1. Parts[1] \notin Idle /\ Parts[2] \notin Idle /\ Parts[3] \notin Idle
    BY DEF Parts, Idle
  <2>2. WritePart(p) => pc[p] \notin Idle
    BY <2>1 DEF WritePart
  <2> QED
    BY <1>3, <2>2 DEF RowTransaction, Resume, ClearStage, MakeStage, Seal, JournalStaged, Commit,
       Rename, JournalCommitted, CloseLedger, JournalLedger, CloseCheckpoint, JournalCheckpoint,
       DropJournal, UnlinkJournal, Active, Idle
<1>4. CASE DurableWrite(p)
  <2>1. io[p].step # "none"
    BY <1>4 DEF DurableWrite, IoCreate, IoFlush, IoPublish, IoCompare, IoSwap, IoAside,
       IoFill, IoDrop
  <2> QED
    BY <2>1, WriteTyped DEF Active, Idle
<1> QED
  BY <1>1, <1>2, <1>3, <1>4 DEF Work

LEMMA AloneHere ==
    ASSUME CoverInv, AloneInv, NEW p \in Publishers, Active(p)
    PROVE  Here(p) /\ \A q \in Publishers \ {p} : ~ Active(q)
BY DEF AloneInv, Here

LEMMA WorkStays ==
    ASSUME CoverInv, TypeInv, AloneInv, NEW p \in Publishers, Work(p) PROVE AloneInv'
<1>1. Types(p)
  BY WorkTypes
<1>3. Here(p) /\ \A q \in Publishers \ {p} : ~ Active(q)
  BY WorkActive, AloneHere
<1>4. After(p)
  BY <1>3, WorkAlone
<1>5. \A q \in Publishers \ {p} : ~ Active(q)'
  BY <1>1, <1>3 DEF Types, Active
<1> QED
  BY <1>4, <1>5 DEF After, AloneInv

LEMMA StartStays ==
    ASSUME CoverInv, TypeInv, AloneInv, NEW p \in Publishers, Start(p) PROVE AloneInv'
<1> DEFINE l == IF Exchange THEN "names" ELSE "recover"
<1>1. /\ pc' = [pc EXCEPT ![p] = l] /\ mem' = [mem EXCEPT ![p] = NoMem] /\ io' = io
      /\ Still /\ file' = file /\ temps' = temps /\ mode' = mode
  BY DEF Start, Goto, Know, disk, Still
<1>3. \A q \in Publishers : ~ Active(q)
  BY DEF Start
<1>4. Rest'
  BY <1>1, <1>3, RestStill DEF AloneInv
<1>5. io[p].step = "none"
  BY <1>3 DEF TypeInv, Placed, Active, Idle
<1>6. pc'[p] = l /\ mem'[p] = NoMem /\ \A q \in Publishers \ {p} : pc'[q] = pc[q]
  BY <1>1 DEF CoverInv, Shape
<1>7. ASSUME NEW w, w = io[p], NEW k, k = l PROVE Standing(p)'
  <2>1. Stands(p, k, NoMem, w)'
    BY <1>1, <1>4, <1>5, <1>7 DEF Stands, Places, Anywhere, Surveying, Exchange
  <2> QED
    BY <1>1, <1>6, <1>7, <2>1, StandsThen
<1>8. \A q \in Publishers : Active(q)' <=> q = p
  BY <1>3, <1>6 DEF Active, Idle
<1> QED
  BY <1>7, <1>8 DEF AloneInv

LEMMA CrashStays ==
    ASSUME CoverInv, TypeInv, AloneInv, NEW p \in Publishers, Crash(p) PROVE AloneInv'
<1>1. /\ pc' = [pc EXCEPT ![p] = "idle"] /\ Active(p)
      /\ Still /\ file' = file /\ temps' = temps /\ mode' = mode
  BY DEF Crash, Goto, Know, disk, Still
<1>3. Here(p) /\ \A q \in Publishers \ {p} : ~ Active(q)
  BY <1>1, AloneHere
<1>4. Rest'
  BY <1>1, <1>3, StandingRests, RestStill
<1>5. \A q \in Publishers : ~ Active(q)'
  BY <1>1, <1>3 DEF Active, Idle, CoverInv, Shape
<1> QED
  BY <1>4, <1>5 DEF AloneInv

\* Nothing of the row layer changes.
LEMMA IdleStays ==
    ASSUME AloneInv, UNCHANGED <<mode, plan, file, stage, rows, temps, pc, mem, io>>
    PROVE  AloneInv'
<1>1. Still
  BY DEF Still
<1>2. Rest => Rest'
  BY <1>1, RestStill
<1>3. Clean => Clean'
  BY <1>1, StillAccounts DEF Clean, Still
<1>4. ASSUME NEW p \in Publishers, Standing(p) PROVE Standing(p)'
  <2>1. ASSUME NEW l, l = pc[p], NEW m, m = mem[p], NEW w, w = io[p] PROVE Standing(p)'
    <3>1. At(l, m, file) => At(l, m, file)'
      BY <1>1, StillAt
    <3>2. Progress(p, w) => Progress(p, w)'
      BY DEF Progress, Left, Exchange
    <3>3. \A f, v : With(f, v)' = With(f, v)
      BY DEF With
    <3>4. WritesFile(w) => WritesFile(w)'
      <4>1. Accounts(With(w.target, w.was)) => Accounts(With(w.target, w.was))'
        BY <1>1, <3>3, StillAccounts
      <4>2. At(w.then, w.mem, With(w.target, w.val)) => At(w.then, w.mem, With(w.target, w.val))'
        BY <1>1, <3>3, StillAt
      <4> QED
        BY <4>1, <4>2 DEF WritesFile, Ledger
    <3>5. WritesPart(w) => WritesPart(w)'
      <4>1. \A k : At(k, w.mem, file) => At(k, w.mem, file)'
        BY <1>1, StillAt
      <4> QED
        BY <4>1 DEF WritesPart, Parts
    <3>6. Stands(p, l, m, w)'
      BY <1>2, <1>3, <1>4, <2>1, <3>1, <3>2, <3>4, <3>5 DEF Standing, Stands, Exchange
    <3> QED
      BY <2>1, <3>6, StandsThen
  <2> QED
    BY <2>1
<1>5. \A p : Active(p)' <=> Active(p)
  BY DEF Active
<1> QED
  BY <1>2, <1>4, <1>5 DEF AloneInv

LEMMA AloneInit == Init => AloneInv
<1> SUFFICES ASSUME Init PROVE AloneInv
  OBVIOUS
<1>1. Unbegun(file)
  BY DEF Init, Unbegun, RowsAre
<1>2. Rest
  BY <1>1 DEF Init, Rest, Clean, Accounts
<1> QED
  BY <1>2 DEF AloneInv, Init, Active, Idle

LEMMA AloneNext == CoverInv /\ TypeInv /\ AloneInv /\ [Next]_vars => AloneInv'
<1> SUFFICES ASSUME CoverInv, TypeInv, AloneInv, [Next]_vars PROVE AloneInv'
  OBVIOUS
<1>1. CASE UNCHANGED vars
  BY <1>1, IdleStays DEF vars, disk
<1>2. CASE Next
  BY <1>2, StartStays, CrashStays, WorkStays DEF Next
<1> QED
  BY <1>1, <1>2

----------------------------------------------------------------------------
(* What one publisher at a time keeps true of the rows and the ledger.     *)

LEMMA AlwaysRests ==
    ASSUME CoverInv, AloneInv PROVE Rest
<1>1. CASE \A p \in Publishers : ~ Active(p)
  BY <1>1 DEF AloneInv
<1>2. CASE \E p \in Publishers : Active(p)
  BY <1>2, AloneHere, StandingRests
<1> QED
  BY <1>1, <1>2

Aside == {t.val : t \in {u \in temps : u.target = "ledger" /\ u.kind = "replaced"}}

LEMMA OnDisk ==
    /\ file["ledger"] # None => LedgerOnDisk = file["ledger"]
    /\ (file["ledger"] = None /\ Aside = {}) => LedgerOnDisk = Ledger(0)
    /\ (file["ledger"] = None /\ Aside # {}) => LedgerOnDisk \in Aside
<1>1. Aside # {} => (CHOOSE l \in Aside : TRUE) \in Aside
  OBVIOUS
<1> QED
  BY <1>1 DEF LedgerOnDisk, Aside

\* The state files the disk stands for, with what a write set aside.
LEMMA DiskStandsFor ==
    ASSUME DOMAIN file = StateFiles, Rest
    PROVE  \E g : /\ Accounts(g)
                  /\ LedgerOnDisk = IF g["ledger"] # None THEN g["ledger"] ELSE Ledger(0)
                  /\ g["journal"] \in {file["journal"]} \cup {t.val : t \in Residue("replaced")}
<1> USE NamesAre
<1>1. CASE Clean
  <2>1. Aside = {} /\ Accounts(file)
    BY <1>1 DEF Clean, Aside
  <2> QED
    BY <2>1, OnDisk
<1>2. CASE Broken
  <2>1. PICK f \in StateFiles :
          /\ \A t \in temps : /\ t.target = f
                              /\ t.kind = "replaced" => Accounts(With(f, t.val)) /\ t.val # None
          /\ Accounts(file) \/ (file[f] = None /\ \E t \in temps : t.kind = "replaced")
    BY <1>2 DEF Broken
  <2>2. CASE f = "ledger" /\ file["ledger"] = None /\ Aside # {}
    <3>1. PICK t \in temps : t.kind = "replaced" /\ LedgerOnDisk = t.val
      BY <2>2, OnDisk DEF Aside
    <3>2. /\ Accounts(With("ledger", t.val)) /\ With("ledger", t.val)["ledger"] = t.val
          /\ With("ledger", t.val)["journal"] = file["journal"] /\ t.val # None
      BY <2>1, <2>2, <3>1, WithIs
    <3> QED
      BY <3>1, <3>2
  <2>3. CASE Accounts(file) /\ (file["ledger"] # None \/ Aside = {})
    BY <2>3, OnDisk
  <2>4. CASE f # "ledger" /\ ~ Accounts(file)
    <3>1. PICK t \in temps : t.kind = "replaced" /\ Accounts(With(f, t.val)) /\ t.target = f
      BY <2>1, <2>4
    <3>2. Aside = {}
      BY <2>1, <2>4 DEF Aside
    <3>3. With(f, t.val)["ledger"] = file["ledger"]
      BY <2>4, WithIs
    <3>4. With(f, t.val)["journal"] \in {file["journal"]} \cup {u.val : u \in Residue("replaced")}
      <4>1. CASE f = "journal"
        BY <3>1, <4>1, WithIs DEF Residue
      <4>2. CASE f # "journal"
        BY <4>2, WithIs
      <4> QED
        BY <4>1, <4>2
    <3> QED
      BY <3>1, <3>2, <3>3, <3>4, OnDisk
  <2>5. f # "ledger" => Aside = {}
    BY <2>1 DEF Aside
  <2>6. (f = "ledger" /\ ~ Accounts(file)) => file["ledger"] = None /\ Aside # {}
    BY <2>1 DEF Aside
  <2> QED
    BY <2>2, <2>3, <2>4, <2>5, <2>6
<1> QED
  BY <1>1, <1>2 DEF Rest

LEMMA OneAhead ==
    ASSUME CoverInv, AloneInv PROVE OneRowAhead
<1>1. /\ DOMAIN file = StateFiles /\ plan.n \in Nat /\ plan.kept \subseteq 1..plan.n
  BY DEF CoverInv, Shape, DiskGood
<1>2. PICK g : /\ Accounts(g)
               /\ LedgerOnDisk = IF g["ledger"] # None THEN g["ledger"] ELSE Ledger(0)
               /\ g["journal"] \in {file["journal"]} \cup {t.val : t \in Residue("replaced")}
  BY <1>1, AlwaysRests, DiskStandsFor
<1>3. CASE Unbegun(g)
  BY <1>3 DEF Unbegun, RowsAre, OneRowAhead
<1>4. CASE g["ledger"] # None /\ Settled(g)
  BY <1>1, <1>2, <1>4, LedgerThere DEF Settled, RowsAre, OneRowAhead, Due
<1>5. CASE g["ledger"] # None /\ g["journal"] # None /\ Open(g)
  <2> DEFINE j == g["journal"]
             k == j.row
  <2>1. k \in 1..plan.n /\ j = Journal(k, j.state) /\ j.state \in JournalStates
    BY <1>5, StatesAre DEF Open
  <2>2. j \notin {None, Torn}
    <3>1. Journal(k, j.state) \notin {None, Torn}
      BY <1>1, <2>1, JournalIs
    <3> QED
      BY <2>1, <3>1
  <2>3. DOMAIN rows \subseteq Due(k) /\ g["ledger"].closed \in {k - 1, k}
    <3>1. DOMAIN rows = Due(k) \/ DOMAIN rows = Due(k - 1)
      BY <1>5 DEF Open, RowsAre
    <3>2. g["ledger"] = Ledger(k - 1) \/ g["ledger"] = LedgerAt(k)
      BY <1>5 DEF Open, Before, Behind
    <3> QED
      BY <1>1, <2>1, <3>1, <3>2, LedgerIs DEF Due
  <2>4. ASSUME NEW i \in DOMAIN rows, i > LedgerOnDisk.closed
        PROVE  i = LedgerOnDisk.closed + 1 /\ i = k
    BY <1>1, <1>2, <1>5, <2>1, <2>3, <2>4 DEF Due
  <2> QED
    BY <1>2, <2>2, <2>4 DEF OneRowAhead
<1> QED
  BY <1>2, <1>3, <1>4, <1>5 DEF Accounts

\* A run with its receipt is settled.
LEMMA Sealed ==
    ASSUME CoverInv, AloneInv, file["receipt"] # None
    PROVE  /\ Clean /\ Settled(file) /\ temps = {} /\ file["journal"] = None
           /\ file["ledger"] = FinalLedger /\ file["ledger"] # None
           /\ file["checkpoint"] = FinalLedger /\ file["manifest"] = plan.kept
           /\ plan.kept # None
<1>1. /\ plan.n \in Nat /\ plan.n <= MaxRows /\ plan.kept \subseteq 1..plan.n
  BY DEF CoverInv, Shape
<1>2. Clean
  BY AlwaysRests DEF Rest, Broken
<1>3. Settled(file) /\ file["journal"] = None /\ file["ledger"] # None
  BY <1>2, NamesAre DEF Clean, Accounts, Unbegun, Open
<1>4. plan.kept # None
  BY <1>1, RowsAssumption, ValuesAssumption
<1> QED
  BY <1>2, <1>3, <1>4 DEF Settled, Clean

LEMMA SealsTree ==
    ASSUME CoverInv, AloneInv PROVE ReceiptSealsTree
<1> SUFFICES ASSUME file["receipt"] # None PROVE ReceiptSealsTree
  BY DEF ReceiptSealsTree
<1>1. /\ Settled(file) /\ file["journal"] = None /\ file["ledger"] = FinalLedger
      /\ file["checkpoint"] = FinalLedger /\ file["manifest"] = plan.kept
  BY Sealed
<1>2. RowsAre(Due(plan.n)) /\ stage = None
  BY <1>1, LedgerIs DEF Settled
<1>3. Due(plan.n) = plan.kept
  BY DEF CoverInv, Shape, Due
<1>4. file["receipt"] = [ledger |-> FinalLedger, tree |-> Tree]
  BY <1>1 DEF Settled, Tree
<1> QED
  BY <1>1, <1>2, <1>3, <1>4 DEF ReceiptSealsTree, RowsAre

----------------------------------------------------------------------------
(* What one publisher at a time never does.                                *)

LEMMA LedgerType == ASSUME CoverInv PROVE LedgerOnDisk.closed \in Nat
<1>1. \A l \in Aside : Good(l)
  BY DEF CoverInv, DiskGood, LedgersGood, Aside
<1>2. Good(LedgerOnDisk)
  BY <1>1, OnDisk, EmptyGood DEF CoverInv, DiskGood, LedgersGood
<1> QED
  BY <1>2 DEF Good

LEMMA SameLedger ==
    ASSUME CoverInv, file'["ledger"] = file["ledger"],
           \A t : t.target = "ledger" /\ t.kind = "replaced" => (t \in temps' <=> t \in temps)
    PROVE  LedgerOnDisk.closed <= LedgerOnDisk'.closed
<1>1. Aside' = Aside
  BY DEF Aside
<1>2. LedgerOnDisk' = LedgerOnDisk
  BY <1>1 DEF LedgerOnDisk, Aside, Ledger
<1> QED
  BY <1>2, LedgerType

\* Steps outside the durable writes do not touch the ledger.
LEMMA LedgerUntouched ==
    ASSUME CoverInv, NEW p \in Publishers,
           Start(p) \/ Crash(p) \/ Preflight(p) \/ Publish(p) \/ RowTransaction(p)
    PROVE  file'["ledger"] = file["ledger"] /\ temps' = temps
<1> USE DEF disk, Read, Refuse, Write
<1>1. CASE Start(p) \/ Crash(p)
  BY <1>1 DEF Start, Crash
<1>2. CASE Preflight(p)
  BY <1>2 DEF Preflight, ReadNames, ReadFresh, ReadLedger, ReadCheckpoint, ReadJournal, ReadTree
<1>3. CASE Publish(p)
  BY <1>3 DEF Publish, MakeRows, MakeStaging, MakeDir, InitialLedger, InitialCheckpoint,
     RepairCheckpoint, NextRow, Manifest, Receipt, CreateOrEqual
<1>4. CASE RowTransaction(p)
  <2>1. CASE UnlinkJournal(p)
    BY <2>1 DEF UnlinkJournal, CoverInv, DiskGood, StateFiles
  <2>2. CASE ClearStage(p) \/ MakeStage(p) \/ Rename(p) \/ WritePart(p)
    BY <2>2 DEF ClearStage, MakeStage, Rename, WritePart
  <2> QED
    BY <1>4, <2>1, <2>2 DEF RowTransaction, Resume, Seal, JournalStaged, Commit,
       JournalCommitted, CloseLedger, JournalLedger, CloseCheckpoint, JournalCheckpoint,
       DropJournal, Advance
<1> QED
  BY <1>1, <1>2, <1>3, <1>4

LEMMA LedgerWritten ==
    ASSUME NEW p, Here(p), DurableWrite(p), io[p].target = "ledger"
    PROVE  LedgerOnDisk.closed <= LedgerOnDisk'.closed
<1> DEFINE w == io[p]
           tmp(v) == Temp(p, v, "tmp")
           old == Temp(p, w.was, "replaced")
<1>0. w.step # "none" /\ CoverInv
  BY DEF DurableWrite, IoCreate, IoFlush, IoPublish, IoCompare, IoSwap, IoAside, IoFill,
     IoDrop, Here
<1>1. /\ WritesFile(w) /\ Progress(p, w)
      /\ IF w.was = None THEN w.val = Ledger(0) ELSE w.val # None /\ w.was.closed <= w.val.closed
  BY <1>0, WriteHere, PartHere, NamesAre DEF WritesFile
<1>2. /\ \A v : tmp(v).kind = "tmp" /\ tmp(v).target = "ledger" /\ tmp(v).val = v
      /\ old.kind = "replaced" /\ old.target = "ledger" /\ old.val = w.was
  BY DEF Temp
<1> HIDE DEF tmp, old
<1>3. CASE Refuse(p)
  BY <1>0, <1>3, SameLedger DEF Refuse, disk
<1>4. CASE ~ Refuse(p) /\ (IoCreate(p) \/ IoFlush(p) \/ IoCompare(p))
  <2>1. file' = file /\ \A t : t.kind = "replaced" => (t \in temps' <=> t \in temps)
    BY <1>2, <1>4 DEF IoCreate, IoFlush, IoCompare, disk, tmp
  <2> QED
    BY <1>0, <2>1, SameLedger
<1>5. CASE ~ Refuse(p) /\ IoPublish(p)
  <2>1. /\ file' = With("ledger", w.val) /\ temps = {tmp(w.val)} /\ w.was = None
        /\ file["ledger"] = None
    BY <1>1, <1>5, LeftIs, NamesAre DEF IoPublish, Put, With, Progress, tmp
  <2>2. Aside = {} /\ LedgerOnDisk = Ledger(0)
    BY <1>2, <2>1, OnDisk DEF Aside
  <2>3. file'["ledger"] = Ledger(0) /\ Ledger(0) # None
    BY <1>1, <2>1, ShapeHere, WithIs, NamesAre, LedgerIs
  <2>4. LedgerOnDisk' = Ledger(0)
    BY <2>3 DEF LedgerOnDisk
  <2> QED
    BY <2>2, <2>4, LedgerIs
<1>6. CASE ~ Refuse(p) /\ IoSwap(p)
  <2>1. /\ file' = With("ledger", w.val) /\ file["ledger"] = w.was /\ w.was # None
    BY <1>1, <1>6, NamesAre DEF IoSwap, Put, With, Progress
  <2>2. LedgerOnDisk = w.was
    BY <2>1, OnDisk
  <2>3. file'["ledger"] = w.val /\ w.val # None
    BY <1>1, <2>1, ShapeHere, WithIs, NamesAre
  <2>4. LedgerOnDisk' = w.val
    BY <2>3 DEF LedgerOnDisk
  <2> QED
    BY <1>1, <2>1, <2>2, <2>4
<1>7. CASE ~ Refuse(p) /\ IoAside(p)
  <2>1. /\ file' = With("ledger", None) /\ file["ledger"] = w.was /\ w.was # None
        /\ temps' = {tmp(w.val), old}
    BY <1>1, <1>7, LeftIs, NamesAre DEF IoAside, With, Progress, tmp, old
  <2>2. LedgerOnDisk = w.was
    BY <2>1, OnDisk
  <2>3. file'["ledger"] = None
    BY <2>1, ShapeHere, WithIs, NamesAre
  <2>4. ASSUME NEW v, v = w.was PROVE LedgerOnDisk' = v
    <3>1. {t.val : t \in {u \in temps' : u.target = "ledger" /\ u.kind = "replaced"}} = {v}
      BY <1>2, <2>1, <2>4
    <3> QED
      BY <2>3, <3>1 DEF LedgerOnDisk
  <2> QED
    BY <1>0, <2>2, <2>4, LedgerType
<1>8. CASE ~ Refuse(p) /\ IoFill(p)
  <2>1. /\ file' = With("ledger", w.val) /\ file["ledger"] = None /\ w.was # None
        /\ temps = {tmp(w.val), old}
    BY <1>1, <1>8, LeftIs, NamesAre DEF IoFill, Put, With, Progress, tmp, old
  <2>2. LedgerOnDisk = w.was
    <3>1. Aside = {w.was}
      BY <1>2, <2>1 DEF Aside
    <3> QED
      BY <2>1, <3>1, OnDisk
  <2>3. file'["ledger"] = w.val /\ w.val # None
    BY <1>1, <2>1, ShapeHere, WithIs, NamesAre
  <2>4. LedgerOnDisk' = w.val
    BY <2>3 DEF LedgerOnDisk
  <2> QED
    BY <1>1, <2>1, <2>2, <2>4
<1>9. CASE ~ Refuse(p) /\ IoDrop(p)
  <2>1. file' = file /\ file["ledger"] = w.val /\ w.was # None
    BY <1>1, <1>9 DEF IoDrop, Progress
  <2>2. file["ledger"] # None
    BY <1>1, <2>1
  <2>3. LedgerOnDisk' = file["ledger"] /\ LedgerOnDisk = file["ledger"]
    BY <2>1, <2>2 DEF LedgerOnDisk
  <2> QED
    BY <1>0, <2>3, LedgerType
<1> QED
  BY <1>3, <1>4, <1>5, <1>6, <1>7, <1>8, <1>9 DEF DurableWrite

\* Durable writes of other files leave the ledger where it is.
LEMMA LedgerKept ==
    ASSUME CoverInv, TypeInv, NEW p \in Publishers, DurableWrite(p), io[p].target # "ledger"
    PROVE  LedgerOnDisk.closed <= LedgerOnDisk'.closed
<1>1. /\ \A v, k : Temp(p, v, k).target # "ledger"
      /\ DOMAIN file = StateFiles /\ "ledger" \in StateFiles
  BY DEF Temp, CoverInv, DiskGood, StateFiles
<1>2. file'["ledger"] = file["ledger"]
  BY <1>1 DEF DurableWrite, IoCreate, IoFlush, IoPublish, IoCompare, IoSwap, IoAside, IoFill,
     IoDrop, Put, Refuse, disk
<1>3. \A t : t.target = "ledger" => (t \in temps' <=> t \in temps)
  BY <1>1 DEF DurableWrite, IoCreate, IoFlush, IoPublish, IoCompare, IoSwap, IoAside, IoFill,
     IoDrop, Refuse, disk
<1> QED
  BY <1>2, <1>3, SameLedger

LEMMA LedgerForward ==
    ASSUME CoverInv, TypeInv, AloneInv, [Next]_vars
    PROVE  LedgerOnDisk.closed <= LedgerOnDisk'.closed
<1>1. CASE UNCHANGED vars
  BY <1>1, SameLedger DEF vars
<1>2. ASSUME NEW p \in Publishers, Start(p) \/ Crash(p) \/ Work(p)
      PROVE  LedgerOnDisk.closed <= LedgerOnDisk'.closed
  <2>1. CASE Start(p) \/ Crash(p) \/ Preflight(p) \/ Publish(p) \/ RowTransaction(p)
    BY <2>1, LedgerUntouched, SameLedger
  <2>2. CASE Recover(p)
    <3>1. CASE Refuse(p)
      BY <3>1, SameLedger DEF Refuse, disk
    <3>2. CASE Residue("replaced") = {} /\ Residue("tmp") = {}
      BY <2>2, <3>2, SameLedger DEF Recover, Read, Refuse, disk
    <3>3. CASE ~ Refuse(p) /\ ~ (Residue("replaced") = {} /\ Residue("tmp") = {})
      <4>1. \A t \in Residue("replaced") \cup Residue("tmp") : t.target = "journal"
        BY DEF Residue
      <4>2. file'["ledger"] = file["ledger"]
            /\ \A t : t.target = "ledger" => (t \in temps' <=> t \in temps)
        BY <2>2, <3>3, <4>1, RecoverPass DEF CoverInv, DiskGood, StateFiles
      <4> QED
        BY <4>2, SameLedger
    <3> QED
      BY <3>1, <3>2, <3>3
  <2>3. CASE DurableWrite(p)
    <3>1. Here(p)
      BY <2>3, WorkActive, AloneHere DEF Work
    <3> QED
      BY <2>3, <3>1, LedgerWritten, LedgerKept
  <2> QED
    BY <1>2, <2>1, <2>2, <2>3 DEF Work
<1> QED
  BY <1>1, <1>2 DEF Next

LEMMA TransactionPlace ==
    ASSUME NEW p, RowTransaction(p) PROVE pc[p] \in Transacting
<1>1. WritePart(p) => pc[p] \in Transacting
  BY PartIs DEF WritePart
<1> QED
  BY <1>1 DEF RowTransaction, Resume, ClearStage, MakeStage, Seal, JournalStaged, Commit, Rename,
     JournalCommitted, CloseLedger, JournalLedger, CloseCheckpoint, JournalCheckpoint, DropJournal,
     UnlinkJournal, Transacting

\* A sealed run is only read.
LEMMA SealedUntouched ==
    ASSUME CoverInv, TypeInv, AloneInv, file["receipt"] # None, [Next]_vars
    PROVE  UNCHANGED disk
<1> USE DEF disk, Read, Refuse
<1>1. /\ Settled(file) /\ temps = {} /\ file["ledger"] = FinalLedger /\ file["ledger"] # None
      /\ file["checkpoint"] = FinalLedger /\ file["manifest"] = plan.kept /\ plan.kept # None
      /\ file["journal"] = None
  BY Sealed
<1>2. ASSUME NEW p \in Publishers, Work(p) PROVE UNCHANGED disk
  <2>1. Here(p)
    BY <1>2, WorkActive, AloneHere
  <2>2. pc[p] \notin Transacting
    BY <2>1, RowHere
  <2>3. io[p].step = "none"
    <3>1. WritesFile(io[p]) => file["receipt"] = None
      BY DEF WritesFile
    <3>2. (io[p].step # "none" /\ WritesPart(io[p])) => file["receipt"] = None
      BY <2>1, PartHere
    <3> QED
      BY <2>1, <3>1, <3>2, WriteHere
  <2>4. pc[p] \notin Beginning \cup {"init_checkpoint"}
    <3>1. pc[p] \notin Anywhere => At(pc[p], mem[p], file)
      BY <2>1, HereAt
    <3>2. FinalLedger # Ledger(0)
      BY LedgerIs
    <3>3. ~ Unbegun(file)
      BY <1>1, NamesAre DEF Unbegun
    <3> QED
      BY <1>1, <3>1, <3>2, <3>3 DEF At, AtBeginning, Anywhere, Beginning
  <2>5. CASE Recover(p)
    <3>1. Residue("replaced") = {} /\ Residue("tmp") = {}
      BY <1>1 DEF Residue
    <3> QED
      BY <2>5, <3>1 DEF Recover
  <2>6. CASE Preflight(p)
    BY <2>6 DEF Preflight, ReadNames, ReadFresh, ReadLedger, ReadCheckpoint, ReadJournal, ReadTree
  <2>7. CASE Publish(p)
    <3>1. pc[p] \in Settling
      BY <2>4, <2>7 DEF Publish, MakeRows, MakeStaging, InitialLedger, InitialCheckpoint,
         RepairCheckpoint, NextRow, Manifest, Receipt, Beginning, Settling
    <3>2. /\ mem[p].ledger = FinalLedger
          /\ pc[p] = "repair" => mem[p].chk = "current"
      BY <1>1, <2>1, <3>1, SettledHere DEF AtSettling, Match
    <3>3. CASE RepairCheckpoint(p)
      BY <3>2, <3>3 DEF RepairCheckpoint
    <3>4. CASE NextRow(p)
      <4>1. ~ mem[p].ledger.closed < plan.n /\ mem[p].ledger.complete
        BY <2>1, <3>2, ShapeHere, LedgerIs
      <4> QED
        BY <3>4, <4>1 DEF NextRow
    <3>5. CASE Manifest(p)
      BY <1>1, <3>5 DEF Manifest, CreateOrEqual
    <3>6. CASE Receipt(p)
      BY <3>6 DEF Receipt, CreateOrEqual
    <3> QED
      BY <2>4, <2>7, <3>3, <3>4, <3>5, <3>6 DEF Publish, MakeRows, MakeStaging, InitialLedger,
         InitialCheckpoint, Beginning
  <2>8. CASE RowTransaction(p)
    BY <2>2, <2>8, TransactionPlace
  <2>9. CASE DurableWrite(p)
    BY <2>3, <2>9 DEF DurableWrite, IoCreate, IoFlush, IoPublish, IoCompare, IoSwap, IoAside,
       IoFill, IoDrop
  <2> QED
    BY <1>2, <2>5, <2>6, <2>7, <2>8, <2>9 DEF Work
<1>3. CASE UNCHANGED vars
  BY <1>3 DEF vars
<1>4. CASE Next
  BY <1>2, <1>4 DEF Next, Start, Crash
<1> QED
  BY <1>3, <1>4

LEMMA InvariantOfRows == Spec => [](CoverInv /\ TypeInv /\ AloneInv)
BY CoverInit, CoverNext, TypeInit, TypeNext, AloneInit, AloneNext, PTL DEF Spec

\* OneRowAhead, ReceiptSealsTree: at every moment, whatever deaths come between
\* two file-system operations.
THEOREM RowsAndReceipt == Spec => [](OneRowAhead /\ ReceiptSealsTree)
<1>1. CoverInv /\ TypeInv /\ AloneInv => OneRowAhead /\ ReceiptSealsTree
  BY OneAhead, SealsTree
<1> QED
  BY <1>1, InvariantOfRows, PTL

\* LedgerNeverGoesBack: likewise, no step takes a closed row from the source ledger.
THEOREM LedgerOnlyGrows == Spec => LedgerNeverGoesBack
<1>1. CoverInv /\ TypeInv /\ AloneInv /\ [Next]_vars
        => LedgerOnDisk.closed <= LedgerOnDisk'.closed
  BY LedgerForward
<1> QED
  BY <1>1, InvariantOfRows, PTL DEF Spec, LedgerNeverGoesBack

\* SealedRunIsClosed (AcquireRun), the part of the row layer: behind its receipt
\* the run is only read.
THEOREM ReceiptIsFinal == Spec => [][file["receipt"] # None => UNCHANGED disk]_vars
<1>1. CoverInv /\ TypeInv /\ AloneInv /\ [Next]_vars
        => (file["receipt"] # None => UNCHANGED disk)
  BY SealedUntouched
<1> QED
  BY <1>1, InvariantOfRows, PTL DEF Spec

\* RefusedOverResidue: the inventory accepts every state that publishers, dying
\* between two file-system operations, leave to the next; only a temporary of a
\* durable write stands in its way.
THEOREM OnlyResidueStops == Spec => RefusedOverResidue
<1> DEFINE Caused ==
      \A p \in Publishers : pc[p] # "refused" /\ pc'[p] = "refused" => temps' # {}
<1>1. ASSUME CoverInv, TypeInv, AloneInv, NEW p \in Publishers, NEW q \in Publishers,
             Start(p) \/ Crash(p) \/ Work(p), pc[q] # "refused", pc'[q] = "refused"
      PROVE  temps' # {}
  <2>1. DOMAIN pc = Publishers
    BY <1>1 DEF CoverInv, Shape
  <2>2. ~ Start(p) /\ ~ Crash(p)
    BY <1>1, <2>1 DEF Start, Crash, Goto
  <2>3. Here(p) /\ Work(p)
    BY <1>1, <2>2, WorkActive, AloneHere
  <2>4. q = p /\ After(p)
    BY <1>1, <2>3, WorkTypes, WorkAlone DEF Types
  <2> QED
    BY <1>1, <2>4 DEF After
<1>2. CoverInv /\ TypeInv /\ AloneInv /\ [Next]_vars => [Caused]_vars
  <2>1. ASSUME CoverInv, TypeInv, AloneInv, Next PROVE Caused
    BY <1>1, <2>1 DEF Next
  <2> HIDE DEF Caused
  <2> QED
    BY <2>1
<1> QED
  BY <1>2, InvariantOfRows, PTL DEF Spec, RefusedOverResidue
=============================================================================
