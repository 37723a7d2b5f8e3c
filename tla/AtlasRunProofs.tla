---------------------------- MODULE AtlasRunProofs ----------------------------
(***************************************************************************)
(* What AtlasRun promises when one command works on a run directory at a   *)
(* time, for every number of chapters, models, batches and deaths.         *)
(***************************************************************************)
EXTENDS AtlasRun, FiniteSetTheorems, WellFoundedInduction, TLAPS

\* The commands of a run directory follow each other.
OneCommand == \A c, d \in Commands : c = d

----------------------------------------------------------------------------
(* The invariant.                                                          *)

IsEntry(e) ==
    e = [via |-> e.via, requests |-> e.requests, ceiling |-> e.ceiling,
         batch |-> e.batch, collected |-> e.collected]

\* What an ended batch holds: a row for every request it was asked.
Answers(b) ==
    /\ b = [step |-> b.step, content |-> b.content, rows |-> b.rows]
    /\ b.rows # NoRows =>
          /\ b.rows = [r \in Of(b.step) |-> b.rows[r]]
          /\ \A r \in DOMAIN b.rows : b.rows[r].of = b.content /\ b.rows[r].answers \in Nat

Places == {"idle", "build", "meta", "create", "submitted", "poll", "collected",
           "begin", "calls"}

Shape ==
    /\ pc \in [Commands -> Places]
    /\ DOMAIN mem = Commands
    /\ DOMAIN requests = Steps /\ DOMAIN meta = Steps /\ DOMAIN results = Steps
    /\ DOMAIN ledger \subseteq Steps
    /\ \A s \in DOMAIN ledger : IsEntry(ledger[s])
    /\ \E S : batches \in Seq(S)
    /\ \A b \in DOMAIN batches : Answers(batches[b])

\* A batch that asks what the request file of s says.
Asks(b, s) ==
    b \in DOMAIN batches /\ batches[b].step = s /\ batches[b].content = requests[s]

\* A started step is pinned to its request file; the rows of a batch step are
\* those of its batch, and a step that was not started has none.
Pinned(s) ==
    /\ s \in DOMAIN ledger =>
          /\ ledger[s].requests = requests[s] /\ requests[s] = meta[s]
          /\ ledger[s].via = "batch" =>
                /\ Asks(ledger[s].batch, s)
                /\ results[s] \in {NoRows, batches[ledger[s].batch].rows}
    /\ s \notin DOMAIN ledger => results[s] = NoRows
    /\ \A r \in DOMAIN results[s] :
          results[s][r].of = requests[s] /\ results[s][r].answers \in Nat

Complete == \A r \in Chapters : Usable(results["cards"], r)

\* Works quotes the cards, and then no card is missing.
Quoted == requests["works"] # None => requests["works"].cards = results["cards"] /\ Complete

\* What a command remembers is still so.
Unstarted(s) == s \in Steps /\ s \notin DOMAIN ledger

Fresh(c) ==
    LET m == mem[c]
    IN  /\ pc[c] \in {"build", "meta", "create", "submitted"} => Unstarted(m.step)
        /\ pc[c] = "build" /\ m.step = "works" => m.content.cards = results["cards"] /\ Complete
        /\ pc[c] \in {"create", "submitted"} =>
              m.content = requests[m.step] /\ requests[m.step] = meta[m.step]
        /\ pc[c] = "submitted" => Asks(m.batch, m.step)
        /\ pc[c] \in {"poll", "collected"} =>
              m.step \in DOMAIN ledger /\ ledger[m.step].via = "batch" /\ m.state = ledger
        /\ pc[c] \in {"begin", "calls"} =>
              /\ m = [step |-> m.step, todo |-> m.todo, came |-> m.came, done |-> m.done,
                      state |-> m.state]
              /\ m.step \in Steps
              /\ m.step \in DOMAIN ledger => ledger[m.step].via = "headless"
              /\ m.done = results[m.step]
              /\ m.todo \subseteq Todo(m.step) /\ DOMAIN m.came \subseteq Todo(m.step)
              /\ m.todo \cap DOMAIN m.came = {}
        /\ pc[c] = "begin" =>
              /\ requests[m.step] = meta[m.step]
              /\ m.state = [t \in DOMAIN ledger \cup {m.step} |->
                              IF t = m.step THEN Entry("headless", requests[m.step], 0, 0)
                              ELSE ledger[t]]
        /\ pc[c] = "calls" => m.step \in DOMAIN ledger /\ m.state = ledger

IInv ==
    /\ Shape
    /\ \A s \in Steps : Pinned(s)
    /\ Quoted
    /\ \A c \in Commands : Fresh(c)

----------------------------------------------------------------------------
LEMMA InitInvariant == Init => IInv
<1> SUFFICES ASSUME Init PROVE IInv
  OBVIOUS
<1>1. Shape
  <2>1. batches \in Seq({})
    BY DEF Init
  <2>2. DOMAIN batches = {}
    BY DEF Init
  <2> QED
    BY <2>1, <2>2 DEF Init, Shape, Absent, Places
<1>2. ASSUME NEW s \in Steps PROVE Pinned(s)
  BY DEF Init, Pinned, Absent, NoRows
<1>3. Quoted
  BY DEF Init, Quoted, Steps
<1>4. ASSUME NEW c \in Commands PROVE Fresh(c)
  BY DEF Init, Fresh
<1> QED
  BY <1>1, <1>2, <1>3, <1>4 DEF IInv

----------------------------------------------------------------------------
(* The steps of build.                                                     *)

LEMMA BuildStartStep ==
    ASSUME IInv, OneCommand, NEW c \in Commands, BuildStart(c) PROVE IInv'
<1>1. Shape'
  BY DEF IInv, BuildStart, Shape, files, Goto, Know, Places
<1>2. ASSUME NEW s \in Steps PROVE Pinned(s)'
  BY DEF IInv, BuildStart, Pinned, Asks, files
<1>3. Quoted'
  BY DEF IInv, BuildStart, Quoted, Complete, files
<1>4. ASSUME NEW d \in Commands PROVE Fresh(d)'
  BY DEF IInv, OneCommand, Shape, BuildStart, Fresh, Complete, Unstarted, files, Goto, Know
<1> QED
  BY <1>1, <1>2, <1>3, <1>4 DEF IInv

LEMMA BuildRequestsStep ==
    ASSUME IInv, OneCommand, NEW c \in Commands, BuildRequests(c) PROVE IInv'
<1> DEFINE s == mem[c].step
<1>0. Unstarted(s) /\ results[s] = NoRows
  BY DEF IInv, BuildRequests, Fresh, Unstarted, Pinned
<1>1. Shape'
  BY DEF IInv, BuildRequests, Shape, Goto, Places
<1>2. ASSUME NEW t \in Steps PROVE Pinned(t)'
  BY <1>0 DEF IInv, Shape, BuildRequests, Pinned, Asks, Unstarted, NoRows
<1>3. Quoted'
  BY <1>0 DEF IInv, Shape, BuildRequests, Quoted, Complete, Fresh, Unstarted, Steps
<1>4. ASSUME NEW d \in Commands PROVE Fresh(d)'
  BY <1>0 DEF IInv, OneCommand, Shape, BuildRequests, Fresh, Unstarted, Goto
<1> QED
  BY <1>1, <1>2, <1>3, <1>4 DEF IInv

LEMMA BuildMetaStep ==
    ASSUME IInv, OneCommand, NEW c \in Commands, BuildMeta(c) PROVE IInv'
<1>0. Unstarted(mem[c].step)
  BY DEF IInv, BuildMeta, Fresh
<1>1. Shape'
  BY DEF IInv, BuildMeta, Shape, End, Goto, Know, Places
<1>2. ASSUME NEW t \in Steps PROVE Pinned(t)'
  BY <1>0 DEF IInv, Shape, BuildMeta, Pinned, Asks, Unstarted
<1>3. Quoted'
  BY DEF IInv, BuildMeta, Quoted, Complete
<1>4. ASSUME NEW d \in Commands PROVE Fresh(d)'
  BY DEF IInv, OneCommand, Shape, BuildMeta, Fresh, End, Goto
<1> QED
  BY <1>1, <1>2, <1>3, <1>4 DEF IInv

----------------------------------------------------------------------------
(* The steps of submit, and the API.                                       *)

LEMMA SubmitCheckStep ==
    ASSUME IInv, OneCommand, NEW c \in Commands, SubmitCheck(c) PROVE IInv'
<1>1. Shape'
  BY DEF IInv, SubmitCheck, Shape, files, Goto, Know, Places
<1>2. ASSUME NEW s \in Steps PROVE Pinned(s)'
  BY DEF IInv, SubmitCheck, Pinned, Asks, files
<1>3. Quoted'
  BY DEF IInv, SubmitCheck, Quoted, Complete, files
<1>4. ASSUME NEW d \in Commands PROVE Fresh(d)'
  BY DEF IInv, OneCommand, Shape, SubmitCheck, Fresh, Unstarted, Verified, files, Goto, Know
<1> QED
  BY <1>1, <1>2, <1>3, <1>4 DEF IInv

\* A new batch leaves those that exist alone.
LEMMA Appended ==
    ASSUME NEW s, \E S : s \in Seq(S), NEW e
    PROVE  /\ \E S : Append(s, e) \in Seq(S)
           /\ Len(s) + 1 \in DOMAIN Append(s, e) /\ Append(s, e)[Len(s) + 1] = e
           /\ \A i \in DOMAIN s : i \in DOMAIN Append(s, e) /\ Append(s, e)[i] = s[i]
           /\ \A i \in DOMAIN Append(s, e) : i \in DOMAIN s \/ i = Len(s) + 1
<1>1. PICK S : s \in Seq(S)
  OBVIOUS
<1>2. s \in Seq(S \cup {e})
  BY <1>1
<1> QED
  BY <1>2

LEMMA SubmitCreateStep ==
    ASSUME IInv, OneCommand, NEW c \in Commands, SubmitCreate(c) PROVE IInv'
<1> DEFINE b == [step |-> mem[c].step, content |-> mem[c].content, rows |-> NoRows]
<1>0. /\ batches' = Append(batches, b)
      /\ \E S : batches' \in Seq(S)
      /\ Len(batches) + 1 \in DOMAIN batches' /\ batches'[Len(batches) + 1] = b
      /\ \A i \in DOMAIN batches : i \in DOMAIN batches' /\ batches'[i] = batches[i]
      /\ \A i \in DOMAIN batches' : i \in DOMAIN batches \/ i = Len(batches) + 1
  <2>1. batches' = Append(batches, b)
    BY DEF SubmitCreate
  <2>2. \E S : batches \in Seq(S)
    BY DEF IInv, Shape
  <2> HIDE DEF b
  <2> QED
    BY <2>1, <2>2, Appended
<1>a. Answers(b)
  BY DEF Answers
<1>b. /\ Unstarted(mem[c].step)
      /\ mem[c].content = requests[mem[c].step]
      /\ requests[mem[c].step] = meta[mem[c].step]
  BY DEF IInv, SubmitCreate, Fresh
<1>1. Shape'
  BY <1>0, <1>a DEF IInv, SubmitCreate, Shape, files, Goto, Know, Places
<1>2. ASSUME NEW s \in Steps PROVE Pinned(s)'
  BY <1>0 DEF IInv, SubmitCreate, Pinned, Asks, files
<1>3. Quoted'
  BY DEF IInv, SubmitCreate, Quoted, Complete, files
<1>4. ASSUME NEW d \in Commands PROVE Fresh(d)'
  BY <1>0, <1>b DEF IInv, OneCommand, Shape, SubmitCreate, Fresh, Unstarted, Asks, files, Goto, Know
<1> QED
  BY <1>1, <1>2, <1>3, <1>4 DEF IInv

LEMMA SubmitRecordStep ==
    ASSUME IInv, OneCommand, NEW c \in Commands, SubmitRecord(c) PROVE IInv'
<1> DEFINE s == mem[c].step
<1>0. /\ Unstarted(s) /\ results[s] = NoRows
      /\ mem[c].content = requests[s] /\ requests[s] = meta[s]
      /\ Asks(mem[c].batch, s)
  BY DEF IInv, SubmitRecord, Fresh, Unstarted, Pinned
<1>1. Shape'
  BY <1>0 DEF IInv, SubmitRecord, Shape, Unstarted, Entry, IsEntry, End, Goto, Know, Places
<1>2. ASSUME NEW t \in Steps PROVE Pinned(t)'
  BY <1>0 DEF IInv, SubmitRecord, Pinned, Asks, Unstarted, Entry
<1>3. Quoted'
  BY DEF IInv, SubmitRecord, Quoted, Complete
<1>4. ASSUME NEW d \in Commands PROVE Fresh(d)'
  BY DEF IInv, OneCommand, Shape, SubmitRecord, Fresh, End, Goto
<1> QED
  BY <1>1, <1>2, <1>3, <1>4 DEF IInv

\* Only the rows of one batch that had none change.
Ended(b, f) ==
    /\ b \in DOMAIN batches /\ batches[b].rows = NoRows
    /\ f = [r \in Of(batches[b].step) |-> f[r]]
    /\ \A r \in DOMAIN f :
          /\ f[r].of = batches[b].content /\ f[r].answers \in Nat
          /\ f[r].usd \in Nat
    /\ DOMAIN batches' = DOMAIN batches
    /\ \A i \in DOMAIN batches : i # b => batches'[i] = batches[i]
    /\ batches'[b] = [step |-> batches[b].step, content |-> batches[b].content, rows |-> f]

LEMMA EndedBatch == ASSUME IInv, BatchEnds PROVE \E b, f : Ended(b, f)
<1>1. PICK b \in DOMAIN batches :
          /\ batches[b].rows = NoRows
          /\ \E kind \in [Of(batches[b].step) -> Kinds] :
             \E usd \in [Of(batches[b].step) -> Bills] :
                batches' = [batches EXCEPT ![b].rows =
                    [r \in Of(batches[b].step) |->
                        IF kind[r] = "errored" THEN Row("batch", kind[r], batches[b].content, 0, 0)
                        ELSE Row("batch", kind[r], batches[b].content, 1, usd[r])]]
  BY DEF BatchEnds
<1>2. PICK kind \in [Of(batches[b].step) -> Kinds],
           usd \in [Of(batches[b].step) -> Bills] :
          batches' = [batches EXCEPT ![b].rows =
                    [r \in Of(batches[b].step) |->
                        IF kind[r] = "errored" THEN Row("batch", kind[r], batches[b].content, 0, 0)
                        ELSE Row("batch", kind[r], batches[b].content, 1, usd[r])]]
  BY <1>1, Zenon
<1> DEFINE f == [r \in Of(batches[b].step) |->
                    IF kind[r] = "errored" THEN Row("batch", kind[r], batches[b].content, 0, 0)
                    ELSE Row("batch", kind[r], batches[b].content, 1, usd[r])]
<1>3. /\ f = [r \in Of(batches[b].step) |-> f[r]]
      /\ \A r \in DOMAIN f :
            /\ f[r].of = batches[b].content /\ f[r].answers \in Nat
            /\ f[r].usd \in Nat
  BY AtlasAssumption DEF Row
<1>4. batches' = [batches EXCEPT ![b].rows = f]
  BY <1>2
<1> HIDE DEF f
<1>5. [batches[b] EXCEPT !.rows = f]
        = [step |-> batches[b].step, content |-> batches[b].content, rows |-> f]
  <2>1. Answers(batches[b])
    BY DEF IInv, Shape
  <2> QED
    BY <2>1 DEF Answers
<1>6. batches' = [batches EXCEPT ![b] = [batches[b] EXCEPT !.rows = f]]
  BY <1>4
<1>7. Ended(b, f)
  BY <1>1, <1>3, <1>5, <1>6 DEF Ended
<1> QED
  BY <1>7

LEMMA BatchEndsStep ==
    ASSUME IInv, OneCommand, BatchEnds PROVE IInv'
<1>0. PICK b, f : Ended(b, f)
  BY EndedBatch
<1>a. /\ DOMAIN batches' = DOMAIN batches
      /\ \A i \in DOMAIN batches : i # b => batches'[i] = batches[i]
      /\ batches'[b] = [step |-> batches[b].step, content |-> batches[b].content, rows |-> f]
  BY <1>0 DEF Ended
<1>b. \E S : batches' \in Seq(S)
  <2>1. PICK S : batches \in Seq(S)
    BY DEF IInv, Shape
  <2>2. batches' = [batches EXCEPT ![b] = batches'[b]]
    <3>1. \E b0 \in DOMAIN batches : \E e : batches' = [batches EXCEPT ![b0] = e]
      BY DEF BatchEnds
    <3> QED
      BY <1>0, <1>a, <2>1, <3>1 DEF Ended
  <2>3. batches' \in Seq(S \cup {batches'[b]})
    BY <1>0, <2>1, <2>2 DEF Ended
  <2> QED
    BY <2>3
<1>c. \A i \in DOMAIN batches :
        /\ batches'[i].step = batches[i].step /\ batches'[i].content = batches[i].content
        /\ batches[i].rows = NoRows \/ batches'[i].rows = batches[i].rows
  BY <1>0, <1>a DEF Ended
<1>d. Answers(batches'[b])
  BY <1>0, <1>a DEF Answers, Ended
<1>1. Shape'
  BY <1>a, <1>b, <1>d DEF IInv, BatchEnds, Shape, files
<1>2. ASSUME NEW s \in Steps PROVE Pinned(s)'
  BY <1>a, <1>c DEF IInv, BatchEnds, Pinned, Asks, files
<1>3. Quoted'
  BY DEF IInv, BatchEnds, Quoted, Complete, files
<1>4. ASSUME NEW d \in Commands PROVE Fresh(d)'
  <2>1. UNCHANGED <<requests, meta, ledger, results, pc, mem>>
    BY DEF BatchEnds, files
  <2>2. Todo(mem[d].step)' = Todo(mem[d].step) /\ Complete' = Complete
        /\ Unstarted(mem[d].step)' = Unstarted(mem[d].step)
    BY <2>1 DEF Todo, Complete, Unstarted
  <2>3. Asks(mem[d].batch, mem[d].step) => Asks(mem[d].batch, mem[d].step)'
    BY <1>a, <1>c, <2>1 DEF Asks
  <2>4. Fresh(d)
    BY DEF IInv
  <2> QED
    BY <2>1, <2>2, <2>3, <2>4 DEF Fresh
<1> QED
  BY <1>1, <1>2, <1>3, <1>4 DEF IInv

----------------------------------------------------------------------------
(* The steps of collect.                                                   *)

LEMMA CollectStartStep ==
    ASSUME IInv, OneCommand, NEW c \in Commands, CollectStart(c) PROVE IInv'
<1>1. Shape'
  BY DEF IInv, CollectStart, Shape, files, Goto, Know, Places
<1>2. ASSUME NEW s \in Steps PROVE Pinned(s)'
  BY DEF IInv, CollectStart, Pinned, Asks, files
<1>3. Quoted'
  BY DEF IInv, CollectStart, Quoted, Complete, files
<1>4. ASSUME NEW d \in Commands PROVE Fresh(d)'
  BY DEF IInv, OneCommand, Shape, CollectStart, Fresh, files, Goto, Know
<1> QED
  BY <1>1, <1>2, <1>3, <1>4 DEF IInv

\* A command that ends, with its work done or not, leaves what it found.
LEMMA EndStep ==
    ASSUME IInv, OneCommand, NEW c \in Commands, End(c), UNCHANGED <<files, batches>>
    PROVE  IInv'
<1>1. Shape'
  BY DEF IInv, Shape, files, End, Goto, Know, Places
<1>2. ASSUME NEW s \in Steps PROVE Pinned(s)'
  BY DEF IInv, Pinned, Asks, files
<1>3. Quoted'
  BY DEF IInv, Quoted, Complete, files
<1>4. ASSUME NEW d \in Commands PROVE Fresh(d)'
  BY DEF IInv, OneCommand, Shape, Fresh, End, Goto
<1> QED
  BY <1>1, <1>2, <1>3, <1>4 DEF IInv

\* Collecting twice gives the same rows: once works quotes the cards, a second
\* collection does not change them.
LEMMA CollectedOnce ==
    ASSUME IInv, NEW c \in Commands, pc[c] = "poll",
           NEW b, b = batches[mem[c].state[mem[c].step].batch], b.rows # NoRows
    PROVE  /\ mem[c].step \in DOMAIN ledger /\ mem[c].step \in Steps
           /\ b = batches[ledger[mem[c].step].batch]
           /\ ledger[mem[c].step].via = "batch"
           /\ b.content = requests[mem[c].step]
           /\ \A r \in DOMAIN b.rows :
                 b.rows[r].of = b.content /\ b.rows[r].answers \in Nat
           /\ results[mem[c].step] \in {NoRows, b.rows}
           /\ mem[c].step = "cards" /\ Complete => results["cards"] = b.rows
<1> DEFINE s == mem[c].step
<1>1. s \in DOMAIN ledger /\ s \in Steps /\ ledger[s].via = "batch" /\ mem[c].state = ledger
  BY DEF IInv, Shape, Fresh
<1>2. /\ Asks(ledger[s].batch, s)
      /\ results[s] \in {NoRows, batches[ledger[s].batch].rows}
  BY <1>1 DEF IInv, Pinned
<1>3. Answers(b) /\ b.step = s /\ b.content = requests[s]
  BY <1>1, <1>2 DEF IInv, Shape, Asks
<1>4. ASSUME s = "cards", Complete, results["cards"] = NoRows PROVE FALSE
  <2>1. Chapters = {}
    BY <1>4 DEF Complete, Usable, NoRows
  <2>2. b.rows = [r \in {} |-> b.rows[r]]
    BY <1>3, <1>4, <2>1 DEF Answers, Of
  <2> QED
    BY <2>2 DEF NoRows
<1> QED
  BY <1>1, <1>2, <1>3, <1>4 DEF Answers

LEMMA CollectResultsStep ==
    ASSUME IInv, OneCommand, NEW c \in Commands, CollectResults(c) PROVE IInv'
<1> DEFINE s == mem[c].step
           b == batches[mem[c].state[s].batch]
<1>0. pc[c] = "poll" /\ b.rows # NoRows
  BY DEF CollectResults
<1>1. CASE ~ Valid(s, b.rows)
  BY <1>1, EndStep DEF CollectResults, files
<1>2. CASE Valid(s, b.rows)
  <2>0. /\ results' = [results EXCEPT ![s] = b.rows]
        /\ Goto(c, "collected")
        /\ UNCHANGED <<mem, requests, meta, ledger, batches>>
    BY <1>2 DEF CollectResults
  <2>a. /\ s \in DOMAIN ledger /\ s \in Steps
        /\ b = batches[ledger[s].batch] /\ ledger[s].via = "batch" /\ b.content = requests[s]
        /\ \A r \in DOMAIN b.rows : b.rows[r].of = b.content /\ b.rows[r].answers \in Nat
        /\ s = "cards" /\ Complete => results["cards"] = b.rows
    BY <1>0, CollectedOnce
  <2>1. Shape'
    BY <2>0 DEF IInv, Shape, Goto, Places
  <2>2. ASSUME NEW t \in Steps PROVE Pinned(t)'
    <3>1. Pinned(t) /\ DOMAIN results = Steps /\ DOMAIN ledger \subseteq Steps
      BY DEF IInv, Shape
    <3>2. CASE t = s
      BY <2>0, <2>a, <3>1, <3>2 DEF Pinned, Asks
    <3>3. CASE t # s
      BY <2>0, <3>1, <3>3 DEF Pinned, Asks
    <3> QED
      BY <3>2, <3>3
  <2>3. Quoted'
    <3>1. Complete => results'["cards"] = results["cards"]
      BY <2>0, <2>a DEF IInv, Shape, Steps
    <3> QED
      BY <2>0, <3>1 DEF IInv, Quoted, Complete
  <2>4. ASSUME NEW d \in Commands PROVE Fresh(d)'
    BY <1>0, <2>0 DEF IInv, OneCommand, Shape, Fresh, Goto
  <2> QED
    BY <2>1, <2>2, <2>3, <2>4 DEF IInv
<1> QED
  BY <1>1, <1>2

\* Marking a step collected, or not, changes nothing else of the ledger.
LEMMA MarkStep ==
    ASSUME IInv, OneCommand, NEW c \in Commands, NEW s \in DOMAIN ledger, NEW v,
           ledger' = [ledger EXCEPT ![s].collected = v],
           End(c), UNCHANGED <<requests, meta, results, batches>>
    PROVE  IInv'
<1>a. /\ DOMAIN ledger' = DOMAIN ledger
      /\ \A t \in DOMAIN ledger :
            /\ IsEntry(ledger'[t]) /\ ledger'[t].via = ledger[t].via
            /\ ledger'[t].requests = ledger[t].requests /\ ledger'[t].batch = ledger[t].batch
  <2> DEFINE e == [via |-> ledger[s].via, requests |-> ledger[s].requests,
                   ceiling |-> ledger[s].ceiling, batch |-> ledger[s].batch, collected |-> v]
  <2>1. \A t \in DOMAIN ledger : IsEntry(ledger[t])
    BY DEF IInv, Shape
  <2>2. [ledger[s] EXCEPT !.collected = v] = e
    BY <2>1 DEF IsEntry
  <2>3. ledger' = [ledger EXCEPT ![s] = [ledger[s] EXCEPT !.collected = v]]
    OBVIOUS
  <2>4. ledger' = [ledger EXCEPT ![s] = e]
    BY <2>2, <2>3
  <2> QED
    BY <2>1, <2>4 DEF IsEntry
<1>b. pc'[c] = "idle" /\ \A d \in Commands : d = c
  BY DEF End, Goto, IInv, Shape, OneCommand
<1>1. Shape'
  BY <1>a DEF IInv, Shape, End, Goto, Know, Places
<1>2. ASSUME NEW t \in Steps PROVE Pinned(t)'
  <2>1. Pinned(t)
    BY DEF IInv
  <2> QED
    BY <1>a, <2>1 DEF Pinned, Asks
<1>3. Quoted'
  BY DEF IInv, Quoted, Complete
<1>4. ASSUME NEW d \in Commands PROVE Fresh(d)'
  BY <1>b DEF Fresh
<1> QED
  BY <1>1, <1>2, <1>3, <1>4 DEF IInv

LEMMA CollectRecordStep ==
    ASSUME IInv, OneCommand, NEW c \in Commands, CollectRecord(c) PROVE IInv'
<1>1. mem[c].step \in DOMAIN ledger /\ mem[c].state = ledger
  BY DEF IInv, CollectRecord, Fresh
<1> QED
  BY <1>1, MarkStep DEF CollectRecord

----------------------------------------------------------------------------
(* The steps of headless.                                                  *)

LEMMA HeadlessStartStep ==
    ASSUME IInv, OneCommand, NEW c \in Commands, HeadlessStart(c) PROVE IInv'
<1>1. Shape'
  BY DEF IInv, HeadlessStart, Shape, files, Goto, Know, Places
<1>2. ASSUME NEW s \in Steps PROVE Pinned(s)'
  BY DEF IInv, HeadlessStart, Pinned, Asks, files
<1>3. Quoted'
  BY DEF IInv, HeadlessStart, Quoted, Complete, files
<1>4. ASSUME NEW d \in Commands PROVE Fresh(d)'
  <2>1. PICK s, todo :
          /\ s \in Steps /\ todo \subseteq Todo(s) /\ Verified(s)
          /\ s \in DOMAIN ledger => ledger[s].via = "headless"
          /\ pc' = [pc EXCEPT ![c] = "begin"]
          /\ mem' = [mem EXCEPT ![c] =
                [step |-> s, todo |-> todo, came |-> NoRows, done |-> results[s],
                 state |-> [t \in DOMAIN ledger \cup {s} |->
                              IF t = s THEN Entry("headless", requests[s], 0, 0)
                              ELSE ledger[t]]]]
    BY DEF HeadlessStart, Goto, Know
  <2>2. d = c
    BY DEF OneCommand
  <2>3. pc'[d] = "begin" /\ mem'[d] =
                [step |-> s, todo |-> todo, came |-> NoRows, done |-> results[s],
                 state |-> [t \in DOMAIN ledger \cup {s} |->
                              IF t = s THEN Entry("headless", requests[s], 0, 0)
                              ELSE ledger[t]]]
    BY <2>1, <2>2 DEF IInv, Shape
  <2>4. UNCHANGED <<requests, meta, ledger, results>>
    BY DEF HeadlessStart, files
  <2>5. Todo(s)' = Todo(s)
    BY <2>4 DEF Todo
  <2> QED
    BY <2>1, <2>3, <2>4, <2>5 DEF Fresh, Verified, NoRows
<1> QED
  BY <1>1, <1>2, <1>3, <1>4 DEF IInv

LEMMA HeadlessBeginStep ==
    ASSUME IInv, OneCommand, NEW c \in Commands, HeadlessBegin(c) PROVE IInv'
<1> DEFINE s == mem[c].step
<1>0. /\ s \in Steps /\ requests[s] = meta[s]
      /\ s \in DOMAIN ledger => ledger[s].via = "headless"
      /\ ledger' = [t \in DOMAIN ledger \cup {s} |->
                      IF t = s THEN Entry("headless", requests[s], 0, 0) ELSE ledger[t]]
  BY DEF IInv, HeadlessBegin, Fresh
<1>1. Shape'
  BY <1>0 DEF IInv, HeadlessBegin, Shape, Entry, IsEntry, Goto, Places
<1>2. ASSUME NEW t \in Steps PROVE Pinned(t)'
  <2>1. Pinned(t) /\ UNCHANGED <<requests, meta, results, batches>>
    BY DEF IInv, HeadlessBegin
  <2>2. CASE t = s
    <3>1. /\ t \in DOMAIN ledger' /\ ledger'[t].via = "headless"
          /\ ledger'[t].requests = requests[t]
      BY <1>0, <2>2 DEF Entry
    <3> QED
      BY <1>0, <2>1, <2>2, <3>1 DEF Pinned
  <2>3. CASE t # s
    BY <1>0, <2>1, <2>3 DEF Pinned, Asks
  <2> QED
    BY <2>2, <2>3
<1>3. Quoted'
  BY DEF IInv, HeadlessBegin, Quoted, Complete
<1>4. ASSUME NEW d \in Commands PROVE Fresh(d)'
  <2>1. Todo(s)' = Todo(s)
    BY DEF HeadlessBegin, Todo
  <2>2. d = c
    BY DEF OneCommand
  <2>3. pc'[c] = "calls" /\ mem' = mem /\ UNCHANGED results
    BY DEF IInv, Shape, HeadlessBegin, Goto
  <2>4. /\ mem[c] = [step |-> s, todo |-> mem[c].todo, came |-> mem[c].came,
                     done |-> mem[c].done, state |-> mem[c].state]
        /\ mem[c].done = results[s]
        /\ mem[c].todo \subseteq Todo(s) /\ DOMAIN mem[c].came \subseteq Todo(s)
        /\ mem[c].todo \cap DOMAIN mem[c].came = {}
        /\ mem[c].state = ledger'
    BY DEF IInv, HeadlessBegin, Fresh
  <2> QED
    BY <1>0, <2>1, <2>2, <2>3, <2>4 DEF Fresh, Entry
<1> QED
  BY <1>1, <1>2, <1>3, <1>4 DEF IInv

\* A call returns: its request waits for its row instead of for its answer.
LEMMA ReturnedStep ==
    ASSUME IInv, OneCommand, NEW c \in Commands, Returned(c) PROVE IInv'
<1> DEFINE m == mem[c]
<1>1. PICK r \in m.todo, kind \in Kinds :
        mem' = [mem EXCEPT ![c] =
                  [m EXCEPT !.todo = @ \ {r},
                            !.came = [q \in DOMAIN @ \cup {r} |->
                                        IF q = r THEN kind ELSE @[q]]]]
  BY DEF Returned, Know
<1> DEFINE came == [q \in DOMAIN m.came \cup {r} |-> IF q = r THEN kind ELSE m.came[q]]
<1>2. /\ pc[c] = "calls"
      /\ m = [step |-> m.step, todo |-> m.todo, came |-> m.came, done |-> m.done,
              state |-> m.state]
      /\ m.todo \subseteq Todo(m.step) /\ DOMAIN m.came \subseteq Todo(m.step)
      /\ m.todo \cap DOMAIN m.came = {}
      /\ UNCHANGED <<requests, meta, ledger, results, batches, pc>>
  BY DEF IInv, Returned, Fresh, files
<1>3. mem'[c] = [step |-> m.step, todo |-> m.todo \ {r}, came |-> came, done |-> m.done,
                 state |-> m.state]
  <2>1. mem'[c] = [m EXCEPT !.todo = @ \ {r},
                            !.came = [q \in DOMAIN @ \cup {r} |-> IF q = r THEN kind ELSE @[q]]]
    BY <1>1 DEF IInv, Shape
  <2> QED
    BY <1>2, <2>1
<1>4. DOMAIN came = DOMAIN m.came \cup {r}
  OBVIOUS
<1> HIDE DEF came
<1>5. Shape'
  BY <1>1, <1>2 DEF IInv, Shape
<1>6. ASSUME NEW s \in Steps PROVE Pinned(s)'
  BY <1>2 DEF IInv, Pinned, Asks
<1>7. Quoted'
  BY <1>2 DEF IInv, Quoted, Complete
<1>8. ASSUME NEW d \in Commands PROVE Fresh(d)'
  <2>1. d = c
    BY DEF OneCommand
  <2>2. Todo(m.step)' = Todo(m.step)
    BY <1>2, <1>3 DEF Todo
  <2> QED
    BY <1>2, <1>3, <1>4, <2>1, <2>2 DEF IInv, Fresh
<1> QED
  BY <1>5, <1>6, <1>7, <1>8 DEF IInv

\* What an answer does: one request whose call came back gets a row, with what was
\* spent before and, unless it errored, one answer more; the others keep theirs.
Answering(c, r, row) ==
    LET s == mem[c].step
        m == mem[c]
    IN  /\ pc[c] = "calls"
        /\ r \in DOMAIN m.came /\ r \in Todo(s)
        /\ row.of = requests[s] /\ row.usd = 0
        /\ row.answers = Spent(results[s], r) + (IF m.came[r] = "errored" THEN 0 ELSE 1)
        /\ results' = [results EXCEPT ![s] =
              [q \in DOMAIN results[s] \cup {r} |-> IF q = r THEN row ELSE results[s][q]]]
        /\ \E flying \in SUBSET m.todo :
              mem' = [mem EXCEPT ![c] =
                        [step |-> s, todo |-> flying,
                         came |-> [q \in DOMAIN m.came \ {r} |-> m.came[q]],
                         done |-> results'[s], state |-> ledger]]
        /\ UNCHANGED <<requests, meta, ledger, batches, given, pc, granted, crashes>>

LEMMA AnswerRows ==
    ASSUME IInv, NEW c \in Commands, Answered(c)
    PROVE  \E r, row : Answering(c, r, row)
<1> DEFINE s == mem[c].step
           m == mem[c]
           New(r) == Supersede(m.done, r, m.came[r], m.state[s].requests)
           Done(r) == [q \in DOMAIN m.done \cup {r} |->
                         IF q = r THEN New(r) ELSE m.done[q]]
           Left(r) == [q \in DOMAIN m.came \ {r} |-> m.came[q]]
<1>1. /\ pc[c] = "calls" /\ s \in Steps /\ s \in DOMAIN ledger
      /\ m = [step |-> s, todo |-> m.todo, came |-> m.came, done |-> m.done, state |-> m.state]
      /\ m.done = results[s] /\ DOMAIN m.came \subseteq Todo(s) /\ m.state = ledger
  BY DEF IInv, Answered, Fresh
<1>2. PICK r \in DOMAIN m.came, flying \in SUBSET m.todo :
        /\ results' = [results EXCEPT ![s] = Done(r)]
        /\ mem' = [mem EXCEPT ![c] = [m EXCEPT !.done = Done(r), !.todo = flying,
                                               !.came = [q \in DOMAIN @ \ {r} |-> @[q]]]]
        /\ UNCHANGED <<requests, meta, ledger, batches, given, pc, granted, crashes>>
  BY DEF Answered, Know
<1>4. ledger[s].requests = requests[s]
  BY <1>1 DEF IInv, Pinned
<1>5. /\ New(r).of = requests[s] /\ New(r).usd = 0
      /\ New(r).answers = Spent(results[s], r) + (IF m.came[r] = "errored" THEN 0 ELSE 1)
  BY <1>1, <1>4 DEF Supersede, Row
<1>6. results'[s] = Done(r)
  BY <1>1, <1>2 DEF IInv, Shape
<1>7. [m EXCEPT !.done = Done(r), !.todo = flying, !.came = [q \in DOMAIN @ \ {r} |-> @[q]]]
        = [step |-> s, todo |-> flying, came |-> Left(r), done |-> results'[s], state |-> ledger]
  <2> DEFINE D == Done(r)
  <2>1. results'[s] = D
    BY <1>6
  <2> HIDE DEF D
  <2>2. [m EXCEPT !.done = D, !.todo = flying, !.came = [q \in DOMAIN @ \ {r} |-> @[q]]]
          = [step |-> s, todo |-> flying, came |-> Left(r), done |-> D, state |-> ledger]
    <3>1. m = [step |-> s, todo |-> m.todo, came |-> m.came, done |-> m.done, state |-> ledger]
      BY <1>1
    <3> DEFINE x == [m EXCEPT !.done = D]
               y == [x EXCEPT !.todo = flying]
    <3>2. x = [step |-> s, todo |-> m.todo, came |-> m.came, done |-> D, state |-> ledger]
      BY <3>1
    <3> HIDE DEF x
    <3>3. y = [step |-> s, todo |-> flying, came |-> m.came, done |-> D, state |-> ledger]
      BY <3>2
    <3> HIDE DEF y
    <3>4. [y EXCEPT !.came = [q \in DOMAIN @ \ {r} |-> @[q]]]
            = [step |-> s, todo |-> flying, came |-> Left(r), done |-> D, state |-> ledger]
      BY <3>3
    <3> QED
      BY <3>4 DEF x, y
  <2> QED
    BY <2>1, <2>2 DEF D
<1>8. Answering(c, r, New(r))
  <2> HIDE DEF New
  <2> QED
    BY <1>1, <1>2, <1>5, <1>7 DEF Answering
<1> QED
  BY <1>8

LEMMA AnsweredStep ==
    ASSUME IInv, OneCommand, NEW c \in Commands, Answered(c) PROVE IInv'
<1> DEFINE s == mem[c].step
<1>1. PICK r, row : Answering(c, r, row)
  BY AnswerRows
<1>2. /\ pc[c] = "calls" /\ s \in Steps /\ s \in DOMAIN ledger
      /\ ledger[s].via = "headless"
      /\ mem[c].todo \subseteq Todo(s) /\ DOMAIN mem[c].came \subseteq Todo(s)
      /\ mem[c].todo \cap DOMAIN mem[c].came = {} /\ r \in DOMAIN mem[c].came
  BY <1>1 DEF IInv, Answering, Fresh
<1>3. /\ row.of = requests[s] /\ row.answers \in Nat
      /\ ~ Usable(results[s], r) /\ r \in Of(s)
  <2>1. Spent(results[s], r) \in Nat
    BY <1>2 DEF IInv, Pinned, Spent
  <2> QED
    BY <1>1, <2>1 DEF Answering, Todo
<1>4. results'[s] = [q \in DOMAIN results[s] \cup {r} |-> IF q = r THEN row ELSE results[s][q]]
  BY <1>1, <1>2 DEF IInv, Shape, Answering
<1>5. \A t \in Steps : t # s => results'[t] = results[t]
  BY <1>1 DEF IInv, Shape, Answering
<1>6. Shape'
  BY <1>1 DEF IInv, Answering, Shape
<1>7. ASSUME NEW t \in Steps PROVE Pinned(t)'
  <2>1. Pinned(t) /\ UNCHANGED <<requests, meta, ledger, batches>>
    BY <1>1 DEF IInv, Answering
  <2>2. CASE t = s
    BY <1>2, <1>3, <1>4, <2>1, <2>2 DEF Pinned, Asks
  <2>3. CASE t # s
    BY <1>2, <1>5, <2>1, <2>3 DEF Pinned, Asks
  <2> QED
    BY <2>2, <2>3
<1>8. Quoted'
  <2>1. ASSUME s = "cards" PROVE ~ Complete
    BY <1>3, <2>1 DEF Complete, Of
  <2>2. Complete => results'["cards"] = results["cards"]
    BY <1>5, <2>1 DEF Steps
  <2> QED
    BY <1>1, <2>2 DEF IInv, Quoted, Complete, Answering
<1>9. ASSUME NEW d \in Commands PROVE Fresh(d)'
  <2> DEFINE came == [q \in DOMAIN mem[c].came \ {r} |-> mem[c].came[q]]
  <2>1. PICK flying \in SUBSET mem[c].todo :
          mem' = [mem EXCEPT ![c] =
                    [step |-> s, todo |-> flying, came |-> came, done |-> results'[s],
                     state |-> ledger]]
    BY <1>1 DEF Answering
  <2>a. DOMAIN came = DOMAIN mem[c].came \ {r}
    OBVIOUS
  <2> HIDE DEF came
  <2>2. d = c
    BY DEF OneCommand
  <2>3. mem'[d] = [step |-> s, todo |-> flying, came |-> came, done |-> results'[s],
                   state |-> ledger]
    BY <2>1, <2>2 DEF IInv, Shape
  <2>4. /\ r \notin flying /\ flying \cap DOMAIN came = {}
        /\ flying \cup DOMAIN came \subseteq {q \in Of(s) : ~ Usable(results'[s], q)
                                               /\ Spent(results'[s], q) < MaxAttempts}
    BY <1>2, <1>4, <2>a DEF Todo, Usable, Spent
  <2>5. pc'[d] = "calls" /\ ledger' = ledger
    BY <1>1, <2>2 DEF Answering
  <2> QED
    BY <1>2, <2>3, <2>4, <2>5 DEF Fresh, Todo
<1> QED
  BY <1>6, <1>7, <1>8, <1>9 DEF IInv

LEMMA HeadlessEndStep ==
    ASSUME IInv, OneCommand, NEW c \in Commands, HeadlessEnd(c) PROVE IInv'
<1> DEFINE v == \A r \in Of(mem[c].step) : Usable(mem[c].done, r)
<1>1. mem[c].step \in DOMAIN ledger /\ mem[c].state = ledger
  BY DEF IInv, HeadlessEnd, Fresh
<1>2. /\ ledger' = [mem[c].state EXCEPT ![mem[c].step].collected = v]
      /\ End(c) /\ UNCHANGED <<requests, meta, results, batches>>
  BY DEF HeadlessEnd
<1> HIDE DEF v
<1> QED
  BY <1>1, <1>2, MarkStep

----------------------------------------------------------------------------
(* Every step keeps the invariant.                                         *)

LEMMA NextInvariant == OneCommand /\ IInv /\ [Next]_vars => IInv'
<1> SUFFICES ASSUME OneCommand, IInv, [Next]_vars PROVE IInv'
  OBVIOUS
<1>1. CASE UNCHANGED vars
  <2> USE <1>1 DEF vars
  <2>1. Shape'
    BY DEF IInv, Shape
  <2>2. ASSUME NEW s \in Steps PROVE Pinned(s)'
    BY DEF IInv, Pinned, Asks
  <2>3. Quoted'
    BY DEF IInv, Quoted, Complete
  <2>4. ASSUME NEW c \in Commands PROVE Fresh(c)'
    BY DEF IInv, Fresh, Asks, Unstarted, Complete, Todo
  <2> QED
    BY <2>1, <2>2, <2>3, <2>4 DEF IInv
<1>2. CASE BatchEnds
  BY <1>2, BatchEndsStep
<1>3. ASSUME NEW c \in Commands,
             \/ BuildStart(c) \/ BuildRequests(c) \/ BuildMeta(c)
             \/ SubmitCheck(c) \/ SubmitCreate(c) \/ SubmitRecord(c)
      PROVE  IInv'
  BY <1>3, BuildStartStep, BuildRequestsStep, BuildMetaStep,
     SubmitCheckStep, SubmitCreateStep, SubmitRecordStep
<1>4. ASSUME NEW c \in Commands,
             \/ CollectStart(c) \/ CollectLater(c) \/ CollectResults(c) \/ CollectRecord(c)
             \/ HeadlessStart(c) \/ HeadlessBegin(c) \/ Returned(c) \/ Answered(c)
             \/ HeadlessEnd(c) \/ Crash(c)
      PROVE  IInv'
  <2>1. CASE CollectLater(c) \/ Crash(c)
    BY <2>1, EndStep DEF CollectLater, Crash
  <2> QED
    BY <1>4, <2>1, CollectStartStep, CollectResultsStep, CollectRecordStep,
       HeadlessStartStep, HeadlessBeginStep, ReturnedStep, AnsweredStep, HeadlessEndStep
<1> QED
  BY <1>1, <1>2, <1>3, <1>4 DEF Next

LEMMA Invariant == ASSUME OneCommand PROVE Spec => []IInv
<1>1. OneCommand => (IInv /\ [Next]_vars => IInv')
  BY NextInvariant
<1> QED
  BY <1>1, InitInvariant, PTL DEF Spec

\* Every row answers the requests on disk, and works quotes the cards on disk,
\* as long as the commands follow each other (cmd_build, _verified_meta,
\* cmd_collect, cmd_headless).
THEOREM AnswersStayBound == ASSUME OneCommand PROVE Spec => []AnswersBound
<1>1. IInv => AnswersBound
  BY DEF IInv, Pinned, Quoted, AnswersBound
<1> QED
  BY <1>1, Invariant, PTL

\* A step takes no answer off a row, and puts a further one only on the row of a
\* request that is to do.
LEMMA SpentGrows ==
    ASSUME OneCommand, IInv, [Next]_vars, NEW s \in Steps, NEW r \in Of(s)
    PROVE  /\ Spent(results[s], r) \in Nat /\ Spent(results'[s], r) \in Nat
           /\ Spent(results'[s], r) >= Spent(results[s], r)
           /\ Spent(results'[s], r) > Spent(results[s], r) =>
                 ~ Usable(results[s], r) /\ Spent(results[s], r) < MaxAttempts
<1>0. Spent(results[s], r) \in Nat
  BY DEF IInv, Pinned, Spent
<1>1. CASE UNCHANGED results
  BY <1>0, <1>1
<1>2. ASSUME NEW c \in Commands, CollectResults(c), results' # results
      PROVE  \/ results'[s] = results[s]
             \/ Spent(results[s], r) = 0 /\ ~ Usable(results[s], r)
  <2> DEFINE k == mem[c].step
             b == batches[mem[c].state[k].batch]
  <2>1. pc[c] = "poll" /\ b.rows # NoRows /\ results' = [results EXCEPT ![k] = b.rows]
    BY <1>2 DEF CollectResults
  <2>2. results[k] \in {NoRows, b.rows}
    BY <2>1, CollectedOnce
  <2>3. CASE s # k
    BY <2>1, <2>3 DEF IInv, Shape
  <2>4. CASE s = k /\ results[k] = b.rows
    BY <2>1, <2>4 DEF IInv, Shape
  <2>5. CASE s = k /\ results[k] = NoRows
    BY <2>5 DEF Spent, Usable, NoRows
  <2> QED
    BY <2>2, <2>3, <2>4, <2>5
<1>3. Spent(results'[s], r) \in Nat
  <2>1. Pinned(s)'
    BY NextInvariant DEF IInv
  <2> QED
    BY <2>1 DEF Pinned, Spent
<1>4. ASSUME NEW c \in Commands, Answered(c)
      PROVE  \/ results'[s] = results[s]
             \/ /\ Spent(results'[s], r) = Spent(results[s], r)
             \/ /\ Spent(results'[s], r) = Spent(results[s], r) + 1
                /\ ~ Usable(results[s], r) /\ Spent(results[s], r) < MaxAttempts
  <2> DEFINE k == mem[c].step
  <2>1. PICK q, row : Answering(c, q, row)
    BY <1>4, AnswerRows
  <2>2. CASE s # k
    BY <2>1, <2>2 DEF IInv, Shape, Answering
  <2>3. CASE s = k
    <3>1. results'[s] = [x \in DOMAIN results[s] \cup {q} |->
                           IF x = q THEN row ELSE results[s][x]]
      BY <2>1, <2>3 DEF IInv, Shape, Answering
    <3>2. CASE r = q
      <4>1. /\ row.answers \in {Spent(results[s], r), Spent(results[s], r) + 1}
            /\ ~ Usable(results[s], r) /\ Spent(results[s], r) < MaxAttempts
        BY <1>0, <2>1, <2>3, <3>2 DEF Answering, Todo
      <4>2. Spent(results'[s], r) = row.answers
        BY <3>1, <3>2 DEF Spent
      <4> QED
        BY <4>1, <4>2
    <3>3. CASE r # q
      BY <3>1, <3>3 DEF Spent
    <3> QED
      BY <3>2, <3>3
  <2> QED
    BY <2>2, <2>3
<1>5. \/ UNCHANGED results
      \/ \E c \in Commands : CollectResults(c) \/ Answered(c)
  BY DEF Next, vars, files, BatchEnds, BuildStart, BuildRequests, BuildMeta, SubmitCheck,
     SubmitCreate, SubmitRecord, CollectStart, CollectLater, CollectRecord,
     HeadlessStart, HeadlessBegin, Returned, HeadlessEnd, Crash
<1> QED
  BY <1>0, <1>1, <1>2, <1>3, <1>4, <1>5, AtlasAssumption

\* No record of a spend is lost, and no answer is recorded for a request that has
\* its answer or has used up its attempts, as long as the commands follow each
\* other (_supersede, cmd_collect, cmd_headless).
THEOREM NoSpendLost == ASSUME OneCommand PROVE Spec => SpendKept
<1> DEFINE Kept ==
      \A s \in Steps : \A r \in Of(s) :
          /\ Spent(results'[s], r) >= Spent(results[s], r)
          /\ Spent(results'[s], r) > Spent(results[s], r) =>
                ~ Usable(results[s], r) /\ Spent(results[s], r) < MaxAttempts
<1>1. IInv /\ [Next]_vars => [Kept]_vars
  BY SpentGrows
<1> QED
  BY <1>1, Invariant, PTL DEF Spec, SpendKept

----------------------------------------------------------------------------
(* Answers: those that no row tells of were lost with a command.           *)

\* An answer to r of s is back, and waits for its row.
Waits(s, r) ==
    \E c \in Commands : /\ pc[c] = "calls" /\ mem[c].step = s
                        /\ r \in DOMAIN mem[c].came /\ mem[c].came[r] # "errored"

\* Each answer to r of s is on a row, waits for it, or was lost with a command.
Accounted(s, r) ==
    /\ given[s][r] \in Nat
    /\ given[s][r] <= Spent(results[s], r) + crashes + (IF Waits(s, r) THEN 1 ELSE 0)
    /\ given[s][r] <= MaxAttempts + crashes

AnswersInv ==
    /\ crashes \in Nat
    /\ DOMAIN given = Steps /\ \A s \in Steps : DOMAIN given[s] = Of(s)
    /\ \A s \in Steps : \A r \in Of(s) : Accounted(s, r)

LEMMA InitAnswers == Init => AnswersInv
<1> SUFFICES ASSUME Init PROVE AnswersInv
  OBVIOUS
<1>1. ASSUME NEW s \in Steps, NEW r \in Of(s) PROVE Accounted(s, r)
  BY AtlasAssumption DEF Init, Accounted, Spent, NoRows
<1> QED
  BY <1>1 DEF Init, AnswersInv

\* A step that takes part in no headless answer.
LEMMA QuietAnswers ==
    ASSUME OneCommand, IInv, AnswersInv, [Next]_vars, UNCHANGED <<given, crashes>>,
           \A s \in Steps : \A r \in Of(s) : Waits(s, r) => Waits(s, r)'
    PROVE  AnswersInv'
<1>1. ASSUME NEW s \in Steps, NEW r \in Of(s) PROVE Accounted(s, r)'
  <2>1. Accounted(s, r) /\ crashes \in Nat /\ (Waits(s, r) => Waits(s, r)')
    BY DEF AnswersInv
  <2>2. /\ Spent(results[s], r) \in Nat /\ Spent(results'[s], r) \in Nat
        /\ Spent(results'[s], r) >= Spent(results[s], r)
    BY SpentGrows
  <2> QED
    BY <2>1, <2>2 DEF Accounted
<1> QED
  BY <1>1 DEF AnswersInv

\* A call that returns was of a request to do: it had an attempt left.
LEMMA ReturnedAnswers ==
    ASSUME OneCommand, IInv, AnswersInv, NEW c \in Commands, Returned(c)
    PROVE  AnswersInv'
<1> DEFINE m == mem[c]
<1>1. PICK r \in m.todo, kind \in Kinds :
        /\ mem' = [mem EXCEPT ![c] =
                     [m EXCEPT !.todo = @ \ {r},
                               !.came = [q \in DOMAIN @ \cup {r} |->
                                           IF q = r THEN kind ELSE @[q]]]]
        /\ Give(m.step, IF kind = "errored" THEN {} ELSE {r})
  BY DEF Returned, Know
<1>2. /\ pc[c] = "calls" /\ m.step \in Steps
      /\ m = [step |-> m.step, todo |-> m.todo, came |-> m.came, done |-> m.done,
              state |-> m.state]
      /\ r \in Todo(m.step) /\ r \notin DOMAIN m.came
      /\ UNCHANGED <<results, pc, crashes>>
  BY DEF IInv, Returned, Fresh, files
<1>3. /\ mem'[c].step = m.step
      /\ mem'[c].came = [q \in DOMAIN m.came \cup {r} |-> IF q = r THEN kind ELSE m.came[q]]
  <2>1. mem'[c] = [m EXCEPT !.todo = @ \ {r},
                            !.came = [q \in DOMAIN @ \cup {r} |-> IF q = r THEN kind ELSE @[q]]]
    BY <1>1 DEF IInv, Shape
  <2> QED
    BY <1>2, <2>1
<1>4. ASSUME NEW s \in Steps, NEW q \in Of(s) PROVE Accounted(s, q)'
  <2>1. Accounted(s, q) /\ crashes \in Nat /\ Spent(results[s], q) \in Nat
    BY DEF AnswersInv, IInv, Pinned, Spent
  <2>2. CASE s = m.step /\ q = r /\ kind # "errored"
    <3>1. ~ Waits(s, q)
      BY <1>2, <2>2 DEF Waits, OneCommand
    <3>2. Waits(s, q)'
      BY <1>2, <1>3, <2>2 DEF Waits
    <3>3. given'[s][q] = given[s][q] + 1
      BY <1>1, <1>2, <2>2 DEF Give, AnswersInv
    <3>4. Spent(results[s], q) < MaxAttempts
      BY <1>2, <2>2 DEF Todo
    <3> QED
      BY <1>2, <2>1, <3>1, <3>2, <3>3, <3>4, AtlasAssumption DEF Accounted
  <2>3. CASE ~ (s = m.step /\ q = r /\ kind # "errored")
    <3>1. given'[s][q] = given[s][q]
      BY <1>1, <1>2, <2>1, <2>3 DEF Give, AnswersInv, Accounted
    <3>2. Waits(s, q) => Waits(s, q)'
      BY <1>2, <1>3 DEF Waits, OneCommand
    <3> QED
      BY <1>2, <2>1, <3>1, <3>2 DEF Accounted
  <2> QED
    BY <2>2, <2>3
<1>5. DOMAIN given' = Steps /\ \A s \in Steps : DOMAIN given'[s] = Of(s)
  BY <1>1, <1>2 DEF Give, AnswersInv
<1> QED
  BY <1>2, <1>4, <1>5 DEF AnswersInv

\* The answer that waited is on its row.
LEMMA AnsweredAnswers ==
    ASSUME OneCommand, IInv, AnswersInv, NEW c \in Commands, Answered(c)
    PROVE  AnswersInv'
<1> DEFINE k == mem[c].step
<1>1. PICK r, row : Answering(c, r, row)
  BY AnswerRows
<1>2. k \in Steps /\ pc[c] = "calls" /\ pc'[c] = "calls" /\ UNCHANGED <<given, crashes>>
  BY <1>1 DEF IInv, Answering, Fresh
<1>3. mem'[c].step = k
      /\ mem'[c].came = [q \in DOMAIN mem[c].came \ {r} |-> mem[c].came[q]]
  BY <1>1 DEF Answering, IInv, Shape
<1>4. /\ results'[k] = [q \in DOMAIN results[k] \cup {r} |-> IF q = r THEN row ELSE results[k][q]]
      /\ \A t \in Steps : t # k => results'[t] = results[t]
  BY <1>1, <1>2 DEF IInv, Shape, Answering
<1>5. ASSUME NEW s \in Steps, NEW q \in Of(s) PROVE Accounted(s, q)'
  <2>1. Accounted(s, q) /\ crashes \in Nat /\ Spent(results[s], q) \in Nat
    BY DEF AnswersInv, IInv, Pinned, Spent
  <2>2. CASE s = k /\ q = r
    <3>1. Spent(results'[s], q)
            = Spent(results[s], q) + (IF mem[c].came[q] = "errored" THEN 0 ELSE 1)
      BY <1>1, <1>4, <2>2 DEF Answering, Spent
    <3>2. Waits(s, q) => mem[c].came[q] # "errored"
      BY DEF Waits, OneCommand
    <3> QED
      BY <1>2, <2>1, <3>1, <3>2 DEF Accounted
  <2>3. CASE ~ (s = k /\ q = r)
    <3>1. Spent(results'[s], q) = Spent(results[s], q)
      BY <1>4, <2>3 DEF Spent
    <3>2. Waits(s, q) => Waits(s, q)'
      BY <1>2, <1>3, <2>3 DEF Waits, OneCommand
    <3> QED
      BY <1>2, <2>1, <3>1, <3>2 DEF Accounted
  <2> QED
    BY <2>2, <2>3
<1> QED
  BY <1>2, <1>5 DEF AnswersInv

\* A death takes at most one answer of a request with it: one that waits for its
\* row, or one that comes when nobody takes it any more.
LEMMA CrashAnswers ==
    ASSUME OneCommand, IInv, AnswersInv, NEW c \in Commands, Crash(c)
    PROVE  AnswersInv'
<1> DEFINE m == mem[c]
<1>1. crashes \in Nat /\ crashes' = crashes + 1 /\ UNCHANGED results
  BY DEF AnswersInv, Crash, files
<1>2. CASE pc[c] # "calls"
  <2>1. UNCHANGED given
    BY <1>2 DEF Crash
  <2>2. ASSUME NEW s \in Steps, NEW q \in Of(s) PROVE Accounted(s, q)'
    <3>1. Accounted(s, q) /\ Spent(results[s], q) \in Nat /\ ~ Waits(s, q)
      BY <1>2 DEF AnswersInv, IInv, Pinned, Spent, Waits, OneCommand
    <3> QED
      BY <1>1, <2>1, <3>1, AtlasAssumption DEF Accounted
  <2> QED
    BY <1>1, <2>1, <2>2 DEF AnswersInv
<1>3. CASE pc[c] = "calls"
  <2>1. PICK R \in SUBSET m.todo : Give(m.step, R)
    BY <1>3 DEF Crash
  <2>2. /\ m.step \in Steps /\ m.todo \subseteq Todo(m.step)
        /\ m.todo \cap DOMAIN m.came = {}
    BY <1>3 DEF IInv, Fresh
  <2>3. ASSUME NEW s \in Steps, NEW q \in Of(s) PROVE Accounted(s, q)'
    <3>1. Accounted(s, q) /\ Spent(results[s], q) \in Nat
      BY DEF AnswersInv, IInv, Pinned, Spent
    <3>2. CASE s = m.step /\ q \in R
      <4>1. given'[s][q] = given[s][q] + 1
        BY <2>1, <2>2, <3>2 DEF Give, AnswersInv
      <4>2. ~ Waits(s, q)
        BY <2>2, <3>2 DEF Waits, OneCommand
      <4>3. Spent(results[s], q) < MaxAttempts
        BY <2>2, <3>2 DEF Todo
      <4> QED
        BY <1>1, <3>1, <4>1, <4>2, <4>3, AtlasAssumption DEF Accounted
    <3>3. CASE ~ (s = m.step /\ q \in R)
      <4>1. given'[s][q] = given[s][q]
        BY <2>1, <2>2, <3>1, <3>3 DEF Give, AnswersInv, Accounted
      <4> QED
        BY <1>1, <3>1, <4>1, AtlasAssumption DEF Accounted
    <3> QED
      BY <3>2, <3>3
  <2>4. DOMAIN given' = Steps /\ \A s \in Steps : DOMAIN given'[s] = Of(s)
    BY <2>1, <2>2 DEF Give, AnswersInv
  <2> QED
    BY <1>1, <2>3, <2>4 DEF AnswersInv
<1> QED
  BY <1>2, <1>3

LEMMA NextAnswers == OneCommand /\ IInv /\ AnswersInv /\ [Next]_vars => AnswersInv'
<1> SUFFICES ASSUME OneCommand, IInv, AnswersInv, [Next]_vars PROVE AnswersInv'
  OBVIOUS
<1>1. ASSUME NEW c \in Commands, Returned(c) \/ Answered(c) \/ Crash(c) PROVE AnswersInv'
  BY <1>1, ReturnedAnswers, AnsweredAnswers, CrashAnswers
<1>2. CASE UNCHANGED vars \/ BatchEnds
  <2>1. UNCHANGED <<given, crashes, pc, mem>>
    BY <1>2 DEF vars, BatchEnds
  <2> QED
    BY <2>1, QuietAnswers DEF Waits
<1>3. ASSUME NEW c \in Commands,
             \/ BuildStart(c) \/ BuildRequests(c) \/ BuildMeta(c)
             \/ SubmitCheck(c) \/ SubmitCreate(c) \/ SubmitRecord(c)
             \/ CollectStart(c) \/ CollectLater(c) \/ CollectResults(c) \/ CollectRecord(c)
             \/ HeadlessStart(c) \/ HeadlessBegin(c)
      PROVE  AnswersInv'
  <2>1. UNCHANGED <<given, crashes>> /\ pc[c] # "calls"
    BY <1>3 DEF BuildStart, BuildRequests, BuildMeta, SubmitCheck, SubmitCreate, SubmitRecord,
       CollectStart, CollectLater, CollectResults, CollectRecord, HeadlessStart, HeadlessBegin
  <2> QED
    BY <2>1, QuietAnswers DEF Waits, OneCommand
<1>4. ASSUME NEW c \in Commands, HeadlessEnd(c) PROVE AnswersInv'
  <2>1. UNCHANGED <<given, crashes>> /\ DOMAIN mem[c].came = {}
    BY <1>4 DEF HeadlessEnd
  <2> QED
    BY <2>1, QuietAnswers DEF Waits, OneCommand
<1> QED
  BY <1>1, <1>2, <1>3, <1>4 DEF Next

\* A request is answered through the subscription at most --max-attempts times, and
\* once more for each death of a command, as long as the commands follow each other
\* (cmd_headless).
THEOREM AnswersStayBounded == ASSUME OneCommand PROVE Spec => []AnswersBounded
<1>1. OneCommand => (IInv /\ AnswersInv /\ [Next]_vars => IInv' /\ AnswersInv')
  BY NextInvariant, NextAnswers
<1>2. AnswersInv => AnswersBounded
  BY DEF AnswersInv, Accounted, AnswersBounded
<1> QED
  BY <1>1, <1>2, InitInvariant, InitAnswers, PTL DEF Spec

----------------------------------------------------------------------------
(* Sums.  SumFunction is a fold: it takes the entries of a table one by    *)
(* one, in an order of its own.  What it adds up to is shown by minimal    *)
(* counterexample: of the sizes of tables that break a claim there would   *)
(* be a smallest, and the fold's own step leads to a smaller one.          *)

LEMMA Smallest ==
    ASSUME NEW T \in SUBSET Nat, T # {}
    PROVE  \E n \in T : \A m \in T : n <= m
<1> DEFINE R == {p \in Nat \X Nat : p[1] < p[2]}
<1>1. IsWellFoundedOn(R, Nat)
  BY NatLessThanWellFounded DEF OpToRel
<1>2. \A m, k \in Nat : m < k => <<m, k>> \in R
  OBVIOUS
<1> HIDE DEF R
<1>3. PICK n \in T : \A m \in T : ~ (<<m, n>> \in R)
  BY <1>1, WFMin
<1> QED
  <2>1. ASSUME NEW m \in T PROVE n <= m
    <3>1. n \in Nat /\ m \in Nat
      OBVIOUS
    <3>2. ~ (m < n)
      BY <1>2, <1>3, <3>1
    <3> QED
      BY <3>1, <3>2
  <2> QED
    BY <2>1

\* The element the fold takes out of s next.
First(s) == CHOOSE x \in s : TRUE

\* g sums f over every set of D: the recursion of MapThenFoldSet.
Sums(g, f, D) ==
    g = [s \in D |-> IF s = {} THEN 0 ELSE f[First(s)] + g[s \ {First(s)}]]

Small(S, n) == {s \in SUBSET S : Cardinality(s) <= n}

LEMMA FirstOut ==
    ASSUME NEW s, IsFiniteSet(s), s # {}
    PROVE  /\ First(s) \in s
           /\ IsFiniteSet(s \ {First(s)})
           /\ Cardinality(s) \in Nat \ {0}
           /\ Cardinality(s \ {First(s)}) = Cardinality(s) - 1
<1>1. First(s) \in s
  BY DEF First
<1>2. Cardinality(s) \in Nat
  BY FS_CardinalityType
<1>3. Cardinality(s) # 0
  BY FS_EmptySet
<1>4. IsFiniteSet(s \ {First(s)}) /\ Cardinality(s \ {First(s)}) = Cardinality(s) - 1
  BY <1>1, FS_RemoveElement
<1> QED
  BY <1>1, <1>2, <1>3, <1>4

LEMMA SmallSets ==
    ASSUME NEW S, IsFiniteSet(S), NEW n \in Nat
    PROVE  /\ \A s \in SUBSET S : IsFiniteSet(s) /\ Cardinality(s) \in Nat
           /\ Small(S, 0) = {{}}
           /\ Small(S, n) \subseteq Small(S, n + 1)
           /\ \A s \in Small(S, n + 1) : s # {} => s \ {First(s)} \in Small(S, n)
           /\ \A s \in Small(S, n) : s # {} => s \ {First(s)} \in Small(S, n)
<1>1. \A s \in SUBSET S : IsFiniteSet(s) /\ Cardinality(s) \in Nat
  BY FS_Subset, FS_CardinalityType
<1>2. Small(S, 0) = {{}}
  <2>1. ASSUME NEW s \in SUBSET S, Cardinality(s) <= 0 PROVE s = {}
    BY <1>1, <2>1, FS_EmptySet
  <2>2. Cardinality({}) = 0
    BY FS_EmptySet
  <2> QED
    BY <2>1, <2>2 DEF Small
<1>3. Small(S, n) \subseteq Small(S, n + 1)
  BY <1>1 DEF Small
<1>4. ASSUME NEW s \in SUBSET S, s # {}
      PROVE  /\ s \ {First(s)} \in SUBSET S
             /\ Cardinality(s \ {First(s)}) = Cardinality(s) - 1
  BY <1>1, <1>4, FirstOut
<1>5. \A s \in Small(S, n + 1) : s # {} => s \ {First(s)} \in Small(S, n)
  BY <1>1, <1>4 DEF Small
<1>6. \A s \in Small(S, n) : s # {} => s \ {First(s)} \in Small(S, n)
  BY <1>1, <1>4 DEF Small
<1> QED
  BY <1>1, <1>2, <1>3, <1>5, <1>6

LEMMA OneMore ==
    ASSUME NEW S, IsFiniteSet(S), NEW f, NEW n \in Nat, NEW g, Sums(g, f, Small(S, n))
    PROVE  \E h : Sums(h, f, Small(S, n + 1))
<1> DEFINE h == [s \in Small(S, n + 1) |->
                    IF s = {} THEN 0 ELSE f[First(s)] + g[s \ {First(s)}]]
<1>1. ASSUME NEW s \in Small(S, n) PROVE h[s] = g[s]
  BY SmallSets DEF Sums
<1>2. ASSUME NEW s \in Small(S, n + 1), s # {} PROVE h[s \ {First(s)}] = g[s \ {First(s)}]
  <2> HIDE DEF h
  <2> QED BY <1>1, <1>2, SmallSets
<1>3. h = [s \in Small(S, n + 1) |->
             IF s = {} THEN 0 ELSE f[First(s)] + h[s \ {First(s)}]]
  BY <1>2
<1> QED
  BY <1>3 DEF Sums

\* The recursion has a solution on every finite set.
LEMMA SumsExist ==
    ASSUME NEW S, IsFiniteSet(S), NEW f
    PROVE  \E g : Sums(g, f, SUBSET S)
<1> DEFINE Bad == {n \in Nat : ~ \E g : Sums(g, f, Small(S, n))}
<1>1. 0 \notin Bad
  <2> DEFINE g == [s \in {{}} |-> 0]
  <2>1. g = [s \in {{}} |-> IF s = {} THEN 0 ELSE f[First(s)] + g[s \ {First(s)}]]
    OBVIOUS
  <2>2. Sums(g, f, Small(S, 0))
    <3>1. Small(S, 0) = {{}}
      BY SmallSets
    <3> QED
      BY <2>1, <3>1 DEF Sums
  <2> QED
    BY <2>2
<1>2. ASSUME NEW n \in Nat, n \notin Bad PROVE n + 1 \notin Bad
  BY <1>2, OneMore
<1>3. Bad = {}
  <2>1. SUFFICES ASSUME Bad # {} PROVE FALSE
    OBVIOUS
  <2>2. PICK n \in Bad : \A m \in Bad : n <= m
    <3> HIDE DEF Bad
    <3>1. Bad \in SUBSET Nat
      BY DEF Bad
    <3> QED BY <2>1, <3>1, Smallest
  <2>3. n \in Nat /\ n # 0
    BY <1>1
  <2>4. n - 1 \in Nat /\ n - 1 \notin Bad
    <3> HIDE DEF Bad
    <3> QED BY <2>2, <2>3
  <2>5. n - 1 + 1 \notin Bad
    <3> HIDE DEF Bad
    <3> QED BY <1>2, <2>4
  <2> QED
    <3> HIDE DEF Bad
    <3> QED BY <2>2, <2>3, <2>5
<1>4. Cardinality(S) \in Nat /\ Small(S, Cardinality(S)) = SUBSET S
  <2>1. \A s \in SUBSET S : Cardinality(s) <= Cardinality(S)
    BY FS_Subset
  <2>2. Cardinality(S) \in Nat
    BY FS_CardinalityType
  <2> QED
    BY <2>1, <2>2 DEF Small
<1>5. \E g : Sums(g, f, Small(S, Cardinality(S)))
  BY <1>3, <1>4
<1> QED
  BY <1>4, <1>5

SumsOf(f, S) == CHOOSE g : Sums(g, f, SUBSET S)

LEMMA SumIs == ASSUME NEW f PROVE SumFunction(f) = SumsOf(f, DOMAIN f)[DOMAIN f]
BY DEF SumFunction, SumFunctionOnSet, FoldFunctionOnSet, MapThenFoldSet, First, Sums, SumsOf

LEMMA SumsRecursion ==
    ASSUME NEW S, IsFiniteSet(S), NEW f, NEW s \in SUBSET S
    PROVE  SumsOf(f, S)[s] =
             IF s = {} THEN 0 ELSE f[First(s)] + SumsOf(f, S)[s \ {First(s)}]
<1>1. Sums(SumsOf(f, S), f, SUBSET S)
  BY SumsExist DEF SumsOf
<1> DEFINE g == SumsOf(f, S)
<1>2. g = [t \in SUBSET S |-> IF t = {} THEN 0 ELSE f[First(t)] + g[t \ {First(t)}]]
  BY <1>1 DEF Sums
<1> HIDE DEF g
<1>3. g[s] = IF s = {} THEN 0 ELSE f[First(s)] + g[s \ {First(s)}]
  BY <1>2
<1> QED
  BY <1>3 DEF g

\* The sum over a set depends on the values on that set alone.
LEMMA SumsAgree ==
    ASSUME NEW S, IsFiniteSet(S), NEW T \in SUBSET S, NEW f, NEW h,
           \A x \in T : f[x] = h[x]
    PROVE  SumsOf(f, S)[T] = SumsOf(h, T)[T]
<1> DEFINE Bad == {n \in Nat : \E s \in SUBSET T :
                        Cardinality(s) = n /\ SumsOf(f, S)[s] # SumsOf(h, T)[s]}
<1>1. \A s \in SUBSET T : IsFiniteSet(s) /\ Cardinality(s) \in Nat
  BY FS_Subset, FS_CardinalityType
<1>2. SUFFICES Bad = {}
  BY <1>1
<1>3. SUFFICES ASSUME Bad # {} PROVE FALSE
  OBVIOUS
<1>4. PICK n \in Bad : \A m \in Bad : n <= m
  <2>1. Bad \in SUBSET Nat
    OBVIOUS
  <2> HIDE DEF Bad
  <2> QED BY <1>3, <2>1, Smallest
<1>5. PICK s \in SUBSET T : Cardinality(s) = n /\ SumsOf(f, S)[s] # SumsOf(h, T)[s]
  OBVIOUS
<1>6. IsFiniteSet(T) /\ s \in SUBSET S
  BY <1>1
<1>7. CASE s = {}
  BY <1>5, <1>6, <1>7, SumsRecursion
<1>8. CASE s # {}
  <2> DEFINE t == s \ {First(s)}
  <2>1. /\ First(s) \in s /\ t \in SUBSET T
        /\ n \in Nat \ {0} /\ Cardinality(t) = n - 1
    BY <1>1, <1>5, <1>8, FirstOut
  <2>2. n - 1 \notin Bad
    <3> HIDE DEF Bad, t
    <3> QED BY <1>4, <2>1
  <2>3. SumsOf(f, S)[t] = SumsOf(h, T)[t]
    <3> HIDE DEF t
    <3> QED BY <2>1, <2>2
  <2>4. SumsOf(f, S)[s] = f[First(s)] + SumsOf(f, S)[t]
    BY <1>6, <1>8, SumsRecursion
  <2>5. SumsOf(h, T)[s] = h[First(s)] + SumsOf(h, T)[t]
    BY <1>6, <1>8, SumsRecursion
  <2>6. f[First(s)] = h[First(s)]
    BY <2>1
  <2> HIDE DEF t
  <2> QED
    BY <1>5, <2>3, <2>4, <2>5, <2>6
<1> QED
  BY <1>7, <1>8

\* f is a table of amounts, and what is left of it without x.
Amounts(f) == IsFiniteSet(DOMAIN f) /\ f \in [DOMAIN f -> Nat]

Without(f, x) == [y \in DOMAIN f \ {x} |-> f[y]]

LEMMA WithoutAmounts ==
    ASSUME NEW f, Amounts(f), NEW x \in DOMAIN f
    PROVE  /\ Amounts(Without(f, x))
           /\ DOMAIN Without(f, x) = DOMAIN f \ {x}
           /\ \A y \in DOMAIN f \ {x} : Without(f, x)[y] = f[y]
           /\ f[x] \in Nat
           /\ Cardinality(DOMAIN f) \in Nat \ {0}
           /\ Cardinality(DOMAIN Without(f, x)) = Cardinality(DOMAIN f) - 1
<1>1. IsFiniteSet(DOMAIN f \ {x}) /\ Cardinality(DOMAIN f \ {x}) = Cardinality(DOMAIN f) - 1
  BY FS_RemoveElement DEF Amounts
<1>2. Cardinality(DOMAIN f) \in Nat /\ Cardinality(DOMAIN f) # 0
  BY FS_CardinalityType, FS_EmptySet DEF Amounts
<1> QED
  BY <1>1, <1>2 DEF Amounts, Without

LEMMA SumStep ==
    ASSUME NEW f, Amounts(f)
    PROVE  SumFunction(f) =
             IF DOMAIN f = {} THEN 0
             ELSE f[First(DOMAIN f)] + SumFunction(Without(f, First(DOMAIN f)))
<1> DEFINE S == DOMAIN f
           x == First(S)
<1>0. IsFiniteSet(S) /\ S \in SUBSET S
  BY DEF Amounts
<1>1. CASE S = {}
  BY <1>0, <1>1, SumsRecursion, SumIs
<1>2. CASE S # {}
  <2>1. x \in S
    BY <1>2 DEF First
  <2>2. DOMAIN Without(f, x) = S \ {x} /\ \A y \in S \ {x} : f[y] = Without(f, x)[y]
    BY DEF Without
  <2>3. SumsOf(f, S)[S] = f[x] + SumsOf(f, S)[S \ {x}]
    BY <1>0, <1>2, SumsRecursion
  <2>4. S \ {x} \in SUBSET S
    OBVIOUS
  <2>5. SumsOf(f, S)[S \ {x}] = SumsOf(Without(f, x), S \ {x})[S \ {x}]
    <3> HIDE DEF S, x
    <3> QED BY <1>0, <2>2, <2>4, SumsAgree
  <2> QED
    BY <1>2, <2>2, <2>3, <2>5, SumIs
<1> QED
  BY <1>1, <1>2

LEMMA SumIsNatural ==
    ASSUME NEW f, Amounts(f) PROVE SumFunction(f) \in Nat
<1> DEFINE Bad == {n \in Nat : \E h : /\ Amounts(h) /\ Cardinality(DOMAIN h) = n
                                      /\ SumFunction(h) \notin Nat}
<1>1. SUFFICES Bad = {}
  BY FS_CardinalityType DEF Amounts
<1>2. SUFFICES ASSUME Bad # {} PROVE FALSE
  OBVIOUS
<1>3. PICK n \in Bad : \A m \in Bad : n <= m
  <2>1. Bad \in SUBSET Nat
    OBVIOUS
  <2> HIDE DEF Bad
  <2> QED BY <1>2, <2>1, Smallest
<1>4. PICK h : Amounts(h) /\ Cardinality(DOMAIN h) = n /\ SumFunction(h) \notin Nat
  OBVIOUS
<1>0. n \in Nat
  OBVIOUS
<1> HIDE DEF Bad
<1> DEFINE x == First(DOMAIN h)
           k == Without(h, x)
<1>5. DOMAIN h # {} /\ x \in DOMAIN h
  <2>1. DOMAIN h # {}
    BY <1>4, SumStep
  <2> QED
    BY <2>1 DEF First
<1>6. Amounts(k) /\ Cardinality(DOMAIN k) = n - 1 /\ n - 1 \in Nat /\ h[x] \in Nat
  <2> HIDE DEF x
  <2>1. /\ Amounts(Without(h, x)) /\ h[x] \in Nat /\ Cardinality(DOMAIN h) \in Nat \ {0}
        /\ Cardinality(DOMAIN Without(h, x)) = Cardinality(DOMAIN h) - 1
    BY <1>4, <1>5, WithoutAmounts
  <2> QED
    BY <1>4, <2>1
<1>7. n - 1 \notin Bad
  BY <1>0, <1>3, <1>6
<1>8. SumFunction(k) \in Nat
  <2> HIDE DEF k
  <2> QED BY <1>6, <1>7 DEF Bad
<1> QED
  BY <1>4, <1>5, <1>6, <1>8, SumStep

\* What each entry adds does not depend on the order they are taken in.
LEMMA SumWithout ==
    ASSUME NEW f, Amounts(f), NEW x \in DOMAIN f
    PROVE  SumFunction(f) = f[x] + SumFunction(Without(f, x))
<1> DEFINE Holds(h, y) == SumFunction(h) = h[y] + SumFunction(Without(h, y))
           Bad == {n \in Nat : \E h : /\ Amounts(h) /\ Cardinality(DOMAIN h) = n
                                      /\ \E y \in DOMAIN h : ~ Holds(h, y)}
<1>1. SUFFICES Bad = {}
  BY FS_CardinalityType DEF Amounts
<1>2. SUFFICES ASSUME Bad # {} PROVE FALSE
  OBVIOUS
<1>3. PICK n \in Bad : \A m \in Bad : n <= m
  <2>1. Bad \in SUBSET Nat
    OBVIOUS
  <2> HIDE DEF Bad
  <2> QED BY <1>2, <2>1, Smallest
<1>4. PICK h : /\ Amounts(h) /\ Cardinality(DOMAIN h) = n
               /\ \E y \in DOMAIN h : ~ Holds(h, y)
  OBVIOUS
<1>0. n \in Nat
  OBVIOUS
<1> HIDE DEF Bad
<1>5. PICK y \in DOMAIN h : ~ Holds(h, y)
  BY <1>4
<1> DEFINE z == First(DOMAIN h)
<1>6. z \in DOMAIN h /\ Holds(h, z)
  BY <1>4, <1>5, SumStep DEF First
<1>7. y # z
  BY <1>5, <1>6
<1>8. /\ Amounts(Without(h, z)) /\ y \in DOMAIN Without(h, z)
      /\ Amounts(Without(h, y)) /\ z \in DOMAIN Without(h, y)
      /\ Cardinality(DOMAIN Without(h, z)) = n - 1
      /\ Cardinality(DOMAIN Without(h, y)) = n - 1
      /\ Without(h, z)[y] = h[y] /\ Without(h, y)[z] = h[z]
      /\ n - 1 \in Nat /\ h[y] \in Nat /\ h[z] \in Nat
  <2> HIDE DEF Holds, z
  <2>1. z \in DOMAIN h
    BY <1>6
  <2>2. /\ Amounts(Without(h, z)) /\ DOMAIN Without(h, z) = DOMAIN h \ {z}
        /\ Cardinality(DOMAIN Without(h, z)) = n - 1
        /\ Without(h, z)[y] = h[y] /\ h[z] \in Nat /\ n \in Nat \ {0}
    BY <1>4, <1>7, <2>1, WithoutAmounts
  <2>3. /\ Amounts(Without(h, y)) /\ DOMAIN Without(h, y) = DOMAIN h \ {y}
        /\ Cardinality(DOMAIN Without(h, y)) = n - 1
        /\ Without(h, y)[z] = h[z] /\ h[y] \in Nat
    BY <1>4, <1>7, <2>1, WithoutAmounts
  <2> QED
    BY <1>7, <2>1, <2>2, <2>3
<1>9. n - 1 \notin Bad
  BY <1>0, <1>3, <1>8
<1>10. Holds(Without(h, z), y) /\ Holds(Without(h, y), z)
  <2> HIDE DEF Holds, z
  <2> QED BY <1>8, <1>9 DEF Bad
<1>11. Without(Without(h, z), y) = Without(Without(h, y), z)
  BY DEF Without
<1>12. Amounts(Without(Without(h, z), y))
  <2> HIDE DEF z
  <2> QED BY <1>8, WithoutAmounts
<1>13. SumFunction(Without(Without(h, z), y)) \in Nat
  BY <1>12, SumIsNatural
<1>14. SumFunction(h) = h[z] + (h[y] + SumFunction(Without(Without(h, z), y)))
  BY <1>6, <1>8, <1>10
<1>15. SumFunction(Without(h, y)) = h[z] + SumFunction(Without(Without(h, z), y))
  BY <1>8, <1>10, <1>11
<1>16. SumFunction(h) = h[y] + SumFunction(Without(h, y))
  <2> HIDE DEF z
  <2> QED BY <1>8, <1>13, <1>14, <1>15
<1> QED
  BY <1>5, <1>16

\* Entries of at most p add up to at most p for each of them.
LEMMA SumBound ==
    ASSUME NEW f, Amounts(f), NEW p \in Nat, \A x \in DOMAIN f : f[x] <= p
    PROVE  SumFunction(f) <= Cardinality(DOMAIN f) * p
<1> DEFINE Bad == {n \in Nat : \E h : /\ Amounts(h) /\ Cardinality(DOMAIN h) = n
                                      /\ \A x \in DOMAIN h : h[x] <= p
                                      /\ ~ (SumFunction(h) <= n * p)}
<1>1. SUFFICES Bad = {}
  BY FS_CardinalityType DEF Amounts
<1>2. SUFFICES ASSUME Bad # {} PROVE FALSE
  OBVIOUS
<1>3. PICK n \in Bad : \A m \in Bad : n <= m
  <2>1. Bad \in SUBSET Nat
    OBVIOUS
  <2> HIDE DEF Bad
  <2> QED BY <1>2, <2>1, Smallest
<1>4. PICK h : /\ Amounts(h) /\ Cardinality(DOMAIN h) = n
               /\ \A x \in DOMAIN h : h[x] <= p
               /\ ~ (SumFunction(h) <= n * p)
  OBVIOUS
<1>5. n \in Nat
  OBVIOUS
<1> HIDE DEF Bad
<1> DEFINE x == First(DOMAIN h)
           k == Without(h, x)
<1>6. CASE DOMAIN h = {}
  <2>1. n = 0 /\ SumFunction(h) = 0
    BY <1>4, <1>6, SumStep, FS_EmptySet
  <2> QED
    BY <1>4, <2>1
<1>7. CASE DOMAIN h # {}
  <2>1. x \in DOMAIN h
    BY <1>7 DEF First
  <2>2. Amounts(k) /\ Cardinality(DOMAIN k) = n - 1 /\ n - 1 \in Nat /\ h[x] \in Nat
    <3> HIDE DEF x
    <3>1. /\ Amounts(Without(h, x)) /\ h[x] \in Nat /\ Cardinality(DOMAIN h) \in Nat \ {0}
          /\ Cardinality(DOMAIN Without(h, x)) = Cardinality(DOMAIN h) - 1
      BY <1>4, <2>1, WithoutAmounts
    <3> QED
      BY <1>4, <3>1
  <2>3. \A y \in DOMAIN k : k[y] <= p
    <3> HIDE DEF x
    <3>1. /\ DOMAIN Without(h, x) = DOMAIN h \ {x}
          /\ \A y \in DOMAIN h \ {x} : Without(h, x)[y] = h[y]
      BY <1>4, <2>1, WithoutAmounts
    <3> QED
      BY <1>4, <3>1
  <2>4. n - 1 \notin Bad
    BY <1>3, <1>5, <2>2
  <2>5. SumFunction(k) <= (n - 1) * p
    <3> HIDE DEF k
    <3> QED BY <2>2, <2>3, <2>4 DEF Bad
  <2>6. SumFunction(k) \in Nat
    BY <2>2, SumIsNatural
  <2>7. SumFunction(h) = h[x] + SumFunction(k)
    BY <1>4, <2>1, SumWithout
  <2>8. h[x] <= p /\ (n - 1) * p + p = n * p /\ (n - 1) * p \in Nat /\ n * p \in Nat
    <3>1. h[x] <= p
      BY <1>4, <2>1
    <3> HIDE DEF x, k
    <3> QED BY <1>5, <2>2, <3>1
  <2>9. SumFunction(h) <= n * p
    <3> DEFINE a == (n - 1) * p
               b == n * p
    <3>1. a \in Nat /\ b \in Nat /\ a + p = b /\ SumFunction(k) <= a
      BY <2>5, <2>8
    <3> HIDE DEF a, b, x, k
    <3>2. SumFunction(h) <= b
      BY <2>2, <2>6, <2>7, <2>8, <3>1
    <3> QED BY <3>2 DEF b
  <2> QED
    BY <1>4, <2>9
<1> QED
  BY <1>6, <1>7

\* The entry of f at x, if it has one.
At(f, x) == IF x \in DOMAIN f THEN f[x] ELSE 0

\* A table with entries at three places at most.
LEMMA SumOfThree ==
    ASSUME NEW f, Amounts(f), NEW x, NEW y, NEW z, DOMAIN f \subseteq {x, y, z}
    PROVE  /\ At(f, x) \in Nat /\ At(f, y) \in Nat /\ At(f, z) \in Nat
           /\ SumFunction(f) <= At(f, x) + At(f, y) + At(f, z)
           /\ x # y /\ y # z /\ x # z =>
                 SumFunction(f) = At(f, x) + At(f, y) + At(f, z)
<1> DEFINE Peel(h, e) == IF e \in DOMAIN h THEN Without(h, e) ELSE h
<1>1. ASSUME NEW h, Amounts(h), NEW e
      PROVE  /\ Amounts(Peel(h, e)) /\ DOMAIN Peel(h, e) = DOMAIN h \ {e}
             /\ At(h, e) \in Nat
             /\ SumFunction(h) = At(h, e) + SumFunction(Peel(h, e))
             /\ \A d : d # e => At(Peel(h, e), d) = At(h, d)
             /\ At(Peel(h, e), e) = 0
  <2>1. SumFunction(h) \in Nat
    BY <1>1, SumIsNatural
  <2>2. CASE e \in DOMAIN h
    <3>1. /\ Amounts(Without(h, e)) /\ DOMAIN Without(h, e) = DOMAIN h \ {e}
          /\ \A d \in DOMAIN h \ {e} : Without(h, e)[d] = h[d]
          /\ h[e] \in Nat
      BY <1>1, <2>2, WithoutAmounts
    <3>2. SumFunction(h) = h[e] + SumFunction(Without(h, e))
      BY <1>1, <2>2, SumWithout
    <3> QED
      BY <2>2, <3>1, <3>2 DEF At
  <2>3. CASE e \notin DOMAIN h
    BY <1>1, <2>1, <2>3 DEF At
  <2> QED
    BY <2>2, <2>3
<1> DEFINE f1 == Peel(f, x)
           f2 == Peel(f1, y)
           f3 == Peel(f2, z)
<1> HIDE DEF Peel
<1>2. /\ Amounts(f1) /\ DOMAIN f1 = DOMAIN f \ {x}
      /\ SumFunction(f) = At(f, x) + SumFunction(f1)
      /\ \A d : d # x => At(f1, d) = At(f, d)
      /\ At(f1, x) = 0
  BY <1>1
<1> HIDE DEF f1
<1>3. /\ Amounts(f2) /\ DOMAIN f2 = DOMAIN f1 \ {y}
      /\ SumFunction(f1) = At(f1, y) + SumFunction(f2)
      /\ \A d : d # y => At(f2, d) = At(f1, d)
      /\ At(f2, y) = 0
  <2>1. Amounts(f1)
    BY <1>2
  <2> QED
    BY <1>1, <2>1
<1> HIDE DEF f2
<1>4. /\ Amounts(f3) /\ DOMAIN f3 = DOMAIN f2 \ {z}
      /\ SumFunction(f2) = At(f2, z) + SumFunction(f3)
  BY <1>1, <1>3
<1>5. DOMAIN f3 = {}
  BY <1>2, <1>3, <1>4
<1>6. SumFunction(f3) = 0
  BY <1>4, <1>5, SumStep
<1>7. At(f, x) \in Nat /\ At(f, y) \in Nat /\ At(f, z) \in Nat
  BY <1>1
<1> HIDE DEF f3
<1> QED
  BY <1>2, <1>3, <1>4, <1>6, <1>7

----------------------------------------------------------------------------
(* Money: what the ledger holds covers what the recorded batches cost.     *)

\* What the entry of s in a ledger commits.
Charge(steps, rows, s) ==
    IF s \notin DOMAIN steps THEN 0
    ELSE IF steps[s].collected THEN ActualCost(rows[s]) ELSE steps[s].ceiling

\* What it commits, when no batch counts above its allowance.
Held(steps, rows, s) ==
    IF s \notin DOMAIN steps THEN 0
    ELSE IF steps[s].collected THEN Smaller(ActualCost(rows[s]), steps[s].ceiling)
    ELSE steps[s].ceiling

HeldInAll(steps, rows) ==
    Held(steps, rows, "cards") + Held(steps, rows, "gold") + Held(steps, rows, "works")

Priced(rows) == \A r \in DOMAIN rows : rows[r].usd \in Nat

\* A batch asks a model of the list, and its rows have a price.
BatchPriced(b) ==
    /\ batches[b].step \in Steps /\ batches[b].content.model \in Models
    /\ batches[b].rows # NoRows => Priced(batches[b].rows)

\* A started step is a batch step with its ceiling, and with rows once it was
\* collected, or a headless step that is billed nothing.
EntryPriced(s) ==
    \/ /\ ledger[s].via = "batch"
       /\ ledger[s].ceiling = Ceiling(s, requests[s].model)
       /\ ledger[s].collected => results[s] # NoRows
    \/ /\ ledger[s].via = "headless"
       /\ ledger[s].ceiling = 0 /\ ledger[s].batch = 0
       /\ \A r \in DOMAIN results[s] : results[s][r].usd = 0

OfModels(content) == content # None => content.model \in Models

\* What check_budget allowed is still to be had.
Affords(c) ==
    /\ pc[c] = "build" => OfModels(mem[c].content)
    /\ pc[c] \in {"create", "submitted"} =>
          /\ mem[c].content.model \in Models
          /\ Committed(ledger, results) + Ceiling(mem[c].step, mem[c].content.model) <= granted
    /\ pc[c] = "create" =>
          /\ mem[c].max \in Nat
          /\ Committed(ledger, results) + Ceiling(mem[c].step, mem[c].content.model) <= mem[c].max
    /\ pc[c] = "collected" => results[mem[c].step] # NoRows

BudgetInv ==
    /\ granted \in Nat
    /\ \A s \in Steps : OfModels(requests[s]) /\ OfModels(meta[s])
    /\ \A s \in Steps : DOMAIN results[s] \subseteq Of(s)
    /\ \A b \in DOMAIN batches : BatchPriced(b)
    /\ \A s \in DOMAIN ledger : EntryPriced(s)
    /\ HeldInAll(ledger, results) <= granted
    /\ \A c \in Commands : Affords(c)

----------------------------------------------------------------------------
(* What rows and entries add up to.                                        *)

LEMMA FiniteSteps == ASSUME NEW s \in Steps PROVE IsFiniteSet(Of(s)) /\ Cardinality(Of(s)) \in Nat
<1>1. IsFiniteSet(Chapters) /\ IsFiniteSet({s})
  BY AtlasAssumption, FS_Singleton
<1> QED
  BY <1>1, FS_CardinalityType DEF Of

LEMMA CeilingIsNatural ==
    ASSUME NEW s \in Steps, NEW m \in Models PROVE Ceiling(s, m) \in Nat
<1>1. Cardinality(Of(s)) \in Nat /\ Price[m] \in Nat
  BY FiniteSteps, AtlasAssumption
<1> QED
  BY <1>1 DEF Ceiling

\* What the rows of a step cost is an amount.
LEMMA RowsCost ==
    ASSUME NEW s \in Steps, NEW rows, DOMAIN rows \subseteq Of(s), Priced(rows)
    PROVE  ActualCost(rows) \in Nat
<1> DEFINE f == [r \in DOMAIN rows |-> rows[r].usd]
<1>1. IsFiniteSet(DOMAIN rows)
  BY FiniteSteps, FS_Subset
<1>2. Amounts(f)
  BY <1>1 DEF Amounts, Priced
<1>3. SumFunction(f) \in Nat
  <2> HIDE DEF f
  <2> QED BY <1>2, SumIsNatural
<1> QED
  BY <1>3 DEF ActualCost

\* Rows that were billed nothing.
LEMMA FreeRows ==
    ASSUME NEW s \in Steps, NEW rows, DOMAIN rows \subseteq Of(s),
           \A r \in DOMAIN rows : rows[r].usd = 0
    PROVE  ActualCost(rows) = 0
<1> DEFINE f == [r \in DOMAIN rows |-> rows[r].usd]
<1>1. IsFiniteSet(DOMAIN rows)
  BY FiniteSteps, FS_Subset
<1>2. Amounts(f) /\ \A r \in DOMAIN f : f[r] <= 0
  BY <1>1 DEF Amounts
<1>3. Cardinality(DOMAIN f) \in Nat
  BY <1>1, FS_CardinalityType
<1>4. SumFunction(f) \in Nat /\ SumFunction(f) <= Cardinality(DOMAIN f) * 0
  <2> HIDE DEF f
  <2> QED BY <1>2, SumIsNatural, SumBound
<1>5. SumFunction(f) = 0
  <2> HIDE DEF f
  <2> QED BY <1>3, <1>4
<1> QED
  BY <1>5 DEF ActualCost

\* committed_usd adds the charges of the three steps.
LEMMA CommittedIs ==
    ASSUME NEW steps, NEW rows, DOMAIN steps \subseteq Steps,
           \A s \in Steps : Charge(steps, rows, s) \in Nat
    PROVE  Committed(steps, rows) =
             Charge(steps, rows, "cards") + Charge(steps, rows, "gold")
             + Charge(steps, rows, "works")
<1> DEFINE f == [s \in DOMAIN steps |->
                   IF steps[s].collected THEN ActualCost(rows[s]) ELSE steps[s].ceiling]
<1>1. \A s \in DOMAIN steps : f[s] = Charge(steps, rows, s)
  BY DEF Charge
<1>2. \A s \in Steps : At(f, s) = Charge(steps, rows, s)
  BY DEF Charge, At
<1>3. IsFiniteSet(Steps)
  <2>1. IsFiniteSet({"cards"} \cup {"gold"} \cup {"works"})
    BY FS_Singleton, FS_Union
  <2> QED
    BY <2>1 DEF Steps
<1>4. Amounts(f)
  <2>1. IsFiniteSet(DOMAIN f)
    BY <1>3, FS_Subset
  <2>2. \A s \in DOMAIN f : f[s] \in Nat
    BY <1>1
  <2> QED
    BY <2>1, <2>2 DEF Amounts
<1>5. DOMAIN f \subseteq {"cards", "gold", "works"}
  BY DEF Steps
<1>6. SumFunction(f) = At(f, "cards") + At(f, "gold") + At(f, "works")
  <2> HIDE DEF f
  <2> QED BY <1>4, <1>5, SumOfThree
<1>7. Committed(steps, rows) = SumFunction(f)
  BY DEF Committed
<1> HIDE DEF f
<1> QED
  BY <1>2, <1>6, <1>7 DEF Steps

----------------------------------------------------------------------------
(* What the invariant says of charges and bills.                           *)

LEMMA BatchBill ==
    ASSUME IInv, BudgetInv, NEW b \in DOMAIN batches
    PROVE  /\ Ceiling(batches[b].step, batches[b].content.model) \in Nat
           /\ Bill(b) \in Nat
           /\ batches[b].rows # NoRows => ActualCost(batches[b].rows) = Bill(b)
<1>1. /\ batches[b].step \in Steps /\ batches[b].content.model \in Models
      /\ batches[b].rows # NoRows =>
            Priced(batches[b].rows) /\ DOMAIN batches[b].rows \subseteq Of(batches[b].step)
  BY DEF BudgetInv, BatchPriced, IInv, Shape, Answers
<1>2. Ceiling(batches[b].step, batches[b].content.model) \in Nat
  BY <1>1, CeilingIsNatural
<1>3. batches[b].rows # NoRows => ActualCost(batches[b].rows) \in Nat
  BY <1>1, RowsCost
<1> QED
  BY <1>2, <1>3 DEF Bill

\* A batch step commits what its batch costs, or may cost; a headless one nothing.
LEMMA Charged ==
    ASSUME IInv, BudgetInv, NEW s \in Steps
    PROVE  /\ Charge(ledger, results, s) \in Nat /\ Held(ledger, results, s) \in Nat
           /\ Held(ledger, results, s) <= Charge(ledger, results, s)
           /\ s \in DOMAIN ledger /\ ledger[s].via = "headless" =>
                 Charge(ledger, results, s) = 0 /\ Held(ledger, results, s) = 0
           /\ s \in DOMAIN ledger /\ ledger[s].via = "batch" =>
                 LET b == ledger[s].batch
                     most == Ceiling(batches[b].step, batches[b].content.model)
                 IN  /\ b \in DOMAIN batches /\ ledger[s].ceiling = most
                     /\ Held(ledger, results, s) =
                           IF ledger[s].collected THEN Smaller(Bill(b), most) ELSE most
                     /\ Charge(ledger, results, s) =
                           IF ledger[s].collected THEN ActualCost(batches[b].rows) ELSE most
                     /\ Smaller(Bill(b), most) <= Held(ledger, results, s)
<1>1. CASE s \notin DOMAIN ledger
  BY <1>1 DEF Charge, Held
<1>2. CASE s \in DOMAIN ledger /\ ledger[s].via = "headless"
  <2>1. ledger[s].ceiling = 0 /\ \A r \in DOMAIN results[s] : results[s][r].usd = 0
    BY <1>2 DEF BudgetInv, EntryPriced
  <2>2. ActualCost(results[s]) = 0
    BY <2>1, FreeRows DEF BudgetInv
  <2> QED
    BY <1>2, <2>1, <2>2 DEF Charge, Held, Smaller
<1>3. CASE s \in DOMAIN ledger /\ ledger[s].via = "batch"
  <2> DEFINE b == ledger[s].batch
             most == Ceiling(batches[b].step, batches[b].content.model)
  <2>1. /\ b \in DOMAIN batches /\ batches[b].step = s /\ batches[b].content = requests[s]
        /\ results[s] \in {NoRows, batches[b].rows}
    BY <1>3 DEF IInv, Pinned, Asks
  <2>2. /\ ledger[s].ceiling = most
        /\ ledger[s].collected => results[s] # NoRows
    BY <1>3, <2>1 DEF BudgetInv, EntryPriced
  <2>3. /\ most \in Nat /\ Bill(b) \in Nat
        /\ batches[b].rows # NoRows => ActualCost(batches[b].rows) = Bill(b)
    BY <2>1, BatchBill
  <2>4. ledger[s].collected =>
           /\ results[s] = batches[b].rows
           /\ ActualCost(results[s]) = Bill(b) /\ ActualCost(batches[b].rows) = Bill(b)
    BY <2>1, <2>2, <2>3
  <2> HIDE DEF most, b
  <2>5. /\ Held(ledger, results, s) =
              IF ledger[s].collected THEN Smaller(Bill(b), most) ELSE most
        /\ Charge(ledger, results, s) =
              IF ledger[s].collected THEN ActualCost(batches[b].rows) ELSE most
    BY <1>3, <2>2, <2>4 DEF Held, Charge
  <2>6. /\ Charge(ledger, results, s) \in Nat /\ Held(ledger, results, s) \in Nat
        /\ Held(ledger, results, s) <= Charge(ledger, results, s)
        /\ Smaller(Bill(b), most) <= Held(ledger, results, s)
    BY <2>3, <2>4, <2>5 DEF Smaller
  <2> QED
    BY <1>3, <2>1, <2>2, <2>5, <2>6 DEF most, b
<1>4. s \in DOMAIN ledger => ledger[s].via \in {"batch", "headless"}
  BY DEF BudgetInv, EntryPriced
<1> QED
  BY <1>1, <1>2, <1>3, <1>4

\* What the recorded batches count adds up to no more than what the steps count.
LEMMA RecordedAddUp ==
    ASSUME IInv, BudgetInv, NEW f, DOMAIN f = Recorded, f \in [Recorded -> Nat],
           NEW g \in [Steps -> Nat],
           \A s \in DOMAIN ledger : ledger[s].batch \in Recorded =>
                                      f[ledger[s].batch] <= g[s]
    PROVE  /\ SumFunction(f) \in Nat
           /\ SumFunction(f) <= g["cards"] + g["gold"] + g["works"]
<1> DEFINE BatchOf(s) == IF s \in DOMAIN ledger THEN ledger[s].batch ELSE 0
<1>1. DOMAIN ledger \subseteq Steps /\ 0 \notin DOMAIN batches
  BY DEF IInv, Shape
<1>2. Recorded \subseteq {BatchOf("cards"), BatchOf("gold"), BatchOf("works")}
  BY <1>1 DEF Recorded, Steps
<1>3. Amounts(f)
  <2>1. IsFiniteSet({BatchOf("cards")} \cup {BatchOf("gold")} \cup {BatchOf("works")})
    BY FS_Singleton, FS_Union
  <2>2. IsFiniteSet(Recorded)
    BY <1>2, <2>1, FS_Subset
  <2> QED
    BY <2>2 DEF Amounts
<1>4. ASSUME NEW s \in Steps PROVE At(f, BatchOf(s)) <= g[s]
  <2>1. CASE BatchOf(s) \notin Recorded
    BY <2>1 DEF At
  <2>2. CASE BatchOf(s) \in Recorded
    <3>1. s \in DOMAIN ledger
      BY <1>1, <2>2 DEF Recorded
    <3> QED
      BY <2>2, <3>1 DEF At
  <2> QED
    BY <2>1, <2>2
<1>5. /\ At(f, BatchOf("cards")) \in Nat /\ At(f, BatchOf("gold")) \in Nat
      /\ At(f, BatchOf("works")) \in Nat
      /\ SumFunction(f) <= At(f, BatchOf("cards")) + At(f, BatchOf("gold"))
                          + At(f, BatchOf("works"))
  <2>1. DOMAIN f \subseteq {BatchOf("cards"), BatchOf("gold"), BatchOf("works")}
    BY <1>2
  <2> HIDE DEF BatchOf
  <2> QED
    BY <1>3, <2>1, SumOfThree
<1>6. SumFunction(f) \in Nat
  BY <1>3, SumIsNatural
<1>7. "cards" \in Steps /\ "gold" \in Steps /\ "works" \in Steps
  BY DEF Steps
<1> HIDE DEF BatchOf
<1> QED
  BY <1>4, <1>5, <1>6, <1>7

LEMMA RecordedBatch ==
    ASSUME IInv, BudgetInv, NEW s \in DOMAIN ledger, ledger[s].batch \in Recorded
    PROVE  s \in Steps /\ ledger[s].via = "batch" /\ batches[ledger[s].batch].step = s
<1>1. s \in Steps /\ ledger[s].batch # 0
  BY DEF IInv, Shape, Recorded
<1>2. ledger[s].via = "batch"
  BY <1>1 DEF BudgetInv, EntryPriced
<1> QED
  BY <1>1, <1>2 DEF IInv, Pinned, Asks

\* What is held covers the recorded batches, each up to its allowance.
LEMMA HeldCovers ==
    ASSUME IInv, BudgetInv PROVE WithinBudget
<1> DEFINE Capped(b) == Smaller(Bill(b), Ceiling(batches[b].step, batches[b].content.model))
           f == [b \in Recorded |-> Capped(b)]
           g == [s \in Steps |-> Held(ledger, results, s)]
<1>1. DOMAIN f = Recorded /\ f \in [Recorded -> Nat]
  BY BatchBill DEF Recorded, Smaller
<1>2. g \in [Steps -> Nat]
  BY Charged
<1>3. ASSUME NEW s \in DOMAIN ledger, ledger[s].batch \in Recorded
      PROVE  f[ledger[s].batch] <= g[s]
  BY <1>3, RecordedBatch, Charged
<1> HIDE DEF f, g
<1>4. SumFunction(f) \in Nat /\ SumFunction(f) <= g["cards"] + g["gold"] + g["works"]
  BY <1>1, <1>2, <1>3, RecordedAddUp
<1>5. g["cards"] + g["gold"] + g["works"] = HeldInAll(ledger, results)
  BY DEF g, HeldInAll, Steps
<1>6. HeldInAll(ledger, results) <= granted /\ granted \in Nat
  BY DEF BudgetInv
<1>7. g["cards"] + g["gold"] + g["works"] \in Nat
  BY <1>2 DEF Steps
<1> QED
  BY <1>4, <1>5, <1>6, <1>7 DEF WithinBudget, f

\* committed_usd covers what is known of the recorded batches.
LEMMA CommittedCovers ==
    ASSUME IInv, BudgetInv
    PROVE  /\ SumFunction([b \in Recorded |-> Known(b)]) \in Nat
           /\ Committed(ledger, results) \in Nat
           /\ SumFunction([b \in Recorded |-> Known(b)]) <= Committed(ledger, results)
<1> DEFINE f == [b \in Recorded |-> Known(b)]
           g == [s \in Steps |-> Charge(ledger, results, s)]
<1>1. g \in [Steps -> Nat]
  BY Charged
<1>2. ASSUME NEW s \in DOMAIN ledger, ledger[s].batch \in Recorded
      PROVE  Known(ledger[s].batch) = Charge(ledger, results, s)
  <2>1. s \in Steps /\ ledger[s].via = "batch" /\ batches[ledger[s].batch].step = s
    BY <1>2, RecordedBatch
  <2>2. \A t \in DOMAIN ledger : ledger[t].batch = ledger[s].batch => t = s
    BY <1>2, <2>1, RecordedBatch
  <2>3. (\E t \in DOMAIN ledger : ledger[t].batch = ledger[s].batch /\ ledger[t].collected)
           <=> ledger[s].collected
    BY <2>2
  <2> QED
    BY <2>1, <2>3, Charged DEF Known
<1>3. ASSUME NEW b \in Recorded PROVE f[b] \in Nat
  <2>1. PICK s \in DOMAIN ledger : ledger[s].batch = b
    BY DEF Recorded
  <2>2. s \in Steps
    BY DEF IInv, Shape
  <2> QED
    BY <1>2, <2>1, <2>2, Charged
<1>4. ASSUME NEW s \in DOMAIN ledger, ledger[s].batch \in Recorded
      PROVE  f[ledger[s].batch] <= g[s]
  <2>1. f[ledger[s].batch] = g[s] /\ g[s] \in Nat
    BY <1>1, <1>2, <1>4, RecordedBatch
  <2> HIDE DEF f, g
  <2> QED
    BY <2>1
<1>5. DOMAIN f = Recorded /\ f \in [Recorded -> Nat]
  BY <1>3
<1>6. DOMAIN ledger \subseteq Steps
  BY DEF IInv, Shape
<1>7. Committed(ledger, results) = g["cards"] + g["gold"] + g["works"]
  BY <1>6, Charged, CommittedIs DEF Steps
<1> HIDE DEF f, g
<1>8. SumFunction(f) \in Nat /\ SumFunction(f) <= g["cards"] + g["gold"] + g["works"]
  BY <1>1, <1>4, <1>5, RecordedAddUp
<1>9. g["cards"] + g["gold"] + g["works"] \in Nat
  BY <1>1 DEF Steps
<1> QED
  BY <1>7, <1>8, <1>9 DEF f

----------------------------------------------------------------------------
(* Every step keeps what is held within what was granted.                  *)

LEMMA InitBudget == Init => BudgetInv
<1> SUFFICES ASSUME Init PROVE BudgetInv
  OBVIOUS
<1>1. DOMAIN ledger = {} /\ DOMAIN batches = {} /\ granted = 0
  BY DEF Init, Absent
<1>2. HeldInAll(ledger, results) = 0
  BY <1>1 DEF Held, HeldInAll
<1> QED
  BY <1>1, <1>2 DEF Init, BudgetInv, NoRows, OfModels, Affords

LEMMA HeldIsNatural ==
    ASSUME IInv, BudgetInv
    PROVE  /\ HeldInAll(ledger, results) \in Nat /\ Committed(ledger, results) \in Nat
           /\ HeldInAll(ledger, results) <= Committed(ledger, results)
<1>1. DOMAIN ledger \subseteq Steps
  BY DEF IInv, Shape
<1> DEFINE h == [s \in Steps |-> Held(ledger, results, s)]
           g == [s \in Steps |-> Charge(ledger, results, s)]
<1>2. \A s \in Steps : h[s] \in Nat /\ g[s] \in Nat /\ h[s] <= g[s]
  BY Charged
<1>3. /\ HeldInAll(ledger, results) = h["cards"] + h["gold"] + h["works"]
      /\ Committed(ledger, results) = g["cards"] + g["gold"] + g["works"]
  BY <1>1, Charged, CommittedIs DEF HeldInAll, Steps
<1>4. "cards" \in Steps /\ "gold" \in Steps /\ "works" \in Steps
  BY DEF Steps
<1> HIDE DEF g, h
<1> QED
  BY <1>2, <1>3, <1>4

\* The files and the batches stay as they are: what is left is the command.
LEMMA QuietBudget ==
    ASSUME BudgetInv, UNCHANGED <<files, batches>>, granted' \in Nat, granted <= granted',
           HeldInAll(ledger, results) \in Nat, \A d \in Commands : Affords(d)'
    PROVE  BudgetInv'
<1>1. UNCHANGED <<requests, meta, ledger, results, batches>>
  BY DEF files
<1>2. (HeldInAll(ledger, results) <= granted)'
  BY <1>1 DEF BudgetInv
<1> QED
  BY <1>1, <1>2 DEF BudgetInv, BatchPriced, EntryPriced

LEMMA BuildStartBudget ==
    ASSUME IInv, BudgetInv, OneCommand, NEW c \in Commands, BuildStart(c) PROVE BudgetInv'
<1>1. UNCHANGED <<files, batches, granted>>
  BY DEF BuildStart
<1>2. ASSUME NEW d \in Commands PROVE Affords(d)'
  BY DEF OneCommand, IInv, Shape, BuildStart, Affords, OfModels, Goto, Know
<1> QED
  BY <1>1, <1>2, QuietBudget, HeldIsNatural DEF BudgetInv

LEMMA BuildRequestsBudget ==
    ASSUME IInv, BudgetInv, OneCommand, NEW c \in Commands, BuildRequests(c) PROVE BudgetInv'
<1> DEFINE s == mem[c].step
<1>1. Unstarted(s) /\ OfModels(mem[c].content)
  BY DEF IInv, BudgetInv, BuildRequests, Fresh, Affords
<1>2. /\ requests' = [requests EXCEPT ![s] = mem[c].content] /\ DOMAIN requests = Steps
      /\ UNCHANGED <<meta, ledger, results, batches, granted>>
  BY DEF BuildRequests, IInv, Shape
<1>3. ASSUME NEW t \in Steps PROVE OfModels(requests'[t]) /\ OfModels(meta'[t])
  BY <1>1, <1>2 DEF BudgetInv
<1>4. ASSUME NEW t \in DOMAIN ledger PROVE EntryPriced(t)'
  BY <1>1, <1>2 DEF BudgetInv, EntryPriced, Unstarted, IInv, Shape
<1>5. ASSUME NEW d \in Commands PROVE Affords(d)'
  BY DEF OneCommand, IInv, Shape, BuildRequests, Affords, Goto
<1>6. (HeldInAll(ledger, results) <= granted)'
  BY <1>2 DEF BudgetInv
<1> QED
  BY <1>2, <1>3, <1>4, <1>5, <1>6 DEF BudgetInv, BatchPriced

LEMMA BuildMetaBudget ==
    ASSUME IInv, BudgetInv, OneCommand, NEW c \in Commands, BuildMeta(c) PROVE BudgetInv'
<1>1. Unstarted(mem[c].step)
  BY DEF IInv, BuildMeta, Fresh
<1>2. /\ meta' = [meta EXCEPT ![mem[c].step] = requests[mem[c].step]] /\ DOMAIN meta = Steps
      /\ UNCHANGED <<requests, ledger, results, batches, granted>>
  BY DEF BuildMeta, IInv, Shape
<1>3. ASSUME NEW t \in Steps PROVE OfModels(requests'[t]) /\ OfModels(meta'[t])
  BY <1>1, <1>2 DEF BudgetInv, Unstarted
<1>4. ASSUME NEW d \in Commands PROVE Affords(d)'
  BY DEF OneCommand, IInv, Shape, BuildMeta, Affords, End, Goto
<1>5. (HeldInAll(ledger, results) <= granted)'
  BY <1>2 DEF BudgetInv
<1> QED
  BY <1>2, <1>3, <1>4, <1>5 DEF BudgetInv, BatchPriced, EntryPriced

\* check_budget lets a batch through only if it fits beside what is committed.
LEMMA SubmitCheckBudget ==
    ASSUME IInv, BudgetInv, OneCommand, NEW c \in Commands, SubmitCheck(c) PROVE BudgetInv'
<1>1. PICK s \in Steps, max \in Budgets :
          /\ Verified(s)
          /\ Committed(ledger, results) + Ceiling(s, meta[s].model) <= max
          /\ granted' = IF max > granted THEN max ELSE granted
          /\ Goto(c, "create")
          /\ Know(c, [step |-> s, content |-> requests[s], max |-> max])
          /\ UNCHANGED <<files, batches, crashes>>
  BY DEF SubmitCheck
<1>2. meta[s].model \in Models /\ requests[s] = meta[s]
  BY <1>1 DEF Verified, BudgetInv, OfModels
<1>3. Ceiling(s, meta[s].model) \in Nat /\ max \in Nat /\ granted \in Nat
      /\ Committed(ledger, results) \in Nat /\ HeldInAll(ledger, results) \in Nat
  BY <1>2, CeilingIsNatural, HeldIsNatural, AtlasAssumption DEF BudgetInv
<1>4. /\ granted' \in Nat /\ granted <= granted'
      /\ Committed(ledger, results) + Ceiling(s, meta[s].model) <= granted'
  BY <1>1, <1>3
<1>5. ASSUME NEW d \in Commands PROVE Affords(d)'
  <2>1. d = c
    BY DEF OneCommand
  <2>2. pc'[c] = "create" /\ mem'[c] = [step |-> s, content |-> requests[s], max |-> max]
    BY <1>1 DEF Goto, Know, IInv, Shape
  <2>3. mem'[c].content.model = meta[s].model /\ mem'[c].step = s /\ mem'[c].max = max
    BY <1>2, <2>2
  <2>4. Committed(ledger, results)' = Committed(ledger, results)
    BY <1>1 DEF files
  <2>5. Ceiling(mem[c].step, mem[c].content.model)' = Ceiling(s, meta[s].model)
    BY <2>3 DEF Ceiling
  <2> QED
    <3>1. /\ pc[d]' = "create" /\ mem[d].content.model' \in Models /\ mem[d].max' \in Nat
          /\ Committed(ledger, results)' + Ceiling(s, meta[s].model) <= granted'
          /\ Committed(ledger, results)' + Ceiling(s, meta[s].model) <= mem[d].max'
      BY <1>1, <1>2, <1>3, <1>4, <2>1, <2>2, <2>3, <2>4
    <3> QED
      BY <2>1, <2>5, <3>1 DEF Affords
<1> QED
  BY <1>1, <1>3, <1>4, <1>5, QuietBudget

LEMMA SubmitCreateBudget ==
    ASSUME IInv, BudgetInv, OneCommand, NEW c \in Commands, SubmitCreate(c) PROVE BudgetInv'
<1> DEFINE b == [step |-> mem[c].step, content |-> mem[c].content, rows |-> NoRows]
<1>1. /\ Len(batches) + 1 \in DOMAIN batches' /\ batches'[Len(batches) + 1] = b
      /\ \A i \in DOMAIN batches : i \in DOMAIN batches' /\ batches'[i] = batches[i]
      /\ \A i \in DOMAIN batches' : i \in DOMAIN batches \/ i = Len(batches) + 1
  <2>1. batches' = Append(batches, b)
    BY DEF SubmitCreate
  <2>2. \E S : batches \in Seq(S)
    BY DEF IInv, Shape
  <2> HIDE DEF b
  <2> QED
    BY <2>1, <2>2, Appended
<1>2. /\ mem[c].step \in Steps /\ mem[c].content.model \in Models
      /\ Committed(ledger, results) + Ceiling(mem[c].step, mem[c].content.model) <= granted
  BY DEF IInv, BudgetInv, SubmitCreate, Fresh, Affords, Unstarted
<1>3. UNCHANGED <<requests, meta, ledger, results, granted>>
  BY DEF SubmitCreate, files
<1>4. ASSUME NEW i \in DOMAIN batches' PROVE BatchPriced(i)'
  BY <1>1, <1>2 DEF BudgetInv, BatchPriced
<1>5. ASSUME NEW d \in Commands PROVE Affords(d)'
  <2>1. d = c
    BY DEF OneCommand
  <2>2. /\ pc'[c] = "submitted" /\ mem'[c].step = mem[c].step
        /\ mem'[c].content = mem[c].content
    BY DEF SubmitCreate, Goto, Know, IInv, Shape
  <2>3. Ceiling(mem[c].step, mem[c].content.model)' = Ceiling(mem[c].step, mem[c].content.model)
    BY <2>2 DEF Ceiling
  <2>4. Committed(ledger, results)' = Committed(ledger, results)
    BY <1>3
  <2> QED
    BY <1>2, <1>3, <2>1, <2>2, <2>3, <2>4 DEF Affords
<1>6. (HeldInAll(ledger, results) <= granted)'
  BY <1>3 DEF BudgetInv
<1> QED
  BY <1>3, <1>4, <1>5, <1>6 DEF BudgetInv, EntryPriced

\* The new entry commits the ceiling that was allowed for it.
LEMMA SubmitRecordBudget ==
    ASSUME IInv, BudgetInv, OneCommand, NEW c \in Commands, SubmitRecord(c) PROVE BudgetInv'
<1> DEFINE s == mem[c].step
           k == Ceiling(s, mem[c].content.model)
<1>1. /\ Unstarted(s) /\ mem[c].content = requests[s] /\ mem[c].content.model \in Models
      /\ Committed(ledger, results) + k <= granted
  BY DEF IInv, BudgetInv, SubmitRecord, Fresh, Affords
<1>2. k \in Nat
  BY <1>1, CeilingIsNatural DEF Unstarted
<1>3. /\ DOMAIN ledger' = DOMAIN ledger \cup {s}
      /\ ledger'[s] = Entry("batch", mem[c].content, k, mem[c].batch)
      /\ \A t \in DOMAIN ledger : ledger'[t] = ledger[t]
      /\ UNCHANGED <<requests, meta, results, batches, granted>>
  BY <1>1 DEF SubmitRecord, Unstarted
<1>4. ASSUME NEW t \in DOMAIN ledger' PROVE EntryPriced(t)'
  <2>1. CASE t = s
    <3>1. Ceiling(t, requests'[t].model) = k
      BY <1>1, <1>3, <2>1
    <3>2. /\ ledger'[t].via = "batch" /\ ledger'[t].ceiling = k
          /\ ledger'[t].collected = FALSE
      BY <1>3, <2>1 DEF Entry
    <3> HIDE DEF k
    <3> QED
      BY <3>1, <3>2 DEF EntryPriced
  <2>2. CASE t # s
    BY <1>3, <2>2 DEF BudgetInv, EntryPriced
  <2> QED
    BY <2>1, <2>2
<1>5. ASSUME NEW d \in Commands PROVE Affords(d)'
  BY DEF OneCommand, IInv, Shape, SubmitRecord, Affords, End, Goto
<1>6. \A t \in Steps : Held(ledger', results', t) =
                         IF t = s THEN k ELSE Held(ledger, results, t)
  BY <1>1, <1>3 DEF Held, Entry, Unstarted
<1>7. Held(ledger, results, s) = 0 /\ s \in Steps
  BY <1>1 DEF Held, Unstarted
<1>8. (HeldInAll(ledger, results) <= granted)'
  <2> HIDE DEF s, k
  <2> DEFINE h == [t \in Steps |-> Held(ledger, results, t)]
             n == [t \in Steps |-> Held(ledger', results', t)]
  <2>1. \A t \in Steps : h[t] \in Nat /\ n[t] = IF t = s THEN k ELSE h[t]
    BY <1>6, Charged
  <2>2. /\ HeldInAll(ledger, results) = h["cards"] + h["gold"] + h["works"]
        /\ HeldInAll(ledger', results') = n["cards"] + n["gold"] + n["works"]
    BY DEF HeldInAll, Steps
  <2>3. h[s] = 0
    BY <1>7
  <2> HIDE DEF h, n
  <2>4. HeldInAll(ledger', results') = HeldInAll(ledger, results) + k
    BY <1>2, <1>7, <2>1, <2>2, <2>3 DEF Steps
  <2>5. /\ Committed(ledger, results) \in Nat /\ HeldInAll(ledger, results) \in Nat
        /\ HeldInAll(ledger, results) <= Committed(ledger, results)
        /\ Committed(ledger, results) + k <= granted /\ granted \in Nat
    BY <1>1, HeldIsNatural DEF BudgetInv, k, s
  <2>6. HeldInAll(ledger', results') <= granted
    BY <1>2, <2>4, <2>5
  <2> QED
    BY <1>3, <2>6
<1> QED
  BY <1>3, <1>4, <1>5, <1>8 DEF BudgetInv, BatchPriced

LEMMA BatchEndsBudget ==
    ASSUME IInv, BudgetInv, OneCommand, BatchEnds PROVE BudgetInv'
<1>1. PICK b, f : Ended(b, f)
  BY EndedBatch
<1>2. UNCHANGED <<requests, meta, ledger, results, pc, mem, granted>>
  BY DEF BatchEnds, files
<1>3. ASSUME NEW i \in DOMAIN batches' PROVE BatchPriced(i)'
  <2>1. BatchPriced(i)
    BY <1>1 DEF Ended, BudgetInv
  <2>2. CASE i # b
    BY <1>1, <2>1, <2>2 DEF Ended, BatchPriced
  <2>3. CASE i = b
    <3>1. Priced(f)
      BY <1>1 DEF Ended, Priced
    <3> QED
      BY <1>1, <2>1, <2>3, <3>1 DEF Ended, BatchPriced
  <2> QED
    BY <2>2, <2>3
<1>4. ASSUME NEW d \in Commands PROVE Affords(d)'
  <2>1. Affords(d)
    BY DEF BudgetInv
  <2>2. Committed(ledger, results)' = Committed(ledger, results)
    BY <1>2
  <2>3. Ceiling(mem[d].step, mem[d].content.model)' = Ceiling(mem[d].step, mem[d].content.model)
    BY <1>2
  <2> QED
    BY <1>2, <2>1, <2>2, <2>3 DEF Affords
<1>5. (HeldInAll(ledger, results) <= granted)'
  BY <1>2 DEF BudgetInv
<1> QED
  BY <1>2, <1>3, <1>4, <1>5 DEF BudgetInv, EntryPriced

\* Only entries and rows change, and no step holds more than it did.
LEMMA NoMoreHeld ==
    ASSUME IInv, BudgetInv, IInv', UNCHANGED <<requests, meta, batches, granted>>,
           \A s \in Steps : DOMAIN results'[s] \subseteq Of(s),
           \A s \in DOMAIN ledger' : EntryPriced(s)',
           \A d \in Commands : Affords(d)',
           \A s \in Steps : /\ Held(ledger', results', s) \in Nat
                            /\ Held(ledger', results', s) <= Held(ledger, results, s)
    PROVE  BudgetInv'
<1> DEFINE h == [s \in Steps |-> Held(ledger, results, s)]
           n == [s \in Steps |-> Held(ledger', results', s)]
<1>1. \A s \in Steps : h[s] \in Nat /\ n[s] \in Nat /\ n[s] <= h[s]
  BY Charged
<1>2. /\ HeldInAll(ledger, results) = h["cards"] + h["gold"] + h["works"]
      /\ HeldInAll(ledger', results') = n["cards"] + n["gold"] + n["works"]
  BY DEF HeldInAll, Steps
<1>3. HeldInAll(ledger, results) <= granted /\ granted \in Nat
  BY DEF BudgetInv
<1> HIDE DEF h, n
<1>4. (HeldInAll(ledger, results) <= granted)'
  BY <1>1, <1>2, <1>3 DEF Steps
<1> QED
  BY <1>3, <1>4 DEF BudgetInv, BatchPriced

LEMMA CollectResultsBudget ==
    ASSUME IInv, BudgetInv, OneCommand, NEW c \in Commands, CollectResults(c) PROVE BudgetInv'
<1> DEFINE s == mem[c].step
           b == batches[mem[c].state[s].batch]
<1>0. pc[c] = "poll" /\ b.rows # NoRows
  BY DEF CollectResults
<1>1. CASE ~ Valid(s, b.rows)
  <2>1. UNCHANGED <<files, batches, granted>> /\ End(c)
    BY <1>1 DEF CollectResults, files
  <2>2. ASSUME NEW d \in Commands PROVE Affords(d)'
    BY <2>1 DEF OneCommand, IInv, Shape, Affords, End, Goto
  <2> QED
    BY <2>1, <2>2, QuietBudget, HeldIsNatural DEF BudgetInv
<1>2. CASE Valid(s, b.rows)
  <2>1. /\ results' = [results EXCEPT ![s] = b.rows] /\ DOMAIN results = Steps
        /\ pc' = [pc EXCEPT ![c] = "collected"] /\ pc \in [Commands -> Places]
        /\ UNCHANGED <<mem, requests, meta, ledger, batches, granted>>
    BY <1>2 DEF CollectResults, Goto, IInv, Shape
  <2>2. /\ s \in DOMAIN ledger /\ s \in Steps /\ b = batches[ledger[s].batch]
        /\ ledger[s].via = "batch" /\ results[s] \in {NoRows, b.rows}
    BY <1>0, CollectedOnce
  <2>3. DOMAIN b.rows \subseteq Of(s)
    <3>1. Asks(ledger[s].batch, s)
      BY <2>2 DEF IInv, Pinned
    <3>2. Answers(b) /\ b.step = s
      BY <2>2, <3>1 DEF Asks, IInv, Shape
    <3> QED
      BY <1>0, <3>2 DEF Answers
  <2>4. EntryPriced(s)
    BY <2>2 DEF BudgetInv
  <2>5. ASSUME NEW t \in Steps PROVE DOMAIN results'[t] \subseteq Of(t)
    BY <2>1, <2>3 DEF BudgetInv
  <2>6. ASSUME NEW t \in DOMAIN ledger' PROVE EntryPriced(t)'
    <3>1. EntryPriced(t) /\ t \in Steps
      BY <2>1 DEF BudgetInv, IInv, Shape
    <3> HIDE DEF s, b
    <3>2. CASE t = s
      BY <1>0, <2>1, <2>2, <3>1, <3>2 DEF EntryPriced
    <3>3. CASE t # s
      BY <2>1, <3>1, <3>3 DEF EntryPriced
    <3> QED
      BY <3>2, <3>3
  <2>7. ASSUME NEW d \in Commands PROVE Affords(d)'
    <3>1. d = c /\ pc'[c] = "collected" /\ mem'[c].step = s
      BY <2>1 DEF OneCommand
    <3> HIDE DEF b
    <3>2. results'[s] # NoRows
      BY <1>0, <2>1, <2>2
    <3> QED
      BY <3>1, <3>2 DEF Affords
  <2>8. \A t \in Steps : Held(ledger', results', t) = Held(ledger, results, t)
    <3> HIDE DEF s, b
    <3>1. \A t \in Steps : t # s => results'[t] = results[t]
      BY <2>1
    <3>2. ledger[s].collected => results'[s] = results[s]
      BY <2>1, <2>2, <2>4 DEF EntryPriced
    <3> QED
      BY <2>1, <3>1, <3>2 DEF Held
  <2>9. \A t \in Steps : /\ Held(ledger', results', t) \in Nat
                         /\ Held(ledger', results', t) <= Held(ledger, results, t)
    BY <2>8, Charged
  <2> QED
    BY <2>1, <2>5, <2>6, <2>7, <2>9, CollectResultsStep, NoMoreHeld
<1> QED
  BY <1>1, <1>2

\* A step that is marked, with its rows there if a batch answered them, holds
\* what its rows cost.
LEMMA MarkBudget ==
    ASSUME IInv, BudgetInv, OneCommand, NEW c \in Commands, NEW s \in DOMAIN ledger,
           NEW v, ledger' = [ledger EXCEPT ![s].collected = v],
           ledger[s].via = "batch" => v = TRUE /\ results[s] # NoRows,
           End(c), UNCHANGED <<requests, meta, results, batches, granted>>
    PROVE  BudgetInv'
<1>1. s \in Steps /\ EntryPriced(s) /\ DOMAIN ledger' = DOMAIN ledger
      /\ DOMAIN ledger \subseteq Steps
  BY DEF IInv, Shape, BudgetInv
<1>2. /\ \A t \in DOMAIN ledger : t # s => ledger'[t] = ledger[t]
      /\ ledger'[s].via = ledger[s].via /\ ledger'[s].ceiling = ledger[s].ceiling
      /\ ledger'[s].batch = ledger[s].batch /\ ledger'[s].collected = v
  <2>1. IsEntry(ledger[s])
    BY DEF IInv, Shape
  <2>2. [ledger[s] EXCEPT !.collected = v]
          = [via |-> ledger[s].via, requests |-> ledger[s].requests,
             ceiling |-> ledger[s].ceiling, batch |-> ledger[s].batch, collected |-> v]
    BY <2>1 DEF IsEntry
  <2>3. ledger' = [ledger EXCEPT ![s] = [ledger[s] EXCEPT !.collected = v]]
    OBVIOUS
  <2> QED
    BY <2>2, <2>3
<1>3. ASSUME NEW t \in DOMAIN ledger' PROVE EntryPriced(t)'
  <2>1. EntryPriced(t)
    BY <1>1 DEF BudgetInv
  <2>2. CASE t = s
    BY <1>1, <1>2, <2>2 DEF EntryPriced
  <2>3. CASE t # s
    BY <1>1, <1>2, <2>1, <2>3 DEF EntryPriced
  <2> QED
    BY <2>2, <2>3
<1>4. ASSUME NEW d \in Commands PROVE Affords(d)'
  BY DEF OneCommand, IInv, Shape, Affords, End, Goto
<1>5. ASSUME NEW t \in Steps, t # s
      PROVE  Held(ledger', results', t) = Held(ledger, results, t)
  BY <1>1, <1>2, <1>5 DEF Held
<1>6. Held(ledger', results', s) \in Nat
      /\ Held(ledger', results', s) <= Held(ledger, results, s)
  <2>1. CASE ledger[s].via = "headless"
    <3>1. ledger[s].ceiling = 0 /\ \A r \in DOMAIN results[s] : results[s][r].usd = 0
      BY <1>1, <2>1 DEF EntryPriced
    <3>2. ActualCost(results[s]) = 0
      BY <1>1, <3>1, FreeRows DEF BudgetInv
    <3> QED
      BY <1>1, <1>2, <3>1, <3>2, Charged DEF Held, Smaller
  <2>2. CASE ledger[s].via = "batch"
    <3> DEFINE b == ledger[s].batch
               most == Ceiling(batches[b].step, batches[b].content.model)
    <3>1. b \in DOMAIN batches /\ results[s] = batches[b].rows /\ batches[b].rows # NoRows
      BY <2>2 DEF IInv, Shape, Pinned, Asks
    <3>2. most \in Nat /\ Bill(b) \in Nat /\ ActualCost(results[s]) = Bill(b)
      BY <3>1, BatchBill
    <3>3. ledger[s].ceiling = most /\ Smaller(Bill(b), most) <= Held(ledger, results, s)
      BY <1>1, <2>2, Charged
    <3> HIDE DEF b, most
    <3>4. Held(ledger', results', s) = Smaller(Bill(b), most)
      BY <1>1, <1>2, <2>2, <3>2, <3>3 DEF Held
    <3> QED
      BY <3>2, <3>3, <3>4 DEF Smaller
  <2> QED
    BY <1>1, <2>1, <2>2 DEF EntryPriced
<1>7. \A t \in Steps : /\ Held(ledger', results', t) \in Nat
                       /\ Held(ledger', results', t) <= Held(ledger, results, t)
  <2>1. \A t \in Steps : Held(ledger, results, t) \in Nat
    BY Charged
  <2>2. ASSUME NEW t \in Steps, t # s
        PROVE  /\ Held(ledger', results', t) \in Nat
               /\ Held(ledger', results', t) <= Held(ledger, results, t)
    <3>1. Held(ledger', results', t) = Held(ledger, results, t)
      BY <1>5, <2>2
    <3>2. Held(ledger, results, t) \in Nat
      BY <2>1
    <3>3. \A n \in Nat : n <= n
      OBVIOUS
    <3> QED
      BY <3>1, <3>2, <3>3, Zenon
  <2> QED
    BY <1>6, <2>2
<1>8. \A t \in Steps : DOMAIN results'[t] \subseteq Of(t)
  BY DEF BudgetInv
<1> QED
  BY <1>3, <1>4, <1>7, <1>8, MarkStep, NoMoreHeld

LEMMA CollectRecordBudget ==
    ASSUME IInv, BudgetInv, OneCommand, NEW c \in Commands, CollectRecord(c) PROVE BudgetInv'
<1>1. mem[c].step \in DOMAIN ledger /\ mem[c].state = ledger
  BY DEF IInv, CollectRecord, Fresh
<1>2. results[mem[c].step] # NoRows
  BY DEF BudgetInv, CollectRecord, Affords
<1>3. /\ ledger' = [ledger EXCEPT ![mem[c].step].collected = TRUE]
      /\ End(c) /\ UNCHANGED <<requests, meta, results, batches, granted>>
  BY <1>1 DEF CollectRecord
<1> QED
  BY <1>1, <1>2, <1>3, MarkBudget

LEMMA HeadlessEndBudget ==
    ASSUME IInv, BudgetInv, OneCommand, NEW c \in Commands, HeadlessEnd(c) PROVE BudgetInv'
<1> DEFINE s == mem[c].step
           v == \A r \in Of(s) : Usable(mem[c].done, r)
<1>1. s \in DOMAIN ledger /\ mem[c].state = ledger /\ ledger[s].via = "headless"
  BY DEF IInv, HeadlessEnd, Fresh
<1>2. /\ ledger' = [ledger EXCEPT ![s].collected = v]
      /\ End(c) /\ UNCHANGED <<requests, meta, results, batches, granted>>
  BY <1>1 DEF HeadlessEnd
<1> HIDE DEF v
<1> QED
  BY <1>1, <1>2, MarkBudget

LEMMA HeadlessBeginBudget ==
    ASSUME IInv, BudgetInv, OneCommand, NEW c \in Commands, HeadlessBegin(c) PROVE BudgetInv'
<1> DEFINE s == mem[c].step
<1>1. /\ s \in Steps
      /\ s \in DOMAIN ledger => ledger[s].via = "headless"
      /\ DOMAIN ledger' = DOMAIN ledger \cup {s}
      /\ ledger'[s] = Entry("headless", requests[s], 0, 0)
      /\ \A t \in DOMAIN ledger : t # s => ledger'[t] = ledger[t]
      /\ UNCHANGED <<requests, meta, results, batches, mem, granted>>
  BY DEF IInv, HeadlessBegin, Fresh
<1>2. \A r \in DOMAIN results[s] : results[s][r].usd = 0
  <2>1. CASE s \in DOMAIN ledger
    BY <1>1, <2>1 DEF BudgetInv, EntryPriced
  <2>2. CASE s \notin DOMAIN ledger
    BY <1>1, <2>2 DEF IInv, Pinned, NoRows
  <2> QED
    BY <2>1, <2>2
<1>3. ASSUME NEW t \in DOMAIN ledger' PROVE EntryPriced(t)'
  <2>1. CASE t = s
    BY <1>1, <1>2, <2>1 DEF EntryPriced, Entry
  <2>2. CASE t # s
    BY <1>1, <2>2 DEF BudgetInv, EntryPriced
  <2> QED
    BY <2>1, <2>2
<1>4. ASSUME NEW d \in Commands PROVE Affords(d)'
  BY DEF OneCommand, IInv, Shape, HeadlessBegin, Affords, Goto
<1>5. Held(ledger', results', s) = 0
  BY <1>1 DEF Held, Entry
<1>6. \A t \in Steps : t # s => Held(ledger', results', t) = Held(ledger, results, t)
  BY <1>1 DEF Held
<1>7. \A t \in Steps : /\ Held(ledger', results', t) \in Nat
                       /\ Held(ledger', results', t) <= Held(ledger, results, t)
  BY <1>5, <1>6, Charged
<1>8. \A t \in Steps : DOMAIN results'[t] \subseteq Of(t)
  BY <1>1 DEF BudgetInv
<1> QED
  BY <1>1, <1>3, <1>4, <1>7, <1>8, HeadlessBeginStep, NoMoreHeld

LEMMA AnsweredBudget ==
    ASSUME IInv, BudgetInv, OneCommand, NEW c \in Commands, Answered(c) PROVE BudgetInv'
<1> DEFINE s == mem[c].step
<1>1. PICK r, row : Answering(c, r, row)
  BY AnswerRows
<1>2. /\ pc[c] = "calls" /\ s \in Steps /\ s \in DOMAIN ledger
      /\ ledger[s].via = "headless" /\ r \in Of(s) /\ row.usd = 0
      /\ UNCHANGED <<requests, meta, ledger, batches, pc, granted>>
  BY <1>1 DEF IInv, Answering, Fresh, Todo
<1>3. /\ results'[s] = [q \in DOMAIN results[s] \cup {r} |-> IF q = r THEN row ELSE results[s][q]]
      /\ \A t \in Steps : t # s => results'[t] = results[t]
  BY <1>1, <1>2 DEF IInv, Shape, Answering
<1>4. EntryPriced(s) /\ DOMAIN results[s] \subseteq Of(s)
  BY <1>2 DEF BudgetInv
<1>5. \A q \in DOMAIN results'[s] : results'[s][q].usd = 0
  BY <1>2, <1>3, <1>4 DEF EntryPriced
<1>6. ASSUME NEW t \in Steps PROVE DOMAIN results'[t] \subseteq Of(t)
  BY <1>2, <1>3, <1>4 DEF BudgetInv
<1>7. ASSUME NEW t \in DOMAIN ledger' PROVE EntryPriced(t)'
  <2>1. EntryPriced(t) /\ t \in Steps
    BY <1>2 DEF BudgetInv, IInv, Shape
  <2>2. CASE t = s
    BY <1>2, <1>4, <1>5, <2>2 DEF EntryPriced
  <2>3. CASE t # s
    BY <1>2, <1>3, <2>1, <2>3 DEF EntryPriced
  <2> QED
    BY <2>2, <2>3
<1>8. ASSUME NEW d \in Commands PROVE Affords(d)'
  <2>1. d = c
    BY DEF OneCommand
  <2> QED
    BY <1>2, <2>1 DEF Affords
<1>9. ActualCost(results'[s]) = 0
  BY <1>2, <1>5, <1>6, FreeRows
<1>10. Held(ledger', results', s) = 0
  BY <1>2, <1>4, <1>9 DEF Held, Smaller, EntryPriced
<1>11. \A t \in Steps : t # s => Held(ledger', results', t) = Held(ledger, results, t)
  BY <1>2, <1>3 DEF Held
<1>12. \A t \in Steps : /\ Held(ledger', results', t) \in Nat
                        /\ Held(ledger', results', t) <= Held(ledger, results, t)
  BY <1>10, <1>11, Charged
<1> QED
  BY <1>2, <1>6, <1>7, <1>8, <1>12, AnsweredStep, NoMoreHeld

LEMMA NextBudget == OneCommand /\ IInv /\ BudgetInv /\ [Next]_vars => BudgetInv'
<1> SUFFICES ASSUME OneCommand, IInv, BudgetInv, [Next]_vars PROVE BudgetInv'
  OBVIOUS
<1>0. HeldInAll(ledger, results) \in Nat /\ granted \in Nat
  BY HeldIsNatural DEF BudgetInv
<1>1. CASE UNCHANGED vars
  <2>1. UNCHANGED <<files, batches, granted, pc, mem>>
    BY <1>1 DEF vars, files
  <2>2. ASSUME NEW d \in Commands PROVE Affords(d)'
    <3>1. Affords(d)
      BY DEF BudgetInv
    <3>2. Committed(ledger, results)' = Committed(ledger, results)
      BY <2>1 DEF files
    <3>3. Ceiling(mem[d].step, mem[d].content.model)' = Ceiling(mem[d].step, mem[d].content.model)
      BY <2>1
    <3> QED
      BY <2>1, <3>1, <3>2, <3>3 DEF Affords, files
  <2> QED
    BY <1>0, <2>1, <2>2, QuietBudget
<1>2. CASE BatchEnds
  BY <1>2, BatchEndsBudget
<1>3. ASSUME NEW c \in Commands,
             \/ BuildStart(c) \/ BuildRequests(c) \/ BuildMeta(c)
             \/ SubmitCheck(c) \/ SubmitCreate(c) \/ SubmitRecord(c)
      PROVE  BudgetInv'
  BY <1>3, BuildStartBudget, BuildRequestsBudget, BuildMetaBudget,
     SubmitCheckBudget, SubmitCreateBudget, SubmitRecordBudget
<1>4. ASSUME NEW c \in Commands,
             CollectStart(c) \/ CollectLater(c) \/ HeadlessStart(c) \/ Returned(c)
             \/ Crash(c)
      PROVE  BudgetInv'
  <2>1. UNCHANGED <<files, batches, granted>>
    BY <1>4 DEF CollectStart, CollectLater, HeadlessStart, Returned, Crash
  <2>2. pc'[c] \in {"poll", "idle", "begin", "calls"}
    BY <1>4 DEF CollectStart, CollectLater, HeadlessStart, Returned, Crash, End, Goto, IInv, Shape
  <2>3. ASSUME NEW d \in Commands PROVE Affords(d)'
    BY <2>2 DEF OneCommand, Affords
  <2> QED
    BY <1>0, <2>1, <2>3, QuietBudget
<1>5. ASSUME NEW c \in Commands,
             \/ CollectResults(c) \/ CollectRecord(c)
             \/ HeadlessBegin(c) \/ Answered(c) \/ HeadlessEnd(c)
      PROVE  BudgetInv'
  BY <1>5, CollectResultsBudget, CollectRecordBudget,
     HeadlessBeginBudget, AnsweredBudget, HeadlessEndBudget
<1> QED
  BY <1>1, <1>2, <1>3, <1>4, <1>5 DEF Next

\* The batches the ledger knows of stay, together, within the largest --max-usd a
\* submit was accepted under, each counted up to its allowance, however steps,
\* collections, headless runs and deaths follow each other, as long as the
\* commands do (check_budget, committed_usd, cmd_submit, cmd_collect,
\* cmd_headless).
THEOREM BudgetKept == ASSUME OneCommand PROVE Spec => []WithinBudget
<1>1. OneCommand => (IInv /\ BudgetInv /\ [Next]_vars => IInv' /\ BudgetInv')
  BY NextInvariant, NextBudget
<1>2. IInv /\ BudgetInv => WithinBudget
  BY HeldCovers
<1> QED
  BY <1>1, <1>2, InitInvariant, InitBudget, PTL DEF Spec

\* What is known of the recorded batches leaves room for a batch that is sent, also
\* when one of them was billed above its allowance, as long as the commands follow
\* each other (check_budget, committed_usd).
THEOREM SendsWithinBudget == ASSUME OneCommand PROVE Spec => []SentWithinBudget
<1>1. OneCommand => (IInv /\ BudgetInv /\ [Next]_vars => IInv' /\ BudgetInv')
  BY NextInvariant, NextBudget
<1>2. IInv /\ BudgetInv => SentWithinBudget
  <2> SUFFICES ASSUME IInv, BudgetInv, NEW c \in Commands, pc[c] = "create"
      PROVE  SumFunction([b \in Recorded |-> Known(b)])
               + Ceiling(mem[c].step, mem[c].content.model) <= mem[c].max
    BY DEF SentWithinBudget
  <2> DEFINE k == Ceiling(mem[c].step, mem[c].content.model)
  <2>1. Committed(ledger, results) + k <= mem[c].max /\ mem[c].max \in Nat /\ k \in Nat
    BY CeilingIsNatural DEF BudgetInv, Affords, IInv, Fresh, Unstarted
  <2> HIDE DEF k
  <2>2. /\ SumFunction([b \in Recorded |-> Known(b)]) \in Nat
        /\ Committed(ledger, results) \in Nat
        /\ SumFunction([b \in Recorded |-> Known(b)]) <= Committed(ledger, results)
    BY CommittedCovers
  <2>3. ASSUME NEW x \in Nat, NEW y \in Nat, NEW z \in Nat, x <= y, y + k <= z
        PROVE  x + k <= z
    BY <2>1, <2>3
  <2>4. SumFunction([b \in Recorded |-> Known(b)]) + k <= mem[c].max
    BY <2>1, <2>2, <2>3
  <2> QED
    BY <2>4 DEF k
<1> QED
  BY <1>1, <1>2, InitInvariant, InitBudget, PTL DEF Spec
=============================================================================
