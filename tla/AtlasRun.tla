------------------------------- MODULE AtlasRun -------------------------------
(***************************************************************************)
(* One run directory of the StoryScope atlas: requests are built for a     *)
(* step, sent as a paid batch (submit, collect) or one by one through a    *)
(* subscription (headless), and their answers kept in results/<step>.jsonl *)
(* beside the ledger state.json.  Each command is a process of its own; it *)
(* reads files, works, and writes them back, and may die in between.       *)
(***************************************************************************)
EXTENDS Integers, Sequences, FiniteSets, Functions

CONSTANTS
    Commands,       \* processes: how many commands may overlap
    Chapters,       \* the requests of the step cards
    Models,         \* what build --model may ask for
    Price,          \* the allowance for one answer of a model (step_cost)
    Bills,          \* what actual_cost may make of one answer, also above it
    Budgets,        \* the values of --max-usd
    MaxAttempts,    \* headless --max-attempts
    MaxCrashes,     \* bound on the deaths of commands
    MaxBatches,     \* bound on the batches the operator submits
    None            \* an absent file

ASSUME AtlasAssumption ==
    /\ Price \in [Models -> Nat]
    /\ IsFiniteSet(Chapters)
    /\ Budgets \subseteq Nat /\ Bills \subseteq Nat
    /\ MaxAttempts \in Nat \ {0}
    /\ MaxCrashes \in Nat /\ MaxBatches \in Nat

VARIABLES
    requests,   \* requests/<step>.jsonl: what is asked, of which model
    meta,       \* requests/<step>.meta.json: the hash of what build wrote
    ledger,     \* state.json: step -> its entry, for the steps started
    results,    \* results/<step>.jsonl: request -> row
    batches,    \* the batches the API has, in the order it created them
    given,      \* the answers headless calls have returned: step -> request -> number
    pc,         \* where each command is
    mem,        \* what each command has read
    granted,    \* the largest --max-usd a submit was accepted under
    crashes     \* deaths so far

files == <<requests, meta, ledger, results>>
vars == <<requests, meta, ledger, results, batches, given, pc, mem, granted, crashes>>

----------------------------------------------------------------------------
\* features is left out: it behaves as gold does.
Steps == {"cards", "gold", "works"}
Of(s) == IF s = "cards" THEN Chapters ELSE {s}

NoRows == [r \in {} |-> None]
Absent == [s \in {} |-> None]

Init ==
    /\ requests = [s \in Steps |-> None]
    /\ meta = [s \in Steps |-> None]
    /\ ledger = Absent
    /\ results = [s \in Steps |-> NoRows]
    /\ batches = <<>>
    /\ given = [s \in Steps |-> [r \in Of(s) |-> 0]]
    /\ pc = [c \in Commands |-> "idle"]
    /\ mem = [c \in Commands |-> None]
    /\ granted = 0
    /\ crashes = 0

Goto(c, l) == pc' = [pc EXCEPT ![c] = l]
Know(c, m) == mem' = [mem EXCEPT ![c] = m]
End(c) == Goto(c, "idle") /\ Know(c, None)

----------------------------------------------------------------------------
(* Rows: what an answer was worth, and what was spent on it.               *)

Kinds == {"usable", "unusable", "errored"}

\* _unusable_reason: not run, an error, or an answer later steps cannot read.
Usable(rows, r) == r \in DOMAIN rows /\ rows[r].kind = "usable"

\* _spend_records: the answers a row accounts for, superseded ones included.
Spent(rows, r) == IF r \in DOMAIN rows THEN rows[r].answers ELSE 0

Row(via, kind, content, answers, usd) ==
    [via |-> via, kind |-> kind, of |-> content, answers |-> answers, usd |-> usd]

\* MUTATION of Supersede: the spend records of the replaced row are dropped.
SupersedeAlone(rows, r, kind, content) ==
    Row("headless", kind, content, IF kind = "errored" THEN 0 ELSE 1, 0)

\* _supersede: a row carries forward the spend records of the row it replaces.
Supersede(rows, r, kind, content) ==
    Row("headless", kind, content,
        Spent(rows, r) + (IF kind = "errored" THEN 0 ELSE 1), 0)

\* actual_cost: what the rows of a step were billed through the API.
ActualCost(rows) == SumFunction([r \in DOMAIN rows |-> rows[r].usd])

\* MUTATION of Committed: a batch still out there is not counted.
CommittedCollected(steps, rows) ==
    SumFunction([s \in DOMAIN steps |->
        IF steps[s].collected THEN ActualCost(rows[s]) ELSE 0])

\* MUTATION of Committed: a collected batch counts as its ceiling.
CommittedCeilings(steps, rows) ==
    SumFunction([s \in DOMAIN steps |-> steps[s].ceiling])

\* committed_usd.
Committed(steps, rows) ==
    SumFunction([s \in DOMAIN steps |->
        IF steps[s].collected THEN ActualCost(rows[s]) ELSE steps[s].ceiling])

\* estimate_step: every request answered at the model's allowance.
Ceiling(s, model) == Cardinality(Of(s)) * Price[model]

\* _verified_meta: the request file is the one build described, and the one
\* the step was started with.
Verified(s) ==
    /\ meta[s] # None /\ requests[s] = meta[s]
    /\ s \in DOMAIN ledger => ledger[s].requests = meta[s]

\* _validate_result_rows: rows answer this request file, by the transport and
\* the model the step was started with.
Valid(s, rows) ==
    rows # NoRows =>
        /\ Verified(s)
        /\ \A r \in DOMAIN rows :
              /\ rows[r].via = IF s \in DOMAIN ledger THEN ledger[s].via ELSE "batch"
              /\ rows[r].kind # "errored" => rows[r].of.model = requests[s].model

----------------------------------------------------------------------------
(* build                                                                   *)

\* The cards step answers for every chapter before works may be built.
BuildStart(c) ==
    \E s \in Steps, m \in Models :
        /\ pc[c] = "idle"
        /\ s \notin DOMAIN ledger /\ results[s] = NoRows
        /\ s = "works" => /\ Valid("cards", results["cards"])
                          /\ \A r \in Chapters : Usable(results["cards"], r)
        /\ Goto(c, "build")
        /\ Know(c, [step |-> s,
                    content |-> [model |-> m,
                                 cards |-> IF s = "works" THEN results["cards"] ELSE NoRows]])
        /\ UNCHANGED <<files, batches, given, granted, crashes>>

BuildRequests(c) ==
    /\ pc[c] = "build"
    /\ requests' = [requests EXCEPT ![mem[c].step] = mem[c].content]
    /\ Goto(c, "meta")
    /\ UNCHANGED <<meta, ledger, results, batches, given, mem, granted, crashes>>

\* The meta file hashes the request file it finds.
BuildMeta(c) ==
    /\ pc[c] = "meta"
    /\ meta' = [meta EXCEPT ![mem[c].step] = requests[mem[c].step]]
    /\ End(c)
    /\ UNCHANGED <<requests, ledger, results, batches, given, granted, crashes>>

----------------------------------------------------------------------------
(* submit                                                                  *)

Entry(via, content, ceiling, batch) ==
    [via |-> via, requests |-> content, ceiling |-> ceiling, batch |-> batch,
     collected |-> FALSE]

\* check_budget, and the requests that will be sent.
SubmitCheck(c) ==
    \E s \in Steps, max \in Budgets :
        /\ pc[c] = "idle"
        /\ Len(batches) < MaxBatches
        /\ Verified(s)
        /\ s \notin DOMAIN ledger
        /\ Committed(ledger, results) + Ceiling(s, meta[s].model) <= max
        /\ granted' = IF max > granted THEN max ELSE granted
        /\ Goto(c, "create")
        /\ Know(c, [step |-> s, content |-> requests[s], max |-> max])
        /\ UNCHANGED <<files, batches, given, crashes>>

\* batches.create: from here on the batch costs money.
SubmitCreate(c) ==
    /\ pc[c] = "create"
    /\ batches' = Append(batches, [step |-> mem[c].step, content |-> mem[c].content,
                                   rows |-> NoRows])
    /\ Goto(c, "submitted")
    /\ Know(c, [step |-> mem[c].step, content |-> mem[c].content,
                batch |-> Len(batches) + 1])
    /\ UNCHANGED <<files, given, granted, crashes>>

\* state.json is read only now, and written with the new entry.
SubmitRecord(c) ==
    LET s == mem[c].step
    IN  /\ pc[c] = "submitted"
        /\ ledger' = [t \in DOMAIN ledger \cup {s} |->
                        IF t = s THEN Entry("batch", mem[c].content,
                                            Ceiling(s, mem[c].content.model), mem[c].batch)
                        ELSE ledger[t]]
        /\ End(c)
        /\ UNCHANGED <<requests, meta, results, batches, given, granted, crashes>>

\* The API answers every request of a batch, or reports an error for it.  What an
\* answer costs is known only now: tokens were estimated, and a dated model id is
\* priced as opus (step_cost, actual_cost).
BatchEnds ==
    \E b \in DOMAIN batches :
        LET asked == Of(batches[b].step)
            content == batches[b].content
        IN  /\ batches[b].rows = NoRows
            /\ \E kind \in [asked -> Kinds] : \E usd \in [asked -> Bills] :
                 batches' = [batches EXCEPT ![b].rows =
                    [r \in asked |->
                        IF kind[r] = "errored" THEN Row("batch", kind[r], content, 0, 0)
                        ELSE Row("batch", kind[r], content, 1, usd[r])]]
            /\ UNCHANGED <<files, given, pc, mem, granted, crashes>>

----------------------------------------------------------------------------
(* collect                                                                 *)

\* state.json is read before the batch is polled, for hours with --wait.
CollectStart(c) ==
    \E s \in DOMAIN ledger :
        /\ pc[c] = "idle"
        /\ Verified(s)
        /\ ledger[s].via = "batch"
        /\ Goto(c, "poll")
        /\ Know(c, [step |-> s, state |-> ledger])
        /\ UNCHANGED <<files, batches, given, granted, crashes>>

\* A batch in progress ends the command, unless it waits.
CollectLater(c) ==
    /\ pc[c] = "poll"
    /\ batches[mem[c].state[mem[c].step].batch].rows = NoRows
    /\ End(c)
    /\ UNCHANGED <<files, batches, given, granted, crashes>>

CollectResults(c) ==
    LET s == mem[c].step
        b == batches[mem[c].state[s].batch]
    IN  /\ pc[c] = "poll"
        /\ b.rows # NoRows
        /\ IF Valid(s, b.rows)
           THEN /\ results' = [results EXCEPT ![s] = b.rows]
                /\ Goto(c, "collected")
                /\ UNCHANGED mem
           ELSE UNCHANGED results /\ End(c)
        /\ UNCHANGED <<requests, meta, ledger, batches, given, granted, crashes>>

CollectRecord(c) ==
    /\ pc[c] = "collected"
    /\ ledger' = [mem[c].state EXCEPT ![mem[c].step].collected = TRUE]
    /\ End(c)
    /\ UNCHANGED <<requests, meta, results, batches, given, granted, crashes>>

----------------------------------------------------------------------------
(* headless                                                                *)

\* MUTATION of Todo: usable answers are asked for again.
TodoAll(s) == {r \in Of(s) : Spent(results[s], r) < MaxAttempts}

\* MUTATION of Todo: requests that have used up their attempts are asked again.
TodoUncapped(s) == {r \in Of(s) : ~ Usable(results[s], r)}

\* The requests without a usable row that have not used up their attempts.
Todo(s) ==
    {r \in Of(s) : ~ Usable(results[s], r) /\ Spent(results[s], r) < MaxAttempts}

\* --limit sends some of them.
HeadlessStart(c) ==
    \E s \in Steps : \E todo \in SUBSET Todo(s) :
        /\ pc[c] = "idle"
        /\ Verified(s) /\ Valid(s, results[s])
        /\ s \in DOMAIN ledger => ledger[s].via = "headless"
        /\ Goto(c, "begin")
        /\ Know(c, [step |-> s, todo |-> todo, came |-> NoRows, done |-> results[s],
                    state |-> [t \in DOMAIN ledger \cup {s} |->
                                 IF t = s THEN Entry("headless", requests[s], 0, 0)
                                 ELSE ledger[t]]])
        /\ UNCHANGED <<files, batches, given, granted, crashes>>

HeadlessBegin(c) ==
    /\ pc[c] = "begin"
    /\ ledger' = mem[c].state
    /\ Goto(c, "calls")
    /\ UNCHANGED <<requests, meta, results, batches, given, mem, granted, crashes>>

\* What headless calls for the requests R of step s have returned is spent.
Give(s, R) ==
    given' = [given EXCEPT ![s] = [r \in Of(s) |-> given[s][r] + IF r \in R THEN 1 ELSE 0]]

\* one: a call returns to the executor, in whatever order.
Returned(c) ==
    LET m == mem[c]
    IN  /\ pc[c] = "calls"
        /\ \E r \in m.todo, kind \in Kinds :
              /\ Know(c, [m EXCEPT !.todo = @ \ {r},
                                   !.came = [q \in DOMAIN @ \cup {r} |->
                                               IF q = r THEN kind ELSE @[q]]])
              /\ Give(m.step, IF kind = "errored" THEN {} ELSE {r})
        /\ UNCHANGED <<files, batches, pc, granted, crashes>>

\* The loop over the finished calls: a row takes the answer, and the whole result
\* file is written.  An error may be the usage limit, or the third failure of
\* three: the calls still waiting are cancelled, those in flight return.
Answered(c) ==
    LET m == mem[c]
    IN  /\ pc[c] = "calls"
        /\ \E r \in DOMAIN m.came : \E flying \in SUBSET m.todo :
            LET done == [q \in DOMAIN m.done \cup {r} |->
                            IF q = r
                            THEN Supersede(m.done, r, m.came[r], m.state[m.step].requests)
                            ELSE m.done[q]]
            IN  /\ flying # m.todo => m.came[r] = "errored"
                /\ results' = [results EXCEPT ![m.step] = done]
                /\ Know(c, [m EXCEPT !.done = done, !.todo = flying,
                                     !.came = [q \in DOMAIN @ \ {r} |-> @[q]]])
                /\ UNCHANGED <<requests, meta, ledger, batches, given, pc, granted, crashes>>

HeadlessEnd(c) ==
    LET s == mem[c].step
    IN  /\ pc[c] = "calls"
        /\ mem[c].todo = {} /\ DOMAIN mem[c].came = {}
        /\ ledger' = [mem[c].state EXCEPT ![s].collected =
                        \A r \in Of(s) : Usable(mem[c].done, r)]
        /\ End(c)
        /\ UNCHANGED <<requests, meta, results, batches, given, granted, crashes>>

----------------------------------------------------------------------------
\* A command is killed, or dies of an exception.  Headless calls it leaves behind
\* may answer: those in flight when it is killed, every one that still waits when
\* an exception leaves the executor, which runs them first.  No row tells of them.
Crash(c) ==
    /\ pc[c] # "idle"
    /\ crashes < MaxCrashes
    /\ crashes' = crashes + 1
    /\ IF pc[c] = "calls" THEN \E R \in SUBSET mem[c].todo : Give(mem[c].step, R)
       ELSE UNCHANGED given
    /\ End(c)
    /\ UNCHANGED <<files, batches, granted>>

Next ==
    \/ BatchEnds
    \/ \E c \in Commands :
          \/ BuildStart(c) \/ BuildRequests(c) \/ BuildMeta(c)
          \/ SubmitCheck(c) \/ SubmitCreate(c) \/ SubmitRecord(c)
          \/ CollectStart(c) \/ CollectLater(c) \/ CollectResults(c) \/ CollectRecord(c)
          \/ HeadlessStart(c) \/ HeadlessBegin(c) \/ Returned(c) \/ Answered(c) \/ HeadlessEnd(c)
          \/ Crash(c)

Spec == Init /\ [][Next]_vars

----------------------------------------------------------------------------
Recorded == {b \in DOMAIN batches : \E s \in DOMAIN ledger : ledger[s].batch = b}

\* What a batch has cost, or may still cost.
Bill(b) ==
    IF batches[b].rows = NoRows THEN Ceiling(batches[b].step, batches[b].content.model)
    ELSE ActualCost(batches[b].rows)

Smaller(m, n) == IF m < n THEN m ELSE n

\* The batches the ledger knows of stay, together, within the largest --max-usd
\* a submit was accepted under (check_budget), however steps, collections,
\* headless runs and deaths of commands follow each other.  Of a batch that is
\* billed above its own allowance, which step_cost does not rule out, this
\* counts the allowance.
WithinBudget ==
    SumFunction([b \in Recorded |->
        Smaller(Bill(b), Ceiling(batches[b].step, batches[b].content.model))]) <= granted

\* What is known of a batch: its bill once it is collected, else its allowance.
Known(b) ==
    IF \E s \in DOMAIN ledger : ledger[s].batch = b /\ ledger[s].collected
    THEN ActualCost(batches[b].rows)
    ELSE Ceiling(batches[b].step, batches[b].content.model)

\* What is known of the recorded batches leaves room for a batch that is sent: an
\* earlier bill above its allowance is taken from the later ones (check_budget,
\* committed_usd).
SentWithinBudget ==
    \A c \in Commands : pc[c] = "create" =>
        SumFunction([b \in Recorded |-> Known(b)])
          + Ceiling(mem[c].step, mem[c].content.model) <= mem[c].max

\* Every row answers the requests on disk, and the requests of works quote the
\* cards on disk: no rebuild, rerun or collection changes either under the other
\* (cmd_build, _verified_meta, cmd_headless).
AnswersBound ==
    /\ \A s \in Steps : \A r \in DOMAIN results[s] : results[s][r].of = requests[s]
    /\ requests["works"] # None => requests["works"].cards = results["cards"]

\* An answer that is on record stays there, and rows take a further one only while
\* the request has no usable answer and has not used up its attempts (_supersede,
\* cmd_collect, cmd_headless).
SpendKept ==
    [][\A s \in Steps : \A r \in Of(s) :
          /\ Spent(results'[s], r) >= Spent(results[s], r)
          /\ Spent(results'[s], r) > Spent(results[s], r) =>
                ~ Usable(results[s], r) /\ Spent(results[s], r) < MaxAttempts]_vars

\* A request is answered through the subscription at most --max-attempts times, and
\* once more for each death of a command, which takes at most one answer of a
\* request with it that no row counts (cmd_headless).
AnswersBounded ==
    \A s \in Steps : \A r \in Of(s) : given[s][r] <= MaxAttempts + crashes

\* committed_usd, its docstring says, is "the most this run may already have
\* spent": when no submit is about to record its batch, it covers what the ended
\* batches were billed.
CommittedCoversSpend ==
    (\A c \in Commands : pc[c] # "submitted") =>
        Committed(ledger, results) >=
            SumFunction([b \in {d \in DOMAIN batches : batches[d].rows # NoRows} |-> Bill(b)])
=============================================================================
