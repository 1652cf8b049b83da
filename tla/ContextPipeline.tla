--------------------------- MODULE ContextPipeline ---------------------------
(***************************************************************************)
(* The context phase of a review: batches of work items (a clause and a    *)
(* rule it matched) that run side by side, each calling two tools under    *)
(* the execution control of the run, and the retrieval behind the first    *)
(* tool with its clause index in PostgreSQL and its caches in Redis.  A    *)
(* tool runs in a thread of its own that nobody can stop: a call that was  *)
(* cancelled or timed out is abandoned and goes on beside the later ones.  *)
(***************************************************************************)
EXTENDS Integers, Sequences, FiniteSets, SequencesExt, HybridRetrieval

CONSTANTS
    Clauses,   \* the clause ids of the contract, 1..n; no two have one text
    WorkItems, \* context_work_items: a sequence of [clause, rule]
    Width,     \* llm_max_concurrency
    Rankings,  \* per rule, what its queries would recall and how they score
    MaxRuns,   \* runs of the phase: a failed one is recovered
    MaxFaults

Items == DOMAIN WorkItems
Rules == {WorkItems[i].rule : i \in Items}

\* What the queries of a rule do: nearness ranks all the clauses, a keyword
\* search those that match, and the reranker scores any.
Queries == [vector  : {ranked \in Seq(Clauses) : Clauses \subseteq ToSet(ranked)},
            keyword : Seq(Clauses),
            score   : [Clauses -> Int]]

ASSUME PipelineAssumption ==
    /\ IsFiniteSet(Clauses) /\ Clauses = 1..Cardinality(Clauses)
    /\ WorkItems \in Seq([clause : Clauses, rule : Rules])
    /\ Rankings \subseteq [Rules -> Queries]
    /\ Width \in Nat \ {0} /\ MaxRuns \in Nat /\ MaxFaults \in Nat

None == 0

VARIABLES
    (* PostgreSQL. *)
    cancelled, \* the task's status is CANCEL_REQUESTED
    stored,    \* review_contexts of the row: their items and what was retrieved
    (* The run. *)
    run,       \* its number
    node,      \* of build_contexts: where it is, the batch, the outcome, the end, the logs it adds
    item,      \* of the batch: where it is, what was retrieved, its logs
    (* The tool threads of the worker process, those given up included. *)
    thread,
    lock,      \* who holds _index_lock
    (* What they share. *)
    index,     \* clause_embeddings: of which clause text each clause's vector is
    vectors,   \* Redis: of which text the vector cached for each clause text is
    results,   \* Redis: the cached retrievals, by key
    ranking,   \* how the queries of each rule rank the clauses
    faults

vars == <<cancelled, stored, run, node, item, thread, lock, index, vectors, results, ranking, faults>>
shared == <<index, vectors, results>>
control == <<cancelled, stored, run, ranking>>

NoItem == [pc |-> "idle", related |-> <<>>, logs |-> <<>>]
Threads == (1..MaxRuns) \X Items
Keys == {WorkItems[i] : i \in Items}

Init ==
    /\ cancelled = FALSE
    /\ stored = <<>>
    /\ run = 0
    /\ node = [pc |-> "idle", batch |-> 1, next |-> 1, end |-> "none", logs |-> <<>>]
    /\ item = [i \in Items |-> NoItem]
    /\ thread = [t \in Threads |-> [pc |-> "none", related |-> <<>>]]
    /\ lock = {}
    /\ index = [c \in Clauses |-> None]
    /\ vectors = [c \in Clauses |-> None]
    /\ results = <<>>
    /\ ranking \in Rankings
    /\ faults = 0

Faults(n) == faults + n <= MaxFaults /\ faults' = faults + n

Batch == {i \in Items : node.batch <= i /\ i < node.batch + Width}

-----------------------------------------------------------------------------
(* invoke_tool: one log entry per call, whatever becomes of it.            *)

Logged(i, tool, status) ==
    Append(item[i].logs, [item |-> i, tool |-> tool, status |-> status])

Call(i, pc, tool, status, related) ==
    item' = [item EXCEPT ![i] = [pc |-> pc, related |-> related, logs |-> Logged(i, tool, status)]]

\* Any exception of a call becomes the outcome of its item.
Failing(i, tool, status) == Call(i, "done", tool, status, item[i].related)

\* before_step
StartRelated(i) ==
    /\ item[i].pc = "related" /\ thread[<<run, i>>].pc = "none"
    /\ IF cancelled
       THEN Failing(i, "related", "cancelled") /\ UNCHANGED thread
       ELSE thread' = [thread EXCEPT ![<<run, i>>].pc = "lock"] /\ UNCHANGED item
    /\ UNCHANGED <<control, node, lock, shared, faults>>

\* Mutant: a result that is there is taken.
MayAdoptAnyway == TRUE

\* after_step
MayAdopt == ~cancelled

\* A result in the queue is looked at first, and an exception of the tool is
\* raised as it is; a result is adopted only if the run may still go on.
EndRelated(i) ==
    /\ item[i].pc = "related"
    /\ \/ /\ thread[<<run, i>>].pc = "failed"
          /\ Failing(i, "related", "failed") /\ UNCHANGED faults
       \/ /\ thread[<<run, i>>].pc = "done"
          /\ \/ /\ MayAdopt
                /\ Call(i, "memory", "related", "success", thread[<<run, i>>].related)
                /\ UNCHANGED faults
             \/ ~MayAdopt /\ Failing(i, "related", "cancelled") /\ UNCHANGED faults
             \/ MayAdopt /\ Failing(i, "related", "timeout") /\ Faults(1)
    /\ thread' = [thread EXCEPT ![<<run, i>>] = [pc |-> "taken", related |-> <<>>]]
    /\ UNCHANGED <<control, node, lock, shared>>

\* Mutant: only a cancellation ends the wait.
MayGiveUpIfCancelled(i) == cancelled

\* No result yet: a cancellation or the node's time limit ends the wait.
MayGiveUp(i) == thread[<<run, i>>].pc \in {"lock", "index", "cache", "recall"}

GiveUp(i) ==
    /\ item[i].pc = "related"
    /\ MayGiveUp(i)
    /\ IF cancelled THEN Failing(i, "related", "cancelled") ELSE Failing(i, "related", "timeout")
    /\ UNCHANGED <<control, node, thread, lock, shared, faults>>

\* The second tool reads the memory store.
StartMemory(i) ==
    /\ item[i].pc = "memory"
    /\ IF cancelled THEN Failing(i, "memory", "cancelled")
       ELSE item' = [item EXCEPT ![i].pc = "remembering"]
    /\ UNCHANGED <<control, node, thread, lock, shared, faults>>

\* It ends or is given up, and the context is built of both results unless
\* the budget is exceeded.
EndMemory(i) ==
    /\ item[i].pc = "remembering"
    /\ \/ MayAdopt /\ Call(i, "built", "memory", "success", item[i].related) /\ UNCHANGED faults
       \/ MayAdopt /\ Call(i, "done", "memory", "success", item[i].related) /\ Faults(1)
       \/ ~MayAdopt /\ Failing(i, "memory", "cancelled") /\ UNCHANGED faults
       \/ Failing(i, "memory", "failed") /\ Faults(1)
       \/ MayAdopt /\ Failing(i, "memory", "timeout") /\ Faults(1)
    /\ UNCHANGED <<control, node, thread, lock, shared>>

-----------------------------------------------------------------------------
(* retrieve_related_clauses, in the thread of a call.                      *)

Goes(t, pc) == thread' = [thread EXCEPT ![t].pc = pc]

TakeIndexLock(t) ==
    /\ thread[t].pc = "lock" /\ lock = {}
    /\ lock' = {t}
    /\ Goes(t, "index")
    /\ UNCHANGED <<control, node, item, shared, faults>>

\* The clauses without a vector of the current text.
Missing ==
    LET clauses == {c \in Clauses : index[c] = None}
    IN  Listed(clauses, Ascending(clauses))

\* What Redis has not got of them is sent to the model, which answers in order.
Sent ==
    LET clauses == {c \in Clauses : index[c] = None /\ vectors[c] = None}
    IN  Listed(clauses, Ascending(clauses))
Embedded == Sent

\* Mutant: the answers are zipped with all the texts asked for.
VectorOfByPosition(k) ==
    IF vectors[Missing[k]] # None THEN vectors[Missing[k]]
    ELSE Embedded[IF k \in DOMAIN Embedded THEN k ELSE Len(Embedded)]

\* _embeddings_for_texts
VectorOf(k) ==
    IF vectors[Missing[k]] # None THEN vectors[Missing[k]]
    ELSE Embedded[Rank(Missing[k], Sent)]

Indexed ==
    [c \in Clauses |-> IF index[c] = None THEN VectorOf(Rank(c, Missing)) ELSE index[c]]

\* Each answer is put in Redis, which may fail on the way and is not needed;
\* the rows are written in one transaction, which may fail after that.  One
\* fault may be the failure of both.
EnsureEmbeddings(t) ==
    /\ thread[t].pc = "index"
    /\ \E n \in 0..Len(Sent), written \in BOOLEAN :
        /\ Faults(IF n = Len(Sent) /\ written THEN 0 ELSE 1)
        /\ vectors' = [c \in Clauses |-> IF Contains(First(Sent, n), c) THEN VectorOf(Rank(c, Missing))
                                         ELSE vectors[c]]
        /\ index' = IF written THEN Indexed ELSE index
        /\ Goes(t, IF written THEN "cache" ELSE "failed")
    /\ lock' = {}
    /\ UNCHANGED <<control, node, item, results>>

Item(t) == WorkItems[t[2]]

\* Mutant: the query is left out of the key.
CacheKeyOfClause(t) == CHOOSE k \in Keys : k.clause = Item(t).clause

\* The key covers the query, which covers the clause's text and the rule.
CacheKey(t) == Item(t)

\* A miss, an expired entry and a failed read are one.
ReadCache(t) ==
    /\ thread[t].pc = "cache"
    /\ \/ /\ CacheKey(t) \in DOMAIN results
          /\ thread' = [thread EXCEPT ![t] = [pc |-> "done", related |-> results[CacheKey(t)]]]
          /\ UNCHANGED faults
       \/ CacheKey(t) \notin DOMAIN results /\ Goes(t, "recall") /\ UNCHANGED faults
       \/ CacheKey(t) \in DOMAIN results /\ Goes(t, "recall") /\ Faults(1)
    /\ UNCHANGED <<control, node, item, lock, shared>>

\* The other clauses that have a row, by what their vectors are near to.
VectorRecall(request, rows) ==
    LET others == {c \in Clauses \ {request.clause} : rows[c] # None}
        position(c) == Rank(rows[c], ranking[request.rule].vector)
        before(c, d) == position(c) < position(d) \/ (position(c) = position(d) /\ c < d)
    IN  Recalled(others, {p \in others \X others : before(p[1], p[2])})

\* The other clauses that match, the best match first.
KeywordRecall(request) ==
    LET ranked == ranking[request.rule].keyword
        others == ToSet(ranked) \ {request.clause}
    IN  Recalled(others, {p \in others \X others : Rank(p[1], ranked) < Rank(p[2], ranked)})

Retrieved(request, rows) ==
    Selected(VectorRecall(request, rows), KeywordRecall(request), ranking[request.rule].score)

Put(entries, key, entry) ==
    [k \in DOMAIN entries \cup {key} |-> IF k = key THEN entry ELSE entries[k]]

Retrieve(t) ==
    /\ thread[t].pc = "recall"
    /\ \/ Goes(t, "failed") /\ Faults(1) /\ UNCHANGED results
       \/ /\ thread' = [thread EXCEPT ![t] = [pc |-> "done", related |-> Retrieved(Item(t), index)]]
          /\ \/ results' = Put(results, CacheKey(t), Retrieved(Item(t), index)) /\ UNCHANGED faults
             \/ UNCHANGED results /\ Faults(1)
    /\ UNCHANGED <<control, node, item, lock, index, vectors>>

ToolThread(t) == TakeIndexLock(t) \/ EnsureEmbeddings(t) \/ ReadCache(t) \/ Retrieve(t)

-----------------------------------------------------------------------------
(* build_contexts                                                          *)

\* The phase begins, once more after a recovery, with no contexts.
Start ==
    /\ node.pc = "idle" \/ node.end \in {"RETRIEVAL_FAILED", "NODE_TIMEOUT"}
    /\ run < MaxRuns /\ ~cancelled
    /\ run' = run + 1
    /\ stored' = <<>>
    /\ node' = [node EXCEPT !.pc = "submit", !.batch = 1, !.next = 1, !.end = "none", !.logs = <<>>]
    /\ UNCHANGED <<cancelled, ranking, item, thread, lock, shared, faults>>

\* map_ordered: a batch is no wider than the pool, so all of it runs at once.
Submit ==
    /\ node.pc = "submit"
    /\ item' = [i \in Items |-> IF i \in Batch THEN [NoItem EXCEPT !.pc = "related"] ELSE NoItem]
    /\ node' = [node EXCEPT !.pc = "batch"]
    /\ UNCHANGED <<control, thread, lock, shared, faults>>

Ended(i) == item[i].pc \in {"built", "done"}

\* The logs of the items one after another.
LogsOf(items) ==
    LET all == UNION {{i} \X DOMAIN item[i].logs : i \in items}
        before(p, q) == p[1] < q[1] \/ (p[1] = q[1] /\ p[2] < q[2])
        places == Listed(all, {p \in all \X all : before(p[1], p[2])})
    IN  [n \in DOMAIN places |-> item[places[n][1]].logs[places[n][2]]]

\* Mutant: the logs of the items that follow the first error are lost.
BatchLogsUpToError ==
    LET failed == {i \in Batch : item[i].pc = "done"}
    IN  LogsOf({i \in Batch : \A j \in failed : i <= j})

\* _merge_batch_logs
BatchLogs == LogsOf(Batch)

\* The pool is left when every item has ended; the outcomes are in the order
\* of the items, whatever the order they came in.
Merge ==
    /\ node.pc = "batch"
    /\ \A i \in Batch : Ended(i)
    /\ node' = [node EXCEPT !.pc = "consume", !.logs = @ \o BatchLogs]
    /\ UNCHANGED <<control, item, thread, lock, shared, faults>>

\* What the task is told of an outcome that is an error.
ErrorOf(i) ==
    CASE Last(item[i].logs).status = "cancelled" -> "CANCELLED"
      [] Last(item[i].logs).status = "timeout"   -> "NODE_TIMEOUT"
      [] OTHER                                   -> "RETRIEVAL_FAILED"

\* A task that is being cancelled accepts no other status.
End(status) ==
    node' = [node EXCEPT !.pc = "ended", !.end = IF cancelled THEN "CANCELLED" ELSE status]

\* The first error in the order of the items ends the phase; each context is
\* published with its progress, and the next batch follows.
Consume ==
    /\ node.pc = "consume"
    /\ LET i == node.next
       IN  IF i \notin Batch
           THEN /\ IF i > Len(WorkItems) THEN End("CONTEXT_BUILT")
                   ELSE node' = [node EXCEPT !.pc = "submit", !.batch = i]
                /\ UNCHANGED stored
           ELSE IF item[i].pc = "done" THEN End(ErrorOf(i)) /\ UNCHANGED stored
           ELSE IF cancelled THEN End("CANCELLED") /\ UNCHANGED stored
           ELSE /\ stored' = Append(stored, [item |-> i, related |-> item[i].related])
                /\ node' = [node EXCEPT !.next = i + 1]
    /\ UNCHANGED <<cancelled, run, ranking, item, thread, lock, shared, faults>>

Cancel ==
    /\ ~cancelled /\ node.pc # "idle" /\ node.end # "CONTEXT_BUILT"
    /\ cancelled' = TRUE
    /\ UNCHANGED <<stored, run, ranking, node, item, thread, lock, shared, faults>>

Worker(i) == StartRelated(i) \/ EndRelated(i) \/ GiveUp(i) \/ StartMemory(i) \/ EndMemory(i)
Node == Submit \/ Merge \/ Consume

Next == \/ Start \/ Cancel \/ Node
        \/ \E i \in Items : Worker(i)
        \/ \E t \in Threads : ToolThread(t)

Spec == Init /\ [][Next]_vars

\* The node and the pool's threads go on, and so does the clock.  A tool may
\* hang for ever.
FairSpec == Spec /\ WF_vars(Node) /\ \A i \in Items : WF_vars(Worker(i))

-----------------------------------------------------------------------------
(* Properties.                                                             *)

Logs == [item : Items, tool : {"related", "memory"},
         status : {"success", "failed", "cancelled", "timeout"}]

TypeOK ==
    /\ cancelled \in BOOLEAN /\ run \in 0..MaxRuns /\ faults \in 0..MaxFaults
    /\ stored \in Seq([item : Items, related : Seq(Clauses)])
    /\ node \in [pc : {"idle", "submit", "batch", "consume", "ended"}, batch : Nat, next : Nat,
                 end : {"none", "CONTEXT_BUILT", "RETRIEVAL_FAILED", "NODE_TIMEOUT", "CANCELLED"},
                 logs : Seq(Logs)]
    /\ item \in [Items -> [pc : {"idle", "related", "memory", "remembering", "built", "done"},
                           related : Seq(Clauses), logs : Seq(Logs)]]
    /\ thread \in [Threads -> [pc : {"none", "lock", "index", "cache", "recall", "done", "failed",
                                     "taken"}, related : Seq(Clauses)]]
    /\ lock = {} \/ \E t \in Threads : lock = {t}
    /\ index \in [Clauses -> {None} \cup Clauses] /\ vectors \in [Clauses -> {None} \cup Clauses]
    /\ DOMAIN results \subseteq Keys /\ \A k \in DOMAIN results : results[k] \in Seq(Clauses)
    /\ ranking \in Rankings

Failed(log) == log.status # "success"
Before(a, b) == a.item < b.item \/ (a.item = b.item /\ a.tool = "related" /\ b.tool = "memory")

\* README.md item 84: when a batch fails, all the calls it made are in the
\* task's logs, in the order of the items, the first error in that order is
\* the one reported, and the contexts before it are stored.
FirstErrorInOrder ==
    node.pc \in {"consume", "ended"} =>
        LET started == {i \in Items : i < node.batch} \cup Batch
        IN  /\ \A j, k \in DOMAIN node.logs : j < k => Before(node.logs[j], node.logs[k])
            /\ started = {node.logs[j].item : j \in DOMAIN node.logs}
            /\ \A k \in DOMAIN stored : stored[k].item = k
            /\ \A j \in DOMAIN node.logs : Failed(node.logs[j]) => Len(stored) < node.logs[j].item
            /\ node.end = "CONTEXT_BUILT" => Len(stored) = Len(WorkItems)
            /\ node.end = "NODE_TIMEOUT" =>
                \E j \in DOMAIN node.logs : node.logs[j].status = "timeout" /\ node.logs[j].item = Len(stored) + 1

\* Once the task is cancelled no tool is begun, no call in progress becomes
\* part of a context and no context is stored, wherever the node, the items and
\* the abandoned threads are (before_step, after_step, update_task).
CancelledCallsDropped ==
    [][cancelled => /\ stored' = stored
                    /\ \A t \in Threads : thread[t].pc = "none" => thread'[t].pc = "none"
                    /\ \A i \in Items : item[i].pc # "built" => item'[i].pc # "built"]_vars

\* Each clause has a row, with the vector of its own text.
OwnVectors == [c \in Clauses |-> c]

\* Whatever was cached, indexed or left behind by abandoned calls, the related
\* clauses of a context are those a retrieval from the clauses themselves
\* would choose.
RelatedIsFresh ==
    \A k \in DOMAIN stored :
        stored[k].related = Retrieved(WorkItems[stored[k].item], OwnVectors)

\* And no clause is left out that every judge prefers to a chosen one.
NothingBetterLeftOut ==
    \A k \in DOMAIN stored :
        LET request == WorkItems[stored[k].item]
        IN  Undominated(stored[k].related, VectorRecall(request, OwnVectors),
                        KeywordRecall(request), ranking[request.rule].score)

\* The phase ends although a tool may hang and hold the index lock for ever.
PhaseEnds == node.pc \in {"submit", "batch", "consume"} ~> node.pc = "ended"

=============================================================================
