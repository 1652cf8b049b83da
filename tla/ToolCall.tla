------------------------------ MODULE ToolCall ------------------------------
(***************************************************************************)
(* One call of a tool that asks the model: analyze_risk, criticize_risk,   *)
(* plan_review_action, generate_revision, extract_key_fields ("decide")    *)
(* and classify_contract_type ("classify").                                *)
(*                                                                         *)
(* invoke_tool runs the tool in a thread of its own and waits for its      *)
(* result, for a cancellation and for the node's time limit, whichever     *)
(* comes first; it asks the database for the cancellation every 10 ms, and *)
(* a question that fails ends the call too.  The thread cannot be stopped  *)
(* and works on when the caller has given it up.  The tool makes at most   *)
(* two requests and appends a record of each to a list it shares with the  *)
(* caller, from which the caller writes the step's entry in the log when   *)
(* the call ends.                                                          *)
(*                                                                         *)
(* Abstracted: the prompt, the answer and the records' numbers.  A request *)
(* is its fate, a record the error type it carries ("ok" for none).        *)
(***************************************************************************)
EXTENDS Naturals, Sequences

CONSTANT Tools   \* the tools called: a part of {"decide", "classify"}

ASSUME ToolsAssumption == Tools \subseteq {"decide", "classify"}

VARIABLES
    tool,        \* the tool called
    mode,        \* the model mode bound to the task: "local" or "remote"
    cancelled,   \* cancellation of the task has been requested
    overdue,     \* the node's time limit has passed
    caller,      \* invoke_tool: "start", "waiting" or "ended"
    thread,      \* the tool's thread: "none", "opening", "calling", "flying",
                 \* "judging" or "done"
    attempt,     \* which of its two attempts the tool is at
    result,      \* what the thread has put in the result queue
    records,     \* the call records the thread and the caller share
    requests,    \* the fate of each request sent to the provider
    entry,       \* the step's log entry, once it is written
    asked        \* (observed) the requests as they were when it was written

control == <<cancelled, overdue>>
work == <<thread, attempt, result, records, requests>>
written == <<entry, asked>>
vars == <<tool, mode, control, caller, work, written>>

\* What ends a call: nothing, an exception of the tool, of the cancellation,
\* of the time limits, or of the database when it is asked for the task.
Errors == {"none", "tool", "cancelled", "timeout", "check"}

\* Errors after which the service asks once more (LLMProviderError.retryable).
Transient == {"timeout", "temporary_error", "rate_limit"}

\* Errors of a request that has been sent, and its two kinds of answer that
\* are no use: not the JSON asked for, or refused by the tool's own checks.
Permanent == {"schema_error", "authentication_error", "provider_error"}
Rejected == "rejected"

\* A failure of the HTTP client that none of the provider's handlers names
\* (an answer whose compression is corrupt, for one): it leaves no record.
Unforeseen == "unforeseen"

\* Found before anything is sent: settings, tokenizer or the token budget.
Refusals == {"configuration_error", "context_budget_error"}

Fates == Transient \cup Permanent \cup {"flying", "ok", Rejected, Unforeseen}
RecordTypes == Transient \cup Permanent \cup Refusals \cup {"ok"}
NoEntry == [status |-> "none", error |-> "none", summary |-> "none", calls |-> <<>>]
LogEntries ==
    [status : {"none", "success", "failed", "cancelled", "timeout"},
     error : Errors,
     summary : {"none", "local", "calls", "in_flight", "not_invoked"},
     calls : Seq(RecordTypes)]

TypeOK ==
    /\ tool \in Tools
    /\ mode \in {"local", "remote"}
    /\ cancelled \in BOOLEAN
    /\ overdue \in BOOLEAN
    /\ caller \in {"start", "waiting", "ended"}
    /\ thread \in {"none", "opening", "calling", "flying", "judging", "done"}
    /\ attempt \in 1..2
    /\ result \in {"none", "output", "error"}
    /\ records \in Seq(RecordTypes)
    /\ requests \in Seq(Fates)
    /\ entry \in LogEntries
    /\ asked \in Seq(Fates)

Init ==
    /\ tool \in Tools
    /\ mode \in {"local", "remote"}
    /\ cancelled = FALSE
    /\ overdue = FALSE
    /\ caller = "start"
    /\ thread = "none"
    /\ attempt = 1
    /\ result = "none"
    /\ records = <<>>
    /\ requests = <<>>
    /\ entry = NoEntry
    /\ asked = <<>>

-----------------------------------------------------------------------------
(* What goes on outside.                                                   *)

RequestCancel ==
    /\ ~cancelled
    /\ cancelled' = TRUE
    /\ UNCHANGED <<tool, mode, overdue, caller, work, written>>

\* Time passes; only a call that has begun has a limit.
TimePasses ==
    /\ caller = "waiting"
    /\ ~overdue
    /\ overdue' = TRUE
    /\ UNCHANGED <<tool, mode, cancelled, caller, work, written>>

-----------------------------------------------------------------------------
(* The caller.                                                             *)

\* Mutant of Summary: it does not ask whether the call was given up.
SummaryOfRecords(given, notAdopted) ==
    IF given # <<>> THEN "calls" ELSE IF mode = "local" THEN "local" ELSE "not_invoked"

\* _token_cost_summary: what the entry says of the model, from the records
\* there are when it is written.
Summary(given, notAdopted) ==
    IF given # <<>>
    THEN IF mode = "local" /\ \A i \in DOMAIN given : given[i] = "ok" THEN "local" ELSE "calls"
    ELSE IF mode = "local" THEN "local"
         ELSE IF notAdopted THEN "in_flight" ELSE "not_invoked"

\* _exception_status: only the two exceptions of the control have a status of
\* their own, every other one is a failure.
Status(error) ==
    CASE error = "none"                     -> "success"
      [] error \in {"cancelled", "timeout"} -> error
      [] OTHER                              -> "failed"

Ended(error) ==
    /\ caller' = "ended"
    /\ entry' = [status |-> Status(error),
                 error |-> error,
                 summary |-> Summary(records,
                                     error \in {"cancelled", "timeout"} /\ caller = "waiting"),
                 calls |-> records]
    /\ asked' = requests
    /\ UNCHANGED <<tool, mode, control, work>>

\* before_step stops a cancelled task before the tool begins.
BeginCancelled ==
    /\ caller = "start"
    /\ cancelled
    /\ Ended("cancelled")

Begin ==
    /\ caller = "start"
    /\ ~cancelled
    /\ caller' = "waiting"
    /\ thread' = "opening"
    /\ UNCHANGED <<tool, mode, control, attempt, result, records, requests, written>>

\* The queue holds the tool's error: it is raised without another look at
\* the task.
Fail ==
    /\ caller = "waiting"
    /\ result = "error"
    /\ Ended("tool")

\* The queue holds the output; after_step looks at the task once more.
Adopt ==
    /\ caller = "waiting"
    /\ result = "output"
    /\ ~cancelled
    /\ ~overdue
    /\ Ended("none")

\* after_step raises, while the queue is empty or after it gave the output.
\* The queue may also have been filled since it was seen to be empty.
GiveUp ==
    /\ caller = "waiting"
    /\ cancelled \/ overdue
    /\ Ended(IF cancelled THEN "cancelled" ELSE "timeout")

\* cancel_check reads the task from the database, before the tool begins,
\* while it runs and after it: a read that fails is raised like an error of
\* the tool, but the thread works on.
CheckFails ==
    /\ caller \in {"start", "waiting"}
    /\ Ended("check")

-----------------------------------------------------------------------------
(* The tool's thread.  It never looks at the caller.                       *)

Works == UNCHANGED <<tool, mode, control, caller, written>>

\* An exception ends the attempts.  The classifier then falls back on its own
\* verdict, which sends the contract to a human; the other tools raise.
Raises ==
    /\ thread' = "done"
    /\ result' = IF tool = "classify" THEN "output" ELSE "error"

\* _record_call: every call leaves a record, a failed one too.
Recorded(error) == Append(records, error)

\* Mutant of Marked: an answer that is refused keeps its record.
MarkedNever(given) == given

\* mark_latest_llm_call_schema_error: the newest record, whatever it is of.
Marked(given) ==
    IF given = <<>> THEN <<>> ELSE [given EXCEPT ![Len(given)] = "schema_error"]

\* The tool raises on its input; the analyzer also does when it finds an
\* instruction to the model in the contract, before it asks the provider.
RefuseInput ==
    /\ thread = "opening"
    /\ thread' = "done"
    /\ result' = "error"
    /\ UNCHANGED <<attempt, records, requests>>
    /\ Works

\* The tool knows the answer without the model: the text settles the type or
\* has the key fields, or the critic finds an instruction and asks a human.
KnowAnswer ==
    /\ thread = "opening"
    /\ thread' = "done"
    /\ result' = "output"
    /\ UNCHANGED <<attempt, records, requests>>
    /\ Works

\* The request is put together for the provider of the task's mode.
Open ==
    /\ thread = "opening"
    /\ thread' = "calling"
    /\ UNCHANGED <<attempt, result, records, requests>>
    /\ Works

\* LocalStructuredProvider answers at once with the local output.
AnswerLocally ==
    /\ thread = "calling"
    /\ mode = "local"
    /\ records' = Recorded("ok")
    /\ thread' = "judging"
    /\ UNCHANGED <<attempt, result, requests>>
    /\ Works

\* Settings, tokenizer or budget stop the call before it is sent.  A second
\* attempt has the same prompt and settings as the first.
Refuse ==
    /\ thread = "calling"
    /\ attempt = 1
    /\ mode = "remote"
    /\ \E why \in Refusals : records' = Recorded(why)
    /\ Raises
    /\ UNCHANGED <<attempt, requests>>
    /\ Works

Send ==
    /\ thread = "calling"
    /\ mode = "remote"
    /\ thread' = "flying"
    /\ requests' = Append(requests, "flying")
    /\ UNCHANGED <<attempt, result, records>>
    /\ Works

\* The request in flight has come to its end.
Settled(fate) == [requests EXCEPT ![Len(requests)] = fate]

ReceiveAnswer ==
    /\ thread = "flying"
    /\ thread' = "judging"
    /\ requests' = Settled("ok")
    /\ records' = Recorded("ok")
    /\ UNCHANGED <<attempt, result>>
    /\ Works

MayRetry(error) == error \in Transient /\ attempt = 1

\* An error the provider knows: it is recorded, and asked again if the
\* provider says so and this was the first attempt.
ReceiveError ==
    /\ thread = "flying"
    /\ \E error \in Transient \cup Permanent :
        /\ requests' = Settled(error)
        /\ records' = Recorded(error)
        /\ IF MayRetry(error)
           THEN thread' = "calling" /\ attempt' = 2 /\ UNCHANGED result
           ELSE Raises /\ UNCHANGED attempt
    /\ Works

\* An error the provider does not know passes it by; the service takes it for
\* an answer it cannot use.
ReceiveUnforeseen ==
    /\ thread = "flying"
    /\ requests' = Settled(Unforeseen)
    /\ records' = Marked(records)
    /\ Raises
    /\ UNCHANGED attempt
    /\ Works

Accept ==
    /\ thread = "judging"
    /\ thread' = "done"
    /\ result' = "output"
    /\ UNCHANGED <<attempt, records, requests>>
    /\ Works

\* The answer breaks the tool's own rules: no second attempt.
Reject ==
    /\ thread = "judging"
    /\ records' = Marked(records)
    /\ requests' = IF mode = "remote" THEN Settled(Rejected) ELSE requests
    /\ Raises
    /\ UNCHANGED attempt
    /\ Works

-----------------------------------------------------------------------------

Caller == BeginCancelled \/ Begin \/ Fail \/ Adopt \/ GiveUp \/ CheckFails

Thread ==
    \/ RefuseInput \/ KnowAnswer \/ Open \/ AnswerLocally \/ Refuse \/ Send
    \/ ReceiveAnswer \/ ReceiveError \/ ReceiveUnforeseen
    \/ Accept \/ Reject

Next == RequestCancel \/ TimePasses \/ Caller \/ Thread

Spec == Init /\ [][Next]_vars

-----------------------------------------------------------------------------

\* A failure the provider has no handler for has met one of these requests.
MetUnforeseen(made) == \E i \in DOMAIN made : made[i] = Unforeseen

\* The caller has left the thread at work.
GivenUp == entry.error \in {"cancelled", "timeout", "check"}

RecordOf(fate) == IF fate = Rejected THEN "schema_error" ELSE fate

\* However a call ends, its entry reports the requests that had ended by then,
\* in order and with the error each really ended with: an answer the tool has
\* refused is not reported as good, and the failed first attempt is not lost
\* behind the second (generate_structured, mark_latest_llm_call_schema_error
\* and invoke_tool, which share the list).  All that may be missing is the
\* request that a call which was given up has in flight.
TraceIsComplete ==
    entry # NoEntry /\ mode = "remote" /\ ~MetUnforeseen(asked) =>
        \/ asked = <<>> /\ \E why \in Refusals : entry.calls = <<why>>
        \/ /\ \A i \in DOMAIN entry.calls :
                 i \in DOMAIN asked /\ entry.calls[i] = RecordOf(asked[i])
           /\ \A i \in DOMAIN asked \ DOMAIN entry.calls : GivenUp /\ asked[i] = "flying"

\* Unless the database failed the check, an entry says that the model was not
\* invoked only if no request was made, then or later: a call that is given up
\* for a cancellation or a time limit while its request is in flight says so
\* (DEEPSEEK_TIMEOUT_PLAN.md, section 4.3).  After a failed check the entry
\* takes no notice of the thread at work, and may deny its request.
NotInvokedIsTrue ==
    entry.summary = "not_invoked" /\ entry.error # "check" /\ ~MetUnforeseen(requests) =>
        requests = <<>>

=============================================================================
