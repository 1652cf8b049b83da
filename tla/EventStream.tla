---------------------------- MODULE EventStream -----------------------------
(***************************************************************************)
(* How the events of one task reach a browser.  update_task commits the    *)
(* row and an event in one transaction (TaskStore has what it writes) and  *)
(* then publishes a hint in Redis, which may fail or lose it               *)
(* (event_notification.py); a web client gets the task and streams the     *)
(* events after the last one it was given (api/routes/tasks.py, App.js).   *)
(***************************************************************************)
EXTENDS ReviewStatus, Integers, Sequences

CONSTANTS
    Statuses,   \* the statuses the task goes through
    Clients,    \* web clients
    MaxEvents,  \* length of the event log in a behaviour
    MaxOpens,   \* how often each client opens the task
    MaxFaults,  \* faults in a behaviour
    FaultKinds  \* which faults may happen

AllFaultKinds == {"publish",   \* a publication fails, or its process dies before it
                  "subscribe", \* Redis refuses a subscription or breaks it
                  "stop"}      \* the API stops accepting tasks, or the connection ends

ASSUME StreamAssumption ==
    /\ Statuses \subseteq ReviewStatuses
    /\ MaxEvents \in Nat /\ MaxOpens \in Nat /\ MaxFaults \in Nat
    /\ FaultKinds \subseteq AllFaultKinds

VARIABLES
    (* PostgreSQL, schema app. *)
    status,     \* of the task row
    events,     \* task_events: their statuses, in the order of their ids from 0
    (* Writers and Redis. *)
    publishing, \* an event is committed and its hint not yet published
    hint,       \* the clients in whose subscription a hint waits
    (* The clients and the requests that serve them. *)
    client,     \* where it is, the next event id, the status it shows
    (* Observation only. *)
    read,       \* from where it reads and what it has got
    opens,
    faults

vars == <<status, events, publishing, hint, client, read, opens, faults>>

Init ==
    /\ status = NoTask
    /\ events = <<>>
    /\ publishing = FALSE
    /\ hint = {}
    /\ client = [c \in Clients |-> [pc |-> "closed", next |-> 0, shown |-> NoTask]]
    /\ read = [c \in Clients |-> [from |-> 0, got |-> <<>>]]
    /\ opens = [c \in Clients |-> 0]
    /\ faults = 0

Fault(kind) ==
    /\ kind \in FaultKinds
    /\ faults < MaxFaults
    /\ faults' = faults + 1

-----------------------------------------------------------------------------
(* Writers.                                                                *)

\* What can follow a status: update_task refuses nothing but to leave the
\* cancellation.  Its callers read the task before, and may come late: any
\* other status can follow any other.
Follows(s) ==
    CASE s = NoTask         -> {"START"}
      [] s \in Cancelling   -> Cancelling
      [] OTHER              -> ReviewStatuses

\* One call of update_task at a time is between its commit and its return.
Commit ==
    /\ ~publishing
    /\ Len(events) < MaxEvents
    /\ \E s \in Statuses \cap Follows(status) :
        /\ status' = s
        /\ events' = Append(events, s)
    /\ publishing' = TRUE
    /\ UNCHANGED <<hint, client, read, opens, faults>>

\* _publish_committed_event: the hint reaches the subscriptions there are, or
\* none of them.
Publish ==
    /\ publishing
    /\ publishing' = FALSE
    /\ \/ /\ hint' = hint \cup {c \in Clients : client[c].pc \in {"query", "wait", "requery"}}
          /\ UNCHANGED faults
       \/ Fault("publish") /\ UNCHANGED hint
    /\ UNCHANGED <<status, events, client, read, opens>>

-----------------------------------------------------------------------------
(* A web client and the request that serves its stream.                    *)

To(c, pc) == client' = [client EXCEPT ![c].pc = pc]

\* GET /api/tasks/{id} loads the row ...
GetRow(c) ==
    /\ client[c].pc = "closed"
    /\ status # NoTask
    /\ opens[c] < MaxOpens
    /\ opens' = [opens EXCEPT ![c] = @ + 1]
    /\ client' = [client EXCEPT ![c].pc = "get", ![c].shown = status]
    /\ UNCHANGED <<status, events, publishing, hint, read, faults>>

\* Mutant: the cursor is the number of events.
LatestEventIdCounts == Len(events)

\* latestEventId(payload)
LatestEventId == Len(events) - 1

\* ... and then the events.  The page streams what follows the last of them,
\* unless it shows a task that is over.
GetEvents(c) ==
    /\ client[c].pc = "get"
    /\ LET next == LatestEventId + 1
       IN  /\ client' = [client EXCEPT ![c].pc = IF client[c].shown \in Terminal THEN "closed" ELSE "loop",
                                       ![c].next = next]
           /\ read' = [read EXCEPT ![c] = [from |-> next, got |-> <<>>]]
    /\ UNCHANGED <<status, events, publishing, hint, opens, faults>>

\* PersistentEventStream.wait_for_events: subscribe before the first query.
Subscribe(c) ==
    /\ client[c].pc = "loop"
    /\ \/ To(c, "query") /\ hint' = hint \ {c} /\ UNCHANGED faults
       \/ To(c, "poll") /\ Fault("subscribe") /\ UNCHANGED hint
    /\ UNCHANGED <<status, events, publishing, read, opens>>

\* Mutant: the wait has no deadline.
WaitEndsOnHint(c) == c \in hint

\* subscription.wait returns on a hint or at the deadline.
WaitEnds(c) == TRUE

Wait(c) ==
    /\ client[c].pc = "wait"
    /\ \/ WaitEnds(c) /\ To(c, "requery") /\ hint' = hint \ {c} /\ UNCHANGED faults
       \/ To(c, "poll") /\ Fault("subscribe") /\ UNCHANGED hint
    /\ UNCHANGED <<status, events, publishing, read, opens>>

\* Mutant: an event id is taken for the next one.
NextIndexOfLast(c, n) == client[c].next + n - 1

\* next_index = event_id + 1
NextIndex(c, n) == client[c].next + n

\* The events of a query are sent one by one; the page closes the stream at
\* the first one that shows the task over.
Receive(c, batch) ==
    LET over == {k \in DOMAIN batch : batch[k] \in Terminal}
        n == IF over = {} THEN Len(batch) ELSE CHOOSE k \in over : \A j \in over : k <= j
    IN  /\ client' = [client EXCEPT ![c] = [pc    |-> IF over = {} THEN "loop" ELSE "closed",
                                            next  |-> NextIndex(c, n),
                                            shown |-> IF n = 0 THEN @.shown ELSE batch[n]]]
        /\ read' = [read EXCEPT ![c].got = @ \o SubSeq(batch, 1, n)]

\* list_after(task_id, id)
ListAfter(id) == SubSeq(events, id + 1, Len(events))

\* list_after, before the wait, after it, or while Redis is down.
Query(c) ==
    /\ client[c].pc \in {"query", "requery", "poll"}
    /\ LET batch == ListAfter(client[c].next)
       IN  IF batch = <<>> /\ client[c].pc = "query" THEN To(c, "wait") /\ UNCHANGED read
           ELSE Receive(c, batch)
    /\ UNCHANGED <<status, events, publishing, hint, opens, faults>>

Streaming(c) == client[c].pc \in {"loop", "query", "wait", "requery", "poll"}

\* The service stops accepting tasks or the connection breaks; the page asks
\* for the task once more and leaves it to the user to open it again.
StreamBreaks(c) ==
    /\ Streaming(c)
    /\ Fault("stop")
    /\ client' = [client EXCEPT ![c].pc = "closed", ![c].shown = status]
    /\ UNCHANGED <<status, events, publishing, hint, read, opens>>

Stream(c) == GetEvents(c) \/ Subscribe(c) \/ Wait(c) \/ Query(c)

Next == \/ Commit \/ Publish
        \/ \E c \in Clients : GetRow(c) \/ Stream(c) \/ StreamBreaks(c)

Spec == Init /\ [][Next]_vars

\* A call of update_task returns and the thread that serves a stream runs on;
\* nobody has to open a task, and a task may rest.
FairSpec == Spec /\ WF_vars(Publish) /\ \A c \in Clients : WF_vars(Stream(c))

-----------------------------------------------------------------------------
(* Properties.                                                             *)

\* README.md item 80: each client gets the committed events after the one it
\* was given, in order, none twice and none left out, over lost notifications
\* and polling.
Promise == INSTANCE EventLog WITH log <- events, Events <- ReviewStatuses
KeepsPromise == Promise!Spec

\* A stream that is behind the log catches up with it or ends.
EventsDelivered ==
    \A c \in Clients : Streaming(c) ~> ~Streaming(c) \/ client[c].next = Len(events)

\* README.md item 62: a page never waits for the end of a task that is over.
PageSettles ==
    \A c \in Clients :
        Streaming(c) /\ status \in Terminal ~> ~Streaming(c) \/ status \notin Terminal

=============================================================================
