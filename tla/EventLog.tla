------------------------------ MODULE EventLog ------------------------------
(***************************************************************************)
(* What the event stream of a task promises (README.md items 40 and 80): a *)
(* log that only grows, and clients that each read it from a position of   *)
(* their own, every event once and in order.                               *)
(***************************************************************************)
EXTENDS Naturals, Sequences

CONSTANTS Clients, Events

VARIABLES
    log,  \* the committed events
    read  \* per client: the position it reads from and the events it has got

Init ==
    /\ log = <<>>
    /\ read = [c \in Clients |-> [from |-> 0, got |-> <<>>]]

Publish ==
    /\ \E e \in Events : log' = Append(log, e)
    /\ UNCHANGED read

\* A client opens the stream after some event it knows of.
Open(c) ==
    /\ \E from \in 0..Len(log) : read' = [read EXCEPT ![c] = [from |-> from, got |-> <<>>]]
    /\ UNCHANGED log

\* It gets what follows the events it has got.
Deliver(c) ==
    /\ \E n \in 1..Len(log) :
        LET next == read[c].from + Len(read[c].got)
        IN  /\ next + n <= Len(log)
            /\ read' = [read EXCEPT ![c].got = @ \o SubSeq(log, next + 1, next + n)]
    /\ UNCHANGED log

Next == Publish \/ \E c \in Clients : Open(c) \/ Deliver(c)

Spec == Init /\ [][Next]_<<log, read>>

=============================================================================
