----------------------------- MODULE ReviewQueue -----------------------------
(***************************************************************************)
(* What the service promises its users, without its tables, locks, tasks   *)
(* and crashes: a queue of review tickets in which a pull request has at   *)
(* most one open ticket and at most one ticket is under review.  Every     *)
(* ticket goes from queued to reviewing to closed, unless it is orphaned   *)
(* on the way, and a review is on record only for a ticket that was closed *)
(* with it.  Which queued ticket is next is left open.  ReviewService      *)
(* implements it.                                                          *)
(***************************************************************************)
EXTENDS Naturals, Sequences

CONSTANTS PRs

VARIABLES
  tickets,   \* every ticket ever accepted, oldest first
  recorded   \* the tickets closed with a review

queueVars == <<tickets, recorded>>

TicketStates == {"queued", "reviewing", "orphaned", "closed"}

QueueInit == tickets = <<>> /\ recorded = {}

Open(p) ==
  \E k \in DOMAIN tickets : tickets[k].pr = p /\ tickets[k].state # "closed"

\* A trigger is taken: the pull request has no open ticket.
Accept(p) ==
  /\ ~Open(p)
  /\ tickets' = Append(tickets, [pr |-> p, state |-> "queued"])
  /\ UNCHANGED recorded

\* The review of a queued ticket starts, if none is under way.
Begin(k) ==
  /\ tickets[k].state = "queued"
  /\ \A i \in DOMAIN tickets : tickets[i].state # "reviewing"
  /\ tickets' = [tickets EXCEPT ![k].state = "reviewing"]
  /\ UNCHANGED recorded

\* The review ends, and is put on record if it was posted.
Close(k) ==
  /\ tickets[k].state = "reviewing"
  /\ tickets' = [tickets EXCEPT ![k].state = "closed"]
  /\ recorded' \in {recorded, recorded \cup {k}}

\* Every ticket in state s goes to state n.
MoveAll(s, n) ==
  tickets' = [k \in DOMAIN tickets |->
                IF tickets[k].state = s THEN [tickets[k] EXCEPT !.state = n]
                                        ELSE tickets[k]]

\* Whoever did the review is gone: the ticket stays open and nobody works on
\* it.
Orphan == MoveAll("reviewing", "orphaned") /\ UNCHANGED recorded

\* A restart may close the tickets it finds orphaned.
Abandon == MoveAll("orphaned", "closed") /\ UNCHANGED recorded

QueueNext ==
  \/ \E p \in PRs : Accept(p)
  \/ \E k \in DOMAIN tickets : Begin(k) \/ Close(k)
  \/ Orphan \/ Abandon

QueueSpec == QueueInit /\ [][QueueNext]_queueVars

=============================================================================
