----------------------------- MODULE RunContract -----------------------------
(***************************************************************************)
(* What a durable run promises to everyone who reads its journal: events   *)
(* are only ever added, the run ends once, nothing follows its end, and a  *)
(* cancellation that was requested before the end is how it ends.  Leases, *)
(* workers, time and recovery do not appear.                               *)
(***************************************************************************)
EXTENDS Naturals, Sequences

CONSTANTS Progress,     \* event kinds that leave the run open
          Ends,         \* event kinds that end it, "cancelled" among them
          Limit         \* events that may become visible together

VARIABLES outcome,      \* "open" or the kind of event that ended the run
          stopping,     \* a cancellation was requested
          journal       \* the kinds of the events, in cursor order

vars == <<outcome, stopping, journal>>

Init == outcome = "open" /\ stopping = FALSE /\ journal = <<>>

(* Some events become visible together; the last may end the run.  Once the *)
(* run is stopping, the only event left is the one that says so.            *)
Publish(events) ==
  /\ outcome = "open"
  /\ \A i \in 1..(Len(events) - 1) : events[i] \in Progress
  /\ stopping => events = <<"cancelled">>
  /\ journal' = journal \o events
  /\ \/ events[Len(events)] \in Progress /\ outcome' = outcome
     \/ events[Len(events)] \in Ends /\ outcome' = events[Len(events)]
  /\ UNCHANGED stopping

RequestStop ==
  /\ outcome = "open" /\ ~stopping
  /\ journal' = Append(journal, "cancel_requested")
  /\ stopping' = TRUE
  /\ UNCHANGED outcome

Next ==
  \/ \E events \in UNION {[1..n -> Progress \cup Ends] : n \in 1..Limit} : Publish(events)
  \/ RequestStop

Spec == Init /\ [][Next]_vars
==============================================================================
