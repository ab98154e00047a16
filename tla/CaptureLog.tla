----------------------------- MODULE CaptureLog -----------------------------
(***************************************************************************)
(* What the capture pipeline promises about the records it is handed,      *)
(* with no queue, thread or lock in sight (docstring of `_Writer`,         *)
(* trace.py:347-389): a record is accepted or refused on the spot, accepted*)
(* records are settled strictly in the order they were accepted, each is   *)
(* settled at most once, and what reached the store is never rewritten.    *)
(***************************************************************************)
EXTENDS Naturals, Sequences

CONSTANT Jobs            (* one record of one completed call *)

VARIABLES
  verdict,               (* what has become of each record *)
  ticket,                (* the place of an accepted record in the order of acceptance *)
  tickets,               (* how many records have been accepted *)
  stored                 (* the records in the store, in the order they were written *)

logVars == <<verdict, ticket, tickets, stored>>

Verdicts == {"open", "pending", "stored", "discarded", "refused"}

Init ==
  /\ verdict = [j \in Jobs |-> "open"]
  /\ ticket = [j \in Jobs |-> 0]
  /\ tickets = 0
  /\ stored = <<>>

Accept(j) ==
  /\ verdict[j] = "open"
  /\ verdict' = [verdict EXCEPT ![j] = "pending"]
  /\ ticket' = [ticket EXCEPT ![j] = tickets]
  /\ tickets' = tickets + 1
  /\ UNCHANGED stored

Refuse(j) ==
  /\ verdict[j] = "open"
  /\ verdict' = [verdict EXCEPT ![j] = "refused"]
  /\ UNCHANGED <<ticket, tickets, stored>>

(* The pending record accepted before every other pending one. *)
Oldest(j) ==
  /\ verdict[j] = "pending"
  /\ \A k \in Jobs : verdict[k] = "pending" => ticket[j] <= ticket[k]

Store(j) ==
  /\ Oldest(j)
  /\ verdict' = [verdict EXCEPT ![j] = "stored"]
  /\ stored' = Append(stored, j)
  /\ UNCHANGED <<ticket, tickets>>

Discard(j) ==
  /\ Oldest(j)
  /\ verdict' = [verdict EXCEPT ![j] = "discarded"]
  /\ UNCHANGED <<ticket, tickets, stored>>

Next == \E j \in Jobs : Accept(j) \/ Refuse(j) \/ Store(j) \/ Discard(j)

Spec == Init /\ [][Next]_logVars

=============================================================================
