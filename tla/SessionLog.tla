----------------------------- MODULE SessionLog -----------------------------
(***************************************************************************)
(* What a ctxdiff store promises its readers (`Store` and `StoreBackend`,  *)
(* src/ctxdiff/store/base.py), whatever holds the rows: sessions are added *)
(* and never removed, a listing may show a new one anywhere but keeps the  *)
(* order of the others, and every call is added to a session of the store  *)
(* with the agent that made it.                                            *)
(***************************************************************************)
EXTENDS Naturals, Sequences

CONSTANTS
  Sessions,        (* runs that may be recorded *)
  Labels,          (* agent labels *)
  AgentOf          (* the label each session's calls are recorded with *)

VARIABLES
  opened,          (* sessions in the store *)
  before,          (* pairs of sessions, in the order of `list_sessions` *)
  turns            (* per session: the agents of its calls, in turn order *)

vars == <<opened, before, turns>>

(* A store may hold sessions already. *)
Init ==
  /\ opened \subseteq Sessions
  /\ before \subseteq opened \X opened
  /\ turns \in [Sessions -> Seq(Labels)]
  /\ \A s \in Sessions : turns[s] \in Seq({AgentOf[s]})

OpenSession(s) ==
  /\ s \notin opened
  /\ opened' = opened \cup {s}
  /\ \E earlier \in SUBSET opened :
       before' = before \cup (earlier \X {s}) \cup ({s} \X (opened \ earlier))
  /\ UNCHANGED turns

RecordCall(s) ==
  /\ s \in opened
  /\ turns' = [turns EXCEPT ![s] = Append(@, AgentOf[s])]
  /\ UNCHANGED <<opened, before>>

Next == \E s \in Sessions : OpenSession(s) \/ RecordCall(s)

Spec == Init /\ [][Next]_vars

=============================================================================
