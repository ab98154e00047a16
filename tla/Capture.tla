------------------------------- MODULE Capture -------------------------------
(***************************************************************************)
(* When a call is recorded: `_make_interceptor`, the stream proxies        *)
(* (src/ctxdiff/trace.py) and the LangChain handler                        *)
(* (src/ctxdiff/capture/langchain.py), over the contexts of Attribution.   *)
(*                                                                         *)
(* A plain call is recorded as it returns.  A streamed one is recorded by  *)
(* whichever of its ends comes first: exhausted, broken, closed, left by   *)
(* `with`, or collected.  A LangChain run is parked from its start to its  *)
(* end callback.                                                           *)
(***************************************************************************)
EXTENDS Attribution, SequencesExt

CONSTANTS
  Plain,           (* calls without streaming *)
  Streams,         (* streamed calls, `create(stream=True)` or `.stream()` *)
  Runs,            (* LangChain runs *)
  MaxPending,      (* `_MAX_PENDING` *)
  Nothing          (* not inside a `_finalize` *)

ASSUME CaptureAssumption ==
  /\ Calls = Plain \cup Streams \cup Runs
  /\ Plain \cap Streams = {} /\ Plain \cap Runs = {} /\ Streams \cap Runs = {}
  /\ MaxPending \in Nat \ {0}
  /\ Nothing \notin Calls

VARIABLES
  phase,           (* per call: how far it is *)
  finalized,       (* per stream: `_ctx_finalized` *)
  finalizing,      (* per context: the stream whose `_finalize` passed its check *)
  failure,         (* per context: the `error` of that `_finalize` *)
  parked,          (* `_pending` of the handler: insertion-ordered *)
  starts,          (* history: the runs parked, in order *)
  broken,          (* history: streams that raised before any other end of theirs *)
  raced            (* history: streams two contexts were finalising at once *)

streamVars == <<finalized, finalizing, failure, broken, raced>>
runVars == <<parked, starts>>
vars == <<attributionVars, phase, streamVars, runVars>>

TypeOK ==
  /\ AttributionTypeOK
  /\ phase \in [Calls -> {"new", "inflight", "streaming", "dropped", "over", "unseen"}]
  /\ finalized \in [Streams -> BOOLEAN]
  /\ finalizing \in [Contexts -> Streams \cup {Nothing}]
  /\ failure \in [Contexts -> BOOLEAN]
  /\ parked \in Seq(Runs)
  /\ Len(parked) <= MaxPending
  /\ starts \in Seq(Runs)
  /\ broken \subseteq Streams
  /\ raced \subseteq Streams

Init ==
  /\ AttributionInit
  /\ phase = [r \in Calls |-> "new"]
  /\ finalized = [r \in Streams |-> FALSE]
  /\ finalizing = [c \in Contexts |-> Nothing]
  /\ failure = [c \in Contexts |-> FALSE]
  /\ parked = <<>>
  /\ starts = <<>>
  /\ broken = {}
  /\ raced = {}

(* The context runs host code, not the inside of a `_finalize`. *)
Free(c) == c \in live /\ finalizing[c] = Nothing
Turn(r, to) == phase' = [phase EXCEPT ![r] = to]
Recorded(r) == \E i \in 1..Len(log) : log[i].call = r
Parked(r) == \E i \in 1..Len(parked) : parked[i] = r

-----------------------------------------------------------------------------
(* Faulty variants of the operations below.  None is part of the             *)
(* specification: each is a plausible bug of the code, kept to show that the *)
(* property named with it in the README notices.                             *)

(* The flag is set after the call was recorded as done, and only by success. *)
FinalizeRecordsUnflagged(c) ==
  LET r == finalizing[c] IN
  /\ r # Nothing
  /\ finalized' = IF failure[c] THEN finalized ELSE [finalized EXCEPT ![r] = TRUE]
  /\ finalizing' = [finalizing EXCEPT ![c] = Nothing]
  /\ OnCreate(c, r, failure[c])
  /\ UNCHANGED <<phase, failure, broken, raced, runVars>>

(* A stream that breaks is left to `close` and `__del__`. *)
StreamBreaksSilently(c, r) ==
  /\ Free(c)
  /\ phase[r] = "streaming"
  /\ broken' = IF finalized[r] THEN broken ELSE broken \cup {r}
  /\ UNCHANGED <<attributionVars, phase, finalized, finalizing, failure, raced, runVars>>

(* `__del__` does not finalise. *)
CollectSilently(c, r) ==
  /\ Free(c)
  /\ phase[r] = "dropped"
  /\ Turn(r, "over")
  /\ UNCHANGED <<attributionVars, streamVars, runVars>>

(* The youngest run is evicted at the bound. *)
RunStartsEvictingYoungest(c, r) ==
  /\ Free(c)
  /\ phase[r] = "new"
  /\ Turn(r, "inflight")
  /\ parked' = Append(IF Len(parked) >= MaxPending THEN Front(parked) ELSE parked, r)
  /\ starts' = Append(starts, r)
  /\ UNCHANGED <<attributionVars, streamVars>>

-----------------------------------------------------------------------------
(* The interceptor. *)

(* `real_create` is called, or a manager's `__enter__`. *)
Issue(c, r) ==
  /\ Free(c)
  /\ r \in Plain \cup Streams
  /\ phase[r] = "new"
  /\ Turn(r, "inflight")
  /\ UNCHANGED <<attributionVars, streamVars, runVars>>

(* The response is there, and the call is recorded, in the context that      *)
(* waited for it.                                                            *)
Respond(c, r) ==
  /\ Free(c)
  /\ r \in Plain
  /\ phase[r] = "inflight"
  /\ Turn(r, "over")
  /\ OnCreate(c, r, FALSE)
  /\ UNCHANGED <<streamVars, runVars>>

(* The request raises: recorded as failed, and raised again. *)
RequestFails(c, r) ==
  /\ Free(c)
  /\ r \in Plain \cup Streams
  /\ phase[r] = "inflight"
  /\ Turn(r, "over")
  /\ OnCreate(c, r, TRUE)
  /\ UNCHANGED <<streamVars, runVars>>

(* A cancellation is no Exception: the call is not recorded.  Nor is one     *)
(* whose envelope has no stream in it.                                       *)
NotSeen(c, r) ==
  /\ Free(c)
  /\ r \in Plain \cup Streams
  /\ phase[r] = "inflight"
  /\ Turn(r, "unseen")
  /\ UNCHANGED <<attributionVars, streamVars, runVars>>

(* The stream is handed to the host inside a proxy. *)
StreamInHand(c, r) ==
  /\ Free(c)
  /\ r \in Streams
  /\ phase[r] = "inflight"
  /\ Turn(r, "streaming")
  /\ UNCHANGED <<attributionVars, streamVars, runVars>>

-----------------------------------------------------------------------------
(* The ends of a stream. *)

(* `_finalize`, its check. *)
Finalize(c, r, failed) ==
  IF finalized[r] THEN UNCHANGED streamVars
  ELSE /\ finalizing' = [finalizing EXCEPT ![c] = r]
       /\ failure' = [failure EXCEPT ![c] = failed]
       /\ broken' = IF failed THEN broken \cup {r} ELSE broken
       /\ raced' = IF \E d \in Contexts : finalizing[d] = r THEN raced \cup {r} ELSE raced
       /\ UNCHANGED finalized

(* `_finalize`, from the flag on. *)
FinalizeRecords(c) ==
  LET r == finalizing[c] IN
  /\ r # Nothing
  /\ finalized' = [finalized EXCEPT ![r] = TRUE]
  /\ finalizing' = [finalizing EXCEPT ![c] = Nothing]
  /\ OnCreate(c, r, failure[c])
  /\ UNCHANGED <<phase, failure, broken, raced, runVars>>

(* The stream is exhausted, closed, or left by `with`. *)
StreamEnds(c, r) ==
  /\ Free(c)
  /\ phase[r] = "streaming"
  /\ Finalize(c, r, FALSE)
  /\ UNCHANGED <<attributionVars, phase, runVars>>

(* `__next__` raises in the middle of the generation. *)
StreamBreaks(c, r) ==
  /\ Free(c)
  /\ phase[r] = "streaming"
  /\ Finalize(c, r, TRUE)
  /\ UNCHANGED <<attributionVars, phase, runVars>>

(* The host drops its last reference, possibly without any end. *)
DropStream(r) ==
  /\ phase[r] = "streaming"
  /\ \A c \in Contexts : finalizing[c] # r
  /\ Turn(r, "dropped")
  /\ UNCHANGED <<attributionVars, streamVars, runVars>>

(* `__del__`, in whatever context the collector happens to run. *)
Collect(c, r) ==
  /\ Free(c)
  /\ phase[r] = "dropped"
  /\ Finalize(c, r, FALSE)
  /\ Turn(r, "over")
  /\ UNCHANGED <<attributionVars, runVars>>

-----------------------------------------------------------------------------
(* The LangChain handler. *)

(* `_park`: at the bound the oldest run makes room. *)
RunStarts(c, r) ==
  /\ Free(c)
  /\ phase[r] = "new"
  /\ Turn(r, "inflight")
  /\ parked' = Append(IF Len(parked) >= MaxPending THEN Tail(parked) ELSE parked, r)
  /\ starts' = Append(starts, r)
  /\ UNCHANGED <<attributionVars, streamVars>>

(* `_start` without a Recorder for the provider, or with a request it cannot *)
(* put on the wire.                                                          *)
RunUnknown(c, r) ==
  /\ Free(c)
  /\ phase[r] = "new"
  /\ Turn(r, "unseen")
  /\ UNCHANGED <<attributionVars, streamVars, runVars>>

(* `_take` finds the run. *)
Take(r) ==
  \E i \in 1..Len(parked) :
    /\ parked[i] = r
    /\ parked' = RemoveAt(parked, i)

(* `on_llm_end` or `on_llm_error`: the run is taken and recorded. *)
RunEnds(c, r, failed) ==
  /\ Free(c)
  /\ Take(r)
  /\ Turn(r, "over")
  /\ OnCreate(c, r, failed)
  /\ UNCHANGED <<streamVars, starts>>

(* `usage_state` raises on what came back: the run was taken, and is not     *)
(* recorded, with a warning.                                                 *)
RunEndFails(c, r) ==
  /\ Free(c)
  /\ Take(r)
  /\ Turn(r, "unseen")
  /\ UNCHANGED <<attributionVars, streamVars, starts>>

(* The callback finds nothing: the run was evicted, or has ended before. *)
RunEndsUnknown(c, r) ==
  /\ Free(c)
  /\ phase[r] \in {"inflight", "over"}
  /\ ~Parked(r)
  /\ Turn(r, "over")
  /\ UNCHANGED <<attributionVars, streamVars, runVars>>

-----------------------------------------------------------------------------
Intercept(c) ==
  \E r \in Plain \cup Streams :
    Issue(c, r) \/ Respond(c, r) \/ RequestFails(c, r) \/ NotSeen(c, r)

Stream(c) ==
  \/ \E r \in Streams :
       \/ StreamInHand(c, r)
       \/ StreamEnds(c, r)
       \/ StreamBreaks(c, r)
       \/ Collect(c, r)
  \/ FinalizeRecords(c)

Chain(c) ==
  \E r \in Runs :
    \/ RunStarts(c, r)
    \/ RunUnknown(c, r)
    \/ \E failed \in BOOLEAN : RunEnds(c, r, failed)
    \/ RunEndFails(c, r)
    \/ RunEndsUnknown(c, r)

(* The labels change in a context that runs host code. *)
Label(c) ==
  /\ Free(c)
  /\ Relabel(c)
  /\ UNCHANGED <<phase, streamVars, runVars>>

Next ==
  \/ \E c \in Contexts : Intercept(c) \/ Stream(c) \/ Chain(c) \/ Label(c)
  \/ \E r \in Streams : DropStream(r)

Spec == Init /\ [][Next]_vars

(* A `_finalize` that began goes on, and the collector gets round to a       *)
(* stream nobody holds.                                                      *)
FairSpec ==
  /\ Spec
  /\ \A c \in Contexts : WF_vars(FinalizeRecords(c))
  /\ \A r \in Streams : WF_vars(\E c \in Contexts : Collect(c, r))

-----------------------------------------------------------------------------
(* A call is recorded at most once, whichever of its ends occur, in whatever *)
(* contexts, and however often (`_StreamProxy`: "the call is recorded EXACTLY *)
(* once"; `_take`: "Claim an in-flight run, exactly once"), unless two       *)
(* contexts were between the check and the flag of one stream.               *)
RecordedOnce ==
  \A i, j \in 1..Len(log) :
    i # j /\ log[i].call = log[j].call => log[i].call \in raced

(* A stream is gone, and a run no longer held, only after its call was       *)
(* recorded, unless at least `_MAX_PENDING` runs were parked after the run   *)
(* (`__del__`: "rather than silently vanishing from the trace"; `_park`: "the *)
(* OLDEST is dropped").                                                      *)
Gone(r) ==
  \/ phase[r] = "over"
  \/ r \in Runs /\ phase[r] = "inflight" /\ ~Parked(r)

Writing(r) == \E c \in Contexts : finalizing[c] = r

NoneVanish ==
  \A r \in Calls : Gone(r) =>
    \/ Recorded(r)
    \/ Writing(r)
    \/ r \in Runs /\ \E i \in 1..Len(starts) :
         starts[i] = r /\ Len(starts) - i >= MaxPending

(* A stream that broke before any other end of it is recorded as failed,     *)
(* never as a success without usage.                                         *)
BrokenAreFailed ==
  \A i \in 1..Len(log) :
    log[i].call \in broken \ raced => log[i].failed

(* A stream the host lets go of is recorded in the end.                      *)
DroppedIsRecorded ==
  \A r \in Streams : (phase[r] = "dropped") ~> Recorded(r)

=============================================================================
