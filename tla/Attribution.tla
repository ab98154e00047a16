----------------------------- MODULE Attribution -----------------------------
(***************************************************************************)
(* What a recorded call is labelled with: `tag`, `mark`, `step` and the    *)
(* part of `_on_create` that reads them (src/ctxdiff/trace.py).            *)
(*                                                                         *)
(* Pending tags and the step are context variables.  A context is that of  *)
(* an OS thread, which starts empty, or of an asyncio task, which starts   *)
(* as a copy of its creator's.  A pooled thread is one context for all the *)
(* tasks it is given in turn.                                              *)
(***************************************************************************)
EXTENDS Naturals, Sequences, FiniteSets

CONSTANTS
  Contexts,        (* execution contexts *)
  Root,            (* the context that constructs the Tracer *)
  Steps,           (* step labels *)
  NoStep,          (* Python's None as a step *)
  Tags,            (* tagged items, each passed to `tag` at most once *)
  Nowhere,         (* not passed to `tag` yet *)
  Calls,           (* completed calls *)
  MaxDepth         (* bound on the nesting of `with tracer.step(...)` *)

ASSUME AttributionAssumption ==
  /\ Root \in Contexts
  /\ NoStep \notin Steps
  /\ Nowhere \notin Contexts
  /\ MaxDepth \in Nat

Labels == Steps \cup {NoStep}

VARIABLES
  live,            (* contexts that exist *)
  pending,         (* per context: `_pending_tags` *)
  step,            (* per context: `_step` *)
  tokens,          (* per context: what the open `step` blocks will reset it to *)
  log,             (* calls that reached `_on_create`, in the order of their `seq` *)
  givenIn,         (* history, per tag: the context it was passed to `tag` in *)
  inherited,       (* history, per context: the tags pending at its creation *)
  scope            (* history, per context: the label of each scope it is in, innermost last *)

labelVars == <<pending, step, tokens, givenIn, inherited, scope>>
attributionVars == <<live, labelVars, log>>

Entry == [call : Calls, context : Contexts, tags : SUBSET Tags, step : Labels,
          failed : BOOLEAN]

AttributionTypeOK ==
  /\ live \subseteq Contexts
  /\ pending \in [Contexts -> SUBSET Tags]
  /\ step \in [Contexts -> Labels]
  /\ tokens \in [Contexts -> Seq(Labels)]
  /\ \A c \in Contexts : Len(tokens[c]) <= MaxDepth
  /\ log \in Seq(Entry)
  /\ givenIn \in [Tags -> Contexts \cup {Nowhere}]
  /\ inherited \in [Contexts -> SUBSET Tags]
  /\ scope \in [Contexts -> Seq(Labels)]

(* The constructor clears both variables in its own context. *)
AttributionInit ==
  /\ live = {Root}
  /\ pending = [c \in Contexts |-> {}]
  /\ step = [c \in Contexts |-> NoStep]
  /\ tokens = [c \in Contexts |-> <<>>]
  /\ log = <<>>
  /\ givenIn = [g \in Tags |-> Nowhere]
  /\ inherited = [c \in Contexts |-> {}]
  /\ scope = [c \in Contexts |-> <<NoStep>>]

Innermost(s) == s[Len(s)]
Outer(s) == SubSeq(s, 1, Len(s) - 1)

-----------------------------------------------------------------------------
(* Faulty variants of the operations below.  None is part of the             *)
(* specification: each is a plausible bug of the code, kept to show that the *)
(* property named with it in the README notices.                             *)

(* `tag` appends to the tuple's list in place: the default is shared. *)
TagShared(c, g) ==
  /\ c \in live
  /\ givenIn[g] = Nowhere
  /\ pending' = [d \in Contexts |->
       IF d \in live /\ pending[d] = pending[c] THEN pending[d] \cup {g} ELSE pending[d]]
  /\ givenIn' = [givenIn EXCEPT ![g] = c]
  /\ UNCHANGED <<live, step, tokens, log, inherited, scope>>

(* Leaving a `step` block clears the step instead of resetting it. *)
StepExitClears(c) ==
  /\ c \in live
  /\ tokens[c] # <<>>
  /\ step' = [step EXCEPT ![c] = NoStep]
  /\ tokens' = [tokens EXCEPT ![c] = Outer(@)]
  /\ scope' = [scope EXCEPT ![c] = Outer(@)]
  /\ UNCHANGED <<live, pending, log, givenIn, inherited>>

(* The tags are reset only after a call that succeeded. *)
OnCreateKeepsTags(c, r, failed) ==
  /\ log' = Append(log, [call |-> r, context |-> c, tags |-> pending[c],
                         step |-> step[c], failed |-> failed])
  /\ pending' = IF failed THEN pending ELSE [pending EXCEPT ![c] = {}]
  /\ UNCHANGED <<live, step, tokens, givenIn, inherited, scope>>

-----------------------------------------------------------------------------
(* A thread starts, with a context of its own. *)
Spawn(d) ==
  /\ d \notin live
  /\ live' = live \cup {d}
  /\ UNCHANGED <<labelVars, log>>

(* Context c creates a task, which starts with a copy of it. *)
Fork(c, d) ==
  /\ c \in live
  /\ d \notin live
  /\ live' = live \cup {d}
  /\ pending' = [pending EXCEPT ![d] = pending[c]]
  /\ step' = [step EXCEPT ![d] = step[c]]
  /\ inherited' = [inherited EXCEPT ![d] = pending[c]]
  /\ scope' = [scope EXCEPT ![d] = <<step[c]>>]
  /\ UNCHANGED <<tokens, log, givenIn>>

(* `tag`: the item waits for the next call recorded in this context. *)
Tag(c, g) ==
  /\ c \in live
  /\ givenIn[g] = Nowhere
  /\ pending' = [pending EXCEPT ![c] = @ \cup {g}]
  /\ givenIn' = [givenIn EXCEPT ![g] = c]
  /\ UNCHANGED <<live, step, tokens, log, inherited, scope>>

(* `mark`: sticky, and undone by the end of the `step` block it is made in. *)
Mark(c, s) ==
  /\ c \in live
  /\ step' = [step EXCEPT ![c] = s]
  /\ scope' = [scope EXCEPT ![c] = Append(Outer(@), s)]
  /\ UNCHANGED <<live, pending, tokens, log, givenIn, inherited>>

(* `with tracer.step(s)`: the token remembers what to reset to. *)
StepEnter(c, s) ==
  /\ c \in live
  /\ Len(tokens[c]) < MaxDepth
  /\ step' = [step EXCEPT ![c] = s]
  /\ tokens' = [tokens EXCEPT ![c] = Append(@, step[c])]
  /\ scope' = [scope EXCEPT ![c] = Append(@, s)]
  /\ UNCHANGED <<live, pending, log, givenIn, inherited>>

(* The block ends, normally or by an exception. *)
StepExit(c) ==
  /\ c \in live
  /\ tokens[c] # <<>>
  /\ step' = [step EXCEPT ![c] = Innermost(tokens[c])]
  /\ tokens' = [tokens EXCEPT ![c] = Outer(@)]
  /\ scope' = [scope EXCEPT ![c] = Outer(@)]
  /\ UNCHANGED <<live, pending, log, givenIn, inherited>>

(* `_on_create`: the call takes its `seq`, the tags of this context, which   *)
(* are reset, and its step.                                                  *)
OnCreate(c, r, failed) ==
  /\ log' = Append(log, [call |-> r, context |-> c, tags |-> pending[c],
                         step |-> step[c], failed |-> failed])
  /\ pending' = [pending EXCEPT ![c] = {}]
  /\ UNCHANGED <<live, step, tokens, givenIn, inherited, scope>>

Relabel(c) ==
  \/ \E d \in Contexts : Spawn(d) \/ Fork(c, d)
  \/ \E g \in Tags : Tag(c, g)
  \/ \E s \in Labels : Mark(c, s)
  \/ \E s \in Steps : StepEnter(c, s)
  \/ StepExit(c)

-----------------------------------------------------------------------------
(* The step of a context is the label of its innermost scope, whatever was   *)
(* entered, marked and left in it and whatever other contexts did: a block   *)
(* leaves nothing behind on a pooled thread (`step`: "leak-proof even under  *)
(* a raw ThreadPoolExecutor", "Fully reentrant").                            *)
StepIsLexical == \A c \in live : step[c] = Innermost(scope[c])

(* A call is labelled only with tags given in its own context, or given to   *)
(* its creator and still pending when it was created (`tag`: "visible ONLY   *)
(* to that task/thread's next recorded call -- never a sibling's").          *)
OwnTags ==
  \A i \in 1..Len(log) : \A g \in log[i].tags :
    givenIn[g] = log[i].context \/ g \in inherited[log[i].context]

(* A tag labels the next call of a context only: no two calls of one context *)
(* share it, even when the first failed or was a stream that ended late.     *)
OneCallPerContext ==
  \A i, j \in 1..Len(log) :
    i # j /\ log[i].context = log[j].context => log[i].tags \cap log[j].tags = {}

=============================================================================
