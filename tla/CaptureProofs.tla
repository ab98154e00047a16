---------------------------- MODULE CaptureProofs ----------------------------
(***************************************************************************)
(* Proofs about Attribution and Capture, for any contexts, labels, tags,   *)
(* calls and any bound on the pending runs.                                *)
(***************************************************************************)
EXTENDS Capture, SequenceTheorems, TLAPS

-----------------------------------------------------------------------------
(* Sequences. *)

(* All places of a sequence but the last. *)
LEMMA OuterProperties ==
  ASSUME NEW S, NEW s \in Seq(S), s # <<>>
  PROVE  /\ Outer(s) \in Seq(S)
         /\ Len(s) \in Nat \ {0}
         /\ Len(Outer(s)) = Len(s) - 1
         /\ \A i \in 1..Len(s) - 1 : Outer(s)[i] = s[i]
         /\ Innermost(s) \in S
<1>1. Len(s) \in Nat \ {0} /\ \A i \in 1..Len(s) : s[i] \in S
  BY EmptySeq, LenProperties, ElementOfSeq
<1>2. /\ SubSeq(s, 1, Len(s) - 1) \in Seq(S)
      /\ Len(SubSeq(s, 1, Len(s) - 1)) = Len(s) - 1
      /\ \A i \in 1..Len(s) - 1 : SubSeq(s, 1, Len(s) - 1)[i] = s[i]
  <2> DEFINE n == Len(s) - 1
  <2>1. n \in Int /\ n >= 0 /\ \A i \in 1..n : s[i] \in S
    BY <1>1
  <2> HIDE DEF n
  <2>2. /\ SubSeq(s, 1, n) \in Seq(S)
        /\ Len(SubSeq(s, 1, n)) = IF 1 <= n THEN n - 1 + 1 ELSE 0
        /\ \A i \in 1..n - 1 + 1 : SubSeq(s, 1, n)[i] = s[1 + i - 1]
    BY <2>1, SubSeqProperties
  <2>3. Len(SubSeq(s, 1, n)) = n /\ \A i \in 1..n : SubSeq(s, 1, n)[i] = s[i]
    BY <2>1, <2>2
  <2>4. QED
    BY <2>2, <2>3 DEF n
<1>3. s[Len(s)] \in S
  BY <1>1
<1>4. QED
  BY <1>1, <1>2, <1>3 DEF Outer, Innermost

(* All places of a sequence but one. *)
LEMMA RemoveAtProperties ==
  ASSUME NEW S, NEW s \in Seq(S), NEW k \in 1..Len(s)
  PROVE  /\ RemoveAt(s, k) \in Seq(S)
         /\ Len(RemoveAt(s, k)) = Len(s) - 1
         /\ \A i \in 1..Len(s) - 1 :
              RemoveAt(s, k)[i] = s[IF i < k THEN i ELSE i + 1]
<1> DEFINE before == SubSeq(s, 1, k - 1)
           after == SubSeq(s, k + 1, Len(s))
<1>1. Len(s) \in Nat /\ \A i \in 1..Len(s) : s[i] \in S
  BY LenProperties, ElementOfSeq
<1>2. /\ before \in Seq(S)
      /\ Len(before) = k - 1
      /\ \A i \in 1..k - 1 : before[i] = s[i]
  BY <1>1, SubSeqProperties
<1>3. /\ after \in Seq(S)
      /\ Len(after) = Len(s) - k
      /\ \A i \in 1..Len(s) - k : after[i] = s[k + i]
  BY <1>1, SubSeqProperties
<1>4. RemoveAt(s, k) = before \o after
  BY DEF RemoveAt
<1> HIDE DEF before, after
<1>5. /\ before \o after \in Seq(S)
      /\ Len(before \o after) = Len(before) + Len(after)
      /\ \A i \in 1..Len(before) + Len(after) :
           (before \o after)[i] = IF i <= Len(before) THEN before[i] ELSE after[i - Len(before)]
  <2>1. before \in Seq(S) /\ after \in Seq(S)
    BY <1>2, <1>3
  <2>2. QED
    BY <2>1, ConcatProperties
<1>6. ASSUME NEW i \in 1..Len(s) - 1
      PROVE  RemoveAt(s, k)[i] = s[IF i < k THEN i ELSE i + 1]
  <2>1. i \in 1..Len(before) + Len(after)
    BY <1>1, <1>2, <1>3
  <2>2. RemoveAt(s, k)[i] = IF i <= k - 1 THEN before[i] ELSE after[i - (k - 1)]
    BY <1>2, <1>4, <1>5, <2>1
  <2>3. CASE i < k
    BY <1>1, <1>2, <2>2, <2>3
  <2>4. CASE i >= k
    <3>1. i - (k - 1) \in 1..Len(s) - k /\ k + (i - (k - 1)) = i + 1
      BY <1>1, <2>4
    <3>2. QED
      BY <1>1, <1>3, <2>2, <2>4, <3>1
  <2>5. QED
    BY <1>1, <2>3, <2>4
<1>7. QED
  BY <1>1, <1>2, <1>3, <1>4, <1>5, <1>6

-----------------------------------------------------------------------------
(* The steps of Capture as steps of Attribution. *)

USE AttributionAssumption, CaptureAssumption

Labelling == \E c \in Contexts : c \in live /\ Relabel(c)
Recording ==
  \E c \in Contexts, r \in Calls, failed \in BOOLEAN : c \in live /\ OnCreate(c, r, failed)

(* Only a context that exists is inside a `_finalize`. *)
FinalizersLive == \A c \in Contexts : finalizing[c] # Nothing => c \in live

(* Every step labels, records, or leaves the labels and the log alone. *)
LEMMA AttributionSteps ==
  TypeOK /\ FinalizersLive /\ [Next]_vars =>
    Labelling \/ Recording \/ UNCHANGED attributionVars
<1> SUFFICES ASSUME TypeOK, FinalizersLive, [Next]_vars
             PROVE  Labelling \/ Recording \/ UNCHANGED attributionVars
  OBVIOUS
<1>1. ASSUME NEW c \in Contexts, Label(c) PROVE Labelling
  BY <1>1 DEF Label, Free, Labelling
<1>2. ASSUME NEW c \in Contexts, NEW r \in Plain \cup Streams,
             Respond(c, r) \/ RequestFails(c, r)
      PROVE  Recording
  BY <1>2 DEF Respond, RequestFails, Free, Recording
<1>3. ASSUME NEW c \in Contexts, FinalizeRecords(c) PROVE Recording
  BY <1>3 DEF FinalizeRecords, FinalizersLive, Recording, TypeOK
<1>4. ASSUME NEW c \in Contexts, NEW r \in Runs, NEW failed \in BOOLEAN,
             RunEnds(c, r, failed)
      PROVE  Recording
  BY <1>4 DEF RunEnds, Free, Recording
<1>5. ASSUME NEW c \in Contexts, NEW r \in Calls,
             Issue(c, r) \/ NotSeen(c, r) \/ StreamInHand(c, r) \/ StreamEnds(c, r)
               \/ StreamBreaks(c, r) \/ DropStream(r) \/ Collect(c, r) \/ RunStarts(c, r)
               \/ RunUnknown(c, r) \/ RunEndFails(c, r) \/ RunEndsUnknown(c, r)
      PROVE  UNCHANGED attributionVars
  BY <1>5 DEF Issue, NotSeen, StreamInHand, StreamEnds, StreamBreaks, DropStream, Collect,
     RunStarts, RunUnknown, RunEndFails, RunEndsUnknown
<1>6. CASE UNCHANGED vars
  BY <1>6 DEF vars
<1>7. QED
  BY <1>1, <1>2, <1>3, <1>4, <1>5, <1>6 DEF Next, Intercept, Stream, Chain

-----------------------------------------------------------------------------
(* Types. *)

(* Labelling keeps the types of Attribution. *)
LEMMA LabellingTypes == AttributionTypeOK /\ Labelling => AttributionTypeOK'
<1> SUFFICES ASSUME AttributionTypeOK, NEW c \in Contexts, c \in live, Relabel(c)
             PROVE  AttributionTypeOK'
  BY DEF Labelling
<1> USE DEF AttributionTypeOK, labelVars
<1>1. /\ tokens[c] \in Seq(Labels) /\ scope[c] \in Seq(Labels) /\ step[c] \in Labels
      /\ Outer(scope[c]) \in Seq(Labels)
  <2>1. scope[c] = <<>> => Outer(scope[c]) = <<>>
    BY EmptySeq, SubSeqEmpty DEF Outer
  <2>2. scope[c] \in Seq(Labels) /\ scope[c] # <<>> => Outer(scope[c]) \in Seq(Labels)
    BY OuterProperties
  <2>3. <<>> \in Seq(Labels)
    BY EmptySeq
  <2>4. QED
    BY <2>1, <2>2, <2>3
<1>2. ASSUME NEW d \in Contexts, Spawn(d) PROVE AttributionTypeOK'
  BY <1>2 DEF Spawn
<1>3. ASSUME NEW d \in Contexts, Fork(c, d) PROVE AttributionTypeOK'
  BY <1>1, <1>3 DEF Fork
<1>4. ASSUME NEW g \in Tags, Tag(c, g) PROVE AttributionTypeOK'
  BY <1>4 DEF Tag
<1>5. ASSUME NEW s \in Labels, Mark(c, s) PROVE AttributionTypeOK'
  <2>1. Append(Outer(scope[c]), s) \in Seq(Labels)
    BY <1>1, AppendProperties
  <2>2. QED
    BY <1>5, <2>1 DEF Mark
<1>6. ASSUME NEW s \in Steps, StepEnter(c, s) PROVE AttributionTypeOK'
  <2>1. /\ Append(scope[c], s) \in Seq(Labels)
        /\ Append(tokens[c], step[c]) \in Seq(Labels)
        /\ Len(Append(tokens[c], step[c])) = Len(tokens[c]) + 1
    <3>1. s \in Labels
      BY DEF Labels
    <3>2. QED
      BY <1>1, <3>1, AppendProperties
  <2>2. Len(Append(tokens[c], step[c])) <= MaxDepth
    BY <1>1, <1>6, <2>1, LenProperties DEF StepEnter
  <2>3. s \in Labels
    BY DEF Labels
  <2>4. QED
    BY <1>6, <2>1, <2>2, <2>3 DEF StepEnter
<1>7. CASE StepExit(c)
  <2>1. /\ Outer(tokens[c]) \in Seq(Labels)
        /\ Innermost(tokens[c]) \in Labels
        /\ Len(Outer(tokens[c])) <= MaxDepth
    <3>1. /\ Outer(tokens[c]) \in Seq(Labels)
          /\ Len(tokens[c]) \in Nat
          /\ Len(Outer(tokens[c])) = Len(tokens[c]) - 1
          /\ Innermost(tokens[c]) \in Labels
      BY <1>1, <1>7, OuterProperties DEF StepExit
    <3>2. QED
      BY <3>1
  <2>2. QED
    BY <1>1, <1>7, <2>1 DEF StepExit
<1>8. QED
  BY <1>2, <1>3, <1>4, <1>5, <1>6, <1>7 DEF Relabel

(* Recording keeps the types of Attribution. *)
LEMMA RecordingTypes == AttributionTypeOK /\ Recording => AttributionTypeOK'
<1> SUFFICES ASSUME AttributionTypeOK, NEW c \in Contexts, NEW r \in Calls,
                    NEW failed \in BOOLEAN, OnCreate(c, r, failed)
             PROVE  AttributionTypeOK'
  BY DEF Recording
<1> DEFINE entry == [call |-> r, context |-> c, tags |-> pending[c], step |-> step[c],
                     failed |-> failed]
<1>1. entry \in Entry
  BY DEF AttributionTypeOK, Entry
<1>2. Append(log, entry) \in Seq(Entry)
  BY <1>1, AppendProperties DEF AttributionTypeOK
<1>3. QED
  BY <1>2 DEF OnCreate, AttributionTypeOK

(* The rest of the types, and which contexts finalise. *)
CaptureTypeOK ==
  /\ phase \in [Calls -> {"new", "inflight", "streaming", "dropped", "over", "unseen"}]
  /\ finalized \in [Streams -> BOOLEAN]
  /\ finalizing \in [Contexts -> Streams \cup {Nothing}]
  /\ failure \in [Contexts -> BOOLEAN]
  /\ parked \in Seq(Runs)
  /\ Len(parked) <= MaxPending
  /\ starts \in Seq(Runs)
  /\ broken \subseteq Streams
  /\ raced \subseteq Streams

(* Every step keeps the types of the calls, the streams and the runs.       *)
LEMMA CaptureTypes == TypeOK /\ [Next]_vars => CaptureTypeOK'
<1> SUFFICES ASSUME TypeOK, [Next]_vars PROVE CaptureTypeOK'
  OBVIOUS
<1>1. CaptureTypeOK
  BY DEF TypeOK, CaptureTypeOK
<1> USE DEF CaptureTypeOK, Turn, streamVars, runVars
<1>2. ASSUME NEW c \in Contexts, NEW r \in Plain \cup Streams,
             Issue(c, r) \/ Respond(c, r) \/ RequestFails(c, r) \/ NotSeen(c, r)
      PROVE  CaptureTypeOK'
  BY <1>1, <1>2 DEF Issue, Respond, RequestFails, NotSeen
<1>3. ASSUME NEW c \in Contexts, NEW r \in Streams,
             StreamInHand(c, r) \/ DropStream(r)
      PROVE  CaptureTypeOK'
  BY <1>1, <1>3 DEF StreamInHand, DropStream
<1>4. ASSUME NEW c \in Contexts, NEW r \in Streams, NEW failed \in BOOLEAN,
             Finalize(c, r, failed), UNCHANGED runVars,
             phase' \in [Calls -> {"new", "inflight", "streaming", "dropped", "over", "unseen"}]
      PROVE  CaptureTypeOK'
  BY <1>1, <1>4 DEF Finalize
<1>5. ASSUME NEW c \in Contexts, NEW r \in Streams,
             StreamEnds(c, r) \/ StreamBreaks(c, r) \/ Collect(c, r)
      PROVE  CaptureTypeOK'
  BY <1>1, <1>4, <1>5 DEF StreamEnds, StreamBreaks, Collect
<1>6. ASSUME NEW c \in Contexts, FinalizeRecords(c)
      PROVE  CaptureTypeOK'
  BY <1>1, <1>6 DEF FinalizeRecords
<1>7. ASSUME NEW c \in Contexts, NEW r \in Runs, RunStarts(c, r)
      PROVE  CaptureTypeOK'
  <2> DEFINE kept == IF Len(parked) >= MaxPending THEN Tail(parked) ELSE parked
  <2>1. kept \in Seq(Runs) /\ Len(kept) + 1 <= MaxPending
    <3>1. CASE Len(parked) >= MaxPending
      BY <1>1, <3>1, EmptySeq, HeadTailProperties
    <3>2. CASE ~(Len(parked) >= MaxPending)
      BY <1>1, <3>2, LenProperties
    <3>3. QED
      BY <3>1, <3>2
  <2> HIDE DEF kept
  <2>2. Append(kept, r) \in Seq(Runs) /\ Len(Append(kept, r)) <= MaxPending
    BY <2>1, AppendProperties
  <2>3. Append(starts, r) \in Seq(Runs)
    BY <1>1, AppendProperties
  <2>4. QED
    BY <1>1, <1>7, <2>2, <2>3 DEF RunStarts, kept
<1>8. ASSUME NEW c \in Contexts, NEW r \in Runs, NEW failed \in BOOLEAN,
             RunEnds(c, r, failed) \/ RunEndFails(c, r)
      PROVE  CaptureTypeOK'
  <2>1. PICK k \in 1..Len(parked) : parked' = RemoveAt(parked, k)
    BY <1>8 DEF RunEnds, RunEndFails, Take
  <2>2. parked' \in Seq(Runs) /\ Len(parked') <= MaxPending
    BY <1>1, <2>1, RemoveAtProperties, LenProperties
  <2>3. QED
    BY <1>1, <1>8, <2>2 DEF RunEnds, RunEndFails
<1>9. ASSUME NEW c \in Contexts, NEW r \in Runs, RunUnknown(c, r) \/ RunEndsUnknown(c, r)
      PROVE  CaptureTypeOK'
  BY <1>1, <1>9 DEF RunUnknown, RunEndsUnknown
<1>10. ASSUME NEW c \in Contexts, Label(c) PROVE CaptureTypeOK'
  BY <1>1, <1>10 DEF Label
<1>11. CASE UNCHANGED vars
  BY <1>1, <1>11 DEF vars
<1>12. QED
  BY <1>2, <1>3, <1>5, <1>6, <1>7, <1>8, <1>9, <1>10, <1>11
     DEF Next, Intercept, Stream, Chain

-----------------------------------------------------------------------------
(* Labels. *)

(* A context that does not exist yet has no labels and no calls. *)
LiveInv ==
  /\ \A c \in Contexts : c \notin live =>
       pending[c] = {} /\ tokens[c] = <<>> /\ scope[c] = <<NoStep>> /\ step[c] = NoStep
  /\ \A i \in 1..Len(log) : log[i].context \in live

(* The tokens are the labels of the scopes around the innermost one. *)
ScopeInv ==
  \A c \in Contexts :
    /\ Len(scope[c]) = Len(tokens[c]) + 1
    /\ \A i \in 1..Len(tokens[c]) : scope[c][i] = tokens[c][i]
    /\ step[c] = Innermost(scope[c])

(* A pending tag was given here or inherited, and no call of this context    *)
(* has had it; a tag of a call was given somewhere.                          *)
TagInv ==
  /\ \A c \in Contexts : \A g \in pending[c] :
       /\ givenIn[g] # Nowhere
       /\ givenIn[g] = c \/ g \in inherited[c]
       /\ \A i \in 1..Len(log) : log[i].context = c => g \notin log[i].tags
  /\ \A i \in 1..Len(log) : \A g \in log[i].tags : givenIn[g] # Nowhere

(* Labelling gives nothing to a context that does not exist.               *)
LEMMA LabellingLive == AttributionTypeOK /\ LiveInv /\ Labelling => LiveInv'
<1> SUFFICES ASSUME AttributionTypeOK, LiveInv, NEW c \in Contexts, c \in live, Relabel(c)
             PROVE  LiveInv'
  BY DEF Labelling
<1> USE DEF AttributionTypeOK, LiveInv, labelVars
<1>1. ASSUME NEW d \in Contexts, Spawn(d) \/ Fork(c, d) PROVE LiveInv'
  BY <1>1 DEF Spawn, Fork
<1>2. ASSUME NEW g \in Tags, Tag(c, g) PROVE LiveInv'
  BY <1>2 DEF Tag
<1>3. ASSUME NEW s \in Labels, Mark(c, s) PROVE LiveInv'
  BY <1>3 DEF Mark
<1>4. ASSUME NEW s \in Steps, StepEnter(c, s) PROVE LiveInv'
  BY <1>4 DEF StepEnter
<1>5. CASE StepExit(c)
  BY <1>5 DEF StepExit
<1>6. QED
  BY <1>1, <1>2, <1>3, <1>4, <1>5 DEF Relabel

(* Labelling keeps the tokens in step with the scopes.                     *)
LEMMA LabellingScope == AttributionTypeOK /\ LiveInv /\ ScopeInv /\ Labelling => ScopeInv'
<1> SUFFICES ASSUME AttributionTypeOK, LiveInv, ScopeInv, NEW c \in Contexts, c \in live,
                    Relabel(c), NEW e \in Contexts
             PROVE  /\ Len(scope'[e]) = Len(tokens'[e]) + 1
                    /\ \A i \in 1..Len(tokens'[e]) : scope'[e][i] = tokens'[e][i]
                    /\ step'[e] = Innermost(scope'[e])
  BY DEF Labelling, ScopeInv
<1>1. /\ tokens[c] \in Seq(Labels) /\ scope[c] \in Seq(Labels) /\ step[c] \in Labels
      /\ Len(tokens[c]) \in Nat /\ Len(scope[c]) = Len(tokens[c]) + 1
      /\ \A i \in 1..Len(tokens[c]) : scope[c][i] = tokens[c][i]
      /\ step[c] = scope[c][Len(scope[c])]
  BY LenProperties DEF AttributionTypeOK, ScopeInv, Innermost
<1>2. scope[c] # <<>>
  BY <1>1, EmptySeq
<1>3. /\ Outer(scope[c]) \in Seq(Labels)
      /\ Len(Outer(scope[c])) = Len(tokens[c])
      /\ \A i \in 1..Len(tokens[c]) : Outer(scope[c])[i] = tokens[c][i]
  <2>1. /\ Outer(scope[c]) \in Seq(Labels)
        /\ Len(Outer(scope[c])) = Len(scope[c]) - 1
        /\ \A i \in 1..Len(scope[c]) - 1 : Outer(scope[c])[i] = scope[c][i]
    <3>1. scope[c] \in Seq(Labels) /\ scope[c] # <<>>
      BY <1>1, <1>2
    <3>2. QED
      BY <3>1, OuterProperties
  <2>2. QED
    BY <1>1, <2>1
<1>4. ASSUME UNCHANGED <<scope[e], tokens[e], step[e]>>
      PROVE  /\ Len(scope'[e]) = Len(tokens'[e]) + 1
             /\ \A i \in 1..Len(tokens'[e]) : scope'[e][i] = tokens'[e][i]
             /\ step'[e] = Innermost(scope'[e])
  BY <1>4 DEF ScopeInv, Innermost
<1>5. ASSUME NEW d \in Contexts, Spawn(d) PROVE UNCHANGED <<scope[e], tokens[e], step[e]>>
  BY <1>5 DEF Spawn, labelVars
<1>6. ASSUME NEW g \in Tags, Tag(c, g) PROVE UNCHANGED <<scope[e], tokens[e], step[e]>>
  BY <1>6 DEF Tag
<1>7. ASSUME NEW d \in Contexts, Fork(c, d)
      PROVE  \/ UNCHANGED <<scope[e], tokens[e], step[e]>>
             \/ scope'[e] = <<step'[e]>> /\ tokens'[e] = <<>>
  BY <1>7 DEF Fork, LiveInv, AttributionTypeOK
<1>8. ASSUME NEW s \in Labels, Mark(c, s), e = c
      PROVE  /\ Len(scope'[e]) = Len(tokens'[e]) + 1
             /\ \A i \in 1..Len(tokens'[e]) : scope'[e][i] = tokens'[e][i]
             /\ step'[e] = Innermost(scope'[e])
  <2>1. /\ scope'[c] = Append(Outer(scope[c]), s) /\ tokens'[c] = tokens[c] /\ step'[c] = s
    BY <1>8 DEF Mark, AttributionTypeOK
  <2>2. /\ Len(scope'[c]) = Len(tokens[c]) + 1
        /\ \A i \in 1..Len(tokens[c]) : scope'[c][i] = tokens[c][i]
        /\ scope'[c][Len(tokens[c]) + 1] = s
    BY <1>3, <2>1, AppendProperties
  <2>3. QED
    BY <1>8, <2>1, <2>2 DEF Innermost
<1>9. ASSUME NEW s \in Steps, StepEnter(c, s), e = c
      PROVE  /\ Len(scope'[e]) = Len(tokens'[e]) + 1
             /\ \A i \in 1..Len(tokens'[e]) : scope'[e][i] = tokens'[e][i]
             /\ step'[e] = Innermost(scope'[e])
  <2>1. /\ scope'[c] = Append(scope[c], s)
        /\ tokens'[c] = Append(tokens[c], step[c])
        /\ step'[c] = s
    BY <1>9 DEF StepEnter, AttributionTypeOK
  <2>2. s \in Labels
    BY DEF Labels
  <2>3. /\ Len(scope'[c]) = Len(tokens[c]) + 2
        /\ \A i \in 1..Len(tokens[c]) + 1 : scope'[c][i] = scope[c][i]
        /\ scope'[c][Len(tokens[c]) + 2] = s
    BY <1>1, <2>1, <2>2, AppendProperties
  <2>4. /\ Len(tokens'[c]) = Len(tokens[c]) + 1
        /\ \A i \in 1..Len(tokens[c]) : tokens'[c][i] = tokens[c][i]
        /\ tokens'[c][Len(tokens[c]) + 1] = step[c]
    BY <1>1, <2>1, AppendProperties
  <2>5. \A i \in 1..Len(tokens[c]) + 1 : scope'[c][i] = tokens'[c][i]
    BY <1>1, <2>3, <2>4
  <2>6. QED
    BY <1>1, <1>9, <2>1, <2>3, <2>4, <2>5 DEF Innermost
<1>10. ASSUME StepExit(c), e = c
       PROVE  /\ Len(scope'[e]) = Len(tokens'[e]) + 1
              /\ \A i \in 1..Len(tokens'[e]) : scope'[e][i] = tokens'[e][i]
              /\ step'[e] = Innermost(scope'[e])
  <2>1. /\ tokens[c] # <<>>
        /\ scope'[c] = Outer(scope[c])
        /\ tokens'[c] = Outer(tokens[c])
        /\ step'[c] = tokens[c][Len(tokens[c])]
    BY <1>10 DEF StepExit, AttributionTypeOK, Innermost
  <2>2. /\ Len(tokens[c]) \in Nat \ {0}
        /\ Len(tokens'[c]) = Len(tokens[c]) - 1
        /\ \A i \in 1..Len(tokens[c]) - 1 : tokens'[c][i] = tokens[c][i]
    <3>1. tokens[c] \in Seq(Labels) /\ tokens[c] # <<>>
      BY <1>1, <2>1
    <3>2. /\ Len(tokens[c]) \in Nat \ {0}
          /\ Len(Outer(tokens[c])) = Len(tokens[c]) - 1
          /\ \A i \in 1..Len(tokens[c]) - 1 : Outer(tokens[c])[i] = tokens[c][i]
      BY <3>1, OuterProperties
    <3>3. QED
      BY <2>1, <3>2
  <2>3. QED
    BY <1>3, <1>10, <2>1, <2>2 DEF Innermost
<1>11. ASSUME e # c, \E s \in Labels : Mark(c, s) \/ StepEnter(c, s) \/ StepExit(c)
       PROVE  UNCHANGED <<scope[e], tokens[e], step[e]>>
  BY <1>11 DEF Mark, StepEnter, StepExit, AttributionTypeOK
<1>12. ASSUME scope'[e] = <<step'[e]>>, tokens'[e] = <<>>
       PROVE  /\ Len(scope'[e]) = Len(tokens'[e]) + 1
              /\ \A i \in 1..Len(tokens'[e]) : scope'[e][i] = tokens'[e][i]
              /\ step'[e] = Innermost(scope'[e])
  BY <1>12 DEF Innermost
<1>13. CASE e = c
  BY <1>4, <1>5, <1>6, <1>7, <1>8, <1>9, <1>10, <1>12, <1>13 DEF Relabel
<1>14. CASE e # c
  BY <1>4, <1>5, <1>6, <1>7, <1>11, <1>12, <1>14 DEF Relabel, Labels
<1>15. QED
  BY <1>13, <1>14

(* Labelling leaves to each pending tag one giver and no call.             *)
LEMMA LabellingTags == AttributionTypeOK /\ LiveInv /\ TagInv /\ Labelling => TagInv'
<1> SUFFICES ASSUME AttributionTypeOK, LiveInv, TagInv, NEW c \in Contexts, c \in live,
                    Relabel(c)
             PROVE  TagInv'
  BY DEF Labelling
<1>1. ASSUME UNCHANGED <<pending, givenIn, log, inherited>> PROVE TagInv'
  BY <1>1 DEF TagInv
<1>2. ASSUME NEW d \in Contexts, Spawn(d) PROVE TagInv'
  BY <1>1, <1>2 DEF Spawn, labelVars
<1>3. ASSUME NEW d \in Contexts, Fork(c, d) PROVE TagInv'
  <2>1. /\ UNCHANGED <<givenIn, log>>
        /\ d \notin live
        /\ pending' = [pending EXCEPT ![d] = pending[c]]
        /\ inherited' = [inherited EXCEPT ![d] = pending[c]]
    BY <1>3 DEF Fork
  <2>2. \A i \in 1..Len(log) : log[i].context # d
    BY <2>1 DEF LiveInv
  <2>3. ASSUME NEW e \in Contexts, NEW g \in pending'[e]
        PROVE  /\ givenIn[g] # Nowhere
               /\ givenIn[g] = e \/ g \in inherited'[e]
               /\ \A i \in 1..Len(log) : log[i].context = e => g \notin log[i].tags
    <3>1. CASE e = d
      BY <2>1, <2>2, <2>3, <3>1 DEF TagInv, AttributionTypeOK
    <3>2. CASE e # d
      BY <2>1, <2>3, <3>2 DEF TagInv, AttributionTypeOK
    <3>3. QED
      BY <3>1, <3>2
  <2>4. QED
    BY <2>1, <2>3 DEF TagInv
<1>4. ASSUME NEW g \in Tags, Tag(c, g) PROVE TagInv'
  <2>1. /\ UNCHANGED <<inherited, log>>
        /\ givenIn[g] = Nowhere
        /\ givenIn'[g] = c
        /\ \A h \in Tags : h # g => givenIn'[h] = givenIn[h]
        /\ \A e \in Contexts : pending'[e] \subseteq pending[e] \cup {g}
        /\ \A e \in Contexts : e # c => pending'[e] = pending[e]
    BY <1>4 DEF Tag, AttributionTypeOK
  <2>2. \A i \in 1..Len(log) : g \notin log[i].tags /\ log[i].tags \subseteq Tags
    <3>1. \A i \in 1..Len(log) : log[i] \in Entry
      BY ElementOfSeq DEF AttributionTypeOK
    <3>2. QED
      BY <2>1, <3>1 DEF TagInv, Entry
  <2>3. \A e \in Contexts : pending[e] \subseteq Tags /\ g \notin pending[e]
    BY <2>1 DEF TagInv, AttributionTypeOK
  <2>4. c # Nowhere
    BY DEF AttributionTypeOK
  <2>5. ASSUME NEW e \in Contexts, NEW h \in pending'[e]
        PROVE  /\ givenIn'[h] # Nowhere
               /\ givenIn'[h] = e \/ h \in inherited[e]
               /\ \A i \in 1..Len(log) : log[i].context = e => h \notin log[i].tags
    <3>1. CASE h = g
      BY <2>1, <2>2, <2>3, <2>4, <2>5, <3>1
    <3>2. CASE h # g
      <4>1. h \in pending[e] /\ h \in Tags
        BY <2>1, <2>3, <2>5, <3>2
      <4>2. givenIn'[h] = givenIn[h]
        BY <2>1, <3>2, <4>1
      <4>3. QED
        BY <4>1, <4>2 DEF TagInv
    <3>3. QED
      BY <3>1, <3>2
  <2>6. ASSUME NEW i \in 1..Len(log), NEW h \in log[i].tags PROVE givenIn'[h] # Nowhere
    <3>1. h # g /\ h \in Tags
      BY <2>2, <2>6
    <3>2. QED
      BY <2>1, <2>6, <3>1 DEF TagInv
  <2>7. QED
    BY <2>1, <2>5, <2>6 DEF TagInv
<1>5. ASSUME NEW s \in Labels, Mark(c, s) PROVE TagInv'
  BY <1>1, <1>5 DEF Mark
<1>6. ASSUME NEW s \in Steps, StepEnter(c, s) PROVE TagInv'
  BY <1>1, <1>6 DEF StepEnter
<1>7. CASE StepExit(c)
  BY <1>1, <1>7 DEF StepExit
<1>8. QED
  BY <1>2, <1>3, <1>4, <1>5, <1>6, <1>7 DEF Relabel

(* Labelling does not touch the tags of calls already recorded.            *)
LEMMA LabellingOwnTags ==
  AttributionTypeOK /\ LiveInv /\ TagInv /\ OwnTags /\ Labelling => OwnTags'
<1> SUFFICES ASSUME AttributionTypeOK, LiveInv, TagInv, OwnTags, NEW c \in Contexts,
                    c \in live, Relabel(c),
                    NEW i \in 1..Len(log'), NEW g \in log'[i].tags
             PROVE  givenIn'[g] = log'[i].context \/ g \in inherited'[log'[i].context]
  BY DEF Labelling, OwnTags
<1>1. log' = log
  BY DEF Relabel, Spawn, Fork, Tag, Mark, StepEnter, StepExit
<1>2. i \in 1..Len(log) /\ g \in log[i].tags
  BY <1>1
<1>3. /\ log[i] \in Entry
      /\ log[i].context \in live
      /\ givenIn[g] # Nowhere
      /\ givenIn[g] = log[i].context \/ g \in inherited[log[i].context]
  BY <1>2, ElementOfSeq DEF AttributionTypeOK, LiveInv, TagInv, OwnTags
<1>4. log[i].context \in Contexts /\ g \in Tags
  BY <1>2, <1>3 DEF Entry
<1>5. inherited'[log[i].context] = inherited[log[i].context]
  BY <1>3, <1>4 DEF Relabel, Spawn, Fork, Tag, Mark, StepEnter, StepExit, labelVars,
     AttributionTypeOK
<1>6. givenIn'[g] = givenIn[g]
  BY <1>3, <1>4 DEF Relabel, Spawn, Fork, Tag, Mark, StepEnter, StepExit, labelVars,
     AttributionTypeOK
<1>7. QED
  BY <1>1, <1>3, <1>5, <1>6

(* What a call is recorded with: one more entry, and no tag left behind.   *)
LEMMA RecordingAppends ==
  ASSUME AttributionTypeOK, NEW c \in Contexts, NEW r \in Calls, NEW failed \in BOOLEAN,
         OnCreate(c, r, failed)
  PROVE  /\ Len(log) \in Nat
         /\ Len(log') = Len(log) + 1
         /\ \A i \in 1..Len(log) : log'[i] = log[i]
         /\ log'[Len(log) + 1].call = r
         /\ log'[Len(log) + 1].context = c
         /\ log'[Len(log) + 1].tags = pending[c]
         /\ log'[Len(log) + 1].failed = failed
         /\ pending'[c] = {}
         /\ \A d \in Contexts : d # c => pending'[d] = pending[d]
<1> DEFINE entry == [call |-> r, context |-> c, tags |-> pending[c], step |-> step[c],
                     failed |-> failed]
<1>1. entry \in Entry
  BY DEF AttributionTypeOK, Entry
<1>2. log' = Append(log, entry)
  BY DEF OnCreate
<1>3. entry.call = r /\ entry.context = c /\ entry.tags = pending[c] /\ entry.failed = failed
  OBVIOUS
<1> HIDE DEF entry
<1>4. /\ Len(log') = Len(log) + 1
      /\ \A i \in 1..Len(log) : log'[i] = log[i]
      /\ log'[Len(log) + 1] = entry
  <2>1. log \in Seq(Entry)
    BY DEF AttributionTypeOK
  <2>2. QED
    BY <1>1, <1>2, <2>1, AppendProperties
<1>5. Len(log) \in Nat
  BY LenProperties DEF AttributionTypeOK
<1>6. /\ pending'[c] = {}
      /\ \A d \in Contexts : d # c => pending'[d] = pending[d]
  BY DEF OnCreate, AttributionTypeOK
<1>7. QED
  BY <1>3, <1>4, <1>5, <1>6

(* Recording keeps the invariants of the labels.                           *)
LEMMA RecordingKeeps ==
  AttributionTypeOK /\ LiveInv /\ ScopeInv /\ TagInv /\ Recording =>
    LiveInv' /\ ScopeInv' /\ TagInv'
<1> SUFFICES ASSUME AttributionTypeOK, LiveInv, ScopeInv, TagInv, NEW c \in Contexts,
                    NEW r \in Calls, NEW failed \in BOOLEAN, c \in live,
                    OnCreate(c, r, failed)
             PROVE  LiveInv' /\ ScopeInv' /\ TagInv'
  BY DEF Recording
<1>1. UNCHANGED <<live, step, tokens, givenIn, inherited, scope>>
  BY DEF OnCreate
<1>2. /\ Len(log) \in Nat
      /\ Len(log') = Len(log) + 1
      /\ \A i \in 1..Len(log) : log'[i] = log[i]
      /\ log'[Len(log) + 1].context = c
      /\ log'[Len(log) + 1].tags = pending[c]
      /\ pending'[c] = {}
      /\ \A d \in Contexts : d # c => pending'[d] = pending[d]
  BY RecordingAppends
<1>3. \A i \in 1..Len(log') : i = Len(log) + 1 \/ i \in 1..Len(log)
  BY <1>2
<1>4. LiveInv'
  BY <1>1, <1>2, <1>3 DEF LiveInv
<1>5. ScopeInv'
  BY <1>1 DEF ScopeInv
<1>6. ASSUME NEW i \in 1..Len(log'), NEW g \in log'[i].tags PROVE givenIn[g] # Nowhere
  BY <1>2, <1>3, <1>6 DEF TagInv
<1>7. ASSUME NEW d \in Contexts, NEW g \in pending'[d]
      PROVE  /\ givenIn[g] # Nowhere
             /\ givenIn[g] = d \/ g \in inherited[d]
             /\ \A i \in 1..Len(log') : log'[i].context = d => g \notin log'[i].tags
  <2>1. d # c /\ g \in pending[d]
    BY <1>2, <1>7
  <2>2. QED
    BY <1>2, <1>3, <2>1 DEF TagInv
<1>8. TagInv'
  BY <1>1, <1>6, <1>7 DEF TagInv
<1>9. QED
  BY <1>4, <1>5, <1>8

(* The call recorded is labelled with tags of its own context, which no    *)
(* call of that context had.                                               *)
LEMMA RecordingLabels ==
  AttributionTypeOK /\ TagInv /\ Recording =>
    (OwnTags => OwnTags') /\ (OneCallPerContext => OneCallPerContext')
<1> SUFFICES ASSUME AttributionTypeOK, TagInv, NEW c \in Contexts,
                    NEW r \in Calls, NEW failed \in BOOLEAN, OnCreate(c, r, failed)
             PROVE  (OwnTags => OwnTags') /\ (OneCallPerContext => OneCallPerContext')
  BY DEF Recording
<1> DEFINE n == Len(log) + 1
<1>1. UNCHANGED <<givenIn, inherited>>
  BY DEF OnCreate
<1>2. /\ Len(log) \in Nat
      /\ Len(log') = n
      /\ \A i \in 1..Len(log) : log'[i] = log[i]
      /\ log'[n].context = c
      /\ log'[n].tags = pending[c]
  BY RecordingAppends
<1>3. \A i \in 1..Len(log') : i = n \/ i \in 1..Len(log)
  BY <1>2
<1>4. ASSUME OwnTags, NEW i \in 1..Len(log'), NEW g \in log'[i].tags
      PROVE  givenIn[g] = log'[i].context \/ g \in inherited[log'[i].context]
  <2>1. CASE i = n
    BY <1>2, <1>4, <2>1 DEF TagInv
  <2>2. CASE i \in 1..Len(log)
    BY <1>2, <1>4, <2>2 DEF OwnTags
  <2>3. QED
    BY <1>3, <2>1, <2>2
<1>5. \A i \in 1..Len(log) : log[i].context = c => log[i].tags \cap pending[c] = {}
  BY DEF TagInv
<1>6. ASSUME OneCallPerContext, NEW i \in 1..Len(log'), NEW j \in 1..Len(log'), i # j,
             log'[i].context = log'[j].context
      PROVE  log'[i].tags \cap log'[j].tags = {}
  <2>1. CASE i \in 1..Len(log) /\ j \in 1..Len(log)
    BY <1>2, <1>6, <2>1 DEF OneCallPerContext
  <2>2. CASE i = n /\ j \in 1..Len(log)
    BY <1>2, <1>5, <1>6, <2>2
  <2>3. CASE j = n /\ i \in 1..Len(log)
    BY <1>2, <1>5, <1>6, <2>3
  <2>4. QED
    BY <1>3, <1>6, <2>1, <2>2, <2>3
<1>7. QED
  BY <1>1, <1>4, <1>6 DEF OwnTags, OneCallPerContext

(* Only a context that exists enters a `_finalize`, and none ceases to.    *)
LEMMA FinalizersStay == TypeOK /\ FinalizersLive /\ [Next]_vars => FinalizersLive'
<1> SUFFICES ASSUME TypeOK, FinalizersLive, [Next]_vars, NEW e \in Contexts,
                    finalizing'[e] # Nothing
             PROVE  e \in live'
  BY DEF FinalizersLive
<1> USE DEF TypeOK, FinalizersLive, streamVars, attributionVars, Free
<1>1. ASSUME NEW c \in Contexts, Label(c) PROVE e \in live'
  BY <1>1 DEF Label, Relabel, Spawn, Fork, Tag, Mark, StepEnter, StepExit
<1>2. ASSUME NEW c \in Contexts, NEW r \in Plain \cup Streams,
             Issue(c, r) \/ Respond(c, r) \/ RequestFails(c, r) \/ NotSeen(c, r)
      PROVE  e \in live'
  BY <1>2 DEF Issue, Respond, RequestFails, NotSeen, OnCreate
<1>3. ASSUME NEW c \in Contexts, NEW r \in Streams, NEW failed \in BOOLEAN,
             c \in live, live' = live, Finalize(c, r, failed)
      PROVE  e \in live'
  BY <1>3 DEF Finalize
<1>4. ASSUME NEW c \in Contexts, NEW r \in Streams,
             StreamEnds(c, r) \/ StreamBreaks(c, r) \/ Collect(c, r)
      PROVE  e \in live'
  BY <1>3, <1>4 DEF StreamEnds, StreamBreaks, Collect
<1>5. ASSUME NEW c \in Contexts, NEW r \in Streams, StreamInHand(c, r) \/ DropStream(r)
      PROVE  e \in live'
  BY <1>5 DEF StreamInHand, DropStream
<1>6. ASSUME NEW c \in Contexts, FinalizeRecords(c) PROVE e \in live'
  BY <1>6 DEF FinalizeRecords, OnCreate
<1>7. ASSUME NEW c \in Contexts, Chain(c) PROVE e \in live'
  BY <1>7 DEF Chain, RunStarts, RunUnknown, RunEnds, RunEndFails, RunEndsUnknown, OnCreate
<1>8. CASE UNCHANGED vars
  BY <1>8 DEF vars
<1>9. QED
  BY <1>1, <1>2, <1>4, <1>5, <1>6, <1>7, <1>8 DEF Next, Intercept, Stream

-----------------------------------------------------------------------------
(* The labels of every reachable state. *)

LabelInv ==
  TypeOK /\ FinalizersLive /\ LiveInv /\ ScopeInv /\ TagInv /\ OwnTags /\ OneCallPerContext

(* The constructor establishes them.                                       *)
LEMMA LabelsInit == Init => LabelInv
<1> SUFFICES ASSUME Init PROVE LabelInv
  OBVIOUS
<1> USE DEF Init, AttributionInit
<1>1. <<>> \in Seq(Labels) /\ <<>> \in Seq(Entry) /\ <<>> \in Seq(Runs) /\ Len(<<>>) = 0
  BY EmptySeq
<1>2. NoStep \in Labels /\ <<NoStep>> \in Seq(Labels)
  BY DEF Labels
<1>3. AttributionTypeOK
  BY <1>1, <1>2 DEF AttributionTypeOK
<1>4. TypeOK
  BY <1>1, <1>3 DEF TypeOK
<1>5. FinalizersLive
  BY DEF FinalizersLive
<1>6. LiveInv
  BY DEF LiveInv
<1>7. ScopeInv
  BY DEF ScopeInv, Innermost
<1>8. TagInv
  BY DEF TagInv
<1>9. OwnTags /\ OneCallPerContext
  BY DEF OwnTags, OneCallPerContext
<1>10. QED
  BY <1>4, <1>5, <1>6, <1>7, <1>8, <1>9 DEF LabelInv

(* Every step keeps them.                                                  *)
LEMMA LabelsStep == LabelInv /\ [Next]_vars => LabelInv'
<1> SUFFICES ASSUME LabelInv, [Next]_vars PROVE LabelInv'
  OBVIOUS
<1>1. /\ TypeOK /\ AttributionTypeOK /\ FinalizersLive /\ LiveInv /\ ScopeInv /\ TagInv
      /\ OwnTags /\ OneCallPerContext
  BY DEF LabelInv, TypeOK
<1>2. FinalizersLive' /\ CaptureTypeOK'
  BY <1>1, FinalizersStay, CaptureTypes
<1>3. AttributionTypeOK' => TypeOK'
  BY <1>2 DEF CaptureTypeOK, TypeOK
<1>4. CASE Labelling
  <2>1. AttributionTypeOK' /\ LiveInv' /\ ScopeInv' /\ TagInv' /\ OwnTags'
    BY <1>1, <1>4, LabellingTypes, LabellingLive, LabellingScope, LabellingTags,
       LabellingOwnTags
  <2>2. OneCallPerContext'
    BY <1>1, <1>4 DEF Labelling, Relabel, Spawn, Fork, Tag, Mark, StepEnter, StepExit,
       OneCallPerContext
  <2>3. QED
    BY <1>2, <1>3, <2>1, <2>2 DEF LabelInv
<1>5. CASE Recording
  BY <1>1, <1>2, <1>3, <1>5, RecordingTypes, RecordingKeeps, RecordingLabels DEF LabelInv
<1>6. CASE UNCHANGED attributionVars
  BY <1>1, <1>2, <1>3, <1>6 DEF LabelInv, attributionVars, labelVars, AttributionTypeOK,
     LiveInv, ScopeInv, TagInv, OwnTags, OneCallPerContext
<1>7. QED
  BY <1>1, <1>4, <1>5, <1>6, AttributionSteps

(* The invariant of the labels holds in every behaviour.                   *)
LEMMA LabelsHold == Spec => []LabelInv
<1>1. QED
  BY LabelsInit, LabelsStep, PTL DEF Spec

(* The variables keep their types: in particular no more than              *)
(* `_MAX_PENDING` runs are parked, whatever runs start and end.            *)
THEOREM CaptureTypeCorrect == Spec => []TypeOK
<1>1. LabelInv => TypeOK
  BY DEF LabelInv
<1>2. QED
  BY <1>1, LabelsHold, PTL

(* The step of a context is the label of its innermost scope, for any      *)
(* number of contexts and any nesting: the token of each open block is the *)
(* label of the scope around it.                                           *)
THEOREM StepsAreLexical == Spec => []StepIsLexical
<1>1. LabelInv => StepIsLexical
  BY DEF LabelInv, TypeOK, AttributionTypeOK, ScopeInv, StepIsLexical
<1>2. QED
  BY <1>1, LabelsHold, PTL

(* No call is labelled with a tag of another context, but for those        *)
(* inherited from its creator.                                             *)
THEOREM OwnTagsOnly == Spec => []OwnTags
<1>1. LabelInv => OwnTags
  BY DEF LabelInv
<1>2. QED
  BY <1>1, LabelsHold, PTL

(* No tag labels two calls of one context, however its calls end.          *)
THEOREM TagsLabelOnce == Spec => []OneCallPerContext
<1>1. LabelInv => OneCallPerContext
  BY DEF LabelInv
<1>2. QED
  BY <1>1, LabelsHold, PTL

-----------------------------------------------------------------------------
(* Calls. *)

LoggedCalls == {log[i].call : i \in 1..Len(log)}

(* No end of the call has been reached. *)
Early(r) == phase[r] \in {"new", "inflight"}

(* The flag, the log and the contexts inside a `_finalize` of one stream.  *)
StreamOK(z) ==
  /\ Early(z) => z \notin LoggedCalls /\ ~finalized[z] /\ z \notin broken /\ ~Writing(z)
  /\ z \in LoggedCalls /\ ~finalized[z] => phase[z] = "over" /\ ~Writing(z)
  /\ finalized[z] => z \in LoggedCalls
  /\ \A c, d \in Contexts : finalizing[c] = z /\ finalizing[d] = z /\ c # d => z \in raced
  /\ Writing(z) /\ finalized[z] => z \in raced
  /\ \A c \in Contexts : finalizing[c] = z /\ z \in broken \ raced => failure[c]
  /\ z \in broken => finalized[z] \/ Writing(z)
  /\ phase[z] = "over" => z \in LoggedCalls \/ Writing(z)

StreamInv == \A z \in Streams : StreamOK(z)

(* `_on_create` adds one call to those recorded.                           *)
LEMMA RecordingLogs ==
  ASSUME AttributionTypeOK, NEW c \in Contexts, NEW r \in Calls, NEW failed \in BOOLEAN,
         OnCreate(c, r, failed)
  PROVE  LoggedCalls' = LoggedCalls \cup {r}
<1>1. /\ Len(log) \in Nat
      /\ Len(log') = Len(log) + 1
      /\ \A i \in 1..Len(log) : log'[i] = log[i]
      /\ log'[Len(log) + 1].call = r
  BY RecordingAppends
<1>2. 1..Len(log') = 1..Len(log) \cup {Len(log) + 1}
  BY <1>1
<1>3. QED
  BY <1>1, <1>2 DEF LoggedCalls

(* Every step keeps a stream's flag, log and contexts in agreement.        *)
LEMMA StreamStep == TypeOK /\ StreamInv /\ [Next]_vars => StreamInv'
<1> SUFFICES ASSUME TypeOK, StreamInv, [Next]_vars, NEW z \in Streams PROVE StreamOK(z)'
  BY DEF StreamInv
<1>1. /\ StreamOK(z) /\ z \in Calls
      /\ z \notin Plain /\ z \notin Runs /\ z # Nothing
      /\ AttributionTypeOK
      /\ phase \in [Calls -> {"new", "inflight", "streaming", "dropped", "over", "unseen"}]
      /\ finalized \in [Streams -> BOOLEAN]
      /\ finalizing \in [Contexts -> Streams \cup {Nothing}]
      /\ failure \in [Contexts -> BOOLEAN]
  BY DEF StreamInv, TypeOK
<1>2. ASSUME log' = log PROVE LoggedCalls' = LoggedCalls
  BY <1>2 DEF LoggedCalls
<1>3. ASSUME UNCHANGED <<streamVars, log>>, phase'[z] = phase[z] PROVE StreamOK(z)'
  BY <1>1, <1>2, <1>3 DEF StreamOK, Early, Writing, streamVars
<1>4. ASSUME NEW c \in Contexts, NEW r \in Calls, NEW failed \in BOOLEAN, r # z,
             OnCreate(c, r, failed), UNCHANGED streamVars, phase'[z] = phase[z]
      PROVE  StreamOK(z)'
  <2>1. LoggedCalls' = LoggedCalls \cup {r}
    BY <1>1, <1>4, RecordingLogs
  <2>2. QED
    BY <1>1, <1>4, <2>1 DEF StreamOK, Early, Writing, streamVars
<1>5. ASSUME NEW c \in Contexts, NEW r \in Plain \cup Streams, Respond(c, r)
      PROVE  StreamOK(z)'
  <2>1. /\ r \in Calls /\ r # z /\ OnCreate(c, r, FALSE) /\ UNCHANGED streamVars
        /\ phase'[z] = phase[z]
    BY <1>1, <1>5 DEF Respond, Turn
  <2>2. QED
    BY <1>4, <2>1
<1>6. ASSUME NEW c \in Contexts, NEW r \in Plain \cup Streams, RequestFails(c, r)
      PROVE  StreamOK(z)'
  <2>1. /\ r \in Calls /\ OnCreate(c, r, TRUE) /\ UNCHANGED streamVars
        /\ Early(r) /\ phase' = [phase EXCEPT ![r] = "over"]
    BY <1>6 DEF RequestFails, Turn, Early
  <2>2. CASE r # z
    BY <1>1, <1>4, <2>1, <2>2
  <2>3. CASE r = z
    <3>1. LoggedCalls' = LoggedCalls \cup {z}
      BY <1>1, <2>1, <2>3, RecordingLogs
    <3>2. phase'[z] = "over" /\ ~Writing(z) /\ ~finalized[z] /\ z \notin broken
      BY <1>1, <2>1, <2>3 DEF StreamOK
    <3>3. QED
      BY <1>1, <2>1, <3>1, <3>2 DEF StreamOK, Early, Writing, streamVars
  <2>4. QED
    BY <2>2, <2>3
<1>7. ASSUME NEW c \in Contexts, NEW r \in Plain \cup Streams,
             Issue(c, r) \/ NotSeen(c, r) \/ (r \in Streams /\ StreamInHand(c, r))
      PROVE  StreamOK(z)'
  <2>1. /\ UNCHANGED <<streamVars, log>> /\ r \in Calls /\ Early(r)
        /\ \E to \in {"inflight", "unseen", "streaming"} : phase' = [phase EXCEPT ![r] = to]
    BY <1>7 DEF Issue, NotSeen, StreamInHand, Turn, Early, attributionVars
  <2>2. CASE r = z
    BY <1>1, <1>2, <2>1, <2>2 DEF StreamOK, Early, Writing, streamVars
  <2>3. CASE r # z
    BY <1>1, <1>3, <2>1, <2>3
  <2>4. QED
    BY <2>2, <2>3
<1>8. ASSUME NEW r \in Streams, DropStream(r) PROVE StreamOK(z)'
  <2>1. /\ UNCHANGED <<streamVars, log>> /\ phase[r] = "streaming"
        /\ phase' = [phase EXCEPT ![r] = "dropped"]
    BY <1>8 DEF DropStream, Turn, attributionVars
  <2>2. CASE r = z
    BY <1>1, <1>2, <2>1, <2>2 DEF StreamOK, Early, Writing, streamVars
  <2>3. CASE r # z
    BY <1>1, <1>3, <2>1, <2>3
  <2>4. QED
    BY <2>2, <2>3
<1>9. ASSUME NEW c \in Contexts, NEW r \in Streams, NEW failed \in BOOLEAN,
             Finalize(c, r, failed), finalizing[c] = Nothing, log' = log,
             phase[r] \in {"streaming", "dropped"},
             \/ phase' = phase
             \/ phase' = [phase EXCEPT ![r] = "over"]
      PROVE  StreamOK(z)'
  <2>1. LoggedCalls' = LoggedCalls
    BY <1>2, <1>9
  <2>2. CASE finalized[r]
    <3>1. UNCHANGED streamVars
      BY <1>9, <2>2 DEF Finalize
    <3>2. QED
      BY <1>1, <1>9, <2>1, <2>2, <3>1 DEF StreamOK, Early, Writing, streamVars
  <2>3. CASE ~finalized[r] /\ r # z
    <3>1. /\ phase'[z] = phase[z] /\ finalized' = finalized
          /\ finalizing' = [finalizing EXCEPT ![c] = r]
          /\ failure' = [failure EXCEPT ![c] = failed]
          /\ z \in broken' <=> z \in broken
          /\ z \in raced' <=> z \in raced
      BY <1>1, <1>9, <2>3 DEF Finalize
    <3>2. \A d \in Contexts : finalizing'[d] = z <=> finalizing[d] = z
      BY <1>1, <1>9, <2>3, <3>1
    <3>3. \A d \in Contexts : finalizing[d] = z => failure'[d] = failure[d]
      BY <1>1, <1>9, <3>1
    <3>4. QED
      BY <1>1, <2>1, <3>1, <3>2, <3>3 DEF StreamOK, Early, Writing
  <2>4. CASE ~finalized[z] /\ r = z
    <3>1. /\ finalized' = finalized
          /\ finalizing' = [finalizing EXCEPT ![c] = z]
          /\ failure' = [failure EXCEPT ![c] = failed]
          /\ broken' = IF failed THEN broken \cup {z} ELSE broken
          /\ raced' = IF Writing(z) THEN raced \cup {z} ELSE raced
      BY <1>9, <2>4 DEF Finalize, Writing
    <3>2. ~Early(z)' /\ z \notin LoggedCalls' /\ ~finalized'[z]
      BY <1>1, <1>9, <2>1, <2>4, <3>1 DEF StreamOK, Early
    <3>3. Writing(z)'
      BY <1>1, <3>1 DEF Writing
    <3>4. ASSUME NEW a \in Contexts, NEW b \in Contexts, a # b,
                 finalizing'[a] = z, finalizing'[b] = z
          PROVE  z \in raced'
      <4>1. finalizing[a] = z \/ finalizing[b] = z
        BY <1>1, <3>1, <3>4
      <4>2. QED
        BY <3>1, <4>1 DEF Writing
    <3>5. ASSUME NEW a \in Contexts, finalizing'[a] = z, z \in broken' \ raced'
          PROVE  failure'[a]
      <4>1. ~Writing(z)
        BY <3>1, <3>5
      <4>2. a = c
        BY <1>1, <3>1, <3>5, <4>1 DEF Writing
      <4>3. failed
        BY <1>1, <2>4, <3>1, <3>5, <4>1 DEF StreamOK
      <4>4. QED
        BY <1>1, <3>1, <4>2, <4>3
    <3>6. QED
      BY <3>2, <3>3, <3>4, <3>5 DEF StreamOK
  <2>5. QED
    BY <2>2, <2>3, <2>4
<1>10. ASSUME NEW c \in Contexts, NEW r \in Streams,
              StreamEnds(c, r) \/ StreamBreaks(c, r) \/ Collect(c, r)
       PROVE  StreamOK(z)'
  <2>1. /\ finalizing[c] = Nothing /\ log' = log /\ phase[r] \in {"streaming", "dropped"}
        /\ phase' = phase \/ phase' = [phase EXCEPT ![r] = "over"]
        /\ \E failed \in BOOLEAN : Finalize(c, r, failed)
    BY <1>10 DEF StreamEnds, StreamBreaks, Collect, Turn, Free, attributionVars
  <2>2. QED
    BY <1>9, <2>1
<1>11. ASSUME NEW c \in Contexts, FinalizeRecords(c) PROVE StreamOK(z)'
  <2> DEFINE r == finalizing[c]
  <2>1. /\ r \in Streams /\ failure[c] \in BOOLEAN
        /\ OnCreate(c, r, failure[c])
        /\ finalized' = [finalized EXCEPT ![r] = TRUE]
        /\ finalizing' = [finalizing EXCEPT ![c] = Nothing]
        /\ UNCHANGED <<phase, failure, broken, raced>>
    BY <1>1, <1>11 DEF FinalizeRecords
  <2>2. LoggedCalls' = LoggedCalls \cup {r}
    BY <1>1, <2>1, RecordingLogs
  <2>3. \A d \in Contexts : finalizing'[d] = z <=> d # c /\ finalizing[d] = z
    BY <1>1, <2>1
  <2>4. CASE r # z
    <3>1. (Writing(z)' <=> Writing(z)) /\ (finalized'[z] <=> finalized[z])
          /\ (z \in LoggedCalls' <=> z \in LoggedCalls)
      BY <1>1, <2>1, <2>2, <2>3, <2>4 DEF Writing
    <3>2. QED
      BY <1>1, <2>1, <2>3, <2>4, <3>1 DEF StreamOK, Early
  <2>5. CASE r = z
    <3>1. finalized'[z] /\ z \in LoggedCalls' /\ Writing(z)
      BY <1>1, <2>1, <2>2, <2>5 DEF Writing
    <3>2. Writing(z)' => z \in raced
      BY <1>1, <2>3, <2>5 DEF Writing, StreamOK
    <3>3. ~Early(z)'
      BY <1>1, <2>1, <3>1 DEF StreamOK, Early
    <3>4. QED
      BY <1>1, <2>1, <2>3, <3>1, <3>2, <3>3 DEF StreamOK
  <2>6. QED
    BY <2>4, <2>5
<1>12. ASSUME NEW c \in Contexts, Chain(c) PROVE StreamOK(z)'
  <2>1. PICK r \in Runs :
          /\ UNCHANGED streamVars
          /\ phase' \in {[phase EXCEPT ![r] = to] : to \in {"inflight", "unseen", "over"}}
          /\ \/ log' = log
             \/ \E failed \in BOOLEAN : OnCreate(c, r, failed)
    BY <1>12 DEF Chain, RunStarts, RunUnknown, RunEnds, RunEndFails, RunEndsUnknown, Turn,
       attributionVars
  <2>2. r \in Calls /\ r # z /\ phase'[z] = phase[z]
    BY <1>1, <2>1
  <2>3. QED
    BY <1>3, <1>4, <2>1, <2>2
<1>13. ASSUME NEW c \in Contexts, Label(c) PROVE StreamOK(z)'
  BY <1>3, <1>13 DEF Label, Relabel, Spawn, Fork, Tag, Mark, StepEnter, StepExit
<1>14. CASE UNCHANGED vars
  BY <1>3, <1>14 DEF vars, attributionVars
<1>15. QED
  BY <1>5, <1>6, <1>7, <1>8, <1>10, <1>11, <1>12, <1>13, <1>14 DEF Next, Intercept, Stream

(* A call other than a stream is recorded as it ends, and a parked run is  *)
(* one that has not ended, with as many runs started after it as wait      *)
(* behind it.                                                              *)
PlainInv ==
  \A r \in Plain :
    (Early(r) => r \notin LoggedCalls) /\ (phase[r] = "over" => r \in LoggedCalls)

ParkedInv ==
  /\ \A i \in 1..Len(parked) : phase[parked[i]] = "inflight"
  /\ \A i, j \in 1..Len(parked) : parked[i] = parked[j] => i = j

QueueInv ==
  \A i \in 1..Len(parked) : \E p \in 1..Len(starts) :
    starts[p] = parked[i] /\ Len(starts) - p >= Len(parked) - i

Evicted(r) == \E i \in 1..Len(starts) : starts[i] = r /\ Len(starts) - i >= MaxPending

RunInv ==
  \A r \in Runs :
    /\ Early(r) => r \notin LoggedCalls
    /\ phase[r] = "over" \/ (phase[r] = "inflight" /\ ~Parked(r)) =>
         r \in LoggedCalls \/ Evicted(r)

(* What a step does to the calls: one is recorded that was not, or a stream *)
(* is recorded again that two contexts raced for.                          *)
Logs(r) ==
  \E c \in Contexts, failed \in BOOLEAN :
    /\ OnCreate(c, r, failed)
    /\ r \in LoggedCalls => r \in raced
    /\ r \in broken \ raced => failed

(* Every step records at most one call, and none again but a raced stream. *)
LEMMA RecordingOnce ==
  TypeOK /\ StreamInv /\ PlainInv /\ RunInv /\ ParkedInv /\ [Next]_vars =>
    log' = log \/ ((\E r \in Calls : Logs(r)) /\ UNCHANGED <<broken, raced>>)
<1> SUFFICES ASSUME TypeOK, StreamInv, PlainInv, RunInv, ParkedInv, [Next]_vars
             PROVE  log' = log \/ ((\E r \in Calls : Logs(r)) /\ UNCHANGED <<broken, raced>>)
  OBVIOUS
<1>1. broken \subseteq Streams /\ finalizing \in [Contexts -> Streams \cup {Nothing}]
      /\ failure \in [Contexts -> BOOLEAN]
  BY DEF TypeOK
<1>2. ASSUME NEW c \in Contexts, NEW r \in Plain \cup Streams,
             Respond(c, r) \/ RequestFails(c, r)
      PROVE  (\E q \in Calls : Logs(q)) /\ UNCHANGED <<broken, raced>>
  <2>1. PICK failed \in BOOLEAN :
          OnCreate(c, r, failed) /\ (r \in Streams => failed)
    BY <1>2 DEF Respond, RequestFails
  <2>2. Early(r) /\ r \in Calls /\ UNCHANGED <<broken, raced>>
    BY <1>2 DEF Respond, RequestFails, Early, streamVars
  <2>3. r \notin LoggedCalls
    BY <2>2 DEF StreamInv, StreamOK, PlainInv
  <2>4. r \in broken => failed
    BY <1>1, <2>1
  <2>5. QED
    BY <2>1, <2>2, <2>3, <2>4 DEF Logs
<1>3. ASSUME NEW c \in Contexts, FinalizeRecords(c)
      PROVE  (\E q \in Calls : Logs(q)) /\ UNCHANGED <<broken, raced>>
  <2> DEFINE r == finalizing[c]
  <2>1. /\ r \in Streams /\ r \in Calls /\ failure[c] \in BOOLEAN
        /\ OnCreate(c, r, failure[c])
        /\ UNCHANGED <<broken, raced>>
    BY <1>1, <1>3 DEF FinalizeRecords
  <2>2. StreamOK(r) /\ Writing(r)
    BY <2>1 DEF StreamInv, Writing
  <2>3. r \in LoggedCalls => r \in raced
    BY <2>2 DEF StreamOK
  <2>4. r \in broken \ raced => failure[c]
    BY <2>2 DEF StreamOK
  <2>5. QED
    BY <2>1, <2>3, <2>4 DEF Logs
<1>4. ASSUME NEW c \in Contexts, NEW r \in Runs, NEW failed \in BOOLEAN,
             RunEnds(c, r, failed)
      PROVE  (\E q \in Calls : Logs(q)) /\ UNCHANGED <<broken, raced>>
  <2>1. OnCreate(c, r, failed) /\ r \in Calls /\ r \notin broken /\ UNCHANGED <<broken, raced>>
    BY <1>1, <1>4 DEF RunEnds, streamVars
  <2>2. Early(r)
    BY <1>4 DEF RunEnds, Take, ParkedInv, Early
  <2>3. r \notin LoggedCalls
    BY <2>2 DEF RunInv
  <2>4. QED
    BY <2>1, <2>3 DEF Logs
<1>5. ASSUME NEW c \in Contexts, NEW r \in Calls,
             Issue(c, r) \/ NotSeen(c, r) \/ StreamInHand(c, r) \/ StreamEnds(c, r)
               \/ StreamBreaks(c, r) \/ DropStream(r) \/ Collect(c, r) \/ RunStarts(c, r)
               \/ RunUnknown(c, r) \/ RunEndFails(c, r) \/ RunEndsUnknown(c, r)
      PROVE  log' = log
  BY <1>5 DEF Issue, NotSeen, StreamInHand, StreamEnds, StreamBreaks, DropStream, Collect,
     RunStarts, RunUnknown, RunEndFails, RunEndsUnknown, attributionVars
<1>6. ASSUME NEW c \in Contexts, Label(c) PROVE log' = log
  BY <1>6 DEF Label, Relabel, Spawn, Fork, Tag, Mark, StepEnter, StepExit
<1>7. CASE UNCHANGED vars
  BY <1>7 DEF vars, attributionVars
<1>8. QED
  BY <1>2, <1>3, <1>4, <1>5, <1>6, <1>7 DEF Next, Intercept, Stream, Chain

(* A stream that starts to break, or to be raced for, is not recorded yet, *)
(* or was recorded by another of its ends already.                         *)
LEMMA BreakingIsUnlogged ==
  TypeOK /\ StreamInv /\ [Next]_vars =>
    /\ raced \subseteq raced'
    /\ \A z \in broken' \ broken : z \notin LoggedCalls
<1> SUFFICES ASSUME TypeOK, StreamInv, [Next]_vars
             PROVE  /\ raced \subseteq raced'
                    /\ \A z \in broken' \ broken : z \notin LoggedCalls
  OBVIOUS
<1>1. ASSUME NEW c \in Contexts, NEW r \in Streams,
             StreamEnds(c, r) \/ StreamBreaks(c, r) \/ Collect(c, r)
      PROVE  /\ raced \subseteq raced'
             /\ \A z \in broken' \ broken : z \notin LoggedCalls
  <2>1. PICK failed \in BOOLEAN : Finalize(c, r, failed)
    BY <1>1 DEF StreamEnds, StreamBreaks, Collect
  <2>2. phase[r] \in {"streaming", "dropped"} /\ StreamOK(r)
    BY <1>1 DEF StreamEnds, StreamBreaks, Collect, StreamInv
  <2>3. r \in LoggedCalls => finalized[r]
    BY <2>2 DEF StreamOK
  <2>4. QED
    BY <2>1, <2>3 DEF Finalize, streamVars
<1>2. ASSUME NEW c \in Contexts, NEW r \in Calls,
             Issue(c, r) \/ Respond(c, r) \/ RequestFails(c, r) \/ NotSeen(c, r)
               \/ StreamInHand(c, r) \/ DropStream(r) \/ FinalizeRecords(c)
               \/ RunStarts(c, r) \/ RunUnknown(c, r) \/ RunEndFails(c, r)
               \/ RunEndsUnknown(c, r) \/ (\E failed \in BOOLEAN : RunEnds(c, r, failed))
      PROVE  UNCHANGED <<broken, raced>>
  BY <1>2 DEF Issue, Respond, RequestFails, NotSeen, StreamInHand, DropStream,
     FinalizeRecords, RunStarts, RunUnknown, RunEndFails, RunEndsUnknown, RunEnds, streamVars
<1>3. ASSUME NEW c \in Contexts, FinalizeRecords(c) PROVE UNCHANGED <<broken, raced>>
  BY <1>3 DEF FinalizeRecords
<1>4. ASSUME NEW c \in Contexts, Label(c) PROVE UNCHANGED <<broken, raced>>
  BY <1>4 DEF Label, streamVars
<1>5. CASE UNCHANGED vars
  BY <1>5 DEF vars, streamVars
<1>6. QED
  BY <1>1, <1>2, <1>3, <1>4, <1>5 DEF Next, Intercept, Stream, Chain

(* So calls are recorded once, and broken streams as failed.               *)
LEMMA LogStep ==
  ASSUME TypeOK, StreamInv, PlainInv, RunInv, ParkedInv, RecordedOnce, BrokenAreFailed,
         [Next]_vars
  PROVE  RecordedOnce' /\ BrokenAreFailed'
<1>1. raced \subseteq raced' /\ \A z \in broken' \ broken : z \notin LoggedCalls
  BY BreakingIsUnlogged
<1>2. CASE log' = log
  <2>1. RecordedOnce'
    BY <1>1, <1>2 DEF RecordedOnce
  <2>2. \A i \in 1..Len(log) : log[i].call \in broken' \ raced' => log[i].failed
    BY <1>1 DEF BrokenAreFailed, LoggedCalls
  <2>3. QED
    BY <1>2, <2>1, <2>2 DEF BrokenAreFailed
<1>3. ASSUME NEW r \in Calls, Logs(r), UNCHANGED <<broken, raced>>
      PROVE  RecordedOnce' /\ BrokenAreFailed'
  <2> DEFINE n == Len(log) + 1
  <2>1. PICK c \in Contexts, failed \in BOOLEAN :
          /\ OnCreate(c, r, failed)
          /\ r \in LoggedCalls => r \in raced
          /\ r \in broken \ raced => failed
    BY <1>3 DEF Logs
  <2>2. AttributionTypeOK
    BY DEF TypeOK
  <2>3. /\ Len(log) \in Nat
        /\ Len(log') = n
        /\ \A i \in 1..Len(log) : log'[i] = log[i]
        /\ log'[n].call = r
        /\ log'[n].failed = failed
    BY <2>1, <2>2, RecordingAppends
  <2>4. \A i \in 1..Len(log') : i = n \/ i \in 1..Len(log)
    BY <2>3
  <2>5. \A i \in 1..Len(log) : log[i].call = r => r \in raced
    BY <2>1 DEF LoggedCalls
  <2>6. BrokenAreFailed'
    BY <1>3, <2>1, <2>3, <2>4 DEF BrokenAreFailed
  <2>7. ASSUME NEW i \in 1..Len(log'), NEW j \in 1..Len(log'), i # j,
               log'[i].call = log'[j].call
        PROVE  log'[i].call \in raced
    <3>1. CASE i \in 1..Len(log) /\ j \in 1..Len(log)
      BY <2>3, <2>7, <3>1 DEF RecordedOnce
    <3>2. CASE i = n /\ j \in 1..Len(log)
      BY <2>3, <2>5, <2>7, <3>2
    <3>3. CASE j = n /\ i \in 1..Len(log)
      BY <2>3, <2>5, <2>7, <3>3
    <3>4. QED
      BY <2>4, <2>7, <3>1, <3>2, <3>3
  <2>8. QED
    BY <1>3, <2>6, <2>7 DEF RecordedOnce
<1>4. QED
  BY <1>2, <1>3, RecordingOnce

-----------------------------------------------------------------------------
(* Runs. *)

(* A step that ends no call of the handler's, and starts none.             *)
Aside ==
  /\ UNCHANGED runVars
  /\ \A r \in Runs : phase'[r] = phase[r]
  /\ LoggedCalls' \cap Runs = LoggedCalls \cap Runs

(* Every step is one of the handler's, or passes it by.                    *)
LEMMA HandlerSteps == TypeOK /\ [Next]_vars => (\E c \in Contexts : Chain(c)) \/ Aside
<1> SUFFICES ASSUME TypeOK, [Next]_vars
             PROVE  (\E c \in Contexts : Chain(c)) \/ Aside
  OBVIOUS
<1>1. /\ AttributionTypeOK
      /\ phase \in [Calls -> {"new", "inflight", "streaming", "dropped", "over", "unseen"}]
      /\ finalizing \in [Contexts -> Streams \cup {Nothing}]
      /\ failure \in [Contexts -> BOOLEAN]
  BY DEF TypeOK
<1>2. ASSUME NEW r \in Plain \cup Streams, UNCHANGED runVars,
             \A q \in Runs : phase'[q] = phase[q],
             \/ log' = log
             \/ \E c \in Contexts, failed \in BOOLEAN : OnCreate(c, r, failed)
      PROVE  Aside
  <2>1. CASE log' = log
    BY <1>2, <2>1 DEF Aside, LoggedCalls
  <2>2. ASSUME NEW c \in Contexts, NEW failed \in BOOLEAN, OnCreate(c, r, failed) PROVE Aside
    <3>1. r \in Calls /\ r \notin Runs
      OBVIOUS
    <3>2. LoggedCalls' = LoggedCalls \cup {r}
      BY <1>1, <2>2, <3>1, RecordingLogs
    <3>3. QED
      BY <1>2, <3>1, <3>2 DEF Aside
  <2>3. QED
    BY <1>2, <2>1, <2>2
<1>3. ASSUME NEW c \in Contexts, NEW r \in Plain \cup Streams,
             Issue(c, r) \/ Respond(c, r) \/ RequestFails(c, r) \/ NotSeen(c, r)
               \/ StreamInHand(c, r)
      PROVE  Aside
  <2>1. /\ UNCHANGED runVars
        /\ \A q \in Runs : phase'[q] = phase[q]
        /\ log' = log \/ \E failed \in BOOLEAN : OnCreate(c, r, failed)
    BY <1>1, <1>3 DEF Issue, Respond, RequestFails, NotSeen, StreamInHand, Turn,
       attributionVars
  <2>2. QED
    BY <1>2, <2>1
<1>4. ASSUME NEW c \in Contexts, NEW r \in Streams,
             StreamEnds(c, r) \/ StreamBreaks(c, r) \/ Collect(c, r) \/ DropStream(r)
      PROVE  Aside
  <2>1. UNCHANGED runVars /\ log' = log /\ \A q \in Runs : phase'[q] = phase[q]
    BY <1>1, <1>4 DEF StreamEnds, StreamBreaks, Collect, DropStream, Turn, attributionVars
  <2>2. QED
    BY <1>2, <2>1
<1>5. ASSUME NEW c \in Contexts, FinalizeRecords(c) PROVE Aside
  <2>1. /\ finalizing[c] \in Streams /\ failure[c] \in BOOLEAN
        /\ OnCreate(c, finalizing[c], failure[c]) /\ phase' = phase /\ UNCHANGED runVars
    BY <1>1, <1>5 DEF FinalizeRecords
  <2>2. QED
    BY <1>2, <2>1
<1>6. CASE UNCHANGED <<phase, runVars, log>>
  BY <1>6 DEF Aside, LoggedCalls
<1>7. ASSUME NEW c \in Contexts, Label(c) PROVE UNCHANGED <<phase, runVars, log>>
  BY <1>7 DEF Label, Relabel, Spawn, Fork, Tag, Mark, StepEnter, StepExit
<1>8. CASE UNCHANGED vars
  BY <1>6, <1>8 DEF vars, attributionVars
<1>9. QED
  BY <1>3, <1>4, <1>5, <1>6, <1>7, <1>8 DEF Next, Intercept, Stream

(* A call without streaming is recorded as it ends.                        *)
LEMMA PlainStep == TypeOK /\ PlainInv /\ [Next]_vars => PlainInv'
<1> SUFFICES ASSUME TypeOK, PlainInv, [Next]_vars, NEW p \in Plain
             PROVE  /\ Early(p)' => p \notin LoggedCalls'
                    /\ phase'[p] = "over" => p \in LoggedCalls'
  BY DEF PlainInv
<1>1. /\ AttributionTypeOK /\ p \in Calls /\ p \notin Streams /\ p \notin Runs
      /\ phase \in [Calls -> {"new", "inflight", "streaming", "dropped", "over", "unseen"}]
      /\ finalizing \in [Contexts -> Streams \cup {Nothing}]
      /\ failure \in [Contexts -> BOOLEAN]
      /\ Early(p) => p \notin LoggedCalls
      /\ phase[p] = "over" => p \in LoggedCalls
  BY DEF TypeOK, PlainInv
<1> DEFINE Goal == /\ Early(p)' => p \notin LoggedCalls'
                   /\ phase'[p] = "over" => p \in LoggedCalls'
<1>2. ASSUME phase'[p] = phase[p],
             \/ log' = log
             \/ \E c \in Contexts, r \in Calls, failed \in BOOLEAN :
                  r # p /\ OnCreate(c, r, failed)
      PROVE  Goal
  <2>1. p \in LoggedCalls' <=> p \in LoggedCalls
    <3>1. CASE log' = log
      BY <3>1 DEF LoggedCalls
    <3>2. ASSUME NEW c \in Contexts, NEW r \in Calls, NEW failed \in BOOLEAN,
                 r # p, OnCreate(c, r, failed)
          PROVE  p \in LoggedCalls' <=> p \in LoggedCalls
      <4>1. LoggedCalls' = LoggedCalls \cup {r}
        BY <1>1, <3>2, RecordingLogs
      <4>2. QED
        BY <3>2, <4>1
    <3>3. QED
      BY <1>2, <3>1, <3>2
  <2>2. QED
    BY <1>1, <1>2, <2>1 DEF Early
<1>3. ASSUME NEW c \in Contexts, NEW r \in Plain \cup Streams,
             Respond(c, r) \/ RequestFails(c, r)
      PROVE  Goal
  <2>1. /\ phase' = [phase EXCEPT ![r] = "over"] /\ r \in Calls
        /\ \E failed \in BOOLEAN : OnCreate(c, r, failed)
    BY <1>3 DEF Respond, RequestFails, Turn
  <2>2. LoggedCalls' = LoggedCalls \cup {r}
    BY <1>1, <2>1, RecordingLogs
  <2>3. QED
    BY <1>1, <2>1, <2>2 DEF Early
<1>4. ASSUME NEW c \in Contexts, NEW r \in Plain \cup Streams,
             Issue(c, r) \/ NotSeen(c, r)
      PROVE  Goal
  <2>1. /\ Early(r) /\ log' = log
        /\ \E to \in {"inflight", "unseen"} : phase' = [phase EXCEPT ![r] = to]
    BY <1>4 DEF Issue, NotSeen, Turn, Early, attributionVars
  <2>2. LoggedCalls' = LoggedCalls
    BY <2>1 DEF LoggedCalls
  <2>3. QED
    BY <1>1, <2>1, <2>2 DEF Early
<1>5. ASSUME NEW c \in Contexts, NEW r \in Streams,
             StreamInHand(c, r) \/ StreamEnds(c, r) \/ StreamBreaks(c, r) \/ Collect(c, r)
               \/ DropStream(r)
      PROVE  Goal
  <2>1. phase'[p] = phase[p] /\ log' = log
    BY <1>1, <1>5 DEF StreamInHand, StreamEnds, StreamBreaks, Collect, DropStream, Turn,
       attributionVars
  <2>2. QED
    BY <1>2, <2>1
<1>6. ASSUME NEW c \in Contexts, FinalizeRecords(c) PROVE Goal
  <2>1. /\ finalizing[c] \in Streams /\ failure[c] \in BOOLEAN
        /\ OnCreate(c, finalizing[c], failure[c]) /\ phase' = phase
    BY <1>1, <1>6 DEF FinalizeRecords
  <2>2. QED
    BY <1>1, <1>2, <2>1
<1>7. ASSUME NEW c \in Contexts, NEW r \in Runs,
             RunStarts(c, r) \/ RunUnknown(c, r) \/ RunEndFails(c, r) \/ RunEndsUnknown(c, r)
               \/ (\E failed \in BOOLEAN : RunEnds(c, r, failed))
      PROVE  Goal
  <2>1. /\ phase'[p] = phase[p] /\ r \in Calls /\ r # p
        /\ log' = log \/ \E failed \in BOOLEAN : OnCreate(c, r, failed)
    BY <1>1, <1>7 DEF RunStarts, RunUnknown, RunEndFails, RunEndsUnknown, RunEnds, Turn,
       attributionVars
  <2>2. QED
    BY <1>2, <2>1
<1>8. ASSUME NEW c \in Contexts, Label(c) PROVE Goal
  BY <1>2, <1>8 DEF Label, Relabel, Spawn, Fork, Tag, Mark, StepEnter, StepExit
<1>9. CASE UNCHANGED vars
  BY <1>2, <1>9 DEF vars, attributionVars
<1>10. QED
  BY <1>3, <1>4, <1>5, <1>6, <1>7, <1>8, <1>9 DEF Next, Intercept, Stream, Chain

(* `_park` drops the oldest run at the bound, and no other.                *)
LEMMA ParkShifts ==
  ASSUME TypeOK, NEW c \in Contexts, NEW r \in Runs, RunStarts(c, r)
  PROVE  \E shift \in {0, 1} :
           /\ shift = 1 => Len(parked) = MaxPending
           /\ Len(parked) \in Nat /\ Len(starts) \in Nat /\ shift <= Len(parked)
           /\ Len(parked') = Len(parked) - shift + 1
           /\ \A i \in 1..Len(parked) - shift : parked'[i] = parked[i + shift]
           /\ parked'[Len(parked) - shift + 1] = r
           /\ Len(starts') = Len(starts) + 1
           /\ \A i \in 1..Len(starts) : starts'[i] = starts[i]
           /\ starts'[Len(starts) + 1] = r
<1> DEFINE kept == IF Len(parked) >= MaxPending THEN Tail(parked) ELSE parked
<1>1. /\ parked \in Seq(Runs) /\ starts \in Seq(Runs) /\ MaxPending \in Nat \ {0}
      /\ Len(parked) <= MaxPending /\ Len(parked) \in Nat /\ Len(starts) \in Nat
      /\ parked' = Append(kept, r) /\ starts' = Append(starts, r)
  BY LenProperties DEF TypeOK, RunStarts
<1>2. PICK shift \in {0, 1} :
        /\ shift = 1 => Len(parked) = MaxPending
        /\ shift <= Len(parked)
        /\ kept \in Seq(Runs)
        /\ Len(kept) = Len(parked) - shift
        /\ \A i \in 1..Len(parked) - shift : kept[i] = parked[i + shift]
  <2>1. CASE Len(parked) >= MaxPending
    <3>1. kept = Tail(parked) /\ parked \in Seq(Runs) /\ parked # <<>>
      BY <1>1, <2>1, EmptySeq
    <3>2. /\ Tail(parked) \in Seq(Runs)
          /\ Len(Tail(parked)) = Len(parked) - 1
          /\ \A i \in 1..Len(Tail(parked)) : Tail(parked)[i] = parked[i + 1]
      BY <3>1, HeadTailProperties
    <3>3. /\ Len(parked) = MaxPending /\ 1 <= Len(parked)
          /\ Len(kept) = Len(parked) - 1
          /\ kept \in Seq(Runs)
          /\ \A i \in 1..Len(parked) - 1 : kept[i] = parked[i + 1]
      <4> HIDE DEF kept
      <4>1. Len(parked) = MaxPending /\ 1 <= Len(parked)
        BY <1>1, <2>1
      <4>2. /\ kept \in Seq(Runs)
            /\ Len(kept) = Len(parked) - 1
            /\ \A i \in 1..Len(kept) : kept[i] = parked[i + 1]
        BY <3>1, <3>2
      <4>3. QED
        BY <4>1, <4>2
    <3> HIDE DEF kept
    <3>4. QED
      BY <3>3
  <2>2. CASE ~(Len(parked) >= MaxPending)
    BY <1>1, <2>2
  <2>3. QED
    BY <2>1, <2>2
<1> HIDE DEF kept
<1>3. /\ Len(parked') = Len(kept) + 1
      /\ \A i \in 1..Len(kept) : parked'[i] = kept[i]
      /\ parked'[Len(kept) + 1] = r
  BY <1>1, <1>2, AppendProperties
<1>4. /\ Len(starts') = Len(starts) + 1
      /\ \A i \in 1..Len(starts) : starts'[i] = starts[i]
      /\ starts'[Len(starts) + 1] = r
  BY <1>1, AppendProperties
<1>5. QED
  BY <1>1, <1>2, <1>3, <1>4

QueueOK == ParkedInv /\ QueueInv /\ RunInv

(* A run that starts is parked behind the others, and only the oldest of   *)
(* `_MAX_PENDING` makes room for it.                                       *)
LEMMA StartStep ==
  ASSUME TypeOK, QueueOK, NEW c \in Contexts, NEW r \in Runs, RunStarts(c, r)
  PROVE  QueueOK'
<1>1. PICK shift \in {0, 1} :
        /\ shift = 1 => Len(parked) = MaxPending
        /\ Len(parked) \in Nat /\ Len(starts) \in Nat /\ shift <= Len(parked)
        /\ Len(parked') = Len(parked) - shift + 1
        /\ \A i \in 1..Len(parked) - shift : parked'[i] = parked[i + shift]
        /\ parked'[Len(parked) - shift + 1] = r
        /\ Len(starts') = Len(starts) + 1
        /\ \A i \in 1..Len(starts) : starts'[i] = starts[i]
        /\ starts'[Len(starts) + 1] = r
  BY ParkShifts
<1> DEFINE n == Len(parked) - shift
<1>2. /\ phase[r] = "new" /\ phase' = [phase EXCEPT ![r] = "inflight"]
      /\ phase \in [Calls -> {"new", "inflight", "streaming", "dropped", "over", "unseen"}]
      /\ log' = log /\ Runs \subseteq Calls
  BY DEF TypeOK, RunStarts, Turn, attributionVars
<1>3. LoggedCalls' = LoggedCalls
  BY <1>2 DEF LoggedCalls
<1>4. ParkedInv /\ QueueInv /\ RunInv
  BY DEF QueueOK
<1>5. \A i \in 1..Len(parked) : parked[i] # r /\ parked[i] \in Runs
  BY <1>2, <1>4, ElementOfSeq DEF ParkedInv, TypeOK
<1>6. \A i \in 1..Len(parked') : i = n + 1 \/ (i \in 1..n /\ i + shift \in 1..Len(parked))
  BY <1>1
<1>7. ParkedInv'
  <2>1. ASSUME NEW i \in 1..Len(parked') PROVE phase'[parked'[i]] = "inflight"
    BY <1>1, <1>2, <1>4, <1>5, <1>6 DEF ParkedInv
  <2>2. ASSUME NEW i \in 1..Len(parked'), NEW j \in 1..Len(parked'), parked'[i] = parked'[j]
        PROVE  i = j
    <3>1. CASE i = n + 1 \/ j = n + 1
      BY <1>1, <1>5, <1>6, <2>2, <3>1
    <3>2. CASE i \in 1..n /\ j \in 1..n
      <4>1. parked[i + shift] = parked[j + shift]
        BY <1>1, <2>2, <3>2
      <4>2. i + shift = j + shift
        BY <1>4, <1>6, <3>2, <4>1, <1>1 DEF ParkedInv
      <4>3. QED
        BY <4>2
    <3>3. QED
      BY <1>6, <3>1, <3>2
  <2>3. QED
    BY <2>1, <2>2 DEF ParkedInv
<1>8. QueueInv'
  <2>1. SUFFICES ASSUME NEW i \in 1..Len(parked')
                 PROVE  \E p \in 1..Len(starts') :
                          starts'[p] = parked'[i] /\ Len(starts') - p >= Len(parked') - i
    BY DEF QueueInv
  <2>2. CASE i = n + 1
    <3>1. Len(starts) + 1 \in 1..Len(starts')
      BY <1>1
    <3>2. QED
      BY <1>1, <2>2, <3>1
  <2>3. CASE i \in 1..n
    <3>1. PICK p \in 1..Len(starts) :
            starts[p] = parked[i + shift] /\ Len(starts) - p >= Len(parked) - (i + shift)
      BY <1>4, <1>6, <2>3, <1>1 DEF QueueInv
    <3>2. /\ p \in 1..Len(starts')
          /\ starts'[p] = parked'[i]
          /\ Len(starts') - p >= Len(parked') - i
      BY <1>1, <2>3, <3>1
    <3>3. QED
      BY <3>2
  <2>4. QED
    BY <1>6, <2>2, <2>3
<1>9. RunInv'
  <2>1. SUFFICES ASSUME NEW q \in Runs
                 PROVE  /\ Early(q)' => q \notin LoggedCalls'
                        /\ phase'[q] = "over" \/ (phase'[q] = "inflight" /\ ~Parked(q)') =>
                             q \in LoggedCalls' \/ Evicted(q)'
    BY DEF RunInv
  <2>2. Early(q)' => q \notin LoggedCalls'
    BY <1>2, <1>3, <1>4 DEF RunInv, Early
  <2>3. Evicted(q) => Evicted(q)'
    <3>1. ASSUME NEW i \in 1..Len(starts), starts[i] = q, Len(starts) - i >= MaxPending
          PROVE  Evicted(q)'
      <4>1. /\ i \in 1..Len(starts') /\ starts'[i] = q
            /\ Len(starts') - i >= MaxPending
        BY <1>1, <3>1
      <4>2. QED
        BY <4>1 DEF Evicted
    <3>2. QED
      BY <3>1 DEF Evicted
  <2>4. CASE q = r
    <3>1. n + 1 \in 1..Len(parked')
      BY <1>1
    <3>2. Parked(q)' /\ phase'[q] = "inflight"
      BY <1>1, <1>2, <2>4, <3>1 DEF Parked
    <3>3. QED
      BY <2>2, <3>2
  <2>5. CASE q # r /\ ~Parked(q)
    BY <1>2, <1>3, <1>4, <2>2, <2>3, <2>5 DEF RunInv
  <2>6. CASE q # r /\ Parked(q)
    <3>1. PICK k \in 1..Len(parked) : parked[k] = q
      BY <2>6 DEF Parked
    <3>2. CASE k > shift
      <4>1. k - shift \in 1..n /\ k - shift \in 1..Len(parked') /\ (k - shift) + shift = k
        BY <1>1, <3>2
      <4>2. Parked(q)'
        BY <1>1, <3>1, <4>1 DEF Parked
      <4>3. phase'[q] = "inflight"
        BY <1>2, <1>4, <2>6, <3>1 DEF ParkedInv
      <4>4. QED
        BY <2>2, <4>2, <4>3
    <3>3. CASE k = 1 /\ shift = 1
      <4>1. PICK p \in 1..Len(starts) : starts[p] = q /\ Len(starts) - p >= Len(parked) - 1
        BY <1>4, <3>1, <3>3 DEF QueueInv
      <4>2. /\ p \in 1..Len(starts') /\ starts'[p] = q
            /\ Len(starts') - p >= MaxPending
        BY <1>1, <3>3, <4>1
      <4>3. Evicted(q)'
        BY <4>2 DEF Evicted
      <4>4. QED
        BY <2>2, <4>3
    <3>4. QED
      BY <3>1, <3>2, <3>3
  <2>7. QED
    BY <2>4, <2>5, <2>6
<1>10. QED
  BY <1>7, <1>8, <1>9 DEF QueueOK

(* A run that ends is unparked, the others keep their places in the queue. *)
LEMMA TakeStep ==
  ASSUME TypeOK, QueueOK, NEW c \in Contexts, NEW r \in Runs,
         RunEndFails(c, r) \/ \E failed \in BOOLEAN : RunEnds(c, r, failed)
  PROVE  QueueOK'
<1>1. /\ ParkedInv /\ QueueInv /\ RunInv
      /\ parked \in Seq(Runs) /\ Len(parked) \in Nat /\ Len(starts) \in Nat
      /\ starts' = starts /\ AttributionTypeOK /\ Runs \subseteq Calls
      /\ phase \in [Calls -> {"new", "inflight", "streaming", "dropped", "over", "unseen"}]
  BY LenProperties DEF QueueOK, TypeOK, RunEnds, RunEndFails, runVars
<1>2. PICK k \in 1..Len(parked) : parked[k] = r /\ parked' = RemoveAt(parked, k)
  BY DEF RunEnds, RunEndFails, Take
<1> DEFINE old(i) == IF i < k THEN i ELSE i + 1
<1>3. /\ Len(parked') = Len(parked) - 1
      /\ \A i \in 1..Len(parked) - 1 : parked'[i] = parked[old(i)]
  BY <1>1, <1>2, RemoveAtProperties
<1>4. \A i \in 1..Len(parked') : /\ old(i) \in 1..Len(parked) /\ old(i) # k
                                 /\ Len(parked) - old(i) >= Len(parked') - i
                                 /\ parked'[i] = parked[old(i)]
  BY <1>1, <1>3
<1>5. \A i, j \in 1..Len(parked') : old(i) = old(j) => i = j
  BY <1>1
<1>6. \A m \in 1..Len(parked) : m # k => \E i \in 1..Len(parked') : m = old(i)
  <2>1. ASSUME NEW m \in 1..Len(parked), m # k PROVE \E i \in 1..Len(parked') : m = old(i)
    <3>1. CASE m < k
      <4>1. m \in 1..Len(parked') /\ m = old(m)
        BY <1>1, <1>3, <2>1, <3>1
      <4>2. QED
        BY <4>1
    <3>2. CASE m > k
      <4>1. m - 1 \in 1..Len(parked') /\ m = old(m - 1)
        BY <1>1, <1>3, <2>1, <3>2
      <4>2. QED
        BY <4>1
    <3>3. QED
      BY <2>1, <3>1, <3>2
  <2>2. QED
    BY <2>1
<1> HIDE DEF old
<1>7. \/ phase' = [phase EXCEPT ![r] = "unseen"] /\ LoggedCalls' = LoggedCalls
      \/ phase' = [phase EXCEPT ![r] = "over"] /\ LoggedCalls' = LoggedCalls \cup {r}
  <2>1. CASE RunEndFails(c, r)
    BY <2>1 DEF RunEndFails, Turn, attributionVars, LoggedCalls
  <2>2. ASSUME NEW failed \in BOOLEAN, RunEnds(c, r, failed)
        PROVE  phase' = [phase EXCEPT ![r] = "over"] /\ LoggedCalls' = LoggedCalls \cup {r}
    <3>1. OnCreate(c, r, failed) /\ phase' = [phase EXCEPT ![r] = "over"] /\ r \in Calls
      BY <1>1, <2>2 DEF RunEnds, Turn
    <3>2. LoggedCalls' = LoggedCalls \cup {r}
      BY <1>1, <3>1, RecordingLogs
    <3>3. QED
      BY <3>1, <3>2
  <2>3. QED
    BY <2>1, <2>2
<1>8. \A i \in 1..Len(parked) : i # k => parked[i] # r /\ parked[i] \in Runs
  BY <1>1, <1>2, ElementOfSeq DEF ParkedInv
<1>9. ParkedInv'
  <2>1. ASSUME NEW i \in 1..Len(parked') PROVE phase'[parked'[i]] = "inflight"
    <3>1. /\ phase[parked[old(i)]] = "inflight" /\ parked[old(i)] # r
          /\ parked[old(i)] \in Calls
      BY <1>1, <1>4, <1>8, <2>1 DEF ParkedInv
    <3>2. QED
      BY <1>1, <1>4, <1>7, <2>1, <3>1
  <2>2. ASSUME NEW i \in 1..Len(parked'), NEW j \in 1..Len(parked'), parked'[i] = parked'[j]
        PROVE  i = j
    <3>1. /\ old(i) \in 1..Len(parked) /\ old(j) \in 1..Len(parked)
          /\ parked[old(i)] = parked[old(j)]
      BY <1>4, <2>2
    <3>2. old(i) = old(j)
      BY <1>1, <3>1 DEF ParkedInv
    <3>3. QED
      BY <1>5, <3>2
  <2>3. QED
    BY <2>1, <2>2 DEF ParkedInv
<1>10. QueueInv'
  <2>1. SUFFICES ASSUME NEW i \in 1..Len(parked')
                 PROVE  \E p \in 1..Len(starts) :
                          starts[p] = parked'[i] /\ Len(starts) - p >= Len(parked') - i
    BY <1>1 DEF QueueInv
  <2>2. PICK p \in 1..Len(starts) :
          starts[p] = parked[old(i)] /\ Len(starts) - p >= Len(parked) - old(i)
    BY <1>1, <1>4, <2>1 DEF QueueInv
  <2>3. old(i) \in Int /\ Len(parked') \in Int
    BY <1>1, <1>3, <1>4
  <2>4. Len(starts) - p >= Len(parked') - i
    BY <1>1, <1>4, <2>2, <2>3
  <2>5. QED
    BY <1>4, <2>2, <2>4
<1>11. RunInv'
  <2>1. SUFFICES ASSUME NEW q \in Runs
                 PROVE  /\ Early(q)' => q \notin LoggedCalls'
                        /\ phase'[q] = "over" \/ (phase'[q] = "inflight" /\ ~Parked(q)') =>
                             q \in LoggedCalls' \/ Evicted(q)'
    BY DEF RunInv
  <2>2. CASE q = r
    BY <1>1, <1>7, <2>2 DEF Early
  <2>3. CASE q # r
    <3>1. phase'[q] = phase[q] /\ (q \in LoggedCalls' <=> q \in LoggedCalls)
      BY <1>1, <1>7, <2>3
    <3>2. ASSUME Parked(q) PROVE Parked(q)'
      <4>1. PICK m \in 1..Len(parked) : parked[m] = q
        BY <3>2 DEF Parked
      <4>2. m # k
        BY <1>2, <2>3, <4>1
      <4>3. PICK i \in 1..Len(parked') : m = old(i)
        BY <1>6, <4>2
      <4>4. parked'[i] = q
        BY <1>4, <4>1, <4>3
      <4>5. QED
        BY <4>4 DEF Parked
    <3>3. Evicted(q)' <=> Evicted(q)
      BY <1>1 DEF Evicted
    <3>4. QED
      BY <1>1, <3>1, <3>2, <3>3 DEF RunInv, Early
  <2>4. QED
    BY <2>2, <2>3
<1>12. QED
  BY <1>9, <1>10, <1>11 DEF QueueOK

(* Every step keeps the queue of runs.                                     *)
LEMMA QueueStep == TypeOK /\ QueueOK /\ [Next]_vars => QueueOK'
<1> SUFFICES ASSUME TypeOK, QueueOK, [Next]_vars PROVE QueueOK'
  OBVIOUS
<1>1. /\ ParkedInv /\ QueueInv /\ RunInv /\ Runs \subseteq Calls
      /\ phase \in [Calls -> {"new", "inflight", "streaming", "dropped", "over", "unseen"}]
      /\ \A i \in 1..Len(parked) : parked[i] \in Runs
  BY ElementOfSeq DEF QueueOK, TypeOK
<1>2. CASE Aside
  <2>1. ParkedInv' /\ QueueInv'
    BY <1>1, <1>2 DEF Aside, runVars, ParkedInv, QueueInv
  <2>2. RunInv'
    BY <1>1, <1>2 DEF Aside, runVars, RunInv, Early, Parked, Evicted
  <2>3. QED
    BY <2>1, <2>2 DEF QueueOK
<1>3. ASSUME NEW c \in Contexts, NEW r \in Runs, RunUnknown(c, r) \/ RunEndsUnknown(c, r)
      PROVE  QueueOK'
  <2>1. /\ UNCHANGED runVars /\ log' = log
        /\ ~Parked(r)
        /\ \/ phase' = [phase EXCEPT ![r] = "unseen"]
           \/ /\ phase[r] \in {"inflight", "over"}
              /\ phase' = [phase EXCEPT ![r] = "over"]
    BY <1>1, <1>3 DEF RunUnknown, RunEndsUnknown, Turn, Parked, ParkedInv, attributionVars
  <2>2. LoggedCalls' = LoggedCalls
    BY <2>1 DEF LoggedCalls
  <2>3. ParkedInv' /\ QueueInv'
    BY <1>1, <2>1 DEF runVars, ParkedInv, QueueInv, Parked
  <2>4. \A q \in Runs : (Parked(q)' <=> Parked(q)) /\ (Evicted(q)' <=> Evicted(q))
    BY <2>1 DEF runVars, Parked, Evicted
  <2>5. RunInv'
    BY <1>1, <2>1, <2>2, <2>4 DEF RunInv, Early
  <2>6. QED
    BY <2>3, <2>5 DEF QueueOK
<1>4. QED
  BY <1>2, <1>3, StartStep, TakeStep, HandlerSteps DEF Chain

-----------------------------------------------------------------------------
(* The calls of every reachable state. *)

CallInv ==
  /\ TypeOK /\ StreamInv /\ PlainInv /\ QueueOK
  /\ RecordedOnce /\ BrokenAreFailed

(* Nothing has happened yet.                                               *)
LEMMA CallsInit == Init => CallInv
<1> SUFFICES ASSUME Init PROVE CallInv
  OBVIOUS
<1>1. /\ TypeOK
      /\ \A r \in Calls : phase[r] = "new"
      /\ \A z \in Streams : ~finalized[z]
      /\ \A c \in Contexts : finalizing[c] = Nothing
      /\ Len(parked) = 0 /\ Len(log) = 0
      /\ broken = {}
  BY LabelsInit, EmptySeq DEF LabelInv, Init, AttributionInit
<1>2. LoggedCalls = {}
  BY <1>1 DEF LoggedCalls
<1>3. StreamInv
  BY <1>1, <1>2 DEF StreamInv, StreamOK, Early, Writing
<1>4. PlainInv
  BY <1>1, <1>2 DEF PlainInv, Early
<1>5. QueueOK
  BY <1>1, <1>2 DEF QueueOK, ParkedInv, QueueInv, RunInv, Early
<1>6. RecordedOnce /\ BrokenAreFailed
  BY <1>1 DEF RecordedOnce, BrokenAreFailed
<1>7. QED
  BY <1>1, <1>3, <1>4, <1>5, <1>6 DEF CallInv

(* The invariant of the calls holds in every behaviour.                    *)
LEMMA CallsHold == Spec => []CallInv
<1>1. TypeOK' /\ CallInv /\ [Next]_vars => CallInv'
  BY StreamStep, PlainStep, QueueStep, LogStep DEF CallInv, QueueOK
<1>2. QED
  BY <1>1, CallsInit, CaptureTypeCorrect, PTL DEF Spec

(* No call is recorded twice, whatever its ends, in whatever contexts, but *)
(* for a stream two contexts were finalising at once.                      *)
THEOREM RecordedAtMostOnce == Spec => []RecordedOnce
<1>1. CallInv => RecordedOnce
  BY DEF CallInv
<1>2. QED
  BY <1>1, CallsHold, PTL

(* No stream that broke is recorded as a success, unless it was raced for. *)
THEOREM BrokenRecordedAsFailed == Spec => []BrokenAreFailed
<1>1. CallInv => BrokenAreFailed
  BY DEF CallInv
<1>2. QED
  BY <1>1, CallsHold, PTL

(* No stream that is gone and no run that is no longer parked is missing   *)
(* from the log, but for runs `_MAX_PENDING` younger ones were parked after. *)
THEOREM NothingVanishes == Spec => []NoneVanish
<1>1. CallInv => NoneVanish
  <2> SUFFICES ASSUME CallInv, NEW r \in Calls, Gone(r)
               PROVE  \/ Recorded(r)
                      \/ Writing(r)
                      \/ r \in Runs /\ \E i \in 1..Len(starts) :
                           starts[i] = r /\ Len(starts) - i >= MaxPending
    BY DEF NoneVanish
  <2>1. Recorded(r) <=> r \in LoggedCalls
    BY DEF Recorded, LoggedCalls
  <2>2. CASE r \in Plain
    BY <2>1, <2>2 DEF CallInv, PlainInv, Gone
  <2>3. CASE r \in Streams
    BY <2>1, <2>3 DEF CallInv, StreamInv, StreamOK, Gone
  <2>4. CASE r \in Runs
    BY <2>1, <2>4 DEF CallInv, QueueOK, RunInv, Gone, Evicted
  <2>5. QED
    BY <2>2, <2>3, <2>4
<1>2. QED
  BY <1>1, CallsHold, PTL

=============================================================================
