-------------------------- MODULE InlinePageProofs --------------------------
(***************************************************************************)
(* Proofs that the safety properties of InlinePage hold for pages of any   *)
(* length, any limits and any number of attempts.                          *)
(***************************************************************************)
EXTENDS InlinePage, TLAPS

\* Goroutines are started in the order of the documents, after the count.
SpawnInv ==
    /\ \A i \in Docs : go[i] = "new" <=> i >= next
    /\ pc = "count" => next = 1

\* The handler has answered when it is done: after all goroutines returned,
\* or before any was started.
AnswerInv ==
    /\ pc = "done" <=> answer # "none"
    /\ answer \in {"200", "500"} => \A i \in Docs : go[i] = "returned"
    /\ answer = "200" => err = NoErr
    /\ answer = "413" => next = 1

\* A goroutine that returned without its payload left an error behind.
PayloadInv ==
    \A i \in Docs : rawdata[i] # "whole" =>
        /\ kind[i] # "own"
        /\ go[i] = "returned" => err # NoErr

\* Only an error or the client cancels; a fetch goes on while it has attempts.
CancelInv ==
    /\ cancelled => err # NoErr \/ gone
    /\ \A i \in Docs : go[i] # "returned" => attempt[i] < maxAttempts

IInv ==
    /\ TypeOK
    /\ SpawnInv
    /\ AnswerInv
    /\ PayloadInv
    /\ CancelInv
    /\ ErrorIsTheCause

LEMMA InitIInv == Init => IInv
<1> SUFFICES ASSUME Init PROVE IInv
  OBVIOUS
<1>1. TypeOK
  <2>1. 1 \in 1 .. N + 1 /\ 0 \in 0 .. maxAttempts
    BY SizeAssumption
  <2> QED
    BY <2>1 DEF Init, TypeOK
<1>2. SpawnInv
  BY DEF Init, SpawnInv, Docs
<1>3. AnswerInv
  BY DEF Init, AnswerInv
<1>4. PayloadInv
  BY DEF Init, PayloadInv
<1>5. CancelInv
  BY SizeAssumption DEF Init, CancelInv
<1>6. ErrorIsTheCause
  BY DEF Init, ErrorIsTheCause
<1> QED
  BY <1>1, <1>2, <1>3, <1>4, <1>5, <1>6 DEF IInv

\* The invariant says all that the properties ask for.
LEMMA IInvImplies == IInv => PayloadsWhole /\ NoFetchOutlivesAnswer
<1> SUFFICES ASSUME IInv PROVE PayloadsWhole /\ NoFetchOutlivesAnswer
  OBVIOUS
<1>1. PayloadsWhole
  BY DEF IInv, AnswerInv, PayloadInv, PayloadsWhole
<1>2. answer \in {"200", "500"} => Running = {}
  BY DEF IInv, AnswerInv, Running
<1>3. answer = "413" => \A i \in Docs : go[i] = "new"
  BY DEF IInv, AnswerInv, SpawnInv, Docs
<1>4. answer \in {"none", "200", "413", "500"}
  BY DEF IInv, TypeOK
<1> QED
  BY <1>1, <1>2, <1>3, <1>4 DEF NoFetchOutlivesAnswer, Running

\* The goroutine of a document that runs belongs to a handler that waits.
LEMMA RunningIsAwaited ==
  ASSUME IInv, NEW i \in Docs, go[i] \in {"fetch", "backoff"}
  PROVE  answer = "none" /\ pc # "count" /\ i < next
<1>1. i < next
  BY DEF IInv, TypeOK, SpawnInv, Docs
<1>2. next # 1
  BY <1>1 DEF Docs
<1> QED
  BY <1>1, <1>2 DEF IInv, TypeOK, SpawnInv, AnswerInv

LEMMA CountStep == IInv /\ Count => IInv'
  BY DEF Count, Respond, IInv, TypeOK, SpawnInv, AnswerInv, PayloadInv, CancelInv,
         ErrorIsTheCause

LEMMA GoStep == IInv /\ Go => IInv'
<1> SUFFICES ASSUME IInv, Go PROVE IInv'
  OBVIOUS
<1> USE DEF Go
<1>1. TypeOK'
  BY SizeAssumption DEF IInv, TypeOK, Docs
<1>2. SpawnInv'
  BY SizeAssumption DEF IInv, TypeOK, SpawnInv, Docs
<1>3. AnswerInv'
  BY DEF IInv, AnswerInv
<1>4. PayloadInv'
  BY DEF IInv, TypeOK, PayloadInv
<1>5. CancelInv'
  BY DEF IInv, TypeOK, SpawnInv, CancelInv, Docs
<1>6. ErrorIsTheCause'
  BY DEF IInv, ErrorIsTheCause
<1> QED
  BY <1>1, <1>2, <1>3, <1>4, <1>5, <1>6 DEF IInv

LEMMA WaitStep == IInv /\ Wait => IInv'
  BY DEF Wait, Respond, IInv, TypeOK, SpawnInv, AnswerInv, PayloadInv, CancelInv,
         ErrorIsTheCause

LEMMA ClientGoneStep == IInv /\ ClientGone => IInv'
  BY DEF ClientGone, IInv, TypeOK, SpawnInv, AnswerInv, PayloadInv, CancelInv,
         ErrorIsTheCause

\* A goroutine that returns without an error.
LEMMA ReturnStep ==
  ASSUME IInv, NEW i \in Docs, InlineNothing(i) \/ Retrieve(i)
  PROVE  IInv'
<1> USE DEF InlineNothing, Retrieve, Return
<1>1. answer = "none" /\ pc # "count" /\ i < next
  BY RunningIsAwaited
<1>2. TypeOK'
  BY DEF IInv, TypeOK
<1>3. SpawnInv'
  BY <1>1 DEF IInv, TypeOK, SpawnInv, Docs
<1>4. AnswerInv'
  BY <1>1 DEF IInv, AnswerInv
<1>5. PayloadInv'
  BY DEF IInv, TypeOK, PayloadInv
<1>6. CancelInv'
  BY DEF IInv, TypeOK, CancelInv
<1>7. ErrorIsTheCause'
  BY DEF IInv, ErrorIsTheCause
<1> QED
  BY <1>2, <1>3, <1>4, <1>5, <1>6, <1>7 DEF IInv

\* A goroutine that goes on.
LEMMA GoOnStep ==
  ASSUME IInv, NEW i \in Docs,
         Retry(i) \/ (AttemptFails(i) /\ ~LastAttempt(i))
  PROVE  IInv'
<1> USE DEF Retry, AttemptFails
<1>1. answer = "none" /\ pc # "count" /\ i < next
  BY RunningIsAwaited
<1>2. /\ attempt[i] \in Nat /\ attempt[i] < maxAttempts
      /\ AttemptFails(i) => attempt[i] + 1 < maxAttempts
  BY SizeAssumption DEF IInv, TypeOK, CancelInv, LastAttempt
<1>3. TypeOK'
  BY <1>2, SizeAssumption DEF IInv, TypeOK
<1>4. SpawnInv'
  BY <1>1 DEF IInv, TypeOK, SpawnInv, Docs
<1>5. AnswerInv'
  BY <1>1 DEF IInv, AnswerInv
<1>6. PayloadInv'
  BY DEF IInv, TypeOK, PayloadInv
<1>7. CancelInv'
  BY <1>2 DEF IInv, TypeOK, CancelInv
<1>8. ErrorIsTheCause'
  BY <1>2 DEF IInv, TypeOK, ErrorIsTheCause
<1> QED
  BY <1>3, <1>4, <1>5, <1>6, <1>7, <1>8 DEF IInv

\* A goroutine that fails.
LEMMA FailStep ==
  ASSUME IInv, NEW i \in Docs,
         \/ NoRetriever(i) \/ BackoffCancelled(i)
         \/ AttemptFails(i) /\ LastAttempt(i)
  PROVE  IInv'
<1> USE DEF NoRetriever, BackoffCancelled, AttemptFails, Fail, Return
<1>1. answer = "none" /\ pc # "count" /\ i < next
  BY RunningIsAwaited
<1>2. AttemptFails(i) => attempt' = [attempt EXCEPT ![i] = maxAttempts]
  <2>1. AttemptFails(i) => attempt[i] + 1 = maxAttempts
    BY DEF LastAttempt
  <2> QED
    BY <2>1
<1>3. err' # NoErr
  BY DEF Docs, NoErr
<1>4. TypeOK'
  <2>1. maxAttempts \in 0 .. maxAttempts
    BY SizeAssumption
  <2>2. attempt' = attempt \/ attempt' = [attempt EXCEPT ![i] = maxAttempts]
    BY <1>2
  <2>3. attempt' \in [Docs -> 0 .. maxAttempts]
    BY <2>1, <2>2 DEF IInv, TypeOK
  <2> QED
    BY <2>3 DEF IInv, TypeOK
<1>5. SpawnInv'
  BY <1>1 DEF IInv, TypeOK, SpawnInv, Docs
<1>6. AnswerInv'
  BY <1>1 DEF IInv, AnswerInv
<1>7. PayloadInv'
  BY <1>3 DEF IInv, TypeOK, PayloadInv
<1>8. CancelInv'
  BY <1>3 DEF IInv, TypeOK, CancelInv
<1>9. ErrorIsTheCause'
  <2>1. CASE NoRetriever(i)
    BY <2>1 DEF IInv, ErrorIsTheCause
  <2>2. CASE BackoffCancelled(i)
    BY <2>2 DEF IInv, CancelInv, ErrorIsTheCause
  <2>3. CASE AttemptFails(i)
    BY <1>2, <2>3 DEF IInv, TypeOK, ErrorIsTheCause
  <2> QED
    BY <2>1, <2>2, <2>3
<1> QED
  BY <1>4, <1>5, <1>6, <1>7, <1>8, <1>9 DEF IInv

LEMMA NextIInv == IInv /\ [Next]_vars => IInv'
<1> SUFFICES ASSUME IInv, [Next]_vars PROVE IInv'
  OBVIOUS
<1>1. CASE respondPage
  BY <1>1, CountStep, GoStep, WaitStep DEF respondPage
<1>2. ASSUME NEW i \in Docs, inlineRawData(i) PROVE IInv'
  <2>1. CASE InlineNothing(i) \/ Retrieve(i)
    BY <2>1, ReturnStep
  <2>2. CASE Retry(i)
    BY <2>2, GoOnStep
  <2>3. CASE NoRetriever(i) \/ BackoffCancelled(i)
    BY <2>3, FailStep
  <2>4. CASE AttemptFails(i)
    <3>1. CASE ~LastAttempt(i)
      BY <2>4, <3>1, GoOnStep
    <3>2. CASE LastAttempt(i)
      BY <2>4, <3>2, FailStep
    <3> QED
      BY <3>1, <3>2
  <2> QED
    BY <1>2, <2>1, <2>2, <2>3, <2>4 DEF inlineRawData
<1>3. CASE ClientGone
  BY <1>3, ClientGoneStep
<1>4. CASE UNCHANGED vars
  BY <1>4 DEF vars, IInv, TypeOK, SpawnInv, AnswerInv, PayloadInv, CancelInv,
              ErrorIsTheCause
<1> QED
  BY <1>1, <1>2, <1>3, <1>4 DEF Next

\* The invariant holds in every reachable state.
THEOREM Invariance == Spec => []IInv
  BY InitIInv, NextIInv, PTL DEF Spec

\* Type correctness.
THEOREM TypeCorrect == Spec => []TypeOK
<1>1. IInv => TypeOK
  BY DEF IInv
<1> QED
  BY <1>1, Invariance, PTL

\* A page is served with all its payloads or not at all.
THEOREM ServedWhole == Spec => []PayloadsWhole
<1>1. IInv => PayloadsWhole
  BY IInvImplies
<1> QED
  BY <1>1, Invariance, PTL

\* The page is refused for a failure, never for a cancellation it caused.
THEOREM RefusedForItsCause == Spec => []ErrorIsTheCause
<1>1. IInv => ErrorIsTheCause
  BY DEF IInv
<1> QED
  BY <1>1, Invariance, PTL

\* No goroutine outlives the response of its page.
THEOREM NothingOutlivesAnswer == Spec => []NoFetchOutlivesAnswer
<1>1. IInv => NoFetchOutlivesAnswer
  BY IInvImplies
<1> QED
  BY <1>1, Invariance, PTL
=============================================================================
