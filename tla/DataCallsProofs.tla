--------------------------- MODULE DataCallsProofs ---------------------------
(***************************************************************************)
(* Proofs about the parts of MCDataCalls, which share no state.            *)
(*                                                                         *)
(* One call (DataCalls), for every set of operations, times, hints, number *)
(* of retries and file length.  The invariant has four parts: the types;   *)
(* TimeInv, which relates the clock to the timer of each place and the     *)
(* timer to the deadline; RunInv, that nothing has run before the end of a *)
(* command or write; ReadInv, that the reader is where the pass is.        *)
(*                                                                         *)
(* One streamed file (FileStreams) and one batch (FileBatch), for every    *)
(* number of chunks, capacity, cap, worker and file.                       *)
(***************************************************************************)
EXTENDS MCDataCalls, SequenceTheorems, FiniteSetTheorems, TLAPS

\* The timer of a pass ends with the deadline where there is one, and leaves
\* room for a backoff that wakes late.
TimeInv ==
    /\ ~Timed => deadline = None
    /\ op \in {"readStream", "writeStream"} => layer = "stream"
    /\ op = "exec" => layer = "unary"
    /\ pc = "sleeping" => layer = "unary" /\ op \in {"read", "write"}
    /\ overflow => op \in {"read", "write"} /\ ~lease /\ pc # "acquiring"
    /\ Timed =>
        /\ op \in {"read", "write"} => deadline # None
        /\ op = "exec" /\ deadline # None => now <= deadline
        /\ op = "exec" /\ pc = "calling" => deadline # None /\ ends = deadline
        /\ op = "exec" /\ pc = "acquiring" /\ deadline # None => ends <= deadline
        /\ pc \in {"acquiring", "calling"} => now <= ends
        /\ pc = "sleeping" => wake + MinAttempt <= ends /\ now <= wake + MaxLate
        /\ overflow => now <= deadline /\ (pc # "done" => ends = deadline)

\* A command or write that is under way has not run yet.
RunInv ==
    /\ pc # "done" => outcome = "none"
    /\ op \notin Reads /\ pc # "done" => runs = 0
    /\ AppliedOnce

\* The reader has what this pass has read: a pass starts with nothing read.
ReadInv ==
    /\ Len(got) = pos
    /\ \A i \in 1..Len(got) : got[i] = i
    /\ layer = "unary" \/ pc = "acquiring" => pos = 0
    /\ op = "readStream" /\ outcome = "ok" => pos = Chunks

IInv == TypeOK /\ TimeInv /\ RunInv /\ ReadInv

----------------------------------------------------------------------------

\* The smaller of two naturals, and what is left of a deadline.
LEMMA TimeFacts ==
    ASSUME TypeOK, NEW a \in Nat, NEW b \in Nat
    PROVE  /\ Smaller(a, b) \in Nat /\ Smaller(a, b) <= a /\ Smaller(a, b) <= b
           /\ Left(a) \in Nat /\ (now <= a => now + Left(a) = a)
  BY DEF Smaller, Left, TypeOK

\* A lease wait has a time, and that of exec() ends with its deadline.
LEMMA LeaseTimeFacts ==
    ASSUME TypeOK, Timed
    PROVE  /\ LeaseTime \in Nat
           /\ op = "exec" /\ deadline # None /\ now <= deadline => now + LeaseTime <= deadline
<1>1. timeout \in Nat /\ LeaseBudget \in Nat
  BY CallsAssumption DEF TypeOK, Timed
<1>2. CASE op = "exec" /\ deadline # None
  <2>1. deadline \in Nat /\ now \in Nat
    BY <1>2 DEF TypeOK
  <2>2. Left(deadline) \in Nat /\ (now <= deadline => now + Left(deadline) = deadline)
    BY <2>1, TimeFacts
  <2>3. LeaseTime = Smaller(LeaseBudget, Left(deadline))
    BY <1>2 DEF LeaseTime
  <2>4. LeaseTime \in Nat /\ LeaseTime <= Left(deadline)
    BY <1>1, <2>2, <2>3, TimeFacts
  <2>. QED
    BY <2>1, <2>2, <2>4
<1>3. CASE ~(op = "exec" /\ deadline # None)
  <2>1. LeaseTime = Smaller(LeaseBudget, timeout)
    BY <1>3 DEF LeaseTime
  <2>. QED
    BY <1>1, <1>3, <2>1, TimeFacts
<1>. QED
  BY <1>2, <1>3

----------------------------------------------------------------------------
(* Initial states.                                                         *)

LEMMA InvInit == Init => IInv
<1>. SUFFICES ASSUME Init PROVE IInv
  OBVIOUS
<1>1. Ops \subseteq AllOps /\ op \in AllOps /\ LeaseBudget \in Nat /\ None \notin Nat
      /\ Timeouts \subseteq Nat /\ Chunks \in Nat
  BY CallsAssumption DEF Init
<1>2. Timed => Smaller(LeaseBudget, timeout) \in Nat
  BY <1>1 DEF Init, Timed, Smaller
<1>3. TypeOK
  <2>1. got \in Seq(Nat) /\ pos \in 0..Chunks
    BY <1>1 DEF Init
  <2>2. deadline \in Nat \cup {None} /\ ends \in Nat
    BY <1>1, <1>2 DEF Init, Timed
  <2>3. layer \in {"unary", "stream"}
    BY DEF Init
  <2>4. op \in Ops /\ mode \in {"auto", "direct", "gateway"} /\ timeout \in Timeouts \cup {None}
        /\ pc = "acquiring" /\ attempt = 0 /\ tries = 0
        /\ now = 0 /\ wake = 0 /\ last = "none" /\ outcome = "none"
        /\ acquired = 0 /\ returned = 0 /\ discarded = 0 /\ runs = 0
    BY DEF Init
  <2>5. lease \in BOOLEAN /\ overflow \in BOOLEAN
    BY DEF Init
  <2>. QED
    BY <2>1, <2>2, <2>3, <2>4, <2>5 DEF TypeOK
<1>4. TimeInv
  BY <1>1, <1>2 DEF Init, TimeInv, Timed, AllOps, Reads
<1>5. RunInv /\ ReadInv
  BY <1>1 DEF Init, RunInv, AppliedOnce, ReadInv
<1>. QED
  BY <1>3, <1>4, <1>5 DEF IInv

----------------------------------------------------------------------------
(* The end of a pass: a failure that no call of the pass answers.           *)

\* What the four ways on from a failure do to the state.
LEMMA ThrowsCases ==
    ASSUME NEW cause, Throws(cause)
    PROVE  \/ Again(cause) \/ Overflow(cause) \/ Fallback(cause) \/ GiveUp(cause)
  BY DEF Throws

\* The types after them.
LEMMA ThrowsType ==
    ASSUME IInv, NEW cause, Throws(cause), UNCHANGED asked, now' = now, got' = got,
           runs' \in Nat, wake' = wake, last' = last
    PROVE  TypeOK'
<1>. USE CallsAssumption DEF asked
<1>0. TypeOK /\ TimeInv
  BY DEF IInv
<1>1. returned' \in Nat /\ discarded' \in Nat /\ lease' \in BOOLEAN
  <2>1. GiveBack(cause)
    BY DEF Throws, Again, Overflow, Fallback, GiveUp
  <2>2. returned \in Nat /\ discarded \in Nat
    BY <1>0 DEF TypeOK
  <2>3. returned' \in Nat
    BY <2>1, <2>2 DEF GiveBack
  <2>4. discarded' \in Nat
    BY <2>1, <2>2 DEF GiveBack, Unavailable
  <2>5. lease' \in BOOLEAN
    BY <2>1 DEF GiveBack
  <2>. QED
    BY <2>3, <2>4, <2>5
<1>2. Acquire => ends' \in Nat
  <2>1. CASE Timed
    BY <1>0, <2>1, LeaseTimeFacts DEF Acquire, TypeOK
  <2>. QED
    BY <2>1 DEF Acquire
<1>3. CASE Again(cause)
  BY <1>0, <1>1, <1>2, <1>3 DEF Again, Acquire, TypeOK
<1>4. CASE Overflow(cause)
  BY <1>0, <1>1, <1>4 DEF Overflow, Overflows, TypeOK, TimeInv
<1>5. CASE Fallback(cause)
  <2>1. overflow' \in BOOLEAN
    BY <1>5 DEF Fallback
  <2>2. /\ pc' = "acquiring" /\ layer' = "stream" /\ attempt' = 0 /\ tries' = 0 /\ pos' = 0
        /\ UNCHANGED <<deadline, outcome, acquired>> /\ ends' \in Nat
    BY <1>2, <1>5 DEF Fallback, Acquire
  <2>. QED
    BY <1>0, <1>1, <2>1, <2>2 DEF TypeOK
<1>6. CASE GiveUp(cause)
  BY <1>0, <1>1, <1>6 DEF GiveUp, TypeOK
<1>. QED
  BY <1>3, <1>4, <1>5, <1>6 DEF Throws

\* The times after them.
LEMMA ThrowsTime ==
    ASSUME IInv, NEW cause, Throws(cause), UNCHANGED asked, now' = now, wake' = wake
    PROVE  TimeInv'
<1>. USE CallsAssumption DEF asked
<1>0. TypeOK /\ TimeInv
  BY DEF IInv
<1>1. Timed' = Timed
  BY DEF Timed
<1>2. CASE Again(cause)
  <2>1. Timed => LeaseTime \in Nat /\ ends' = now + LeaseTime
        /\ (op = "exec" /\ deadline # None => ends' <= deadline)
    BY <1>0, <1>2, LeaseTimeFacts DEF Again, Acquire, TimeInv
  <2>. QED
    BY <1>0, <1>1, <1>2, <2>1 DEF Again, Repeats, GiveBack, Acquire, TypeOK, TimeInv
<1>3. CASE Overflow(cause)
  <2>1. Timed => deadline \in Nat /\ now \in Nat /\ now <= deadline
    BY <1>0, <1>3 DEF Overflow, Overflows, Left, TypeOK, TimeInv
  <2>. QED
    BY <1>0, <1>1, <1>3, <2>1 DEF Overflow, Overflows, GiveBack, TypeOK, TimeInv
<1>4. CASE Fallback(cause)
  <2>1. Timed => LeaseTime \in Nat /\ ends' = now + LeaseTime
    BY <1>0, <1>4, LeaseTimeFacts DEF Fallback, Acquire
  <2>2. op \in {"read", "write"}
    BY <1>4 DEF Fallback, FallsBack
  <2>. QED
    BY <1>0, <1>1, <1>4, <2>1, <2>2 DEF Fallback, Acquire, TypeOK, TimeInv
<1>5. CASE GiveUp(cause)
  BY <1>0, <1>1, <1>5 DEF GiveUp, GiveBack, TypeOK, TimeInv
<1>. QED
  BY <1>2, <1>3, <1>4, <1>5 DEF Throws

\* What has been carried out after them: only the last call may have run.
LEMMA ThrowsRun ==
    ASSUME IInv, NEW cause, Throws(cause), pc # "done", UNCHANGED asked,
           runs' \in {runs, runs + 1}, runs' # runs => cause \in Failures
    PROVE  RunInv'
<1>. USE DEF asked
<1>0. TypeOK /\ RunInv
  BY DEF IInv
<1>1. CASE GiveUp(cause)
  BY <1>0, <1>1 DEF GiveUp, RunInv, AppliedOnce, TypeOK
<1>2. CASE Again(cause) \/ Overflow(cause) \/ Fallback(cause)
  <2>1. cause \notin Failures
    BY <1>2 DEF Again, Repeats, Overflow, Overflows, Fallback, FallsBack, Failures
  <2>. QED
    BY <1>0, <1>2, <2>1 DEF Again, Acquire, Overflow, Fallback, RunInv, AppliedOnce, TypeOK
<1>. QED
  BY <1>1, <1>2 DEF Throws

\* What the reader has after them.
LEMMA ThrowsRead ==
    ASSUME IInv, NEW cause, Throws(cause), pc # "done", UNCHANGED asked, got' = got
    PROVE  ReadInv'
<1>. USE DEF asked
<1>0. TypeOK /\ TimeInv /\ RunInv /\ ReadInv
  BY DEF IInv
<1>1. CASE Again(cause)
  BY <1>0, <1>1 DEF Again, Repeats, Acquire, ReadInv, TypeOK, RunInv
<1>2. CASE Overflow(cause)
  BY <1>0, <1>2 DEF Overflow, Overflows, ReadInv, TypeOK, RunInv
<1>3. CASE Fallback(cause)
  BY <1>0, <1>3 DEF Fallback, FallsBack, Acquire, ReadInv, TypeOK, RunInv
<1>4. CASE GiveUp(cause)
  BY <1>0, <1>4 DEF GiveUp, ReadInv, TypeOK, RunInv
<1>. QED
  BY <1>1, <1>2, <1>3, <1>4 DEF Throws

----------------------------------------------------------------------------
(* The steps.                                                              *)

\* A call that fails is retried in its pass, or the failure leaves the pass.
LEMMA FailsFacts ==
    ASSUME TypeOK, NEW cause \in Refusals \cup Failures, NEW hint \in Hints \cup {None},
           NEW ran \in BOOLEAN, Fails(cause, hint, ran)
    PROVE  /\ pc = "calling" /\ UNCHANGED asked /\ now' = now /\ got' = got
           /\ runs' \in {runs, runs + 1} /\ runs' \in Nat /\ (runs' # runs => cause \in Failures)
           /\ cause = "timeout" => Timed /\ now = ends
           /\ \/ /\ Retries(cause, hint) /\ pc' = "sleeping" /\ wake' = now + hint /\ last' = cause
                 /\ UNCHANGED <<layer, attempt, lease, tries, overflow, deadline, ends, outcome,
                                pos, acquired, returned, discarded>>
              \/ Throws(cause) /\ UNCHANGED <<wake, last>>
<1>1. runs' \in {runs, runs + 1} /\ (runs' # runs => ran)
  BY DEF Fails
<1>2. runs' \in Nat
  BY <1>1 DEF TypeOK
<1>3. ran => cause \in Failures
  BY DEF Fails
<1>. QED
  BY <1>1, <1>2, <1>3 DEF Fails

\* When a backoff ends a call follows, or the failure leaves the pass.
LEMMA WakesFacts ==
    ASSUME Wakes
    PROVE  /\ pc = "sleeping" /\ UNCHANGED asked /\ UNCHANGED <<wake, last, now, runs, got>>
           /\ \/ /\ pc' = "calling" /\ tries' = tries + 1
                 /\ (Timed => Left(ends) >= MinAttempt \/ ~(Left(ends) < MinAttempt))
                 /\ UNCHANGED <<layer, attempt, lease, overflow, deadline, ends, outcome, pos,
                                acquired, returned, discarded>>
              \/ Throws(last)
  BY DEF Wakes

LEMMA BackoffAbortedFacts ==
    ASSUME BackoffAborted
    PROVE  /\ pc = "sleeping" /\ UNCHANGED asked /\ UNCHANGED <<wake, last, now, runs, got>>
           /\ Throws("aborted")
  BY DEF BackoffAborted

\* The types of the state hold in every reachable state.
LEMMA TypeNext == IInv /\ [Next]_vars => TypeOK'
<1>. SUFFICES ASSUME IInv, [Next]_vars PROVE TypeOK'
  OBVIOUS
<1>. USE CallsAssumption
<1>0. TypeOK /\ TimeInv
  BY DEF IInv
<1>1. ASSUME NEW direct \in BOOLEAN, StartCalls(direct)
      PROVE  /\ pc' = "calling" /\ lease' \in BOOLEAN /\ tries' = 1 /\ pos' = 0
             /\ ends' \in Nat /\ deadline' \in Nat \cup {None}
  <2>1. Timed => timeout \in Nat /\ now \in Nat /\ PassEnd \in Nat
    BY <1>0 DEF TypeOK, Timed, PassEnd
  <2>. QED
    BY <1>0, <1>1, <2>1 DEF StartCalls, TypeOK
<1>2. CASE Leased
  <2>1. StartCalls(TRUE)
    BY <1>2 DEF Leased
  <2>2. /\ pc' = "calling" /\ lease' \in BOOLEAN /\ tries' = 1 /\ pos' = 0
        /\ ends' \in Nat /\ deadline' \in Nat \cup {None}
    BY <1>1, <2>1
  <2>3. UNCHANGED <<op, mode, timeout, layer, attempt, overflow, wake, last, outcome, now,
                    returned, discarded, runs, got>> /\ acquired' = acquired + 1
    BY <1>2 DEF Leased, asked
  <2>. QED
    BY <1>0, <2>2, <2>3 DEF TypeOK
<1>3. CASE Ungranted
  <2>1. StartCalls(FALSE)
    BY <1>3 DEF Ungranted
  <2>2. /\ pc' = "calling" /\ lease' \in BOOLEAN /\ tries' = 1 /\ pos' = 0
        /\ ends' \in Nat /\ deadline' \in Nat \cup {None}
    BY <1>1, <2>1
  <2>3. UNCHANGED <<op, mode, timeout, layer, attempt, overflow, wake, last, outcome, now,
                    acquired, returned, discarded, runs, got>>
    BY <1>3 DEF Ungranted, asked, history
  <2>. QED
    BY <1>0, <2>2, <2>3 DEF TypeOK
<1>4. CASE AcquireFails
  BY <1>0, <1>4 DEF AcquireFails, asked, history, TypeOK
<1>5. ASSUME NEW cause \in Refusals \cup Failures, NEW hint \in Hints \cup {None},
             NEW ran \in BOOLEAN, Fails(cause, hint, ran)
      PROVE  TypeOK'
  <2>1. CASE Throws(cause) /\ UNCHANGED <<wake, last>>
    <3>1. /\ UNCHANGED asked /\ now' = now /\ got' = got /\ runs' \in Nat
      BY <1>0, <1>5, FailsFacts
    <3>. QED
      BY <2>1, <3>1, ThrowsType
  <2>2. CASE /\ Retries(cause, hint) /\ pc' = "sleeping" /\ wake' = now + hint /\ last' = cause
             /\ UNCHANGED <<layer, attempt, lease, tries, overflow, deadline, ends, outcome,
                            pos, acquired, returned, discarded>>
    <3>1. hint \in Nat
      BY <2>2 DEF Retries
    <3>2. wake' \in Nat
      BY <1>0, <2>2, <3>1 DEF TypeOK
    <3>3. /\ UNCHANGED asked /\ now' = now /\ got' = got /\ runs' \in Nat
      BY <1>0, <1>5, FailsFacts
    <3>4. last' \in {"none"} \cup Refusals \cup Failures
      BY <2>2
    <3>5. UNCHANGED <<op, mode, timeout, layer, attempt, lease, tries, overflow, deadline, ends,
                      outcome, now, pos, acquired, returned, discarded, got>>
      BY <2>2, <3>3 DEF asked
    <3>. QED
      BY <1>0, <2>2, <3>2, <3>3, <3>4, <3>5 DEF TypeOK
  <2>. QED
    BY <1>0, <1>5, <2>1, <2>2, FailsFacts
<1>6. CASE Wakes
  <2>1. CASE Throws(last)
    <3>1. runs' \in Nat
      BY <1>0, <1>6, WakesFacts DEF TypeOK
    <3>. QED
      BY <1>6, <2>1, <3>1, WakesFacts, ThrowsType
  <2>2. CASE /\ pc' = "calling" /\ tries' = tries + 1
             /\ UNCHANGED <<layer, attempt, lease, overflow, deadline, ends, outcome, pos,
                            acquired, returned, discarded>>
    BY <1>0, <1>6, <2>2, WakesFacts DEF asked, TypeOK
  <2>. QED
    BY <1>6, <2>1, <2>2, WakesFacts
<1>7. CASE BackoffAborted
  <2>1. runs' \in Nat
    BY <1>0, <1>7, BackoffAbortedFacts DEF TypeOK
  <2>. QED
    BY <1>7, <2>1, BackoffAbortedFacts, ThrowsType
<1>8. CASE Chunk
  <2>1. pos' \in 0..Chunks /\ pos + 1 \in Nat
    BY <1>0, <1>8 DEF Chunk, TypeOK
  <2>2. got' \in Seq(Nat)
    BY <1>0, <1>8, <2>1, AppendProperties DEF Chunk, TypeOK
  <2>. QED
    BY <1>0, <1>8, <2>1, <2>2 DEF Chunk, asked, TypeOK
<1>9. ASSUME NEW how \in {"ok", "abandoned"}, Finish(how), runs' \in Nat
      PROVE  TypeOK'
  <2>1. GiveBack("none") /\ returned \in Nat /\ discarded \in Nat
    BY <1>0, <1>9 DEF Finish, TypeOK
  <2>2. lease' \in BOOLEAN
    BY <2>1 DEF GiveBack
  <2>3. returned' \in Nat
    BY <2>1 DEF GiveBack
  <2>4. discarded' \in Nat
    BY <2>1 DEF GiveBack, Unavailable
  <2>. QED
    BY <1>0, <1>9, <2>2, <2>3, <2>4 DEF Finish, asked, TypeOK
<1>10. CASE Succeeds
  BY <1>0, <1>9, <1>10 DEF Succeeds, TypeOK
<1>11. CASE Abandons
  BY <1>0, <1>9, <1>11 DEF Abandons, TypeOK
<1>12. CASE Tick
  BY <1>0, <1>12 DEF Tick, asked, history, TypeOK
<1>13. CASE UNCHANGED vars
  BY <1>0, <1>13 DEF vars, TypeOK
<1>. QED
  BY <1>2, <1>3, <1>4, <1>5, <1>6, <1>7, <1>8, <1>10, <1>11, <1>12, <1>13 DEF Next

\* The clock stays within the timer of each place.
LEMMA TimeNext == IInv /\ [Next]_vars => TimeInv'
<1>. SUFFICES ASSUME IInv, [Next]_vars PROVE TimeInv'
  OBVIOUS
<1>. USE CallsAssumption
<1>0. TypeOK /\ TimeInv
  BY DEF IInv
<1>1. UNCHANGED asked => Timed' = Timed
  BY DEF asked, Timed
<1>2. ASSUME NEW direct \in BOOLEAN, StartCalls(direct), pc = "acquiring",
             UNCHANGED asked, UNCHANGED <<layer, overflow, now>>
      PROVE  TimeInv'
  <2>1. Timed => timeout \in Nat /\ now \in Nat
    BY <1>0 DEF TypeOK, Timed
  <2>2. Timed => now <= ends' /\ (op = "exec" => deadline' # None /\ ends' = deadline')
    BY <1>0, <1>2, <2>1 DEF StartCalls, PassEnd, TypeOK, TimeInv
  <2>3. Timed /\ op = "exec" => now <= deadline'
    BY <2>2
  <2>4. deadline # None => deadline' = deadline
    BY <1>2 DEF StartCalls
  <2>5. ~Timed => deadline' = deadline
    BY <1>2 DEF StartCalls
  <2>6. pc' = "calling"
    BY <1>2 DEF StartCalls
  <2>. QED
    BY <1>0, <1>1, <1>2, <2>2, <2>3, <2>4, <2>5, <2>6 DEF asked, TimeInv
<1>3. CASE Leased
  <2>1. /\ StartCalls(TRUE) /\ pc = "acquiring"
        /\ UNCHANGED asked /\ UNCHANGED <<layer, overflow, now>>
    BY <1>3 DEF Leased
  <2>. QED
    BY <1>2, <2>1
<1>4. CASE Ungranted
  <2>1. /\ StartCalls(FALSE) /\ pc = "acquiring"
        /\ UNCHANGED asked /\ UNCHANGED <<layer, overflow, now>>
    BY <1>4 DEF Ungranted
  <2>. QED
    BY <1>2, <2>1
<1>5. CASE AcquireFails
  BY <1>0, <1>1, <1>5 DEF AcquireFails, asked, TimeInv
<1>6. ASSUME NEW cause \in Refusals \cup Failures, NEW hint \in Hints \cup {None},
             NEW ran \in BOOLEAN, Fails(cause, hint, ran)
      PROVE  TimeInv'
  <2>1. pc = "calling" /\ UNCHANGED asked /\ now' = now
    BY <1>0, <1>6, FailsFacts
  <2>2. CASE Throws(cause) /\ UNCHANGED <<wake, last>>
    BY <2>1, <2>2, ThrowsTime
  <2>3. CASE /\ Retries(cause, hint) /\ pc' = "sleeping" /\ wake' = now + hint /\ last' = cause
             /\ UNCHANGED <<layer, attempt, lease, tries, overflow, deadline, ends, outcome,
                            pos, acquired, returned, discarded>>
    <3>1. hint \in Nat /\ now \in Nat /\ (Timed => wake' + MinAttempt <= ends)
      BY <1>0, <2>3 DEF Retries, TypeOK
    <3>2. now <= wake' + MaxLate
      BY <2>3, <3>1
    <3>3. layer = "unary" /\ op \in {"read", "write"}
      BY <2>3 DEF Retries, Retryable
    <3>. QED
      BY <1>0, <1>1, <2>1, <2>3, <3>1, <3>2, <3>3 DEF asked, TimeInv
  <2>. QED
    BY <1>0, <1>6, <2>2, <2>3, FailsFacts
<1>7. CASE Wakes
  <2>1. pc = "sleeping" /\ UNCHANGED asked /\ now' = now /\ wake' = wake
    BY <1>7, WakesFacts
  <2>2. CASE Throws(last)
    BY <2>1, <2>2, ThrowsTime
  <2>3. CASE /\ pc' = "calling" /\ tries' = tries + 1
             /\ UNCHANGED <<layer, attempt, lease, overflow, deadline, ends, outcome, pos,
                            acquired, returned, discarded>>
    <3>1. Timed => now <= ends
      BY <1>0, <2>1 DEF TypeOK, TimeInv
    <3>. QED
      BY <1>0, <1>1, <2>1, <2>3, <3>1 DEF asked, TimeInv
  <2>. QED
    BY <1>7, <2>2, <2>3, WakesFacts
<1>8. CASE BackoffAborted
  BY <1>8, BackoffAbortedFacts, ThrowsTime
<1>9. CASE Chunk
  BY <1>0, <1>1, <1>9 DEF Chunk, asked, TimeInv
<1>10. ASSUME NEW how, Finish(how)
       PROVE  TimeInv'
  BY <1>0, <1>1, <1>10 DEF Finish, GiveBack, asked, TimeInv
<1>11. CASE Succeeds \/ Abandons
  BY <1>10, <1>11 DEF Succeeds, Abandons
<1>12. CASE Tick
  <2>1. Timed /\ now' = now + 1 /\ pc # "done"
    BY <1>12 DEF Tick
  <2>2. UNCHANGED <<op, mode, timeout, layer, pc, lease, overflow, deadline, ends, wake>>
    BY <1>12 DEF Tick, asked
  <2>3. UNCHANGED asked /\ now \in Nat /\ ends \in Nat /\ wake \in Nat
    BY <1>0, <1>12 DEF Tick, TypeOK
  <2>4. CASE pc = "sleeping"
    <3>1. now < wake + MaxLate
      BY <1>12, <2>4 DEF Tick
    <3>2. now' <= wake + MaxLate /\ now' <= ends
      BY <1>0, <2>1, <2>3, <2>4, <3>1 DEF TimeInv
    <3>. QED
      BY <1>0, <1>1, <2>1, <2>2, <2>3, <2>4, <3>2 DEF TimeInv
  <2>5. CASE pc # "sleeping"
    <3>1. now < ends
      BY <1>12, <2>5 DEF Tick
    <3>2. now' <= ends
      BY <2>1, <2>3, <3>1
    <3>3. op = "exec" /\ deadline # None => now' <= deadline
      <4>1. op = "exec" /\ deadline # None => ends <= deadline /\ deadline \in Nat
        BY <1>0, <2>1, <2>5 DEF TypeOK, TimeInv
      <4>. QED
        BY <2>1, <2>3, <3>2, <4>1
    <3>. QED
      BY <1>0, <1>1, <2>1, <2>2, <2>3, <2>5, <3>2, <3>3 DEF TimeInv
  <2>. QED
    BY <2>4, <2>5
<1>13. CASE UNCHANGED vars
  BY <1>0, <1>1, <1>13 DEF vars, asked, TimeInv
<1>. QED
  BY <1>3, <1>4, <1>5, <1>6, <1>7, <1>8, <1>9, <1>11, <1>12, <1>13 DEF Next

\* Nothing of a command or write has run while it is under way.
LEMMA RunNext == IInv /\ [Next]_vars => RunInv'
<1>. SUFFICES ASSUME IInv, [Next]_vars PROVE RunInv'
  OBVIOUS
<1>0. TypeOK /\ RunInv
  BY DEF IInv
<1>1. CASE Leased \/ Ungranted
  BY <1>0, <1>1 DEF Leased, Ungranted, StartCalls, asked, history, RunInv, AppliedOnce
<1>2. CASE AcquireFails
  BY <1>0, <1>2 DEF AcquireFails, asked, history, RunInv, AppliedOnce
<1>3. ASSUME NEW cause \in Refusals \cup Failures, NEW hint \in Hints \cup {None},
             NEW ran \in BOOLEAN, Fails(cause, hint, ran)
      PROVE  RunInv'
  <2>1. /\ pc = "calling" /\ UNCHANGED asked /\ runs' \in {runs, runs + 1}
        /\ (runs' # runs => cause \in Failures)
    BY <1>0, <1>3, FailsFacts
  <2>2. CASE Throws(cause)
    BY <2>1, <2>2, ThrowsRun
  <2>3. CASE Retries(cause, hint) /\ pc' = "sleeping" /\ outcome' = outcome
    <3>1. op \in Reads \/ cause = "overloaded"
      BY <2>3 DEF Retries, Retryable, Reads
    <3>2. op \in Reads \/ runs' = runs
      BY <2>1, <3>1 DEF Failures
    <3>. QED
      BY <1>0, <2>1, <2>3, <3>2 DEF asked, RunInv, AppliedOnce
  <2>. QED
    BY <1>0, <1>3, <2>2, <2>3, FailsFacts
<1>4. CASE Wakes
  <2>1. pc = "sleeping" /\ UNCHANGED asked /\ runs' = runs
    BY <1>4, WakesFacts
  <2>2. CASE Throws(last)
    BY <2>1, <2>2, ThrowsRun
  <2>3. CASE pc' = "calling" /\ outcome' = outcome
    BY <1>0, <2>1, <2>3 DEF asked, RunInv, AppliedOnce
  <2>. QED
    BY <1>4, <2>2, <2>3, WakesFacts
<1>5. CASE BackoffAborted
  BY <1>5, BackoffAbortedFacts, ThrowsRun
<1>6. CASE Chunk
  BY <1>0, <1>6 DEF Chunk, asked, RunInv, AppliedOnce
<1>7. CASE Succeeds
  BY <1>0, <1>7 DEF Succeeds, Finish, asked, TypeOK, RunInv, AppliedOnce
<1>8. CASE Abandons
  BY <1>0, <1>8 DEF Abandons, Finish, asked, TypeOK, RunInv, AppliedOnce
<1>9. CASE Tick
  BY <1>0, <1>9 DEF Tick, asked, history, RunInv, AppliedOnce
<1>10. CASE UNCHANGED vars
  BY <1>0, <1>10 DEF vars, RunInv, AppliedOnce
<1>. QED
  BY <1>1, <1>2, <1>3, <1>4, <1>5, <1>6, <1>7, <1>8, <1>9, <1>10 DEF Next

\* The reader has the chunks of this pass, and no earlier pass gave it any.
LEMMA ReadNext == IInv /\ [Next]_vars => ReadInv'
<1>. SUFFICES ASSUME IInv, [Next]_vars PROVE ReadInv'
  OBVIOUS
<1>0. TypeOK /\ TimeInv /\ RunInv /\ ReadInv
  BY DEF IInv
<1>1. CASE Leased \/ Ungranted
  BY <1>0, <1>1 DEF Leased, Ungranted, StartCalls, asked, history, RunInv, ReadInv
<1>2. CASE AcquireFails
  BY <1>0, <1>2 DEF AcquireFails, asked, history, ReadInv
<1>3. ASSUME NEW cause \in Refusals \cup Failures, NEW hint \in Hints \cup {None},
             NEW ran \in BOOLEAN, Fails(cause, hint, ran)
      PROVE  ReadInv'
  <2>1. pc = "calling" /\ UNCHANGED asked /\ got' = got
    BY <1>0, <1>3, FailsFacts
  <2>2. CASE Throws(cause)
    BY <2>1, <2>2, ThrowsRead
  <2>3. CASE pc' = "sleeping" /\ UNCHANGED <<layer, pos, outcome>>
    BY <1>0, <2>1, <2>3 DEF asked, ReadInv
  <2>. QED
    BY <1>0, <1>3, <2>2, <2>3, FailsFacts
<1>4. CASE Wakes
  <2>1. pc = "sleeping" /\ UNCHANGED asked /\ got' = got
    BY <1>4, WakesFacts
  <2>2. CASE Throws(last)
    BY <2>1, <2>2, ThrowsRead
  <2>3. CASE pc' = "calling" /\ UNCHANGED <<layer, pos, outcome>>
    BY <1>0, <2>1, <2>3 DEF asked, ReadInv
  <2>. QED
    BY <1>4, <2>2, <2>3, WakesFacts
<1>5. CASE BackoffAborted
  BY <1>5, BackoffAbortedFacts, ThrowsRead
<1>6. CASE Chunk
  <2>1. /\ pc = "calling" /\ layer = "stream" /\ pos' = pos + 1
        /\ got' = Append(got, pos + 1) /\ UNCHANGED <<op, layer, pc, outcome>>
    BY <1>6 DEF Chunk, asked
  <2>2. pos \in Nat /\ pos + 1 \in Nat /\ got \in Seq(Nat) /\ Len(got) = pos
    BY <1>0, CallsAssumption DEF TypeOK, ReadInv
  <2>3. /\ Len(got') = pos + 1 /\ got'[pos + 1] = pos + 1
        /\ \A i \in 1..pos : got'[i] = got[i]
    BY <2>1, <2>2, AppendProperties
  <2>4. \A i \in 1..Len(got') : got'[i] = i
    BY <1>0, <2>2, <2>3 DEF ReadInv
  <2>. QED
    BY <1>0, <2>1, <2>3, <2>4 DEF RunInv, ReadInv
<1>7. CASE Succeeds
  BY <1>0, <1>7 DEF Succeeds, Finish, asked, Reads, TimeInv, ReadInv
<1>8. CASE Abandons
  BY <1>0, <1>8 DEF Abandons, Finish, asked, ReadInv
<1>9. CASE Tick
  BY <1>0, <1>9 DEF Tick, asked, history, ReadInv
<1>10. CASE UNCHANGED vars
  BY <1>0, <1>10 DEF vars, ReadInv
<1>. QED
  BY <1>1, <1>2, <1>3, <1>4, <1>5, <1>6, <1>7, <1>8, <1>9, <1>10 DEF Next

----------------------------------------------------------------------------

LEMMA Invariant == Spec => []IInv
<1>1. IInv /\ [Next]_vars => IInv'
  BY TypeNext, TimeNext, RunNext, ReadNext DEF IInv
<1>. QED
  BY InvInit, <1>1, PTL DEF Spec

\* Every variable of an operation keeps its type, its clock a number and its
\* attempts two.
THEOREM CallTypes == Spec => []TypeOK
<1>1. IInv => TypeOK
  BY DEF IInv
<1>. QED
  BY Invariant, <1>1, PTL

\* A command or a write is carried out at most once over all its calls,
\* whatever the answers, hints, retries and modes.
THEOREM CallsApplyOnce == Spec => []AppliedOnce
<1>1. IInv => AppliedOnce
  BY DEF IInv, RunInv
<1>. QED
  BY Invariant, <1>1, PTL

\* exec() with its second lease wait, each pass with its backoff and the
\* overflow to the gateway stay in the caller's time, if sleeps wake no later
\* than the reserve for a retried call.
THEOREM CallsKeepTheirTime == Spec => []WithinBudget
<1>1. IInv => WithinBudget
  <2>. SUFFICES ASSUME IInv, Timed, layer = "unary" PROVE
          /\ op = "exec" /\ deadline # None => now <= deadline
          /\ overflow => now <= deadline
          /\ pc \in {"calling", "sleeping"} => now <= ends
    BY DEF WithinBudget
  <2>1. TypeOK /\ TimeInv
    BY DEF IInv
  <2>2. pc = "sleeping" => now <= ends
    BY <2>1, CallsAssumption DEF TypeOK, TimeInv
  <2>. QED
    BY <2>1, <2>2 DEF TimeInv
<1>. QED
  BY Invariant, <1>1, PTL

\* A streamed read gives its reader each chunk once and in order, for a file of
\* any length, although it may start again on another runner.
THEOREM ReaderGetsChunksOnce == Spec => []ChunksOnce
<1>1. IInv => ChunksOnce
  BY DEF IInv, ReadInv, ChunksOnce
<1>. QED
  BY Invariant, <1>1, PTL

----------------------------------------------------------------------------
(* The files of a batch.                                                    *)

Busy(w) == worker[w].does \in {"unary", "stream"}
\* The workers whose call the server will refuse for the size.
Refusable == {w \in Workers : worker[w].does = "unary" /\ sizeOf[worker[w].item] > serverCap}

\* A file is nobody's, or one worker's, or carried; of a batch that may still
\* resolve none is lost.
FilesOwned ==
    /\ \A w \in Workers : Busy(w) => worker[w].item \in Items /\ worker[w].item < nextIndex
    /\ \A w, v \in Workers : Busy(w) /\ Busy(v) /\ worker[w].item = worker[v].item => w = v
    /\ \A i \in Items : carried[i] \in {0, 1} /\ (carried[i] = 1 => results[i] = i)
    /\ \A i \in Items : i >= nextIndex => carried[i] = 0
    /\ \A w \in Workers : Busy(w) => carried[worker[w].item] = 0
    /\ fate # "rejected" =>
          \A i \in Items :
              i < nextIndex => carried[i] = 1 \/ \E w \in Workers : Busy(w) /\ worker[w].item = i
    /\ fate = "resolved" => nextIndex > Files /\ \A w \in Workers : worker[w].does = "over"

\* A refusal takes a worker out of those that can be refused, and once one was
\* refused no other gets in.
RefusalsLeft ==
    /\ observed \in {NoCap, serverCap}
    /\ observed = NoCap => refusals = 0
    /\ batch = "write" => refusals + Cardinality(Refusable) <= Cardinality(Workers)

BatchInv == BatchTypeOK /\ FilesOwned /\ RefusalsLeft

LEMMA RefusableFacts ==
    /\ IsFiniteSet(Refusable) /\ Cardinality(Refusable) \in Nat
    /\ Cardinality(Workers) \in Nat /\ Cardinality(Refusable) <= Cardinality(Workers)
<1>1. IsFiniteSet(Workers) /\ Refusable \subseteq Workers
  BY BatchAssumption DEF Refusable
<1> QED BY <1>1, FS_Subset, FS_CardinalityType

LEMMA BatchInitInv == BatchInit => BatchInv
<1> SUFFICES ASSUME BatchInit PROVE BatchInv
  OBVIOUS
<1>1. BatchTypeOK
  BY BatchAssumption DEF BatchInit, BatchTypeOK, Items, Idle
<1>2. \A w \in Workers : ~Busy(w)
  BY DEF BatchInit, Busy, Idle
<1>3. FilesOwned
  BY <1>2, BatchAssumption DEF BatchInit, FilesOwned, Items
<1>4. RefusalsLeft
  BY RefusableFacts DEF BatchInit, RefusalsLeft
<1> QED BY <1>1, <1>3, <1>4 DEF BatchInv

\* How a file begins: refused, streamed, or as a unary call that fits a known cap.
LEMMA BeginFacts ==
    ASSUME BatchTypeOK, NEW w \in Workers, NEW i \in Items, Begin(w, i)
    PROVE  \/ Stops(w)
           \/ Becomes(w, "stream", i) /\ UNCHANGED fate
           \/ /\ Becomes(w, "unary", i) /\ UNCHANGED fate
              /\ batch = "write" => sizeOf[i] <= Cap
<1>1. sizeOf[i] \in Nat /\ MaxStream \in Nat /\ Cap \in Nat
  BY BatchAssumption DEF BatchTypeOK, Cap, NoCap
<1>2. CASE batch = "write" /\ sizeOf[i] > MaxStream
  BY <1>1, <1>2 DEF Begin
<1>3. CASE batch = "write" /\ sizeOf[i] \in (Cap + 1)..MaxStream
  BY <1>1, <1>3 DEF Begin
<1>4. CASE ~(batch = "write" /\ sizeOf[i] > MaxStream)
           /\ ~(batch = "write" /\ sizeOf[i] \in (Cap + 1)..MaxStream)
  <2>1. Becomes(w, "unary", i) /\ UNCHANGED fate
    BY <1>4 DEF Begin
  <2>2. batch = "write" => sizeOf[i] <= Cap
    BY <1>1, <1>4
  <2> QED BY <2>1, <2>2
<1> QED BY <1>2, <1>3, <1>4

LEMMA BatchTypeNext == ASSUME BatchInv, BatchNext PROVE BatchTypeOK'
<1> USE DEF BatchInv, BatchTypeOK
<1>0. PICK w \in Workers : \/ Take(w) \/ WorkerEnds(w) \/ Carried(w) \/ TooLarge(w)
                           \/ LooksTooLarge(w) \/ TransferFails(w)
  BY DEF BatchNext
<1>1. Idle \in [does : {"idle", "unary", "stream", "over"}, item : 0..Files]
  BY BatchAssumption DEF Idle
<1>2. \A does \in {"unary", "stream", "over"}, i \in 0..Files :
          [does |-> does, item |-> i] \in [does : {"idle", "unary", "stream", "over"}, item : 0..Files]
  OBVIOUS
<1>3. CASE Take(w)
  <2>1. nextIndex \in Items /\ nextIndex + 1 \in 1..(Files + 1) /\ Begin(w, nextIndex)
        /\ nextIndex' = nextIndex + 1
        /\ UNCHANGED <<batch, sizeOf, serverCap, observed, results, carried, refusals>>
    BY <1>3, BatchAssumption DEF Take, Items
  <2>2. PICK does \in {"unary", "stream", "over"}, i \in 0..Files :
            /\ Becomes(w, does, i)
            /\ fate' \in {fate, "rejected"}
    <3>1. nextIndex \in 0..Files /\ 0 \in 0..Files
      BY <2>1, BatchAssumption DEF Items
    <3> QED BY <2>1, <3>1, BeginFacts DEF Stops
  <2> QED BY <1>2, <2>1, <2>2 DEF Becomes
<1>4. CASE WorkerEnds(w)
  BY <1>2, <1>4, BatchAssumption DEF WorkerEnds, Becomes
<1>5. CASE Carried(w)
  <2>1. /\ worker' = [worker EXCEPT ![w] = Idle]
        /\ results' = [results EXCEPT ![worker[w].item] = worker[w].item]
        /\ carried' = [carried EXCEPT ![worker[w].item] = @ + 1]
        /\ UNCHANGED <<batch, sizeOf, serverCap, observed, nextIndex, refusals, fate>>
    BY <1>5 DEF Carried
  <2>2. worker[w].item \in Items /\ Items \subseteq 0..Files
    BY <1>5, BatchAssumption DEF Carried, FilesOwned, Busy, Items
  <2>3. results' \in [Items -> 0..Files] /\ carried' \in [Items -> Nat]
    BY <2>1, <2>2
  <2> QED BY <1>1, <2>1, <2>3
<1>6. CASE TooLarge(w)
  BY <1>2, <1>6, BatchAssumption DEF TooLarge, Stops, Becomes, Records
<1>7. CASE LooksTooLarge(w)
  BY <1>2, <1>7 DEF LooksTooLarge, Becomes
<1>8. CASE TransferFails(w)
  BY <1>2, <1>8, BatchAssumption DEF TransferFails, Stops, Becomes
<1> QED BY <1>0, <1>3, <1>4, <1>5, <1>6, <1>7, <1>8

LEMMA OwnedNext == ASSUME BatchInv, BatchNext PROVE FilesOwned'
<1> USE DEF BatchInv
<1>0. PICK w \in Workers : \/ Take(w) \/ WorkerEnds(w) \/ Carried(w) \/ TooLarge(w)
                           \/ LooksTooLarge(w) \/ TransferFails(w)
  BY DEF BatchNext
<1>1. worker \in [Workers -> [does : {"idle", "unary", "stream", "over"}, item : 0..Files]]
      /\ fate \in {"pending", "resolved", "rejected"} /\ nextIndex \in Nat /\ Files \in Nat
      /\ results \in [Items -> 0..Files] /\ carried \in [Items -> Nat] /\ Items = 1..Files
  BY BatchAssumption DEF BatchTypeOK, Items
\* The worker stops: what it had is lost, and so is the batch.
<1>2. ASSUME Stops(w), UNCHANGED <<results, carried>>, nextIndex' \in {nextIndex, nextIndex + 1},
             worker[w].does # "over"
      PROVE  FilesOwned'
  <2>1. fate # "resolved"
    BY <1>2 DEF FilesOwned
  <2>2. fate' = "rejected" /\ worker' = [worker EXCEPT ![w] = [does |-> "over", item |-> 0]]
    BY <1>1, <1>2, <2>1 DEF Stops, Becomes
  <2>3. \A v \in Workers : Busy(v)' => v # w /\ Busy(v) /\ worker'[v] = worker[v]
    BY <1>1, <2>2 DEF Busy
  <2> QED BY <1>1, <1>2, <2>2, <2>3 DEF FilesOwned
\* The worker turns from a unary call to a stream.
<1>3. ASSUME Becomes(w, "stream", worker[w].item), worker[w].does = "unary",
             UNCHANGED <<results, carried, nextIndex, fate>>
      PROVE  FilesOwned'
  <2>1. worker' = [worker EXCEPT ![w] = [does |-> "stream", item |-> worker[w].item]]
    BY <1>3 DEF Becomes
  <2>2. \A v \in Workers : worker'[v].item = worker[v].item /\ (Busy(v)' <=> Busy(v))
                           /\ (worker'[v].does = "over" <=> worker[v].does = "over")
    BY <1>1, <1>3, <2>1 DEF Busy
  <2> QED BY <1>3, <2>2 DEF FilesOwned
<1>4. CASE Take(w)
  <2>1. /\ worker[w] = Idle /\ nextIndex <= Files /\ Begin(w, nextIndex)
        /\ nextIndex' = nextIndex + 1 /\ UNCHANGED <<results, carried>>
        /\ nextIndex \in Items
    BY <1>1, <1>4, BatchAssumption DEF Take, BatchTypeOK, Items
  <2>2. worker[w].does = "idle" /\ ~Busy(w)
    BY <2>1 DEF Idle, Busy
  <2>3. CASE Stops(w)
    BY <1>2, <2>1, <2>2, <2>3
  <2>4. ASSUME NEW does \in {"unary", "stream"}, Becomes(w, does, nextIndex), UNCHANGED fate
        PROVE  FilesOwned'
    <3>1. worker' = [worker EXCEPT ![w] = [does |-> does, item |-> nextIndex]]
      BY <2>4 DEF Becomes
    <3>2. /\ \A v \in Workers : v # w => worker'[v] = worker[v] /\ (Busy(v)' <=> Busy(v))
          /\ worker'[w].item = nextIndex /\ Busy(w)'
      BY <1>1, <3>1 DEF Busy
    <3>3. carried[nextIndex] = 0 /\ fate # "resolved"
      BY <1>1, <2>1 DEF FilesOwned
    <3>4. \A v, u \in Workers : Busy(v)' /\ Busy(u)' /\ worker'[v].item = worker'[u].item => v = u
      <4>1. \A v \in Workers : v # w /\ Busy(v)' => worker'[v].item # nextIndex
        BY <1>1, <2>1, <3>2 DEF FilesOwned
      <4> SUFFICES ASSUME NEW v \in Workers, NEW u \in Workers, Busy(v)', Busy(u)',
                          worker'[v].item = worker'[u].item
                   PROVE  v = u
        OBVIOUS
      <4>2. CASE v = w \/ u = w
        BY <3>2, <4>1, <4>2
      <4>3. CASE v # w /\ u # w
        BY <3>2, <4>3 DEF FilesOwned
      <4> QED BY <4>2, <4>3
    <3>5. \A v \in Workers : Busy(v)' =>
              /\ worker'[v].item \in Items /\ worker'[v].item < nextIndex'
              /\ carried'[worker'[v].item] = 0
      BY <1>1, <2>1, <3>2, <3>3 DEF FilesOwned
    <3>6. fate' # "rejected" =>
              \A i \in Items : i < nextIndex' =>
                  carried'[i] = 1 \/ \E v \in Workers : Busy(v)' /\ worker'[v].item = i
      <4> SUFFICES ASSUME fate' # "rejected", NEW i \in Items, i < nextIndex'
                   PROVE  carried'[i] = 1 \/ \E v \in Workers : Busy(v)' /\ worker'[v].item = i
        OBVIOUS
      <4>1. CASE i = nextIndex
        BY <3>2, <4>1
      <4>2. CASE i < nextIndex
        <5>1. carried[i] = 1 \/ \E v \in Workers : Busy(v) /\ worker[v].item = i
          BY <2>4, <4>2 DEF FilesOwned
        <5> QED BY <2>1, <2>2, <3>2, <5>1
      <4> QED BY <1>1, <2>1, <4>1, <4>2
    <3> QED BY <1>1, <2>1, <2>4, <3>3, <3>4, <3>5, <3>6 DEF FilesOwned
  <2> QED BY <2>1, <2>3, <2>4, BeginFacts
<1>5. CASE WorkerEnds(w)
  <2>1. /\ worker[w] = Idle /\ nextIndex > Files
        /\ worker' = [worker EXCEPT ![w] = [does |-> "over", item |-> 0]]
        /\ fate' = IF fate = "pending" /\ \A v \in Workers \ {w} : worker[v].does = "over"
                   THEN "resolved" ELSE fate
        /\ UNCHANGED <<results, carried, nextIndex>>
    BY <1>5 DEF WorkerEnds, Becomes
  <2>2. worker[w].does = "idle"
    BY <2>1 DEF Idle
  <2>3. \A v \in Workers : /\ Busy(v)' <=> Busy(v)
                           /\ v # w => worker'[v] = worker[v]
    BY <1>1, <2>1, <2>2 DEF Busy
  <2>4. worker'[w].does = "over" /\ ~Busy(w)
    BY <1>1, <2>1, <2>2 DEF Busy
  <2>5. fate' = "resolved" => nextIndex' > Files /\ \A v \in Workers : worker'[v].does = "over"
    BY <1>1, <2>1, <2>2, <2>3, <2>4 DEF FilesOwned
  <2> QED BY <1>1, <2>1, <2>3, <2>4, <2>5 DEF FilesOwned
<1>6. CASE Carried(w)
  <2> DEFINE item == worker[w].item
  <2>1. /\ Busy(w)
        /\ results' = [results EXCEPT ![item] = item]
        /\ carried' = [carried EXCEPT ![item] = @ + 1]
        /\ worker' = [worker EXCEPT ![w] = Idle]
        /\ UNCHANGED <<nextIndex, fate>>
    BY <1>6 DEF Carried, Busy
  <2>2. item \in Items /\ item < nextIndex /\ carried[item] = 0
    BY <2>1 DEF FilesOwned
  <2>3. /\ carried'[item] = 1 /\ results'[item] = item
        /\ \A i \in Items : i # item => carried'[i] = carried[i] /\ results'[i] = results[i]
    BY <1>1, <2>1, <2>2
  <2>4. /\ ~Busy(w)'
        /\ \A v \in Workers : v # w => worker'[v] = worker[v] /\ (Busy(v)' <=> Busy(v))
    BY <1>1, <2>1 DEF Busy, Idle
  <2>5. \A v \in Workers : Busy(v)' => v # w /\ Busy(v) /\ worker'[v] = worker[v]
                                       /\ worker[v].item # item
    BY <2>1, <2>4 DEF FilesOwned
  <2> HIDE DEF item
  <2>6. fate' # "rejected" =>
            \A i \in Items : i < nextIndex' =>
                carried'[i] = 1 \/ \E v \in Workers : Busy(v)' /\ worker'[v].item = i
    BY <2>1, <2>3, <2>4 DEF FilesOwned, item
  <2>7. fate' # "resolved"
    BY <2>1 DEF FilesOwned, Busy
  <2>8. /\ \A v \in Workers : Busy(v)' => worker'[v].item \in Items /\ worker'[v].item < nextIndex'
                                          /\ carried'[worker'[v].item] = 0
        /\ \A v, u \in Workers : Busy(v)' /\ Busy(u)' /\ worker'[v].item = worker'[u].item => v = u
    BY <2>1, <2>3, <2>5 DEF FilesOwned
  <2>9. /\ \A i \in Items : carried'[i] \in {0, 1} /\ (carried'[i] = 1 => results'[i] = i)
        /\ \A i \in Items : i >= nextIndex' => carried'[i] = 0
    BY <1>1, <2>1, <2>2, <2>3 DEF FilesOwned
  <2> QED BY <2>6, <2>7, <2>8, <2>9 DEF FilesOwned
<1>7. CASE TooLarge(w)
  BY <1>2, <1>3, <1>7 DEF TooLarge
<1>8. CASE LooksTooLarge(w)
  BY <1>3, <1>8 DEF LooksTooLarge
<1>9. CASE TransferFails(w)
  BY <1>2, <1>9 DEF TransferFails
<1> QED BY <1>0, <1>4, <1>5, <1>6, <1>7, <1>8, <1>9

LEMMA RefusalsNext == ASSUME BatchInv, BatchNext PROVE RefusalsLeft'
<1> USE DEF BatchInv
<1>0. PICK w \in Workers : \/ Take(w) \/ WorkerEnds(w) \/ Carried(w) \/ TooLarge(w)
                           \/ LooksTooLarge(w) \/ TransferFails(w)
  BY DEF BatchNext
<1>1. worker \in [Workers -> [does : {"idle", "unary", "stream", "over"}, item : 0..Files]]
      /\ sizeOf \in [Items -> Nat] /\ serverCap \in Nat \ {0} /\ refusals \in Nat
  BY BatchAssumption DEF BatchTypeOK
<1>2. UNCHANGED <<batch, sizeOf, serverCap>>
  BY <1>0 DEF Take, WorkerEnds, Carried, TooLarge, LooksTooLarge, TransferFails
\* Without a refusal nobody new can be refused, if a cap was named.
<1>3. ASSUME UNCHANGED <<observed, refusals>>,
             observed # NoCap /\ batch = "write" => Refusable' \subseteq Refusable
      PROVE  RefusalsLeft'
  <2>1. CASE observed = NoCap
    <3>1. refusals' = 0 /\ Cardinality(Refusable') <= Cardinality(Workers)
          /\ Cardinality(Refusable') \in Nat
      <4>1. IsFiniteSet(Workers) /\ Refusable' \subseteq Workers
        BY BatchAssumption DEF Refusable
      <4> QED BY <1>3, <2>1, <4>1, FS_Subset, FS_CardinalityType DEF RefusalsLeft
    <3> QED BY <1>2, <1>3, <2>1, <3>1 DEF RefusalsLeft
  <2>2. CASE observed # NoCap /\ batch = "write"
    <3>1. /\ Cardinality(Refusable') <= Cardinality(Refusable)
          /\ Cardinality(Refusable') \in Nat
      BY <1>3, <2>2, RefusableFacts, FS_Subset, FS_CardinalityType
    <3> QED BY <1>1, <1>2, <1>3, <2>2, <3>1, RefusableFacts DEF RefusalsLeft
  <2>3. CASE observed # NoCap /\ batch # "write"
    BY <1>2, <1>3, <2>3 DEF RefusalsLeft
  <2> QED BY <2>1, <2>2, <2>3
<1>4. ASSUME NEW r \in [does : {"idle", "unary", "stream", "over"}, item : 0..Files],
             worker' = [worker EXCEPT ![w] = r],
             r.does = "unary" => sizeOf[r.item] <= serverCap /\ r.item \in Items
      PROVE  Refusable' = Refusable \ {w}
  BY <1>1, <1>2, <1>4 DEF Refusable
<1>5. CASE Take(w)
  <2>1. /\ nextIndex \in Items /\ Begin(w, nextIndex)
        /\ UNCHANGED <<observed, refusals>>
    BY <1>5, BatchAssumption DEF Take, BatchTypeOK, Items
  <2>2. ASSUME observed # NoCap, batch = "write" PROVE Refusable' \subseteq Refusable
    <3>1. Cap = serverCap
      BY <2>2 DEF Cap, RefusalsLeft
    <3>2. 0 \in 0..Files /\ nextIndex \in 0..Files
      BY <2>1, BatchAssumption DEF Items
    <3> DEFINE Doing(does, i) == [does |-> does, item |-> i]
    <3>3. PICK does \in {"unary", "stream", "over"}, i \in 0..Files :
              /\ worker' = [worker EXCEPT ![w] = Doing(does, i)]
              /\ does = "unary" => i \in Items /\ sizeOf[i] <= serverCap
      BY <2>1, <2>2, <3>1, <3>2, BeginFacts DEF Becomes, Stops
    <3>4. Doing(does, i) \in [does : {"idle", "unary", "stream", "over"}, item : 0..Files]
          /\ Doing(does, i).does = does /\ Doing(does, i).item = i
      OBVIOUS
    <3> HIDE DEF Doing
    <3> QED BY <1>4, <3>3, <3>4
  <2> QED BY <1>3, <2>1, <2>2
<1>6. ASSUME UNCHANGED <<observed, refusals>>,
             \/ worker' = [worker EXCEPT ![w] = Idle]
             \/ \E does \in {"stream", "over"}, i \in 0..Files : Becomes(w, does, i)
      PROVE  RefusalsLeft'
  <2>1. Idle \in [does : {"idle", "unary", "stream", "over"}, item : 0..Files]
        /\ Idle.does = "idle"
    BY BatchAssumption DEF Idle
  <2> DEFINE Doing(does, i) == [does |-> does, item |-> i]
  <2>2. \A does \in {"stream", "over"}, i \in 0..Files :
            /\ Doing(does, i) \in [does : {"idle", "unary", "stream", "over"}, item : 0..Files]
            /\ Doing(does, i).does = does
    OBVIOUS
  <2>3. PICK r \in [does : {"idle", "unary", "stream", "over"}, item : 0..Files] :
            r.does # "unary" /\ worker' = [worker EXCEPT ![w] = r]
    <3>1. CASE worker' = [worker EXCEPT ![w] = Idle]
      BY <2>1, <3>1
    <3>2. ASSUME NEW does \in {"stream", "over"}, NEW i \in 0..Files, Becomes(w, does, i)
          PROVE  worker' = [worker EXCEPT ![w] = Doing(does, i)]
      BY <3>2 DEF Becomes
    <3> HIDE DEF Doing
    <3>3. ASSUME NEW does \in {"stream", "over"}, NEW i \in 0..Files, Becomes(w, does, i)
          PROVE  \E r \in [does : {"idle", "unary", "stream", "over"}, item : 0..Files] :
                     r.does # "unary" /\ worker' = [worker EXCEPT ![w] = r]
      BY <2>2, <3>2, <3>3
    <3> QED BY <1>6, <3>1, <3>3
  <2> QED BY <1>3, <1>4, <1>6, <2>3
<1>7. CASE WorkerEnds(w) \/ Carried(w) \/ LooksTooLarge(w) \/ TransferFails(w)
  <2>1. 0 \in 0..Files /\ worker[w].item \in 0..Files
    BY <1>1, BatchAssumption
  <2> QED BY <1>6, <1>7, <2>1
          DEF WorkerEnds, Carried, LooksTooLarge, TransferFails, Stops
\* A refusal: the worker leaves those that can be refused.
<1>8. CASE TooLarge(w)
  <2>1. /\ w \in Refusable /\ observed' = serverCap /\ refusals' = refusals + 1
    BY <1>8 DEF TooLarge, Refusable, Records
  <2>2. Refusable' = Refusable \ {w}
    <3>1. 0 \in 0..Files /\ worker[w].item \in 0..Files
      BY <1>1, BatchAssumption
    <3> DEFINE Doing(does, i) == [does |-> does, item |-> i]
    <3>2. PICK does \in {"stream", "over"}, i \in 0..Files :
              worker' = [worker EXCEPT ![w] = Doing(does, i)]
      BY <1>8, <3>1 DEF TooLarge, Stops, Becomes
    <3>3. Doing(does, i) \in [does : {"idle", "unary", "stream", "over"}, item : 0..Files]
          /\ Doing(does, i).does = does
      OBVIOUS
    <3> HIDE DEF Doing
    <3> QED BY <1>4, <3>2, <3>3
  <2>3. Cardinality(Refusable') = Cardinality(Refusable) - 1
    BY <2>1, <2>2, RefusableFacts, FS_RemoveElement
  <2> QED BY <1>1, <1>2, <2>1, <2>3, RefusableFacts DEF RefusalsLeft, NoCap
<1> QED BY <1>0, <1>5, <1>7, <1>8

LEMMA BatchStep == ASSUME BatchInv, [BatchNext]_batchVars PROVE BatchInv'
<1>1. CASE UNCHANGED batchVars
  <2>1. Refusable' = Refusable /\ \A w : Busy(w)' <=> Busy(w)
    BY <1>1 DEF batchVars, Refusable, Busy
  <2>2. BatchTypeOK'
    BY <1>1 DEF batchVars, BatchInv, BatchTypeOK
  <2>3. FilesOwned'
    BY <1>1, <2>1 DEF batchVars, BatchInv, FilesOwned
  <2>4. RefusalsLeft'
    BY <1>1, <2>1 DEF batchVars, BatchInv, RefusalsLeft
  <2> QED BY <2>2, <2>3, <2>4 DEF BatchInv
<1> QED BY <1>1, BatchTypeNext, OwnedNext, RefusalsNext DEF BatchInv

LEMMA BatchHolds == ASSUME BatchInv PROVE BatchWhole
<1>1. fate = "resolved" => \A i \in Items : results[i] = i
  <2> SUFFICES ASSUME fate = "resolved", NEW i \in Items PROVE results[i] = i
    OBVIOUS
  <2>1. i < nextIndex /\ \A w \in Workers : ~Busy(w)
    BY BatchAssumption DEF BatchInv, FilesOwned, BatchTypeOK, Items, Busy
  <2> QED BY <2>1 DEF BatchInv, FilesOwned
<1>2. \A i \in Items : carried[i] <= 1
  BY DEF BatchInv, FilesOwned
<1>3. batch = "write" => refusals <= Cardinality(Workers)
  BY RefusableFacts DEF BatchInv, RefusalsLeft, BatchTypeOK
<1> QED BY <1>1, <1>2, <1>3 DEF BatchWhole

----------------------------------------------------------------------------
(* One file that is streamed.                                               *)

\* The chunks the reader has and those that wait for it are one line of chunks.
Place(o, b) == 1..(Len(o) + Len(b))
Line(o, b, i) == IF i <= Len(o) THEN o[i] ELSE b[i - Len(o)]

\* Chunks of a file come in its order; what was lost before one stays lost, so that
\* the distance between a chunk and its place can only grow.
InOrder(o, b, most) ==
    /\ \A i \in Place(o, b) : Line(o, b, i) \in i..most
    /\ \A i, j \in Place(o, b) : i <= j => Line(o, b, i) - i <= Line(o, b, j) - j
Beyond(o, b, chunk) == \A i \in Place(o, b) : Line(o, b, i) < chunk

LEMMA LinePushed ==
    ASSUME NEW o \in Seq(Nat), NEW b \in Seq(Nat), NEW most \in Nat, NEW chunk \in 1..most,
           InOrder(o, b, most), Beyond(o, b, chunk)
    PROVE  /\ InOrder(o, Append(b, chunk), most)
           /\ \A later \in Nat : chunk < later => Beyond(o, Append(b, chunk), later)
<1> DEFINE c == Append(b, chunk)
           n == Len(o) + Len(b)
<1>1. Len(o) \in Nat /\ Len(b) \in Nat /\ c \in Seq(Nat) /\ Len(c) = Len(b) + 1
      /\ (\A i \in 1..Len(b) : c[i] = b[i]) /\ c[Len(b) + 1] = chunk
  BY AppendProperties, LenProperties
<1>2. Place(o, b) = 1..n /\ Place(o, c) = 1..(n + 1) /\ n \in Nat
  BY <1>1 DEF Place
<1>3. \A i \in 1..n : Line(o, c, i) = Line(o, b, i)
  BY <1>1 DEF Line
<1>4. Line(o, c, n + 1) = chunk
  BY <1>1 DEF Line
<1> HIDE DEF c, n
<1>5. \A i \in 1..n : Line(o, b, i) \in i..most /\ Line(o, b, i) < chunk
  BY <1>2 DEF InOrder, Beyond
<1>6. \A i \in 1..n : Line(o, b, i) - i <= chunk - (n + 1)
  <2> SUFFICES ASSUME NEW i \in 1..n PROVE Line(o, b, i) - i <= chunk - (n + 1)
    OBVIOUS
  <2>1. n \in 1..n /\ i <= n
    BY <1>2
  <2>2. Line(o, b, i) - i <= Line(o, b, n) - n
    BY <1>2, <2>1 DEF InOrder
  <2>3. Line(o, b, n) < chunk /\ Line(o, b, n) \in Int /\ Line(o, b, i) \in Int
    BY <1>5, <2>1
  <2> QED BY <1>2, <2>2, <2>3
<1>7. chunk >= n + 1
  <2>1. CASE n = 0
    BY <2>1
  <2>2. CASE n > 0
    <3>1. Line(o, b, n) \in n..most /\ Line(o, b, n) < chunk
      BY <1>2, <1>5, <2>2
    <3> QED BY <1>2, <3>1
  <2> QED BY <1>2, <2>1, <2>2
<1>8. \A i \in 1..(n + 1) : Line(o, c, i) \in i..most
  <2> SUFFICES ASSUME NEW i \in 1..(n + 1) PROVE Line(o, c, i) \in i..most
    OBVIOUS
  <2>1. CASE i = n + 1
    BY <1>2, <1>4, <1>7, <2>1
  <2>2. CASE i # n + 1
    <3>1. i \in 1..n
      BY <1>2, <2>2
    <3> QED BY <1>3, <1>5, <3>1
  <2> QED BY <2>1, <2>2
<1>9. \A i, j \in 1..(n + 1) : i <= j => Line(o, c, i) - i <= Line(o, c, j) - j
  <2> SUFFICES ASSUME NEW i \in 1..(n + 1), NEW j \in 1..(n + 1), i <= j
               PROVE  Line(o, c, i) - i <= Line(o, c, j) - j
    OBVIOUS
  <2>1. CASE i = n + 1
    <3>1. j = i
      BY <1>2, <2>1
    <3> QED BY <1>4, <2>1, <3>1
  <2>2. CASE i # n + 1 /\ j = n + 1
    <3>1. i \in 1..n
      BY <1>2, <2>2
    <3> QED BY <1>3, <1>4, <1>6, <2>2, <3>1
  <2>3. CASE i # n + 1 /\ j # n + 1
    <3>1. i \in 1..n /\ j \in 1..n
      BY <1>2, <2>3
    <3> QED BY <1>2, <1>3, <3>1 DEF InOrder
  <2> QED BY <2>1, <2>2, <2>3
<1>10. ASSUME NEW later \in Nat, chunk < later
       PROVE  \A i \in 1..(n + 1) : Line(o, c, i) < later
  <2> SUFFICES ASSUME NEW i \in 1..(n + 1) PROVE Line(o, c, i) < later
    OBVIOUS
  <2>1. CASE i = n + 1
    BY <1>4, <1>10, <2>1
  <2>2. CASE i # n + 1
    <3>1. i \in 1..n
      BY <1>2, <2>2
    <3> QED BY <1>3, <1>5, <1>10, <3>1
  <2> QED BY <2>1, <2>2
<1> QED BY <1>2, <1>8, <1>9, <1>10 DEF InOrder, Beyond, c

LEMMA LineRead ==
    ASSUME NEW o \in Seq(Nat), NEW b \in Seq(Nat), b # <<>>
    PROVE  /\ Place(Append(o, Head(b)), Tail(b)) = Place(o, b)
           /\ \A i \in Place(o, b) : Line(Append(o, Head(b)), Tail(b), i) = Line(o, b, i)
<1> DEFINE p == Append(o, Head(b))
           t == Tail(b)
<1>1. Len(o) \in Nat /\ Len(b) \in Nat \ {0} /\ Head(b) = b[1] /\ Head(b) \in Nat
  BY LenProperties, HeadTailProperties
<1>2. Len(p) = Len(o) + 1 /\ p[Len(o) + 1] = b[1] /\ \A i \in 1..Len(o) : p[i] = o[i]
  BY <1>1, AppendProperties
<1>3. Len(t) = Len(b) - 1 /\ \A i \in 1..Len(t) : t[i] = b[i + 1]
  BY HeadTailProperties
<1> HIDE DEF p, t
<1>4. Place(p, t) = Place(o, b)
  BY <1>1, <1>2, <1>3 DEF Place
<1>5. ASSUME NEW i \in Place(o, b) PROVE Line(p, t, i) = Line(o, b, i)
  <2>1. i \in 1..(Len(o) + Len(b))
    BY DEF Place
  <2>2. CASE i <= Len(o)
    BY <1>1, <1>2, <2>1, <2>2 DEF Line
  <2>3. CASE i = Len(o) + 1
    BY <1>1, <1>2, <2>3 DEF Line
  <2>4. CASE i > Len(o) + 1
    <3>1. i - Len(p) \in 1..Len(t) /\ (i - Len(p)) + 1 = i - Len(o)
      BY <1>1, <1>2, <1>3, <2>1, <2>4
    <3>2. t[i - Len(p)] = b[i - Len(o)]
      BY <1>3, <3>1
    <3> QED BY <1>1, <1>2, <2>1, <2>4, <3>2 DEF Line
  <2> QED BY <1>1, <2>1, <2>2, <2>3, <2>4
<1> QED BY <1>4, <1>5 DEF p, t

LEMMA ReadKeepsLine ==
    ASSUME NEW o \in Seq(Nat), NEW b \in Seq(Nat), b # <<>>, NEW most \in Nat
    PROVE  /\ InOrder(o, b, most) => InOrder(Append(o, Head(b)), Tail(b), most)
           /\ \A chunk : Beyond(o, b, chunk) => Beyond(Append(o, Head(b)), Tail(b), chunk)
BY LineRead DEF InOrder, Beyond

LEMMA MoreSent ==
    ASSUME NEW o \in Seq(Nat), NEW b \in Seq(Nat), NEW most \in Nat, InOrder(o, b, most)
    PROVE  InOrder(o, b, most + 1) /\ Beyond(o, b, most + 1)
<1>1. \A i \in Place(o, b) : i \in Int /\ Line(o, b, i) \in i..most
  BY LenProperties DEF InOrder, Place
<1> QED BY <1>1 DEF InOrder, Beyond

\* As many chunks in order as the file has are the file.
LEMMA AllThere ==
    ASSUME NEW o \in Seq(Nat), NEW most \in Nat, InOrder(o, <<>>, most), Len(o) >= most
    PROVE  o = [i \in 1..most |-> i]
<1> DEFINE n == Len(o)
<1>1. n \in Nat /\ o \in [1..n -> Nat] /\ Place(o, <<>>) = 1..n
  BY LenProperties DEF Place
<1>2. \A i \in 1..n : Line(o, <<>>, i) = o[i]
  BY <1>1 DEF Line
<1>3. /\ \A i \in 1..n : o[i] \in i..most
      /\ \A i, j \in 1..n : i <= j => o[i] - i <= o[j] - j
  BY <1>1, <1>2 DEF InOrder
<1> HIDE DEF n
<1>4. n = most
  <2>1. CASE n = 0
    BY <1>1, <2>1
  <2>2. CASE n > 0
    <3>1. o[n] \in n..most
      BY <1>1, <1>3, <2>2
    <3> QED BY <1>1, <3>1
  <2> QED BY <1>1, <2>1, <2>2
<1>5. \A i \in 1..n : o[i] = i
  <2> SUFFICES ASSUME NEW i \in 1..n PROVE o[i] = i
    OBVIOUS
  <2>1. n \in 1..n /\ i <= n
    BY <1>1
  <2>2. o[i] - i <= o[n] - n /\ o[i] \in i..most /\ o[n] \in n..most
    BY <1>3, <2>1
  <2> QED BY <1>1, <1>4, <2>2
<1> QED BY <1>1, <1>4, <1>5

Frames == [type : {"stdout", "ready", "exit", "error"}, value : Nat]

StreamTypes ==
    /\ kind \in {"read", "write"} /\ target \in {"file", "missing", "directory"}
    /\ call \in {"none", "open", "ended", "aborted"}
    /\ collector \in {"none", "frames", "push", "done", "rejected"}
    /\ attached \in {"no", "yes", "eof"} /\ queueEnd \in {"open", "closed", "failed"}
    /\ size \in 0..MaxChunks /\ progress \in 0..size /\ supplied \in 0..size
    /\ delivered \in Nat /\ expected \in Nat \cup {Unknown}
    /\ received \in Seq(Nat) /\ buffer \in Seq(Nat) /\ obtained \in Seq(Nat)
    /\ frames \in Seq(Frames)
    /\ exitCode \in {Unknown} \cup 0..3
    /\ kind = "read" => step \in {"stat", "loop", "held", "cleanup", "done"}
    /\ kind = "write" => step \in {"source", "write", "close", "collect", "cleanup", "done"}
    /\ collector = "push" => pending \in 1..progress

\* An exit with 0 is sent by a script that has done its work.
Worked == IF kind = "read" THEN target = "file" ELSE attached = "eof"
ExitInv ==
    /\ \A i \in DOMAIN frames : frames[i].type = "exit" =>
          frames[i].value \in 0..3 /\ (frames[i].value = 0 => Worked)
    /\ \A i \in DOMAIN frames : frames[i].type = "stdout" => frames[i].value \in 1..progress
    /\ \A i \in DOMAIN frames : frames[i].type # IF kind = "read" THEN "ready" ELSE "stdout"
    /\ exitCode = 0 => Worked

\* A frame of a chunk is beyond all that the collector has taken, and a later one
\* beyond it.
FramesInOrder ==
    \A i \in DOMAIN frames : frames[i].type = "stdout" =>
        /\ Beyond(obtained, buffer, frames[i].value)
        /\ collector = "push" => pending < frames[i].value
        /\ \A j \in DOMAIN frames :
              j < i /\ frames[j].type = "stdout" => frames[j].value < frames[i].value

\* As long as the reader is there: what was counted is what it has and what waits,
\* in order, and the queue has ended only with the frames.
Live == kind = "read" /\ step \in {"stat", "loop", "held"}
LineInv ==
    Live =>
        /\ delivered = Len(obtained) + Len(buffer)
        /\ InOrder(obtained, buffer, progress)
        /\ FramesInOrder
        /\ collector = "push" => Beyond(obtained, buffer, pending)
        /\ queueEnd # "open" => collector = "done"
        /\ queueEnd = "closed" => exitCode \in 0..3
        /\ expected \in {Unknown, size}
        /\ step = "stat" => collector = "none" /\ expected = Unknown

\* The writer's source and the command's stdin agree as long as the call is open, and
\* for good once stdin was closed through an open call.
StdinInv ==
    kind = "write" =>
        /\ call = "open" /\ step \in {"source", "close", "collect"} =>
              received = [i \in 1..supplied |-> i]
        /\ call = "open" /\ step = "write" =>
              supplied > 0 /\ received = [i \in 1..(supplied - 1) |-> i]
        /\ step \in {"close", "collect"} => supplied = size
        /\ step \in {"source", "write", "close"} => attached # "eof"
        /\ attached = "eof" => received = [i \in 1..size |-> i]

StreamInv ==
    /\ StreamTypes /\ ExitInv /\ LineInv /\ StdinInv
    /\ result = "resolved" => step = "done" /\ collector = "done" /\ FileWhole

LEMMA StreamInitInv == StreamInit => StreamInv
<1> SUFFICES ASSUME StreamInit PROVE StreamInv
  OBVIOUS
<1>1. StreamTypes
  <2>1. size \in 0..MaxChunks /\ MaxChunks \in Nat
    BY StreamAssumption DEF StreamInit
  <2> QED BY <2>1 DEF StreamInit, StreamTypes, Unknown
<1>2. ExitInv
  BY DEF StreamInit, ExitInv, Unknown
<1>3. LineInv
  <2>1. Place(obtained, buffer) = {} /\ DOMAIN frames = {} /\ Len(obtained) = 0 /\ Len(buffer) = 0
    BY DEF StreamInit, Place
  <2> QED BY <2>1 DEF StreamInit, LineInv, InOrder, FramesInOrder
<1>4. StdinInv
  BY DEF StreamInit, StdinInv
<1> QED BY <1>1, <1>2, <1>3, <1>4 DEF StreamInit, StreamInv

\* A frame is appended; the call may be over with it.
LEMMA EmitFacts ==
    ASSUME StreamInv, NEW frame \in Frames, NEW over \in BOOLEAN, Emit(frame, over)
    PROVE  /\ frames' \in Seq(Frames) /\ Len(frames') = Len(frames) + 1
           /\ DOMAIN frames = 1..Len(frames) /\ DOMAIN frames' = 1..(Len(frames) + 1)
           /\ Len(frames) \in Nat /\ frames'[Len(frames) + 1] = frame
           /\ \A i \in DOMAIN frames : frames'[i] = frames[i]
           /\ call' \in {call, "ended"}
           /\ UNCHANGED <<kind, target, size, step, collector, gate, supplied, buffer, queueEnd,
                          pending, expected, delivered, exitCode, obtained, aborted, result>>
<1>1. frames \in Seq(Frames)
  BY DEF StreamInv, StreamTypes
<1>2. frames' = Append(frames, frame)
  BY DEF Emit
<1>3. /\ frames' \in Seq(Frames) /\ Len(frames') = Len(frames) + 1
      /\ frames'[Len(frames) + 1] = frame /\ \A i \in 1..Len(frames) : frames'[i] = frames[i]
  BY <1>1, <1>2, AppendProperties
<1>4. Len(frames) \in Nat /\ DOMAIN frames = 1..Len(frames) /\ DOMAIN frames' = 1..Len(frames')
  BY <1>1, <1>3, LenProperties
<1> QED BY <1>3, <1>4 DEF Emit, fileVars, queueVars

\* A cut call is over, and of the frames that had arrived none is new but an error.
LEMMA CutFacts ==
    ASSUME StreamInv, CutCall
    PROVE  /\ frames' \in Seq(Frames) /\ call' \in {"none", "ended", "aborted"}
           /\ \A i \in DOMAIN frames' : \/ frames'[i].type = "error"
                                        \/ i \in DOMAIN frames /\ frames'[i] = frames[i]
<1>1. frames \in Seq(Frames) /\ call \in {"none", "open", "ended", "aborted"}
  BY DEF StreamInv, StreamTypes
<1>2. CASE call # "open"
  BY <1>1, <1>2 DEF CutCall
<1> DEFINE error == Frame("error", 0)
<1>3. error \in Frames /\ error.type = "error"
  BY DEF Frame, Frames
<1> HIDE DEF error
<1>4. CASE call = "open" /\ frames' = <<error>>
  <2>1. call' = "aborted"
    BY <1>4 DEF CutCall
  <2> QED BY <1>3, <1>4, <2>1
<1>5. CASE call = "open" /\ frames' = Append(frames, error)
  <2>1. call' = "aborted"
    BY <1>5 DEF CutCall
  <2>2. /\ frames' \in Seq(Frames) /\ Len(frames') = Len(frames) + 1
        /\ frames'[Len(frames) + 1] = error /\ \A i \in 1..Len(frames) : frames'[i] = frames[i]
    BY <1>1, <1>3, <1>5, AppendProperties
  <2>3. DOMAIN frames = 1..Len(frames) /\ DOMAIN frames' = 1..Len(frames') /\ Len(frames) \in Nat
    BY <1>1, <2>2, LenProperties
  <2> QED BY <1>3, <2>1, <2>2, <2>3
<1> QED BY <1>2, <1>4, <1>5 DEF CutCall, error

\* Frames that were there, and errors, spoil nothing.
LEMMA OldFrames ==
    ASSUME StreamInv, UNCHANGED <<kind, target, attached, progress, exitCode>>,
           \A i \in DOMAIN frames' : \/ frames'[i].type = "error"
                                     \/ i \in DOMAIN frames /\ frames'[i] = frames[i]
    PROVE  /\ ExitInv'
           /\ FramesInOrder /\ UNCHANGED <<obtained, buffer, collector, pending>> => FramesInOrder'
<1>1. Worked' <=> Worked
  BY DEF Worked
<1>2. ExitInv'
  BY <1>1 DEF StreamInv, ExitInv
<1>3. ASSUME FramesInOrder, UNCHANGED <<obtained, buffer, collector, pending>> PROVE FramesInOrder'
  <2>1. \A n : Beyond(obtained, buffer, n)' <=> Beyond(obtained, buffer, n)
    BY <1>3
  <2> QED BY <1>3, <2>1 DEF FramesInOrder
<1> QED BY <1>2, <1>3

LEMMA SendStep == ASSUME StreamInv, ServerSendsChunk PROVE StreamInv'
<1> USE DEF StreamInv
<1>1. /\ kind = "read" /\ progress < size /\ progress' = progress + 1
      /\ UNCHANGED <<received, attached>>
  BY DEF ServerSendsChunk
<1> DEFINE frame == Frame("stdout", progress + 1)
<1>2. /\ UNCHANGED <<kind, target, size, step, collector, gate, supplied, buffer, queueEnd,
                     pending, expected, delivered, exitCode, obtained, aborted, result>>
      /\ call' \in {call, "ended"} /\ frames' \in Seq(Frames)
      /\ \A i \in DOMAIN frames' :
            \/ i \in DOMAIN frames /\ frames'[i] = frames[i]
            \/ frames'[i] = frame /\ \A j \in DOMAIN frames' : j <= i
  <2>1. CASE Emit(frame, FALSE)
    <3>1. frame \in Frames
      BY DEF Frame, Frames, StreamTypes
    <3> HIDE DEF frame
    <3>2. /\ UNCHANGED <<kind, target, size, step, collector, gate, supplied, buffer, queueEnd,
                         pending, expected, delivered, exitCode, obtained, aborted, result>>
          /\ call' \in {call, "ended"} /\ frames' \in Seq(Frames)
      BY <2>1, <3>1, EmitFacts
    <3>3. /\ DOMAIN frames = 1..Len(frames) /\ DOMAIN frames' = 1..(Len(frames) + 1)
          /\ Len(frames) \in Nat /\ frames'[Len(frames) + 1] = frame
          /\ \A i \in DOMAIN frames : frames'[i] = frames[i]
      BY <2>1, <3>1, EmitFacts
    <3>4. \A i \in DOMAIN frames' : i \in DOMAIN frames \/ i = Len(frames) + 1
      BY <3>3
    <3> QED BY <3>2, <3>3, <3>4
  <2>2. CASE ~Emit(frame, FALSE)
    BY <2>2 DEF ServerSendsChunk, fileVars, queueVars, StreamTypes
  <2> QED BY <2>1, <2>2
<1>3. frame.type = "stdout" /\ frame.value = progress + 1
  BY DEF Frame
<1> HIDE DEF frame
<1>4. StreamTypes'
  BY <1>1, <1>2 DEF StreamTypes
<1>5. ExitInv'
  <2>1. Worked' <=> Worked
    BY <1>1, <1>2 DEF Worked
  <2>2. progress \in Nat
    BY DEF StreamTypes
  <2>3. \A i \in DOMAIN frames' : frames'[i].type = "exit" =>
            i \in DOMAIN frames /\ frames'[i] = frames[i]
    BY <1>2, <1>3
  <2>4. \A i \in DOMAIN frames' : frames'[i].type = "stdout" => frames'[i].value \in 1..progress'
    BY <1>1, <1>2, <1>3, <2>2 DEF ExitInv
  <2>5. \A i \in DOMAIN frames' : frames'[i].type # "ready"
    BY <1>1, <1>2, <1>3 DEF ExitInv
  <2> QED BY <1>1, <1>2, <2>1, <2>3, <2>4, <2>5 DEF ExitInv
<1>6. ASSUME Live PROVE /\ InOrder(obtained, buffer, progress)'
                        /\ FramesInOrder'
  <2>1. InOrder(obtained, buffer, progress + 1) /\ Beyond(obtained, buffer, progress + 1)
    BY <1>6, MoreSent DEF LineInv, StreamTypes
  <2>2. \A n : Beyond(obtained, buffer, n)' <=> Beyond(obtained, buffer, n)
    BY <1>2
  <2>3. FramesInOrder'
    <3> SUFFICES ASSUME NEW i \in DOMAIN frames', frames'[i].type = "stdout"
                 PROVE  /\ Beyond(obtained, buffer, frames'[i].value)
                        /\ collector = "push" => pending < frames'[i].value
                        /\ \A j \in DOMAIN frames' : j < i /\ frames'[j].type = "stdout" =>
                              frames'[j].value < frames'[i].value
      BY <1>2, <2>2 DEF FramesInOrder
    <3>1. progress \in Nat /\ FramesInOrder /\ frames' \in Seq(Frames) /\ DOMAIN frames' \subseteq Nat
      BY <1>2, <1>6, LenProperties DEF LineInv, StreamTypes
    <3>2. CASE i \in DOMAIN frames /\ frames'[i] = frames[i]
      <4>1. \A j \in DOMAIN frames' : j < i => j \in DOMAIN frames /\ frames'[j] = frames[j]
        BY <1>2, <3>1
      <4> QED BY <3>1, <3>2, <4>1 DEF FramesInOrder
    <3>3. CASE frames'[i] = frame /\ \A j \in DOMAIN frames' : j <= i
      <4>1. collector = "push" => pending < progress + 1
        BY <3>1 DEF StreamTypes
      <4>2. \A j \in DOMAIN frames' : j < i /\ frames'[j].type = "stdout" =>
                frames'[j].value < progress + 1
        BY <1>2, <3>1 DEF ExitInv
      <4> QED BY <1>3, <2>1, <3>3, <4>1, <4>2
    <3> QED BY <1>2, <3>2, <3>3
  <2> QED BY <1>1, <1>2, <2>1, <2>3
<1>7. LineInv'
  <2>1. Live' <=> Live
    BY <1>2 DEF Live
  <2> QED BY <1>2, <1>6, <2>1 DEF LineInv
<1>8. StdinInv'
  BY <1>1, <1>2 DEF StdinInv
<1> QED BY <1>1, <1>2, <1>4, <1>5, <1>7, <1>8 DEF FileWhole

\* A frame that is no chunk, and with which the call may end.
LEMMA FrameStep ==
    ASSUME StreamInv, NEW frame \in Frames, NEW over \in BOOLEAN, Emit(frame, over),
           frame.type # "stdout", frame.type = "ready" => kind = "write",
           frame.type = "exit" => frame.value \in 0..3 /\ (frame.value = 0 => Worked),
           UNCHANGED <<progress, received>>, attached' \in {"no", "yes", "eof"},
           attached' = "eof" <=> attached = "eof"
    PROVE  StreamInv'
<1> USE DEF StreamInv
<1>1. /\ UNCHANGED <<kind, target, size, step, collector, gate, supplied, buffer, queueEnd,
                     pending, expected, delivered, exitCode, obtained, aborted, result>>
      /\ call' \in {call, "ended"} /\ frames' \in Seq(Frames)
  BY EmitFacts
<1>2. \A i \in DOMAIN frames' : \/ i \in DOMAIN frames /\ frames'[i] = frames[i]
                                \/ frames'[i] = frame
  <2>1. /\ DOMAIN frames = 1..Len(frames) /\ DOMAIN frames' = 1..(Len(frames) + 1)
        /\ Len(frames) \in Nat /\ frames'[Len(frames) + 1] = frame
        /\ \A i \in DOMAIN frames : frames'[i] = frames[i]
    BY EmitFacts
  <2>2. \A i \in DOMAIN frames' : i \in DOMAIN frames \/ i = Len(frames) + 1
    BY <2>1
  <2> QED BY <2>1, <2>2
<1>3. StreamTypes'
  BY <1>1 DEF StreamTypes
<1>4. Worked' <=> Worked
  BY <1>1 DEF Worked
<1>5. ExitInv'
  BY <1>1, <1>2, <1>4 DEF ExitInv
<1>6. LineInv'
  <2>1. Live' <=> Live
    BY <1>1 DEF Live
  <2>2. \A n : Beyond(obtained, buffer, n)' <=> Beyond(obtained, buffer, n)
    BY <1>1
  <2>3. Live => FramesInOrder'
    BY <1>1, <1>2, <2>2 DEF FramesInOrder, LineInv
  <2>4. InOrder(obtained, buffer, progress)' <=> InOrder(obtained, buffer, progress)
    BY <1>1
  <2> QED BY <1>1, <2>1, <2>2, <2>3, <2>4 DEF LineInv
<1>7. StdinInv'
  BY <1>1 DEF StdinInv
<1>8. result' = "resolved" => FileWhole'
  BY <1>1 DEF FileWhole
<1> QED BY <1>1, <1>3, <1>5, <1>6, <1>7, <1>8

LEMMA ServerStep == ASSUME StreamInv, StreamServer PROVE StreamInv'
<1>1. CASE ServerSendsChunk
  BY <1>1, SendStep
<1>2. CASE ServerAttaches
  <2> DEFINE frame == Frame("ready", 0)
  <2>1. frame \in Frames /\ frame.type = "ready"
    BY DEF Frame, Frames
  <2> HIDE DEF frame
  <2>2. /\ Emit(frame, FALSE) /\ UNCHANGED <<progress, received>>
        /\ attached = "no" /\ attached' = "yes" /\ kind = "write"
    BY <1>2 DEF ServerAttaches, frame
  <2> QED BY <2>1, <2>2, FrameStep
<1>3. CASE CallFails
  <2> DEFINE frame == Frame("error", 0)
  <2>1. frame \in Frames /\ frame.type = "error"
    BY DEF Frame, Frames
  <2> HIDE DEF frame
  <2>2. Emit(frame, TRUE) /\ UNCHANGED <<progress, received, attached>>
    BY <1>3 DEF CallFails, serverSide, frame
  <2>3. attached \in {"no", "yes", "eof"}
    BY DEF StreamInv, StreamTypes
  <2> QED BY <2>1, <2>2, <2>3, FrameStep
<1>4. ASSUME NEW code \in 0..3, ScriptExits(code) PROVE StreamInv'
  <2> DEFINE frame == Frame("exit", code)
  <2>1. frame \in Frames /\ frame.type = "exit" /\ frame.value = code
    BY DEF Frame, Frames
  <2> HIDE DEF frame
  <2>2. Emit(frame, TRUE) /\ UNCHANGED <<progress, received, attached>>
    BY <1>4 DEF ScriptExits, serverSide, frame
  <2>3. attached \in {"no", "yes", "eof"}
    BY DEF StreamInv, StreamTypes
  <2>4. code = 0 => Worked
    BY <1>4 DEF ScriptExits, Worked
  <2> QED BY <2>1, <2>2, <2>3, <2>4, FrameStep
<1> QED BY <1>1, <1>2, <1>3, <1>4 DEF StreamServer

LEMMA SignalStep == ASSUME StreamInv, SignalAborted PROVE StreamInv'
<1> USE DEF StreamInv
<1>1. /\ UNCHANGED <<kind, target, size, step, collector, progress, received, attached, gate,
                     supplied, buffer, queueEnd, pending, expected, delivered, exitCode,
                     obtained, result>>
      /\ CutCall
  BY DEF SignalAborted, fileVars, serverSide, queueVars
<1>2. /\ frames' \in Seq(Frames) /\ call' \in {"none", "ended", "aborted"}
      /\ ExitInv' /\ (FramesInOrder => FramesInOrder')
  BY <1>1, CutFacts, OldFrames
<1>3. StreamTypes'
  BY <1>1, <1>2 DEF StreamTypes
<1>4. LineInv'
  <2>1. Live' <=> Live
    BY <1>1 DEF Live
  <2>2. /\ \A n : Beyond(obtained, buffer, n)' <=> Beyond(obtained, buffer, n)
        /\ InOrder(obtained, buffer, progress)' <=> InOrder(obtained, buffer, progress)
    BY <1>1
  <2> QED BY <1>1, <1>2, <2>1, <2>2 DEF LineInv
<1>5. StdinInv'
  BY <1>1, <1>2 DEF StdinInv
<1>6. result' = "resolved" => FileWhole'
  BY <1>1 DEF FileWhole
<1> QED BY <1>1, <1>2, <1>3, <1>4, <1>5, <1>6

\* An operation that fails or is left cuts its call, and nothing of it is claimed.
LEMMA LeftStep ==
    ASSUME StreamInv, step' = "cleanup", result' # "resolved", CutCall,
           UNCHANGED <<kind, target, size, collector, progress, received, attached, supplied,
                       buffer, pending, expected, delivered, exitCode, obtained>>,
           queueEnd' \in {"open", "closed", "failed"}
    PROVE  StreamInv'
<1> USE DEF StreamInv
<1>1. /\ frames' \in Seq(Frames) /\ call' \in {"none", "ended", "aborted"} /\ ExitInv'
  BY CutFacts, OldFrames
<1>2. StreamTypes'
  BY <1>1 DEF StreamTypes
<1>3. LineInv'
  BY DEF LineInv, Live
<1>4. StdinInv'
  BY <1>1 DEF StdinInv
<1> QED BY <1>1, <1>2, <1>3, <1>4

LEMMA StatStep == ASSUME StreamInv, StatEnds PROVE StreamInv'
<1> USE DEF StreamInv
<1>1. /\ kind = "read" /\ step = "stat"
      /\ UNCHANGED <<kind, target, size, progress, received, attached, gate, supplied, delivered,
                     exitCode, aborted, frames, buffer, queueEnd, pending, obtained>>
      /\ expected' \in {Unknown, size}
      /\ \/ step' = "loop" /\ call' = "open" /\ collector' = "frames" /\ UNCHANGED result
         \/ step' = "done" /\ result' # "resolved" /\ UNCHANGED <<call, collector>>
  BY DEF StatEnds, readerRest, fileVars, serverSide, queueVars, Settle
<1>2. Live /\ collector = "none" /\ queueEnd = "open"
  BY <1>1 DEF Live, LineInv
<1>3. StreamTypes'
  BY <1>1, <1>2 DEF StreamTypes
<1>4. ExitInv'
  <2>1. Worked' <=> Worked
    BY <1>1 DEF Worked
  <2> QED BY <1>1, <2>1 DEF ExitInv
<1>5. LineInv'
  <2>1. /\ \A n : Beyond(obtained, buffer, n)' <=> Beyond(obtained, buffer, n)
        /\ InOrder(obtained, buffer, progress)' <=> InOrder(obtained, buffer, progress)
    BY <1>1
  <2>2. CASE step' = "loop"
    <3>1. collector' = "frames"
      BY <1>1, <2>2
    <3>2. FramesInOrder'
      BY <1>1, <1>2, <2>1, <3>1 DEF FramesInOrder, LineInv
    <3> QED BY <1>1, <1>2, <2>1, <2>2, <3>1, <3>2 DEF LineInv
  <2>3. CASE step' = "done"
    BY <2>3 DEF LineInv, Live
  <2> QED BY <1>1, <2>2, <2>3
<1>6. StdinInv'
  BY <1>1 DEF StdinInv
<1> QED BY <1>1, <1>3, <1>4, <1>5, <1>6

LEMMA ReadChunkStep == ASSUME StreamInv, ReadChunk PROVE StreamInv'
<1> USE DEF StreamInv
<1>1. /\ kind = "read" /\ step = "loop" /\ buffer # <<>>
      /\ buffer' = Tail(buffer) /\ obtained' = Append(obtained, Head(buffer)) /\ step' = "held"
      /\ UNCHANGED <<kind, target, size, progress, received, attached, supplied, delivered,
                     exitCode, call, frames, collector, pending, queueEnd, expected, result>>
  BY DEF ReadChunk, readerRest, fileVars, serverSide
<1>2. obtained \in Seq(Nat) /\ buffer \in Seq(Nat) /\ progress \in Nat
  BY DEF StreamTypes
<1>3. /\ buffer' \in Seq(Nat) /\ Len(buffer') = Len(buffer) - 1 /\ Len(buffer) \in Nat
      /\ obtained' \in Seq(Nat) /\ Len(obtained') = Len(obtained) + 1 /\ Len(obtained) \in Nat
  BY <1>1, <1>2, HeadTailProperties, AppendProperties, LenProperties
<1>4. StreamTypes'
  BY <1>1, <1>3 DEF StreamTypes
<1>5. ExitInv'
  <2>1. Worked' <=> Worked
    BY <1>1 DEF Worked
  <2> QED BY <1>1, <2>1 DEF ExitInv
<1>6. LineInv'
  <2>1. Live
    BY <1>1 DEF Live
  <2>2. /\ InOrder(obtained', buffer', progress)
        /\ \A n : Beyond(obtained, buffer, n) => Beyond(obtained', buffer', n)
    BY <1>1, <1>2, <2>1, ReadKeepsLine DEF LineInv
  <2>3. InOrder(obtained, buffer, progress)' /\ \A n : Beyond(obtained, buffer, n) => Beyond(obtained, buffer, n)'
    BY <1>1, <2>2
  <2>4. FramesInOrder'
    BY <1>1, <2>1, <2>3 DEF FramesInOrder, LineInv
  <2> QED BY <1>1, <1>3, <2>1, <2>3, <2>4 DEF LineInv
<1>7. StdinInv'
  BY <1>1 DEF StdinInv
<1> QED BY <1>1, <1>4, <1>5, <1>6, <1>7

\* A drained and closed queue: with an exit of 0, the count tells if all is there.
LEMMA ReadEndsStep == ASSUME StreamInv, ReadEnds PROVE StreamInv'
<1> USE DEF StreamInv
<1>1. /\ kind = "read" /\ step = "loop" /\ buffer = <<>> /\ queueEnd = "closed" /\ step' = "done"
      /\ result' = "resolved" => Verdict = "resolved"
      /\ UNCHANGED <<kind, target, size, progress, received, attached, supplied, delivered, exitCode,
                     call, frames, collector, buffer, queueEnd, pending, expected, obtained>>
  BY DEF ReadEnds, Settle, readerRest, fileVars, serverSide, queueVars
<1>2. /\ delivered = Len(obtained) + Len(buffer) /\ InOrder(obtained, buffer, progress)
      /\ collector = "done" /\ exitCode \in 0..3 /\ expected \in {Unknown, size}
  BY <1>1 DEF LineInv, Live
<1>3. ASSUME result' = "resolved" PROVE FileWhole'
  <2>1. Verdict = "resolved"
    BY <1>1, <1>3
  <2>2. exitCode = 0 /\ ~(expected >= CheckMin /\ delivered < expected)
    BY <1>2, <2>1 DEF Verdict
  <2>3. target = "file"
    BY <1>1, <2>2 DEF ExitInv, Worked
  <2>4. Len(buffer) = 0 /\ Len(obtained) \in Nat /\ obtained \in Seq(Nat)
    BY <1>1, LenProperties DEF StreamTypes
  <2>5. delivered = Len(obtained)
    BY <1>2, <2>4
  <2>6. CASE ~(expected < CheckMin)
    <3>1. expected = size /\ Len(obtained) >= size /\ progress \in 0..size /\ size \in Nat
      BY <1>2, <2>2, <2>5, <2>6, StreamAssumption DEF Unknown, StreamTypes
    <3>2. obtained = [i \in 1..progress |-> i]
      BY <1>1, <1>2, <2>4, <3>1, AllThere
    <3>3. Len(obtained) = progress
      BY <3>1, <3>2
    <3>4. progress = size
      BY <3>1, <3>3
    <3> QED BY <1>1, <2>3, <2>5, <3>2, <3>4 DEF FileWhole
  <2> QED BY <1>1, <2>3, <2>5, <2>6 DEF FileWhole
<1>4. StreamTypes'
  BY <1>1 DEF StreamTypes
<1>5. ExitInv'
  <2>1. Worked' <=> Worked
    BY <1>1 DEF Worked
  <2> QED BY <1>1, <2>1 DEF ExitInv
<1>6. LineInv' /\ StdinInv'
  BY <1>1 DEF LineInv, Live, StdinInv
<1> QED BY <1>1, <1>2, <1>3, <1>4, <1>5, <1>6

LEMMA CleanupStep == ASSUME StreamInv, CleanupEnds PROVE StreamInv'
<1> USE DEF StreamInv
<1>1. /\ step = "cleanup" /\ step' = "done"
      /\ UNCHANGED <<kind, target, size, progress, received, attached, supplied, delivered, exitCode,
                     call, frames, collector, buffer, queueEnd, pending, expected, obtained, result>>
  BY DEF CleanupEnds, readerRest, fileVars, serverSide, queueVars
<1>2. StreamTypes'
  BY <1>1 DEF StreamTypes
<1>3. ExitInv'
  <2>1. Worked' <=> Worked
    BY <1>1 DEF Worked
  <2> QED BY <1>1, <2>1 DEF ExitInv
<1>4. LineInv' /\ StdinInv'
  BY <1>1 DEF LineInv, Live, StdinInv
<1> QED BY <1>1, <1>2, <1>3, <1>4

LEMMA LeaveStep == ASSUME StreamInv, NEW how, how # "resolved", Leave(how) PROVE StreamInv'
<1>1. queueEnd' \in {"open", "closed", "failed"}
  BY DEF Leave, EndQueue, StreamInv, StreamTypes
<1> QED BY <1>1, LeftStep DEF Leave, readerRest, fileVars, serverSide

LEMMA ThrowsStep == ASSUME StreamInv, NEW how, how # "resolved", WriteThrows(how) PROVE StreamInv'
<1>1. queueEnd' \in {"open", "closed", "failed"}
  BY DEF WriteThrows, writerRest, queueVars, StreamInv, StreamTypes
<1> QED BY <1>1, LeftStep DEF WriteThrows, writerRest, fileVars, queueVars

LEMMA ReaderStep ==
    ASSUME StreamInv, StatEnds \/ ReadChunk \/ ReadOn \/ ReadThrows \/ ReadEnds \/ CleanupEnds
    PROVE  StreamInv'
<1>1. CASE ReadOn
  <2>1. CASE Leave("abandoned")
    BY <2>1, LeaveStep
  <2>2. CASE ~Leave("abandoned")
    <3> USE DEF StreamInv
    <3>1. /\ kind = "read" /\ step = "held" /\ step' = "loop"
          /\ UNCHANGED <<kind, target, size, progress, received, attached, supplied, delivered,
                         exitCode, call, frames, collector, buffer, queueEnd, pending, expected,
                         obtained, result>>
      BY <1>1, <2>2 DEF ReadOn, readerRest, fileVars, serverSide, queueVars
    <3>2. StreamTypes'
      BY <3>1 DEF StreamTypes
    <3>3. ExitInv'
      <4>1. Worked' <=> Worked
        BY <3>1 DEF Worked
      <4> QED BY <3>1, <4>1 DEF ExitInv
    <3>4. LineInv'
      <4>1. /\ \A n : Beyond(obtained, buffer, n)' <=> Beyond(obtained, buffer, n)
            /\ InOrder(obtained, buffer, progress)' <=> InOrder(obtained, buffer, progress)
        BY <3>1
      <4>2. Live
        BY <3>1 DEF Live
      <4>3. FramesInOrder'
        BY <3>1, <4>1, <4>2 DEF FramesInOrder, LineInv
      <4> QED BY <3>1, <4>1, <4>2, <4>3 DEF LineInv
    <3>5. StdinInv'
      BY <3>1 DEF StdinInv
    <3> QED BY <3>1, <3>2, <3>3, <3>4, <3>5
  <2> QED BY <2>1, <2>2
<1>2. CASE ReadThrows
  BY <1>2, LeaveStep DEF ReadThrows
<1> QED BY <1>1, <1>2, StatStep, ReadChunkStep, ReadEndsStep, CleanupStep

\* A chunk is pushed to the queue of a reader who is there.
LEMMA PushedStep ==
    ASSUME StreamInv, NEW chunk \in 1..progress, Push(chunk), collector \in {"frames", "push"},
           frames' \in Seq(Frames),
           Live => /\ Beyond(obtained, buffer, chunk)
                   /\ \A i \in DOMAIN frames' : frames'[i].type = "stdout" =>
                         /\ chunk < frames'[i].value
                         /\ Beyond(obtained, buffer, frames'[i].value)
                         /\ \A j \in DOMAIN frames' :
                               j < i /\ frames'[j].type = "stdout" => frames'[j].value < frames'[i].value,
           \A i \in DOMAIN frames' : \E j \in DOMAIN frames : frames'[i] = frames[j],
           UNCHANGED <<kind, target, size, progress, received, attached, supplied, step, call,
                       exitCode, expected, obtained, result>>
    PROVE  StreamInv'
<1> USE DEF StreamInv
<1>1. /\ progress \in Nat /\ delivered \in Nat /\ chunk \in Nat
      /\ buffer \in Seq(Nat) /\ obtained \in Seq(Nat)
  BY DEF StreamTypes
<1>2. \/ /\ collector' = "push" /\ pending' = chunk /\ UNCHANGED <<buffer, queueEnd, delivered>>
      \/ /\ queueEnd = "open" /\ buffer' = Append(buffer, chunk)
         /\ delivered' = delivered + 1 /\ collector' = "frames" /\ UNCHANGED queueEnd
      \/ /\ queueEnd # "open" /\ UNCHANGED buffer
         /\ delivered' = delivered + 1 /\ collector' = "frames" /\ UNCHANGED queueEnd
  BY DEF Push
<1>3. /\ Append(buffer, chunk) \in Seq(Nat) /\ Len(Append(buffer, chunk)) = Len(buffer) + 1
      /\ Len(buffer) \in Nat /\ Len(obtained) \in Nat
  BY <1>1, AppendProperties, LenProperties
<1>4. StreamTypes'
  <2>1. /\ buffer' \in Seq(Nat) /\ delivered' \in Nat /\ collector' \in {"frames", "push"}
        /\ collector' = "push" => pending' = chunk
        /\ UNCHANGED queueEnd
    <3>1. buffer' = buffer \/ buffer' = Append(buffer, chunk)
      BY <1>2
    <3>2. delivered' = delivered \/ delivered' = delivered + 1
      BY <1>2
    <3>3. /\ collector' \in {"frames", "push"} /\ UNCHANGED queueEnd
          /\ collector' = "push" => pending' = chunk
      BY <1>2
    <3>4. buffer' \in Seq(Nat)
      BY Zenon, <1>1, <1>3, <3>1
    <3>5. delivered' \in Nat
      BY <1>1, <3>2
    <3> QED BY <3>3, <3>4, <3>5
  <2> QED BY <2>1 DEF StreamTypes
<1>5. ExitInv'
  <2>1. Worked' <=> Worked
    BY DEF Worked
  <2> QED BY <2>1 DEF ExitInv
<1>6. ASSUME Live' PROVE LineInv'
  <2>1. Live /\ queueEnd = "open" /\ step # "stat"
    BY <1>6 DEF Live, LineInv
  <2>2. CASE collector' = "push" /\ pending' = chunk /\ UNCHANGED <<buffer, queueEnd, delivered>>
    <3>1. /\ \A n : Beyond(obtained, buffer, n)' <=> Beyond(obtained, buffer, n)
          /\ InOrder(obtained, buffer, progress)' <=> InOrder(obtained, buffer, progress)
      BY <2>2
    <3>2. FramesInOrder'
      BY <2>1, <2>2, <3>1 DEF FramesInOrder
    <3> QED BY <2>1, <2>2, <3>1, <3>2 DEF LineInv
  <2>3. CASE /\ buffer' = Append(buffer, chunk) /\ delivered' = delivered + 1
             /\ collector' = "frames" /\ UNCHANGED queueEnd
    <3>1. /\ InOrder(obtained, buffer', progress)
          /\ \A later \in Nat : chunk < later => Beyond(obtained, buffer', later)
      BY <1>1, <2>1, <2>3, LinePushed DEF LineInv
    <3>2. /\ InOrder(obtained, buffer, progress)'
          /\ \A later \in Nat : chunk < later => Beyond(obtained, buffer, later)'
      BY <3>1
    <3>3. \A i \in DOMAIN frames' : frames'[i].value \in Nat
      <4>1. frames' \in [1..Len(frames') -> Frames]
        BY LenProperties
      <4> QED BY <4>1 DEF Frames
    <3>4. FramesInOrder'
      BY <2>1, <2>3, <3>2, <3>3 DEF FramesInOrder
    <3>5. delivered' = Len(obtained') + Len(buffer')
      BY <1>1, <1>3, <2>1, <2>3 DEF LineInv
    <3> QED BY <2>1, <2>3, <3>2, <3>4, <3>5 DEF LineInv
  <2> QED BY <1>2, <2>1, <2>2, <2>3
<1>7. LineInv'
  BY <1>6 DEF LineInv
<1>8. StdinInv'
  BY DEF StdinInv
<1> QED BY <1>4, <1>5, <1>7, <1>8

LEMMA PushGoesOnStep == ASSUME StreamInv, PushGoesOn PROVE StreamInv'
<1> USE DEF StreamInv
<1>1. collector = "push" /\ Push(pending) /\ pending \in 1..progress /\ UNCHANGED frames
      /\ UNCHANGED <<kind, target, size, progress, received, attached, supplied, step, call,
                     exitCode, expected, obtained, result>>
  BY DEF PushGoesOn, fileVars, serverSide, StreamTypes
<1>2. frames' \in Seq(Frames) /\ \A i \in DOMAIN frames' : \E j \in DOMAIN frames : frames'[i] = frames[j]
  BY <1>1 DEF StreamTypes
<1>3. Live => /\ Beyond(obtained, buffer, pending)
              /\ \A i \in DOMAIN frames' : frames'[i].type = "stdout" =>
                    /\ pending < frames'[i].value
                    /\ Beyond(obtained, buffer, frames'[i].value)
                    /\ \A j \in DOMAIN frames' :
                          j < i /\ frames'[j].type = "stdout" => frames'[j].value < frames'[i].value
  BY <1>1 DEF LineInv, FramesInOrder
<1> QED BY <1>1, <1>2, <1>3, PushedStep

\* The frames behind the one that is taken.
LEMMA TailFrames ==
    ASSUME NEW fs \in Seq(Frames), fs # <<>>
    PROVE  /\ Tail(fs) \in Seq(Frames) /\ 1 \in DOMAIN fs /\ Head(fs) = fs[1] /\ fs[1] \in Frames
           /\ DOMAIN Tail(fs) \subseteq Nat
           /\ \A i \in DOMAIN Tail(fs) :
                  i \in Nat /\ i + 1 > 1 /\ i + 1 \in DOMAIN fs /\ Tail(fs)[i] = fs[i + 1]
<1>1. Len(fs) \in Nat \ {0} /\ fs \in [1..Len(fs) -> Frames] /\ Head(fs) = fs[1]
  BY LenProperties, HeadTailProperties
<1>2. /\ Tail(fs) \in Seq(Frames) /\ Len(Tail(fs)) = Len(fs) - 1
      /\ \A i \in 1..Len(Tail(fs)) : Tail(fs)[i] = fs[i + 1]
  BY HeadTailProperties
<1>3. DOMAIN Tail(fs) = 1..(Len(fs) - 1)
  BY <1>2, LenProperties
<1> QED BY <1>1, <1>2, <1>3

LEMMA CollectStep == ASSUME StreamInv, Collect PROVE StreamInv'
<1> USE DEF StreamInv
<1> DEFINE frame == Head(frames)
<1>1. /\ collector = "frames" /\ frames # <<>> /\ frames' = Tail(frames) /\ frames \in Seq(Frames)
      /\ UNCHANGED <<kind, target, size, step, call, progress, received, attached, supplied,
                     expected, obtained, result>>
      /\ CollectReadFrame(frame) \/ CollectWriteFrame(frame)
  BY DEF Collect, fileVars, serverSide, StreamTypes
<1>2. /\ frames' \in Seq(Frames) /\ 1 \in DOMAIN frames /\ frame = frames[1] /\ frame \in Frames
      /\ DOMAIN frames' \subseteq Nat
      /\ \A i \in DOMAIN frames' :
             i \in Nat /\ i + 1 > 1 /\ i + 1 \in DOMAIN frames /\ frames'[i] = frames[i + 1]
  BY <1>1, TailFrames
<1> HIDE DEF frame
<1>3. Worked' <=> Worked
  BY <1>1 DEF Worked
<1>4. frame.type \in {"stdout", "ready", "exit", "error"}
      /\ frame.type # (IF kind = "read" THEN "ready" ELSE "stdout")
  BY <1>2 DEF ExitInv, Frames
<1>5. ASSUME Live
      PROVE  \A i \in DOMAIN frames' : frames'[i].type = "stdout" =>
                 /\ frame.type = "stdout" => frame.value < frames'[i].value
                 /\ Beyond(obtained, buffer, frames'[i].value)
                 /\ \A j \in DOMAIN frames' :
                       j < i /\ frames'[j].type = "stdout" => frames'[j].value < frames'[i].value
  BY <1>2, <1>5 DEF LineInv, FramesInOrder
<1>6. CASE kind = "read" /\ frame.type = "stdout"
  <2>1. Push(frame.value) /\ UNCHANGED exitCode
    BY <1>1, <1>6 DEF CollectReadFrame, CollectWriteFrame
  <2>2. frame.value \in 1..progress
    BY <1>2, <1>6 DEF ExitInv
  <2>3. Live => Beyond(obtained, buffer, frame.value)
    BY <1>2, <1>6 DEF LineInv, FramesInOrder
  <2>4. \A i \in DOMAIN frames' : \E j \in DOMAIN frames : frames'[i] = frames[j]
    BY <1>2
  <2> QED BY <1>1, <1>2, <1>5, <1>6, <2>1, <2>2, <2>3, <2>4, PushedStep
\* What is left holds for every frame that is no chunk.
<1>7. ASSUME frame.type \in {"ready", "exit", "error"},
             UNCHANGED <<buffer, pending, delivered>>, collector' \in {"frames", "done", "rejected"},
             kind = "read" => collector' = "done",
             queueEnd' = queueEnd \/ (kind = "read" /\ queueEnd' \in {"closed", "failed"}),
             exitCode' = exitCode \/ (exitCode' = frame.value /\ frame.type = "exit"),
             kind = "read" /\ queueEnd = "open" /\ queueEnd' = "closed" =>
                 exitCode' = frame.value /\ frame.type = "exit"
      PROVE  StreamInv'
  <2>1. frame.type = "exit" => frame.value \in 0..3 /\ (frame.value = 0 => Worked)
    BY <1>2 DEF ExitInv
  <2>2. StreamTypes'
    BY <1>1, <1>2, <1>7, <2>1 DEF StreamTypes
  <2>3. ExitInv'
    BY <1>1, <1>2, <1>3, <1>7, <2>1 DEF ExitInv
  <2>4. LineInv'
    <3>1. Live' <=> Live
      BY <1>1 DEF Live
    <3>2. /\ \A n : Beyond(obtained, buffer, n)' <=> Beyond(obtained, buffer, n)
          /\ InOrder(obtained, buffer, progress)' <=> InOrder(obtained, buffer, progress)
      BY <1>1, <1>7
    <3>3. Live => FramesInOrder'
      BY <1>5, <1>7, <3>2 DEF FramesInOrder, Live
    <3>4. Live => queueEnd = "open" /\ step # "stat" /\ collector' = "done"
      BY <1>1, <1>7 DEF LineInv, Live
    <3> QED BY <1>1, <1>7, <2>1, <3>1, <3>2, <3>3, <3>4 DEF LineInv
  <2>5. StdinInv'
    BY <1>1 DEF StdinInv
  <2> QED BY <1>1, <2>2, <2>3, <2>4, <2>5
<1>8. CASE kind = "read" /\ frame.type # "stdout"
  <2>1. CollectReadFrame(frame) /\ frame.type \in {"exit", "error"}
    BY <1>1, <1>4, <1>8 DEF CollectWriteFrame
  <2>2. queueEnd \in {"open", "closed", "failed"}
    BY DEF StreamTypes
  <2> QED BY <1>7, <1>8, <2>1, <2>2 DEF CollectReadFrame, EndQueue
<1>9. CASE kind = "write"
  <2>1. CollectWriteFrame(frame) /\ frame.type \in {"ready", "exit", "error"}
    BY <1>1, <1>4, <1>9 DEF CollectReadFrame
  <2> QED BY <1>1, <1>7, <1>9, <2>1 DEF CollectWriteFrame, queueVars
<1> QED BY <1>6, <1>8, <1>9 DEF StreamTypes

\* The writer goes on.
LEMMA WriterGoesOn ==
    ASSUME StreamInv, kind = "write", step \in {"source", "write", "close", "collect"},
           step' \in {"source", "write", "close", "collect", "done"},
           UNCHANGED <<kind, target, size, progress, buffer, pending, queueEnd, expected, delivered,
                       exitCode, obtained, collector, call, frames>>,
           supplied' \in 0..size, received' \in Seq(Nat), attached' \in {"no", "yes", "eof"},
           attached = "eof" => attached' = "eof",
           StdinInv',
           result' = "resolved" => step' = "done" /\ collector = "done" /\ FileWhole'
    PROVE  StreamInv'
<1> USE DEF StreamInv
<1>1. StreamTypes'
  BY DEF StreamTypes
<1>2. ExitInv'
  <2>1. Worked => Worked'
    BY DEF Worked
  <2> QED BY <2>1 DEF ExitInv
<1>3. LineInv'
  BY DEF LineInv, Live
<1> QED BY <1>1, <1>2, <1>3

LEMMA SourceStep == ASSUME StreamInv, SourceGives PROVE StreamInv'
<1> USE DEF StreamInv
<1>1. CASE WriteThrows("aborted") \/ WriteThrows("invalid")
  BY <1>1, ThrowsStep
<1>2. CASE ~WriteThrows("aborted") /\ ~WriteThrows("invalid")
  <2>1. /\ kind = "write" /\ step = "source"
        /\ \/ supplied < size /\ supplied' = supplied + 1 /\ step' = "write"
           \/ supplied = size /\ supplied' = supplied /\ step' = "close"
        /\ UNCHANGED <<kind, target, size, progress, buffer, pending, queueEnd, expected, delivered,
                       exitCode, obtained, collector, call, frames, received, attached, result>>
    BY <1>2 DEF SourceGives, writerRest, fileVars, queueVars
  <2>2. supplied \in 0..size /\ size \in Nat /\ received \in Seq(Nat) /\ attached \in {"no", "yes", "eof"}
    BY DEF StreamTypes
  <2>3. (supplied + 1) - 1 = supplied
    BY <2>2
  <2>4. StdinInv'
    BY <2>1, <2>2, <2>3 DEF StdinInv
  <2>5. supplied' \in 0..size /\ result # "resolved"
    BY <2>1, <2>2
  <2> QED BY <2>1, <2>2, <2>4, <2>5, WriterGoesOn
<1> QED BY <1>1, <1>2

\* One more element of the identity.
LEMMA OneMore ==
    ASSUME NEW n \in Nat, n > 0, NEW s, s = [i \in 1..(n - 1) |-> i]
    PROVE  Append(s, n) = [i \in 1..n |-> i] /\ Append(s, n) \in Seq(Nat)
<1>1. s \in Seq(Nat) /\ Len(s) = n - 1
  BY DEF Seq
<1>2. /\ Append(s, n) \in Seq(Nat) /\ Len(Append(s, n)) = n /\ Append(s, n)[n] = n
      /\ \A i \in 1..(n - 1) : Append(s, n)[i] = s[i]
  BY <1>1, AppendProperties
<1>3. Append(s, n) \in [1..n -> Nat] /\ \A i \in 1..n : Append(s, n)[i] = i
  <2>1. Append(s, n) \in [1..n -> Nat]
    BY <1>2, LenProperties
  <2>2. \A i \in 1..n : i = n \/ i \in 1..(n - 1)
    OBVIOUS
  <2> QED BY <1>2, <2>1, <2>2
<1> QED BY <1>2, <1>3

LEMMA WriteStep == ASSUME StreamInv, Write PROVE StreamInv'
<1> USE DEF StreamInv
<1>1. CASE WriteThrows("io")
  BY <1>1, ThrowsStep
<1>2. kind = "write" /\ step \in {"write", "close"} /\ attached # "eof" /\ result # "resolved"
      /\ supplied \in 0..size /\ size \in Nat /\ received \in Seq(Nat)
      /\ attached \in {"no", "yes", "eof"}
  BY DEF Write, StreamTypes, StdinInv
<1>3. CASE SendsInVain /\ Over
  <2>1. /\ step' = IF step = "write" THEN "source" ELSE "collect"
        /\ UNCHANGED <<kind, target, size, progress, buffer, pending, queueEnd, expected, delivered,
                       exitCode, obtained, collector, call, frames, received, attached, supplied,
                       result>>
    BY <1>3 DEF SendsInVain, writerRest, fileVars, queueVars
  <2>2. call # "open"
    BY <1>3 DEF Over
  <2>3. StdinInv'
    BY <1>2, <2>1, <2>2 DEF StdinInv
  <2> QED BY <1>2, <2>1, <2>3, WriterGoesOn
<1>4. CASE Sends(IF step = "write" THEN "source" ELSE "collect")
  <2>1. /\ call = "open"
        /\ UNCHANGED <<kind, target, size, progress, buffer, pending, queueEnd, expected, delivered,
                       exitCode, obtained, collector, call, frames, supplied, result>>
    BY <1>4 DEF Sends, writerRest, fileVars, queueVars
  <2>2. CASE step = "write"
    <3>1. step' = "source" /\ received' = Append(received, supplied) /\ UNCHANGED attached
      BY <1>4, <2>2 DEF Sends
    <3>2. supplied \in Nat /\ supplied > 0 /\ received = [i \in 1..(supplied - 1) |-> i]
      BY <1>2, <2>1, <2>2 DEF StdinInv
    <3>3. received' = [i \in 1..supplied |-> i] /\ received' \in Seq(Nat)
      BY <3>1, <3>2, OneMore
    <3>4. StdinInv'
      BY <1>2, <2>1, <3>1, <3>3 DEF StdinInv
    <3> QED BY <1>2, <2>1, <3>1, <3>3, <3>4, WriterGoesOn
  <2>3. CASE step = "close"
    <3>1. step' = "collect" /\ attached' = "eof" /\ UNCHANGED received
      BY <1>4, <2>3 DEF Sends
    <3>2. supplied = size /\ received = [i \in 1..supplied |-> i]
      BY <1>2, <2>1, <2>3 DEF StdinInv
    <3>3. StdinInv'
      BY <1>2, <2>1, <3>1, <3>2 DEF StdinInv
    <3> QED BY <1>2, <2>1, <3>1, <3>3, WriterGoesOn
  <2> QED BY <1>2, <2>2, <2>3
<1> QED BY <1>1, <1>3, <1>4 DEF Write

LEMMA WriteEndsStep == ASSUME StreamInv, WriteEnds PROVE StreamInv'
<1> USE DEF StreamInv
<1>1. CASE \E how \in {"io", "directory"} : WriteThrows(how)
  BY <1>1, ThrowsStep
<1>2. CASE ~\E how \in {"io", "directory"} : WriteThrows(how)
  <2>1. /\ kind = "write" /\ step = "collect" /\ collector = "done" /\ exitCode = 0
        /\ step' = "done" /\ result' = "resolved"
        /\ UNCHANGED <<kind, target, size, progress, buffer, pending, queueEnd, expected, delivered,
                       exitCode, obtained, collector, call, frames, received, attached, supplied>>
    BY <1>2 DEF WriteEnds, Settle, writerRest, fileVars, queueVars
  <2>2. attached = "eof" /\ received = [i \in 1..size |-> i]
    BY <2>1 DEF ExitInv, Worked, StdinInv
  <2>3. FileWhole' /\ StdinInv'
    BY <2>1, <2>2 DEF FileWhole, StdinInv
  <2>4. supplied \in 0..size /\ received \in Seq(Nat) /\ attached \in {"no", "yes", "eof"}
    BY DEF StreamTypes
  <2> QED BY <2>1, <2>3, <2>4, WriterGoesOn
<1> QED BY <1>1, <1>2

LEMMA StreamStep == ASSUME StreamInv, [StreamNext]_streamVars PROVE StreamInv'
<1>1. CASE UNCHANGED streamVars
  <2>1. /\ UNCHANGED <<kind, target, size, step, call, frames, collector, progress, received, attached,
                       gate, supplied, buffer, queueEnd, pending, expected, delivered, exitCode,
                       obtained, aborted, result>>
    BY <1>1 DEF streamVars, fileVars, serverSide, queueVars
  <2>2. StreamTypes' /\ StdinInv'
    BY <2>1 DEF StreamInv, StreamTypes, StdinInv
  <2>3. Worked' <=> Worked
    BY <2>1 DEF Worked
  <2>4. ExitInv'
    BY <2>1, <2>3 DEF StreamInv, ExitInv
  <2>5. /\ \A n : Beyond(obtained, buffer, n)' <=> Beyond(obtained, buffer, n)
        /\ InOrder(obtained, buffer, progress)' <=> InOrder(obtained, buffer, progress)
    BY <2>1
  <2>6. (FramesInOrder' <=> FramesInOrder) /\ (Live' <=> Live)
    BY <2>1, <2>5 DEF FramesInOrder, Live
  <2>7. LineInv'
    BY <2>1, <2>5, <2>6 DEF StreamInv, LineInv
  <2> QED BY <2>1, <2>2, <2>4, <2>7 DEF StreamInv, FileWhole
<1>2. CASE StreamNext
  BY <1>2, ServerStep, CollectStep, PushGoesOnStep, ReaderStep, WriteStep, WriteEndsStep, SourceStep,
     SignalStep
     DEF StreamNext, StreamClient, StreamUser
<1> QED BY <1>1, <1>2

----------------------------------------------------------------------------

\* A file that is streamed, and every file of a batch, arrives whole and once when
\* the operation resolves: for every length of file, capacity of the queue, number
\* of workers and files and all caps, whatever frames are lost on the way.
THEOREM FilesArriveWhole == MCSpec => []FilesWhole
<1>1. MCInit => StreamInv /\ BatchInv
  BY StreamInitInv, BatchInitInv DEF MCInit
<1>2. [MCNext]_all => [StreamNext]_streamVars /\ [BatchNext]_batchVars
  BY DEF MCNext, all, OnlyCall, OnlyStream, OnlyBatch
<1>3. StreamInv /\ [MCNext]_all => StreamInv'
  BY <1>2, StreamStep
<1>4. BatchInv /\ [MCNext]_all => BatchInv'
  BY <1>2, BatchStep
<1>5. StreamInv /\ BatchInv => FilesWhole
  BY BatchHolds DEF FilesWhole, StreamInv, FileWhole
<1> QED BY <1>1, <1>3, <1>4, <1>5, PTL DEF MCSpec
=============================================================================
