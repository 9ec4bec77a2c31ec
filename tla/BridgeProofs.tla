---------------------------- MODULE BridgeProofs ----------------------------
(***************************************************************************)
(* Safety of the bridge for any number of exchanges, fetches and frames.   *)
(***************************************************************************)
EXTENDS Bridge, SequenceTheorems, TLAPS

-----------------------------------------------------------------------------
(* Sequences                                                               *)

\* The head of a queue, and what is left behind it.
LEMMA Dequeue ==
    ASSUME NEW S, NEW s \in Seq(S), s # <<>>
    PROVE  /\ Head(s) \in S
           /\ Head(s) = s[1]
           /\ 1 \in DOMAIN s
           /\ Tail(s) \in Seq(S)
           /\ \A i \in DOMAIN Tail(s) : i + 1 \in DOMAIN s /\ Tail(s)[i] = s[i + 1]
           /\ \A i \in DOMAIN s : i # 1 => i - 1 \in DOMAIN Tail(s) /\ Tail(s)[i - 1] = s[i]
<1>1. Len(s) \in Nat /\ Len(s) > 0 /\ DOMAIN s = 1..Len(s)
  BY EmptySeq, LenProperties
<1>2. /\ Tail(s) \in Seq(S) /\ Len(Tail(s)) = Len(s) - 1
      /\ \A i \in 1..Len(Tail(s)) : Tail(s)[i] = s[i + 1]
      /\ Head(s) \in S
  BY HeadTailProperties
<1>3. DOMAIN Tail(s) = 1..(Len(s) - 1)
  BY <1>2, LenProperties
<1> QED
  BY <1>1, <1>2, <1>3

\* Removing one place keeps the others in order.
LEMMA Removal ==
    ASSUME NEW S, NEW s \in Seq(S), NEW i \in DOMAIN s
    PROVE  /\ RemoveAt(s, i) \in Seq(S)
           /\ Len(RemoveAt(s, i)) = Len(s) - 1
           /\ DOMAIN RemoveAt(s, i) = 1..(Len(s) - 1)
           /\ \A j \in 1..(Len(s) - 1) :
                RemoveAt(s, i)[j] = IF j < i THEN s[j] ELSE s[j + 1]
<1> DEFINE a == SubSeq(s, 1, i - 1)
           b == SubSeq(s, i + 1, Len(s))
<1>1. Len(s) \in Nat /\ DOMAIN s = 1..Len(s) /\ \A j \in 1..Len(s) : s[j] \in S
  BY LenProperties, ElementOfSeq
<1>2. /\ a \in Seq(S) /\ Len(a) = i - 1
      /\ \A j \in 1..(i - 1) : a[j] = s[j]
  <2>1. i - 1 \in Int /\ 1 \in Int /\ \A j \in 1..(i - 1) : s[j] \in S
    BY <1>1
  <2>2. /\ a \in Seq(S)
        /\ Len(a) = IF 1 <= i - 1 THEN (i - 1) - 1 + 1 ELSE 0
        /\ \A j \in 1..((i - 1) - 1 + 1) : a[j] = s[1 + j - 1]
    BY <2>1, SubSeqProperties
  <2> QED  BY <1>1, <2>2
<1>3. /\ b \in Seq(S) /\ Len(b) = Len(s) - i
      /\ \A j \in 1..(Len(s) - i) : b[j] = s[i + j]
  <2>1. i + 1 \in Int /\ Len(s) \in Int /\ \A j \in (i + 1)..Len(s) : s[j] \in S
    BY <1>1
  <2>2. /\ b \in Seq(S)
        /\ Len(b) = IF i + 1 <= Len(s) THEN Len(s) - (i + 1) + 1 ELSE 0
        /\ \A j \in 1..(Len(s) - (i + 1) + 1) : b[j] = s[(i + 1) + j - 1]
    BY <2>1, SubSeqProperties
  <2>3. ASSUME NEW j \in 1..(Len(s) - i) PROVE b[j] = s[i + j]
    <3>1. (i + 1) + j - 1 = i + j /\ j \in 1..(Len(s) - (i + 1) + 1)
      BY <1>1
    <3> HIDE DEF b
    <3> QED  BY <2>2, <3>1
  <2>4. (IF i + 1 <= Len(s) THEN Len(s) - (i + 1) + 1 ELSE 0) = Len(s) - i
    BY <1>1
  <2> HIDE DEF b
  <2> QED  BY <2>2, <2>3, <2>4
<1>4. /\ a \o b \in Seq(S)
      /\ Len(a \o b) = Len(a) + Len(b)
      /\ \A j \in 1..(Len(a) + Len(b)) :
            (a \o b)[j] = IF j <= Len(a) THEN a[j] ELSE b[j - Len(a)]
  BY <1>2, <1>3, ConcatProperties
<1>5. Len(a \o b) = Len(s) - 1 /\ DOMAIN (a \o b) = 1..(Len(s) - 1)
  BY <1>1, <1>2, <1>3, <1>4, LenProperties
<1>6. RemoveAt(s, i) = a \o b
  BY DEF RemoveAt
<1>7. ASSUME NEW j \in 1..(Len(s) - 1)
      PROVE (a \o b)[j] = IF j < i THEN s[j] ELSE s[j + 1]
  <2>1. CASE j < i
    <3>1. j \in 1..(i - 1) /\ j <= Len(a) /\ j \in 1..(Len(a) + Len(b))
      BY <1>1, <1>2, <1>3, <2>1
    <3> QED  BY <3>1, <2>1, <1>2, <1>4
  <2>2. CASE ~(j < i)
    <3>1. /\ j - (i - 1) \in 1..(Len(s) - i) /\ ~(j <= Len(a)) /\ j \in 1..(Len(a) + Len(b))
          /\ i + (j - (i - 1)) = j + 1
      BY <1>1, <1>2, <1>3, <2>2
    <3> QED  BY <3>1, <2>2, <1>2, <1>3, <1>4
  <2> QED  BY <2>1, <2>2
<1> HIDE DEF a, b
<1> QED
  BY <1>4, <1>5, <1>6, <1>7

\* The elements of a queue without repetitions as jobs come and go.
LEMMA EmptyQueue == ToSet(<<>>) = {} /\ IsInjective(<<>>)
  BY DEF ToSet, IsInjective

LEMMA DequeueSet ==
    ASSUME NEW S, NEW s \in Seq(S), s # <<>>, IsInjective(s)
    PROVE  /\ Head(s) \in ToSet(s)
           /\ ToSet(Tail(s)) = ToSet(s) \ {Head(s)}
           /\ IsInjective(Tail(s))
<1>1. Len(s) \in Nat /\ Len(s) > 0 /\ DOMAIN s = 1..Len(s)
  BY EmptySeq, LenProperties
<1>2. /\ \A i \in DOMAIN Tail(s) : i + 1 \in DOMAIN s /\ Tail(s)[i] = s[i + 1]
      /\ \A i \in DOMAIN s : i # 1 => i - 1 \in DOMAIN Tail(s) /\ Tail(s)[i - 1] = s[i]
      /\ Head(s) = s[1] /\ 1 \in DOMAIN s /\ Tail(s) \in Seq(S)
  BY Dequeue
<1>3. DOMAIN Tail(s) \subseteq Nat
  BY <1>2, LenProperties
<1>4. IsInjective(Tail(s))
  BY <1>1, <1>2, <1>3 DEF IsInjective
<1>5. ASSUME NEW x \in ToSet(Tail(s)) PROVE x \in ToSet(s) \ {Head(s)}
  BY <1>1, <1>2, <1>3 DEF IsInjective, ToSet
<1>6. ASSUME NEW x \in ToSet(s) \ {Head(s)} PROVE x \in ToSet(Tail(s))
  <2>1. PICK i \in DOMAIN s : s[i] = x
    BY DEF ToSet
  <2>2. i - 1 \in DOMAIN Tail(s) /\ Tail(s)[i - 1] = x
    BY <1>2, <2>1
  <2> QED  BY <2>2 DEF ToSet
<1>7. Head(s) \in ToSet(s)
  BY <1>2 DEF ToSet
<1>8. ToSet(Tail(s)) = ToSet(s) \ {Head(s)}
  BY <1>5, <1>6
<1> QED
  BY <1>4, <1>7, <1>8

LEMMA EnqueueSet ==
    ASSUME NEW S, NEW s \in Seq(S), NEW x \in S
    PROVE  /\ ToSet(Append(s, x)) = ToSet(s) \cup {x}
           /\ IsInjective(s) /\ x \notin ToSet(s) => IsInjective(Append(s, x))
           /\ Append(s, x) # <<>>
<1>1. Len(s) \in Nat /\ DOMAIN s = 1..Len(s)
  BY LenProperties
<1>2. /\ Append(s, x) \in Seq(S) /\ Append(s, x) # <<>>
      /\ Len(Append(s, x)) = Len(s) + 1
      /\ \A i \in 1..Len(s) : Append(s, x)[i] = s[i]
      /\ Append(s, x)[Len(s) + 1] = x
  BY AppendProperties
<1>3. DOMAIN Append(s, x) = 1..(Len(s) + 1)
  BY <1>2, LenProperties
<1>4. ASSUME NEW i \in DOMAIN Append(s, x) PROVE Append(s, x)[i] \in ToSet(s) \cup {x}
  <2>1. CASE i = Len(s) + 1
    BY <2>1, <1>2
  <2>2. CASE i # Len(s) + 1
    BY <2>2, <1>1, <1>2, <1>3 DEF ToSet
  <2> QED  BY <2>1, <2>2
<1>5. ASSUME NEW y \in ToSet(s) \cup {x} PROVE y \in ToSet(Append(s, x))
  <2>1. CASE y = x
    BY <2>1, <1>1, <1>2, <1>3 DEF ToSet
  <2>2. CASE y \in ToSet(s)
    BY <2>2, <1>1, <1>2, <1>3 DEF ToSet
  <2> QED  BY <2>1, <2>2
<1>6. IsInjective(s) /\ x \notin ToSet(s) => IsInjective(Append(s, x))
  BY <1>1, <1>2, <1>3 DEF ToSet, IsInjective
<1>7. ToSet(Append(s, x)) = ToSet(s) \cup {x}
  BY <1>4, <1>5 DEF ToSet
<1> QED
  BY <1>2, <1>6, <1>7

-----------------------------------------------------------------------------

\* Handing the lock over keeps its shape.
LEMMA ReleaseType ==
    ASSUME TypeOK, Release
    PROVE  lock' \in Exchanges \cup {NoOne} /\ waiters' \in Seq(Exchanges)
<1>1. CASE waiters = <<>>
  BY <1>1 DEF TypeOK, Release
<1>2. CASE waiters # <<>>
  <2>1. waiters \in Seq(Exchanges)
    BY DEF TypeOK
  <2>2. Head(waiters) \in Exchanges /\ Tail(waiters) \in Seq(Exchanges)
    BY <1>2, <2>1, Dequeue
  <2> QED  BY <1>2, <2>2 DEF Release
<1> QED  BY <1>1, <1>2

\* Draining the queue keeps its shape.
LEMMA DrainType ==
    ASSUME TypeOK, DrainStaleJobs
    PROVE  /\ jobs' \in Seq(Jobs)
           /\ fetch' \in [Jobs -> {"unsent", "queued", "performing", "answered", "closed"}]
  BY DEF TypeOK, DrainStaleJobs, Closed

\* The bookkeeping of the bridge keeps its shape.

LEMMA TypeStep == TypeOK /\ [Next]_vars => TypeOK'
<1> SUFFICES ASSUME TypeOK, [Next]_vars PROVE TypeOK'
  OBVIOUS
<1> USE NoOneAssumption, BoundsAssumption DEF TypeOK, Phases, Tenure, BlockOn, Performing,
      Goto, Moves, DropBody, lockVars, jobVars, toolVars, Closed, EnterHead, FutureReady, Jobs
<1>1. CASE UNCHANGED vars
  BY <1>1 DEF vars
<1>2. CASE Quiescent
  BY <1>2 DEF Quiescent, vars
<1>3. ASSUME NEW e \in Exchanges, CodeStep(e) PROVE TypeOK'
  <2>1. CASE AnswerDefaultRoute(e)  BY <2>1 DEF AnswerDefaultRoute
  <2>2. CASE AcquireHanded(e)  BY <2>2, DrainType DEF AcquireHanded
  <2>3. CASE TakeJob(e)  BY <2>3, Dequeue DEF TakeJob
  <2>4. CASE Performed(e)  BY <2>4 DEF Performed
  <2>5. CASE HeadersReady(e)  BY <2>5 DEF HeadersReady
  <2>6. CASE HeadersRejected(e)  BY <2>6, ReleaseType DEF HeadersRejected
  <2>7. CASE PumpStart(e)  BY <2>7 DEF PumpStart
  <2>8. CASE FrameReady(e)  BY <2>8 DEF FrameReady
  <2>9. CASE BodyEnd(e)  BY <2>9 DEF BodyEnd
  <2>10. CASE SendFailed(e)
    <3>1. lock' \in Exchanges \cup {NoOne} /\ waiters' \in Seq(Exchanges)
      BY <2>10, ReleaseType DEF SendFailed
    <3>2. /\ jobs' \in Seq(Jobs)
          /\ fetch' \in [Jobs -> {"unsent", "queued", "performing", "answered", "closed"}]
      BY <2>10, DrainType DEF SendFailed
    <3>3. pc' \in [Exchanges -> Phases] /\ pending' \in [Exchanges -> 0..MaxPending]
      BY <2>10 DEF SendFailed
    <3>4. UNCHANGED <<current, under, tool>>
      BY <2>10 DEF SendFailed
    <3> QED  BY <3>1, <3>2, <3>3, <3>4
  <2>11. CASE TransmissionObserved(e)  BY <2>11 DEF TransmissionObserved
  <2> QED  BY <1>3, <2>1, <2>2, <2>3, <2>4, <2>5, <2>6, <2>7, <2>8, <2>9, <2>10, <2>11 DEF CodeStep
<1>4. ASSUME NEW e \in Exchanges, PeerStep(e) PROVE TypeOK'
  <2>1. CASE Call(e)  BY <2>1 DEF Call
  <2>2. CASE PayloadTooLarge(e)  BY <2>2 DEF PayloadTooLarge
  <2>3. CASE ReadFailed(e)  BY <2>3 DEF ReadFailed
  <2>4. CASE StaticWritten(e)  BY <2>4 DEF StaticWritten
  <2>5. CASE AcquireFree(e)  BY <2>5, DrainType DEF AcquireFree
  <2>6. CASE AwaitLock(e)  BY <2>6 DEF AwaitLock
  <2>7. CASE TrailersTaken(e)  BY <2>7, ReleaseType, DrainType DEF TrailersTaken
  <2>8. CASE CancelReading(e)  BY <2>8 DEF CancelReading
  <2>9. CASE CancelWaiting(e)
    <3>1. lock' \in Exchanges \cup {NoOne} /\ waiters' \in Seq(Exchanges)
      <4>1. CASE Release  BY <4>1, ReleaseType
      <4>2. CASE ~Release  BY <2>9, <4>2, Removal DEF CancelWaiting
      <4> QED  BY <4>1, <4>2
    <3> QED  BY <2>9, <3>1 DEF CancelWaiting
  <2>10. CASE CancelPerforming(e)  BY <2>10, ReleaseType DEF CancelPerforming
  <2>11. CASE SendAccepted(e)  BY <2>11 DEF SendAccepted
  <2> QED  BY <1>4, <2>1, <2>2, <2>3, <2>4, <2>5, <2>6, <2>7, <2>8, <2>9, <2>10, <2>11 DEF PeerStep
<1>5. ASSUME NEW t \in Exchanges, ToolStep(t) PROVE TypeOK'
  <2>1. ASSUME NEW k \in 1..MaxFetches, Submit(t, k) PROVE TypeOK'  BY <2>1 DEF Submit
  <2>2. CASE Emit(t)  BY <2>2 DEF Emit
  <2>3. CASE Finish(t)  BY <2>3 DEF Finish
  <2> QED  BY <1>5, <2>1, <2>2, <2>3 DEF ToolStep
<1> QED  BY <1>1, <1>2, <1>3, <1>4, <1>5 DEF Next

-----------------------------------------------------------------------------
(* The request lock                                                        *)

\* Only the owner of the lock can be in its tenure, whoever is handed the lock.
LEMMA OwnerStep ==
    ASSUME TypeOK, DriveHoldsLock, [Next]_vars
    PROVE  DriveHoldsLock'
<1> USE NoOneAssumption DEF TypeOK, Tenure, BlockOn, Performing, Goto, Moves, DropBody, lockVars, jobVars, toolVars, FutureReady, DriveHoldsLock, EnterHead
<1>1. CASE UNCHANGED vars
  BY <1>1 DEF vars
<1>2. CASE Quiescent
  BY <1>2 DEF Quiescent, vars
<1>3. ASSUME NEW e \in Exchanges, CodeStep(e) PROVE DriveHoldsLock'
  <2>1. CASE AnswerDefaultRoute(e)  BY <2>1 DEF AnswerDefaultRoute
  <2>2. CASE AcquireHanded(e)  BY <2>2 DEF AcquireHanded
  <2>3. CASE TakeJob(e)  BY <2>3 DEF TakeJob
  <2>4. CASE Performed(e)  BY <2>4 DEF Performed
  <2>5. CASE HeadersReady(e)  BY <2>5 DEF HeadersReady
  <2>6. CASE HeadersRejected(e)  BY <2>6 DEF HeadersRejected
  <2>7. CASE PumpStart(e)  BY <2>7 DEF PumpStart
  <2>8. CASE FrameReady(e)  BY <2>8 DEF FrameReady
  <2>9. CASE BodyEnd(e)  BY <2>9 DEF BodyEnd
  <2>10. CASE SendFailed(e)  BY <2>10 DEF SendFailed
  <2>11. CASE TransmissionObserved(e)  BY <2>11 DEF TransmissionObserved
  <2> QED  BY <1>3, <2>1, <2>2, <2>3, <2>4, <2>5, <2>6, <2>7, <2>8, <2>9, <2>10, <2>11 DEF CodeStep
<1>4. ASSUME NEW e \in Exchanges, PeerStep(e) PROVE DriveHoldsLock'
  <2>1. CASE Call(e)  BY <2>1 DEF Call
  <2>2. CASE PayloadTooLarge(e)  BY <2>2 DEF PayloadTooLarge
  <2>3. CASE ReadFailed(e)  BY <2>3 DEF ReadFailed
  <2>4. CASE StaticWritten(e)  BY <2>4 DEF StaticWritten
  <2>5. CASE AcquireFree(e)  BY <2>5 DEF AcquireFree
  <2>6. CASE AwaitLock(e)  BY <2>6 DEF AwaitLock
  <2>7. CASE TrailersTaken(e)  BY <2>7 DEF TrailersTaken
  <2>8. CASE CancelReading(e)  BY <2>8 DEF CancelReading
  <2>9. CASE CancelWaiting(e)  BY <2>9 DEF CancelWaiting
  <2>10. CASE CancelPerforming(e)  BY <2>10 DEF CancelPerforming
  <2>11. CASE SendAccepted(e)  BY <2>11 DEF SendAccepted
  <2> QED  BY <1>4, <2>1, <2>2, <2>3, <2>4, <2>5, <2>6, <2>7, <2>8, <2>9, <2>10, <2>11 DEF PeerStep
<1>5. ASSUME NEW t \in Exchanges, ToolStep(t) PROVE DriveHoldsLock'
  <2>1. ASSUME NEW k \in 1..MaxFetches, Submit(t, k) PROVE DriveHoldsLock'  BY <2>1 DEF Submit
  <2>2. CASE Emit(t)  BY <2>2 DEF Emit
  <2>3. CASE Finish(t)  BY <2>3 DEF Finish
  <2> QED  BY <1>5, <2>1, <2>2, <2>3 DEF ToolStep
<1> QED  BY <1>1, <1>2, <1>3, <1>4, <1>5 DEF Next

-----------------------------------------------------------------------------
(* The job queue                                                           *)

LEMMA NoJobIsNoJob == NoJob \notin Jobs
  BY NoOneAssumption DEF NoJob, Jobs

\* Every step moves a reply sender to one place, or drops it with its job.
LEMMA HeldStep ==
    ASSUME TypeOK, DriveHoldsLock, ReplySenderHeld, [Next]_vars
    PROVE  ReplySenderHeld'
<1> USE NoOneAssumption, NoJobIsNoJob DEF TypeOK, Tenure, BlockOn, Performing, Goto, Moves, DropBody, lockVars, jobVars, toolVars, FutureReady, ReplySenderHeld, EnterHead, Closed, DrainStaleJobs
<1>1. CASE UNCHANGED vars
  BY <1>1 DEF vars
<1>2. CASE Quiescent
  BY <1>2 DEF Quiescent, vars
<1>3. ASSUME NEW e \in Exchanges, CodeStep(e) PROVE ReplySenderHeld'
  <2>1. CASE AnswerDefaultRoute(e)  BY <2>1 DEF AnswerDefaultRoute
  <2>2. CASE AcquireHanded(e)  BY <2>2, EmptyQueue DEF AcquireHanded
  <2>3. CASE TakeJob(e)
    <3>1. /\ Head(jobs) \in Jobs /\ Head(jobs) \in ToSet(jobs)
          /\ ToSet(jobs') = ToSet(jobs) \ {Head(jobs)} /\ IsInjective(jobs')
      BY <2>3, Dequeue, DequeueSet DEF TakeJob
    <3>2. current[e] = NoJob /\ Head(jobs) # NoJob /\ fetch[Head(jobs)] = "queued"
      BY <2>3, <3>1 DEF TakeJob
    <3>3. ASSUME NEW j \in Jobs
          PROVE /\ fetch'[j] = "queued" <=> j \in ToSet(jobs')
                /\ fetch'[j] = "performing" <=> \E f \in Exchanges : current'[f] = j
      <4>1. CASE j = Head(jobs)
        BY <2>3, <3>1, <3>2, <4>1 DEF TakeJob
      <4>2. CASE j # Head(jobs)
        <5>1. fetch'[j] = fetch[j] /\ (j \in ToSet(jobs') <=> j \in ToSet(jobs))
          BY <2>3, <3>1, <4>2 DEF TakeJob
        <5>2. \A f \in Exchanges : current'[f] = j <=> current[f] = j
          BY <2>3, <3>1, <3>2, <4>2 DEF TakeJob
        <5> QED  BY <5>1, <5>2
      <4> QED  BY <4>1, <4>2
    <3>4. ASSUME NEW f \in Exchanges PROVE (current'[f] # NoJob) <=> (pc'[f] \in Performing)
      BY <2>3, <3>1, <3>2 DEF TakeJob
    <3> QED  BY <3>1, <3>3, <3>4
  <2>4. CASE Performed(e)
    <3>1. current[e] \in Jobs /\ current[e] # NoJob /\ fetch[current[e]] = "performing"
      BY <2>4 DEF Performed
    <3>2. ASSUME NEW f \in Exchanges, f # e PROVE current[f] # current[e]
      BY <2>4, <3>1, <3>2 DEF Performed, DriveHoldsLock
    <3>3. ASSUME NEW j \in Jobs
          PROVE /\ fetch'[j] = "queued" <=> j \in ToSet(jobs')
                /\ fetch'[j] = "performing" <=> \E f \in Exchanges : current'[f] = j
      BY <2>4, <3>1, <3>2 DEF Performed
    <3>4. ASSUME NEW f \in Exchanges PROVE (current'[f] # NoJob) <=> (pc'[f] \in Performing)
      BY <2>4, <3>1 DEF Performed
    <3>5. IsInjective(jobs')
      BY <2>4 DEF Performed
    <3> QED  BY <3>3, <3>4, <3>5
  <2>5. CASE HeadersReady(e)  BY <2>5 DEF HeadersReady
  <2>6. CASE HeadersRejected(e)  BY <2>6 DEF HeadersRejected
  <2>7. CASE PumpStart(e)  BY <2>7 DEF PumpStart
  <2>8. CASE FrameReady(e)  BY <2>8 DEF FrameReady
  <2>9. CASE BodyEnd(e)  BY <2>9 DEF BodyEnd
  <2>10. CASE SendFailed(e)  BY <2>10, EmptyQueue DEF SendFailed
  <2>11. CASE TransmissionObserved(e)  BY <2>11 DEF TransmissionObserved
  <2> QED  BY <1>3, <2>1, <2>2, <2>3, <2>4, <2>5, <2>6, <2>7, <2>8, <2>9, <2>10, <2>11 DEF CodeStep
<1>4. ASSUME NEW e \in Exchanges, PeerStep(e) PROVE ReplySenderHeld'
  <2>1. CASE Call(e)  BY <2>1 DEF Call
  <2>2. CASE PayloadTooLarge(e)  BY <2>2 DEF PayloadTooLarge
  <2>3. CASE ReadFailed(e)  BY <2>3 DEF ReadFailed
  <2>4. CASE StaticWritten(e)  BY <2>4 DEF StaticWritten
  <2>5. CASE AcquireFree(e)  BY <2>5, EmptyQueue DEF AcquireFree
  <2>6. CASE AwaitLock(e)  BY <2>6 DEF AwaitLock
  <2>7. CASE TrailersTaken(e)  BY <2>7, EmptyQueue DEF TrailersTaken
  <2>8. CASE CancelReading(e)  BY <2>8 DEF CancelReading
  <2>9. CASE CancelWaiting(e)  BY <2>9 DEF CancelWaiting
  <2>10. CASE CancelPerforming(e)
    <3>1. current[e] \in Jobs /\ current[e] # NoJob /\ fetch[current[e]] = "performing"
      BY <2>10 DEF CancelPerforming
    <3>2. ASSUME NEW f \in Exchanges, f # e PROVE current[f] # current[e]
      BY <2>10, <3>1, <3>2 DEF CancelPerforming, DriveHoldsLock
    <3>3. ASSUME NEW j \in Jobs
          PROVE /\ fetch'[j] = "queued" <=> j \in ToSet(jobs')
                /\ fetch'[j] = "performing" <=> \E f \in Exchanges : current'[f] = j
      BY <2>10, <3>1, <3>2 DEF CancelPerforming
    <3>4. ASSUME NEW f \in Exchanges PROVE (current'[f] # NoJob) <=> (pc'[f] \in Performing)
      BY <2>10, <3>1 DEF CancelPerforming
    <3>5. IsInjective(jobs')
      BY <2>10 DEF CancelPerforming
    <3> QED  BY <3>3, <3>4, <3>5
  <2>11. CASE SendAccepted(e)  BY <2>11 DEF SendAccepted
  <2> QED  BY <1>4, <2>1, <2>2, <2>3, <2>4, <2>5, <2>6, <2>7, <2>8, <2>9, <2>10, <2>11 DEF PeerStep
<1>5. ASSUME NEW t \in Exchanges, ToolStep(t) PROVE ReplySenderHeld'
  <2>1. ASSUME NEW k \in 1..MaxFetches, Submit(t, k) PROVE ReplySenderHeld'
    <3> DEFINE job == <<t, k>>
    <3>1. job \in Jobs /\ fetch[job] = "unsent"
      BY <2>1 DEF Submit, Jobs
    <3>2. /\ jobs' = Append(jobs, job) /\ fetch' = [fetch EXCEPT ![job] = "queued"]
          /\ current' = current /\ pc' = pc
      BY <2>1 DEF Submit
    <3> HIDE DEF job
    <3>3. job \notin ToSet(jobs)
      BY <3>1
    <3>4. ToSet(jobs') = ToSet(jobs) \cup {job} /\ IsInjective(jobs')
      BY <3>1, <3>2, <3>3, EnqueueSet
    <3>5. ASSUME NEW j \in Jobs
          PROVE /\ fetch'[j] = "queued" <=> j \in ToSet(jobs')
                /\ fetch'[j] = "performing" <=> \E f \in Exchanges : current'[f] = j
      BY <3>1, <3>2, <3>3, <3>4
    <3>6. ASSUME NEW f \in Exchanges PROVE (current'[f] # NoJob) <=> (pc'[f] \in Performing)
      BY <3>2
    <3> QED  BY <3>4, <3>5, <3>6
  <2>2. CASE Emit(t)  BY <2>2 DEF Emit
  <2>3. CASE Finish(t)  BY <2>3 DEF Finish
  <2> QED  BY <1>5, <2>1, <2>2, <2>3 DEF ToolStep
<1> QED  BY <1>1, <1>2, <1>3, <1>4, <1>5 DEF Next

\* A job appears only while an exchange is inside block_on, and a value leaves
\* block_on only past an empty queue.
LEMMA PeerlessStep ==
    ASSUME TypeOK, DriveHoldsLock, NoJobBehindThePeer, [Next]_vars
    PROVE  NoJobBehindThePeer'
<1> USE NoOneAssumption, NoJobIsNoJob DEF TypeOK, Tenure, BlockOn, Performing, Goto, Moves, DropBody, lockVars, jobVars, toolVars, FutureReady, EnterHead, NoJobBehindThePeer, DrainStaleJobs
<1>1. CASE UNCHANGED vars
  BY <1>1 DEF vars
<1>2. CASE Quiescent
  BY <1>2 DEF Quiescent, vars
<1>3. ASSUME NEW e \in Exchanges, CodeStep(e) PROVE NoJobBehindThePeer'
  <2>1. CASE AnswerDefaultRoute(e)  BY <2>1 DEF AnswerDefaultRoute
  <2>2. CASE AcquireHanded(e)  BY <2>2 DEF AcquireHanded, DriveHoldsLock
  <2>3. CASE TakeJob(e)  BY <2>3 DEF TakeJob, DriveHoldsLock
  <2>4. CASE Performed(e)  BY <2>4 DEF Performed
  <2>5. CASE HeadersReady(e)  BY <2>5 DEF HeadersReady
  <2>6. CASE HeadersRejected(e)  BY <2>6 DEF HeadersRejected
  <2>7. CASE PumpStart(e)  BY <2>7 DEF PumpStart
  <2>8. CASE FrameReady(e)  BY <2>8 DEF FrameReady
  <2>9. CASE BodyEnd(e)  BY <2>9 DEF BodyEnd
  <2>10. CASE SendFailed(e)  BY <2>10 DEF SendFailed
  <2>11. CASE TransmissionObserved(e)  BY <2>11 DEF TransmissionObserved
  <2> QED  BY <1>3, <2>1, <2>2, <2>3, <2>4, <2>5, <2>6, <2>7, <2>8, <2>9, <2>10, <2>11 DEF CodeStep
<1>4. ASSUME NEW e \in Exchanges, PeerStep(e) PROVE NoJobBehindThePeer'
  <2>1. CASE Call(e)  BY <2>1 DEF Call
  <2>2. CASE PayloadTooLarge(e)  BY <2>2 DEF PayloadTooLarge
  <2>3. CASE ReadFailed(e)  BY <2>3 DEF ReadFailed
  <2>4. CASE StaticWritten(e)  BY <2>4 DEF StaticWritten
  <2>5. CASE AcquireFree(e)  BY <2>5 DEF AcquireFree
  <2>6. CASE AwaitLock(e)  BY <2>6 DEF AwaitLock
  <2>7. CASE TrailersTaken(e)  BY <2>7 DEF TrailersTaken
  <2>8. CASE CancelReading(e)  BY <2>8 DEF CancelReading
  <2>9. CASE CancelWaiting(e)  BY <2>9 DEF CancelWaiting
  <2>10. CASE CancelPerforming(e)  BY <2>10 DEF CancelPerforming
  <2>11. CASE SendAccepted(e)  BY <2>11 DEF SendAccepted
  <2> QED  BY <1>4, <2>1, <2>2, <2>3, <2>4, <2>5, <2>6, <2>7, <2>8, <2>9, <2>10, <2>11 DEF PeerStep
<1>5. ASSUME NEW t \in Exchanges, ToolStep(t) PROVE NoJobBehindThePeer'
  <2>1. ASSUME NEW k \in 1..MaxFetches, Submit(t, k) PROVE NoJobBehindThePeer'
    BY <2>1 DEF Submit, DriveHoldsLock
  <2>2. CASE Emit(t)  BY <2>2 DEF Emit
  <2>3. CASE Finish(t)  BY <2>3 DEF Finish
  <2> QED  BY <1>5, <2>1, <2>2, <2>3 DEF ToolStep
<1> QED  BY <1>1, <1>2, <1>3, <1>4, <1>5 DEF Next

\* The drain that starts a tenure is what makes the queue belong to it.
LEMMA TenureStep ==
    ASSUME TypeOK, DriveHoldsLock, ReplySenderHeld, QueueOfTenure, [Next]_vars
    PROVE  QueueOfTenure'
<1> USE NoOneAssumption, NoJobIsNoJob DEF TypeOK, Tenure, BlockOn, Performing, Goto, Moves, DropBody, lockVars, jobVars, toolVars, FutureReady, EnterHead, QueueOfTenure, DrainStaleJobs
<1>1. CASE UNCHANGED vars
  BY <1>1 DEF vars
<1>2. CASE Quiescent
  BY <1>2 DEF Quiescent, vars
<1>3. ASSUME NEW e \in Exchanges, CodeStep(e) PROVE QueueOfTenure'
  <2>1. CASE AnswerDefaultRoute(e)  BY <2>1 DEF AnswerDefaultRoute
  <2>2. CASE AcquireHanded(e)  BY <2>2, EmptyQueue DEF AcquireHanded
  <2>3. CASE TakeJob(e)  BY <2>3, DequeueSet DEF TakeJob, ReplySenderHeld
  <2>4. CASE Performed(e)  BY <2>4 DEF Performed
  <2>5. CASE HeadersReady(e)  BY <2>5 DEF HeadersReady
  <2>6. CASE HeadersRejected(e)  BY <2>6 DEF HeadersRejected
  <2>7. CASE PumpStart(e)  BY <2>7 DEF PumpStart
  <2>8. CASE FrameReady(e)  BY <2>8 DEF FrameReady
  <2>9. CASE BodyEnd(e)  BY <2>9 DEF BodyEnd
  <2>10. CASE SendFailed(e)  BY <2>10, EmptyQueue DEF SendFailed
  <2>11. CASE TransmissionObserved(e)  BY <2>11 DEF TransmissionObserved
  <2> QED  BY <1>3, <2>1, <2>2, <2>3, <2>4, <2>5, <2>6, <2>7, <2>8, <2>9, <2>10, <2>11 DEF CodeStep
<1>4. ASSUME NEW e \in Exchanges, PeerStep(e) PROVE QueueOfTenure'
  <2>1. CASE Call(e)  BY <2>1 DEF Call
  <2>2. CASE PayloadTooLarge(e)  BY <2>2 DEF PayloadTooLarge
  <2>3. CASE ReadFailed(e)  BY <2>3 DEF ReadFailed
  <2>4. CASE StaticWritten(e)  BY <2>4 DEF StaticWritten
  <2>5. CASE AcquireFree(e)  BY <2>5, EmptyQueue DEF AcquireFree
  <2>6. CASE AwaitLock(e)  BY <2>6 DEF AwaitLock
  <2>7. CASE TrailersTaken(e)  BY <2>7, EmptyQueue DEF TrailersTaken
  <2>8. CASE CancelReading(e)  BY <2>8 DEF CancelReading
  <2>9. CASE CancelWaiting(e)  BY <2>9 DEF CancelWaiting
  <2>10. CASE CancelPerforming(e)  BY <2>10 DEF CancelPerforming
  <2>11. CASE SendAccepted(e)  BY <2>11 DEF SendAccepted
  <2> QED  BY <1>4, <2>1, <2>2, <2>3, <2>4, <2>5, <2>6, <2>7, <2>8, <2>9, <2>10, <2>11 DEF PeerStep
<1>5. ASSUME NEW t \in Exchanges, ToolStep(t) PROVE QueueOfTenure'
  <2>1. ASSUME NEW k \in 1..MaxFetches, Submit(t, k) PROVE QueueOfTenure'
    <3> DEFINE job == <<t, k>>
    <3>1. job \in Jobs /\ fetch[job] = "unsent" /\ job \notin ToSet(jobs)
      BY <2>1 DEF Submit, Jobs, ReplySenderHeld
    <3>2. PICK f \in Exchanges :
             pc[f] \in BlockOn /\ under' = [under EXCEPT ![job] = f]
      BY <2>1 DEF Submit
    <3>3. jobs' = Append(jobs, job) /\ pc' = pc /\ current' = current
      BY <2>1 DEF Submit
    <3> HIDE DEF job
    <3>4. ToSet(jobs') = ToSet(jobs) \cup {job}
      BY <3>1, <3>3, EnqueueSet
    <3>5. \A e \in Exchanges : pc[e] \in Tenure => e = f
      BY <3>2 DEF DriveHoldsLock
    <3>6. ToSet(jobs) \subseteq Jobs
      BY DEF ToSet
    <3> QED  BY <3>1, <3>2, <3>3, <3>4, <3>5, <3>6
  <2>2. CASE Emit(t)  BY <2>2 DEF Emit
  <2>3. CASE Finish(t)  BY <2>3 DEF Finish
  <2> QED  BY <1>5, <2>1, <2>2, <2>3 DEF ToolStep
<1> QED  BY <1>1, <1>2, <1>3, <1>4, <1>5 DEF Next

\* What drive() takes from the queue belongs to the tenure that takes it.
LEMMA LeftoverStep ==
    ASSUME TypeOK, DriveHoldsLock, ReplySenderHeld, QueueOfTenure,
           LeftoversNeverServiced, [Next]_vars
    PROVE  LeftoversNeverServiced'
<1> USE NoOneAssumption, NoJobIsNoJob DEF TypeOK, Tenure, BlockOn, Performing, Goto, Moves, DropBody, lockVars, jobVars, toolVars, FutureReady, EnterHead, LeftoversNeverServiced
<1>1. CASE UNCHANGED vars
  BY <1>1 DEF vars
<1>2. CASE Quiescent
  BY <1>2 DEF Quiescent, vars
<1>3. ASSUME NEW e \in Exchanges, CodeStep(e) PROVE LeftoversNeverServiced'
  <2>1. CASE AnswerDefaultRoute(e)  BY <2>1 DEF AnswerDefaultRoute
  <2>2. CASE AcquireHanded(e)  BY <2>2 DEF AcquireHanded
  <2>3. CASE TakeJob(e)  BY <2>3, Dequeue, DequeueSet DEF TakeJob, QueueOfTenure, ReplySenderHeld
  <2>4. CASE Performed(e)  BY <2>4 DEF Performed
  <2>5. CASE HeadersReady(e)  BY <2>5 DEF HeadersReady
  <2>6. CASE HeadersRejected(e)  BY <2>6 DEF HeadersRejected
  <2>7. CASE PumpStart(e)  BY <2>7 DEF PumpStart
  <2>8. CASE FrameReady(e)  BY <2>8 DEF FrameReady
  <2>9. CASE BodyEnd(e)  BY <2>9 DEF BodyEnd
  <2>10. CASE SendFailed(e)  BY <2>10 DEF SendFailed
  <2>11. CASE TransmissionObserved(e)  BY <2>11 DEF TransmissionObserved
  <2> QED  BY <1>3, <2>1, <2>2, <2>3, <2>4, <2>5, <2>6, <2>7, <2>8, <2>9, <2>10, <2>11 DEF CodeStep
<1>4. ASSUME NEW e \in Exchanges, PeerStep(e) PROVE LeftoversNeverServiced'
  <2>1. CASE Call(e)  BY <2>1 DEF Call
  <2>2. CASE PayloadTooLarge(e)  BY <2>2 DEF PayloadTooLarge
  <2>3. CASE ReadFailed(e)  BY <2>3 DEF ReadFailed
  <2>4. CASE StaticWritten(e)  BY <2>4 DEF StaticWritten
  <2>5. CASE AcquireFree(e)  BY <2>5 DEF AcquireFree
  <2>6. CASE AwaitLock(e)  BY <2>6 DEF AwaitLock
  <2>7. CASE TrailersTaken(e)  BY <2>7 DEF TrailersTaken
  <2>8. CASE CancelReading(e)  BY <2>8 DEF CancelReading
  <2>9. CASE CancelWaiting(e)  BY <2>9 DEF CancelWaiting
  <2>10. CASE CancelPerforming(e)  BY <2>10 DEF CancelPerforming
  <2>11. CASE SendAccepted(e)  BY <2>11 DEF SendAccepted
  <2> QED  BY <1>4, <2>1, <2>2, <2>3, <2>4, <2>5, <2>6, <2>7, <2>8, <2>9, <2>10, <2>11 DEF PeerStep
<1>5. ASSUME NEW t \in Exchanges, ToolStep(t) PROVE LeftoversNeverServiced'
  <2>1. ASSUME NEW k \in 1..MaxFetches, Submit(t, k) PROVE LeftoversNeverServiced'
    <3> DEFINE job == <<t, k>>
    <3>1. job \in Jobs /\ fetch[job] = "unsent" /\ job \notin ToSet(jobs)
      BY <2>1 DEF Submit, Jobs, ReplySenderHeld
    <3>2. PICK f \in Exchanges :
             pc[f] \in BlockOn /\ under' = [under EXCEPT ![job] = f]
      BY <2>1 DEF Submit
    <3>3. jobs' = Append(jobs, job) /\ pc' = pc /\ current' = current
      BY <2>1 DEF Submit
    <3> HIDE DEF job
    <3>4. ASSUME NEW e \in Exchanges, current[e] # NoJob PROVE current[e] \in Jobs /\ current[e] # job
      <4>1. current[e] \in Jobs
        BY <3>4
      <4>2. fetch[current[e]] = "performing"
        BY <4>1 DEF ReplySenderHeld
      <4> QED  BY <3>1, <4>1, <4>2
    <3> QED  BY <3>1, <3>2, <3>3, <3>4
  <2>2. CASE Emit(t)  BY <2>2 DEF Emit
  <2>3. CASE Finish(t)  BY <2>3 DEF Finish
  <2> QED  BY <1>5, <2>1, <2>2, <2>3 DEF ToolStep
<1> QED  BY <1>1, <1>2, <1>3, <1>4, <1>5 DEF Next

-----------------------------------------------------------------------------
(* The inductive invariant and what it gives                               *)

IInv ==
    /\ TypeOK
    /\ DriveHoldsLock
    /\ ReplySenderHeld
    /\ NoJobBehindThePeer
    /\ QueueOfTenure
    /\ LeftoversNeverServiced

LEMMA InitInv == Init => IInv
<1> SUFFICES ASSUME Init PROVE IInv
  OBVIOUS
<1>1. TypeOK
  BY NoOneAssumption, BoundsAssumption DEF Init, TypeOK, Phases, Tenure
<1>2. DriveHoldsLock /\ NoJobBehindThePeer /\ QueueOfTenure
  BY DEF Init, DriveHoldsLock, NoJobBehindThePeer, QueueOfTenure, Tenure, BlockOn, Performing
<1>3. ReplySenderHeld /\ LeftoversNeverServiced
  BY EmptyQueue, NoJobIsNoJob DEF Init, ReplySenderHeld, LeftoversNeverServiced, Performing
<1> QED  BY <1>1, <1>2, <1>3 DEF IInv

LEMMA StepInv == IInv /\ [Next]_vars => IInv'
  BY TypeStep, OwnerStep, HeldStep, PeerlessStep, TenureStep, LeftoverStep DEF IInv

THEOREM Invariance == Spec => []IInv
  BY InitInv, StepInv, PTL DEF Spec

\* The state of the bridge is well formed in every run.
THEOREM TypeCorrect == Spec => []TypeOK
  BY Invariance, PTL DEF IInv

\* bridge.rs, drive: it is only called while holding the request lock, so no
\* two exchanges are ever driven, performed for or pumped at the same time.
THEOREM MutualExclusion == Spec => []DriveHoldsLock
  BY Invariance, PTL DEF IInv

\* The reply sender of an unresolved fetch is always in exactly one place.
THEOREM NoFetchAbandoned == Spec => []ReplySenderHeld
  BY Invariance, PTL DEF IInv

\* The drain at lib.rs:93 is enough: no job submitted in one tenure of the lock
\* is performed in another.
THEOREM NoLeftoverServiced == Spec => []LeftoversNeverServiced
  BY Invariance, PTL DEF IInv

\* No tool's request ever waits for the client to accept a frame.
THEOREM NoJobBehindPeer == Spec => []NoJobBehindThePeer
  BY Invariance, PTL DEF IInv

\* One step of ResolvedOnce, for one fetch.
Settles(j) ==
    /\ fetch[j] \in {"answered", "closed"} => fetch'[j] = fetch[j]
    /\ fetch'[j] = "answered" /\ fetch[j] # "answered"
         => fetch[j] = "performing" /\ lock = under[j] /\ lock' = lock

LEMMA SettleStep ==
    ASSUME IInv, [Next]_vars, NEW j \in Jobs
    PROVE  Settles(j)
<1>0. TypeOK /\ DriveHoldsLock /\ ReplySenderHeld /\ LeftoversNeverServiced
  BY DEF IInv
<1> USE <1>0, NoJobIsNoJob DEF TypeOK, BlockOn, Performing, Goto, Moves, DropBody, lockVars, jobVars, toolVars, FutureReady, EnterHead, DrainStaleJobs, Closed, ReplySenderHeld, Settles
<1>1. CASE UNCHANGED vars
  BY <1>1 DEF vars
<1>2. CASE Quiescent
  BY <1>2 DEF Quiescent, vars
<1>3. ASSUME NEW e \in Exchanges, CodeStep(e) PROVE Settles(j)
  <2>1. CASE AnswerDefaultRoute(e)  BY <2>1 DEF AnswerDefaultRoute
  <2>2. CASE AcquireHanded(e)  BY <2>2 DEF AcquireHanded
  <2>3. CASE TakeJob(e)  BY <2>3, Dequeue, DequeueSet DEF TakeJob
  <2>4. CASE Performed(e)  BY <2>4 DEF Performed, DriveHoldsLock, LeftoversNeverServiced, Tenure
  <2>5. CASE HeadersReady(e)  BY <2>5 DEF HeadersReady
  <2>6. CASE HeadersRejected(e)  BY <2>6 DEF HeadersRejected
  <2>7. CASE PumpStart(e)  BY <2>7 DEF PumpStart
  <2>8. CASE FrameReady(e)  BY <2>8 DEF FrameReady
  <2>9. CASE BodyEnd(e)  BY <2>9 DEF BodyEnd
  <2>10. CASE SendFailed(e)  BY <2>10 DEF SendFailed
  <2>11. CASE TransmissionObserved(e)  BY <2>11 DEF TransmissionObserved
  <2> QED  BY <1>3, <2>1, <2>2, <2>3, <2>4, <2>5, <2>6, <2>7, <2>8, <2>9, <2>10, <2>11 DEF CodeStep
<1>4. ASSUME NEW e \in Exchanges, PeerStep(e) PROVE Settles(j)
  <2>1. CASE Call(e)  BY <2>1 DEF Call
  <2>2. CASE PayloadTooLarge(e)  BY <2>2 DEF PayloadTooLarge
  <2>3. CASE ReadFailed(e)  BY <2>3 DEF ReadFailed
  <2>4. CASE StaticWritten(e)  BY <2>4 DEF StaticWritten
  <2>5. CASE AcquireFree(e)  BY <2>5 DEF AcquireFree
  <2>6. CASE AwaitLock(e)  BY <2>6 DEF AwaitLock
  <2>7. CASE TrailersTaken(e)  BY <2>7 DEF TrailersTaken
  <2>8. CASE CancelReading(e)  BY <2>8 DEF CancelReading
  <2>9. CASE CancelWaiting(e)  BY <2>9 DEF CancelWaiting
  <2>10. CASE CancelPerforming(e)  BY <2>10 DEF CancelPerforming
  <2>11. CASE SendAccepted(e)  BY <2>11 DEF SendAccepted
  <2> QED  BY <1>4, <2>1, <2>2, <2>3, <2>4, <2>5, <2>6, <2>7, <2>8, <2>9, <2>10, <2>11 DEF PeerStep
<1>5. ASSUME NEW t \in Exchanges, ToolStep(t) PROVE Settles(j)
  <2>1. ASSUME NEW k \in 1..MaxFetches, Submit(t, k) PROVE Settles(j)
    BY <2>1 DEF Submit, Jobs
  <2>2. CASE Emit(t)  BY <2>2 DEF Emit
  <2>3. CASE Finish(t)  BY <2>3 DEF Finish
  <2> QED  BY <1>5, <2>1, <2>2, <2>3 DEF ToolStep
<1> QED  BY <1>1, <1>2, <1>3, <1>4, <1>5 DEF Next

\* A fetch resolves at most once, and is answered only under the exchange that
\* holds the lock from its submission to its reply.
THEOREM FetchResolvesOnce == Spec => ResolvedOnce
<1>1. IInv /\ [Next]_vars => [\A j \in Jobs : Settles(j)]_vars
  BY SettleStep
<1> QED
  BY <1>1, Invariance, PTL DEF Spec, ResolvedOnce, Settles
=============================================================================
