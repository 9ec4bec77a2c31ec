---------------------------- MODULE ServiceProofs ----------------------------
(***************************************************************************)
(* Performing the jobs step by step, under one clock, is one way for the   *)
(* bridge to behave: what is proved of the bridge holds of the composition. *)
(***************************************************************************)
EXTENDS Service, BridgeRefinement

\* Every step of the composition is a step of the bridge, or leaves it alone.
LEMMA ServiceStep == ServiceNext => [Next]_vars
<1>1. ASSUME NEW e \in Exchanges, CodeAlone(e) PROVE Next
  BY <1>1 DEF CodeAlone, Next
<1>2. ASSUME NEW e \in Exchanges, Alone(e) PROVE Next
  BY <1>2 DEF Alone, Next
<1>3. ASSUME NEW e \in Exchanges, Reply(e) PROVE Next
  BY <1>3 DEF Reply, CodeStep, Next
<1>4. ASSUME NEW e \in Exchanges, Cancel(e) PROVE Next
  BY <1>4 DEF Cancel, PeerStep, Next
<1>5. Polled \/ Upstream \/ Pass => UNCHANGED vars
  BY DEF Polled, Upstream, Pass
<1>6. Quiescent => Next
  BY DEF Next
<1> QED  BY <1>1, <1>2, <1>3, <1>4, <1>5, <1>6 DEF ServiceNext

\* The composition is a bridge.
THEOREM ServiceIsBridge == ServiceSpec => Spec
<1>1. ServiceInit => Init
  BY DEF ServiceInit
<1>2. [ServiceNext]_svars => [Next]_vars
  BY ServiceStep DEF svars
<1> QED  BY <1>1, <1>2, PTL DEF ServiceSpec, Spec

\* The composition keeps to the lock, runs no left-over job, lets no job wait
\* behind the client and loses no reply sender.
THEOREM ServiceKeepsBridgeSafe ==
    ServiceSpec => [](DriveHoldsLock /\ LeftoversNeverServiced
                        /\ NoJobBehindThePeer /\ ReplySenderHeld)
  BY ServiceIsBridge, MutualExclusion, NoLeftoverServiced, NoJobBehindPeer, NoFetchAbandoned, PTL

\* It serves its clients in order too, however long the exchanges it performs
\* for one of them take.
THEOREM ServiceServesInOrder == ServiceSpec => ServedInOrder
  BY ServiceIsBridge, ServesInOrder, PTL

\* And it resolves each fetch at most once.
THEOREM ServiceResolvesOnce == ServiceSpec => ResolvedOnce
  BY ServiceIsBridge, FetchResolvesOnce, PTL

-----------------------------------------------------------------------------
(* What perform() promises, in the composition                             *)

\* OutboundProofs has the same argument for perform() by itself.
PerformFlow ==
    /\ stage \in {"sending", "reading"} => transmission = "held"
    /\ stage = "start" => transmission = "none"
    /\ stage \in {"start", "sending", "reading"} => result = "none" /\ eof # "cut"
    /\ eof = "cut" => result # "ok"
    /\ sent = received + frame
    /\ result = "ok" => frame = 0 /\ eof = "ended"

PerformInv ==
    /\ Perform!TypeOK /\ PerformFlow
    /\ Perform!BufferBounded /\ Perform!TooLargeExceeds /\ Perform!TimedOutIsLate

\* The settings are numbers.
LEMMA SettingsAreNat ==
    /\ \A l \in Perform!LimitSettings : l \in Nat
    /\ \A t \in Perform!TimeoutSettings : t \in Nat /\ t * NanosPerMilli \in Nat
  BY OutboundAssumption DEF Perform!LimitSettings, Perform!TimeoutSettings

\* The outbound state moves by a step of perform() or of its surroundings, or is
\* put back for the next job.
LEMMA OutboundStep ==
    ServiceNext => Perform!Poll \/ Perform!UploadEnds \/ Perform!UpstreamAnswers
                     \/ Perform!UpstreamSends \/ Perform!StreamEnds \/ Perform!Tick
                     \/ AtRest \/ UNCHANGED outVars
  BY DEF ServiceNext, CodeAlone, Alone, Reply, Cancel, Polled, Upstream, Pass, svars

LEMMA PerformInit == ServiceInit => PerformInv
  BY OutboundAssumption, SettingsAreNat
     DEF ServiceInit, Perform!Init, PerformInv, Perform!TypeOK, PerformFlow,
         Perform!BufferBounded, Perform!TooLargeExceeds, Perform!TimedOutIsLate

LEMMA PerformStep == PerformInv /\ [ServiceNext]_svars => PerformInv'
<1> SUFFICES ASSUME PerformInv, [ServiceNext]_svars PROVE PerformInv'
  OBVIOUS
<1> USE OutboundAssumption, SettingsAreNat
        DEF PerformInv, Perform!TypeOK, PerformFlow, Perform!BufferBounded,
            Perform!TooLargeExceeds, Perform!TimedOutIsLate,
            Perform!callVars, Perform!hostVars, Perform!Return, Perform!Fits
<1>1. CASE UNCHANGED outVars  BY <1>1 DEF outVars
<1>2. CASE Perform!Refuse  BY <1>2 DEF Perform!Refuse
<1>3. CASE Perform!Build  BY <1>3 DEF Perform!Build
<1>4. CASE Perform!SendFailed  BY <1>4 DEF Perform!SendFailed
<1>5. CASE Perform!HeadReceived  BY <1>5 DEF Perform!HeadReceived
<1>6. CASE Perform!FrameBuffered  BY <1>6 DEF Perform!FrameBuffered
<1>7. CASE Perform!FrameTooLarge  BY <1>7 DEF Perform!FrameTooLarge
<1>8. CASE Perform!BodyFailed  BY <1>8 DEF Perform!BodyFailed
<1>9. CASE Perform!BodyComplete  BY <1>9 DEF Perform!BodyComplete
<1>10. CASE Perform!DeadlineElapsed
  <2>1. now >= timeoutMs * NanosPerMilli \/ now = MaxU64
    BY <1>10 DEF Perform!DeadlineElapsed, Perform!Deadline, Perform!SaturatingMul
  <2> QED  BY <1>10, <2>1 DEF Perform!DeadlineElapsed
<1>11. CASE Perform!UploadEnds  BY <1>11 DEF Perform!UploadEnds
<1>12. CASE Perform!UpstreamAnswers  BY <1>12 DEF Perform!UpstreamAnswers
<1>13. CASE Perform!UpstreamSends  BY <1>13 DEF Perform!UpstreamSends
<1>14. CASE Perform!StreamEnds  BY <1>14 DEF Perform!StreamEnds
<1>15. CASE Perform!Tick  BY <1>15 DEF Perform!Tick
<1>16. CASE AtRest  BY <1>16 DEF AtRest
<1>17. ServiceNext \/ UNCHANGED outVars
  BY DEF svars, outVars
<1> QED
  BY <1>1, <1>2, <1>3, <1>4, <1>5, <1>6, <1>7, <1>8, <1>9, <1>10, <1>11, <1>12,
     <1>13, <1>14, <1>15, <1>16, <1>17, OutboundStep DEF Perform!Poll

\* What a tool is answered under the lock is what perform() promises: all of the
\* body or an error, within the limit, and no timeout before its time.
THEOREM ServiceDelivers ==
    ServiceSpec => [](Perform!OkIsWhole /\ Perform!BufferBounded
                        /\ Perform!TooLargeExceeds /\ Perform!TimedOutIsLate)
<1>1. PerformInv => Perform!OkIsWhole
  BY DEF PerformInv, Perform!TypeOK, PerformFlow, Perform!OkIsWhole
<1>2. PerformInv => Perform!BufferBounded /\ Perform!TooLargeExceeds /\ Perform!TimedOutIsLate
  BY DEF PerformInv
<1> QED  BY <1>1, <1>2, PerformInit, PerformStep, PTL DEF ServiceSpec

-----------------------------------------------------------------------------
(* The time a fetch takes                                                  *)

\* What the job in flight may still take.
Ahead == IF InFlight THEN Perform!Deadline - now ELSE 0

\* A queued job is given a deadline for each place up to its own, and what the
\* job in flight has left; between two jobs perform() has taken no time.
InTime ==
    /\ due \in [Jobs -> Int]
    /\ \A j \in Jobs : fetch[j] # "unsent" => under[j] \in Exchanges
    /\ now <= Perform!Deadline
    /\ InFlight \/ now = 0
    /\ \A i \in DOMAIN jobs : Owed(jobs[i]) => due[jobs[i]] >= i * Perform!Deadline + Ahead
    /\ \A j \in Jobs : fetch[j] = "performing" => due[j] >= Ahead

TimeInv == IInv /\ PerformInv /\ InTime

\* The steps that leave the queue alone take no exchange into its tenure.
Stays ==
    /\ UNCHANGED <<jobs, fetch, under>>
    /\ \A e \in Exchanges : pc'[e] \in Tenure => pc[e] \in Tenure

\* The steps that drain it close what was queued.
Drains ==
    /\ jobs' = <<>> /\ under' = under
    /\ \A j \in Jobs : fetch'[j] = IF j \in ToSet(jobs) THEN "closed" ELSE fetch[j]

\* Nobody starts or ends a perform().
KeepsPerforming == \A e \in Exchanges : pc'[e] \in Performing <=> pc[e] \in Performing

\* What a step of an exchange or its tool does to the queue.
LEMMA QueueSteps ==
    ASSUME IInv, NEW e \in Exchanges, CodeStep(e) \/ PeerStep(e) \/ ToolStep(e)
    PROVE  \/ (Stays \/ Drains) /\ KeepsPerforming
           \/ TakeJob(e)
           \/ Performed(e)
           \/ CancelPerforming(e)
           \/ \E k \in 1..MaxFetches : Submit(e, k)
<1> DEFINE Goal == \/ (Stays \/ Drains) /\ KeepsPerforming
                   \/ TakeJob(e)
                   \/ Performed(e)
                   \/ CancelPerforming(e)
                   \/ \E k \in 1..MaxFetches : Submit(e, k)
<1>0. TypeOK
  BY DEF IInv
<1> USE <1>0 DEF TypeOK, Tenure, BlockOn, Performing, Goto, Moves, DropBody, lockVars, jobVars,
        toolVars, FutureReady, EnterHead, DrainStaleJobs, Closed, Stays, Drains, KeepsPerforming
<1>1. CASE CodeStep(e)
  <2>1. CASE AnswerDefaultRoute(e)  BY <2>1 DEF AnswerDefaultRoute
  <2>2. CASE AcquireHanded(e)  BY <2>2 DEF AcquireHanded
  <2>3. CASE HeadersReady(e)  BY <2>3 DEF HeadersReady
  <2>4. CASE HeadersRejected(e)  BY <2>4 DEF HeadersRejected
  <2>5. CASE PumpStart(e)  BY <2>5 DEF PumpStart
  <2>6. CASE FrameReady(e)  BY <2>6 DEF FrameReady
  <2>7. CASE BodyEnd(e)  BY <2>7 DEF BodyEnd
  <2>8. CASE SendFailed(e)  BY <2>8 DEF SendFailed
  <2>9. CASE TransmissionObserved(e)  BY <2>9 DEF TransmissionObserved
  <2> QED  BY <1>1, <2>1, <2>2, <2>3, <2>4, <2>5, <2>6, <2>7, <2>8, <2>9 DEF CodeStep
<1>2. CASE PeerStep(e)
  <2>1. CASE Call(e)  BY <2>1 DEF Call
  <2>2. CASE PayloadTooLarge(e)  BY <2>2 DEF PayloadTooLarge
  <2>3. CASE ReadFailed(e)  BY <2>3 DEF ReadFailed
  <2>4. CASE StaticWritten(e)  BY <2>4 DEF StaticWritten
  <2>5. CASE AcquireFree(e)  BY <2>5 DEF AcquireFree
  <2>6. CASE AwaitLock(e)  BY <2>6 DEF AwaitLock
  <2>7. CASE TrailersTaken(e)  BY <2>7 DEF TrailersTaken
  <2>8. CASE CancelReading(e)  BY <2>8 DEF CancelReading
  <2>9. CASE CancelWaiting(e)  BY <2>9 DEF CancelWaiting
  <2>10. CASE SendAccepted(e)  BY <2>10 DEF SendAccepted
  <2> QED  BY <1>2, <2>1, <2>2, <2>3, <2>4, <2>5, <2>6, <2>7, <2>8, <2>9, <2>10 DEF PeerStep
<1>3. CASE ToolStep(e)
  <2>1. CASE Emit(e)  BY <2>1 DEF Emit
  <2>2. CASE Finish(e)  BY <2>2 DEF Finish
  <2> QED  BY <1>3, <2>1, <2>2 DEF ToolStep
<1> QED  BY <1>1, <1>2, <1>3

\* One exchange at most is performing, and then nobody is inside block_on.
LEMMA AloneInFlight ==
    ASSUME IInv, NEW e \in Exchanges
    PROVE  /\ pc[e] \in Performing => \A f \in Exchanges \ {e} : pc[f] \notin Tenure
           /\ pc[e] \in BlockOn => ~InFlight
  BY DEF IInv, DriveHoldsLock, InFlight, Tenure, BlockOn, Performing

\* A fetch being performed is owed by the exchange that performs it.
LEMMA PerformingIsOwed ==
    ASSUME IInv, NEW j \in Jobs, fetch[j] = "performing"
    PROVE  /\ Owed(j) /\ InFlight
           /\ under[j] \in Exchanges /\ pc[under[j]] \in Performing
           /\ current[under[j]] = j
<1>1. PICK e \in Exchanges : current[e] = j
  BY DEF IInv, ReplySenderHeld
<1>2. current[e] # NoJob
  BY <1>1, NoJobIsNoJob
<1>3. pc[e] \in Performing /\ under[j] = e
  BY <1>1, <1>2 DEF IInv, ReplySenderHeld, LeftoversNeverServiced
<1> QED  BY <1>1, <1>3 DEF Owed, InFlight, Tenure

LEMMA DeadlineIsNat == PerformInv => Perform!Deadline \in Nat
  BY OutboundAssumption, SettingsAreNat
     DEF PerformInv, Perform!TypeOK, Perform!Deadline, Perform!SaturatingMul

\* What TimePasses does to the clock of one fetch.
LEMMA DueAfter ==
    ASSUME TypeOK', PerformInv, InTime, NEW elapsed \in Nat, TimePasses(elapsed)
    PROVE  /\ due' \in [Jobs -> Int]
           /\ \A j \in Jobs :
                 Owed(j)' => due'[j] = IF fetch[j] = "unsent"
                                       THEN Len(jobs') * Perform!Deadline
                                       ELSE due[j] - elapsed
<1>1. Len(jobs') \in Nat
  BY LenProperties DEF TypeOK
<1>2. Len(jobs') * Perform!Deadline \in Int
  BY <1>1, DeadlineIsNat
<1> QED  BY <1>2 DEF TimePasses, InTime

\* Steps that let the jobs be, or close them all.
LEMMA QuietInTime ==
    ASSUME IInv, IInv', PerformInv, InTime, Stays \/ Drains, KeepsPerforming,
           UNCHANGED outVars, TimePasses(0)
    PROVE  InTime'
<1>1. /\ TypeOK' /\ due' \in [Jobs -> Int]
      /\ \A j \in Jobs : Owed(j)' /\ fetch[j] # "unsent" => due'[j] = due[j]
  BY DueAfter DEF IInv, InTime
<1>2. Perform!Deadline' = Perform!Deadline /\ now' = now /\ InFlight' = InFlight /\ Ahead' = Ahead
  BY DEF outVars, Perform!Deadline, InFlight, KeepsPerforming, Ahead
<1>3. /\ under' = under
      /\ \A j \in Jobs : /\ fetch'[j] = "performing" => fetch[j] = "performing"
                         /\ fetch'[j] # "unsent" => fetch[j] # "unsent"
  BY DEF Stays, Drains, IInv, ReplySenderHeld
<1>4. ASSUME NEW j \in Jobs, fetch'[j] = "performing" PROVE due'[j] >= Ahead'
  <2>1. under[j] \in Exchanges /\ pc[under[j]] \in Performing
    BY <1>3, <1>4, PerformingIsOwed
  <2>2. pc'[under'[j]] \in Tenure
    BY <1>3, <2>1 DEF KeepsPerforming, Tenure
  <2> QED  BY <1>1, <1>2, <1>3, <1>4, <2>2 DEF InTime, Owed
<1>5. ASSUME NEW i \in DOMAIN jobs', Owed(jobs[i])'
      PROVE  due'[jobs'[i]] >= i * Perform!Deadline' + Ahead'
  <2>1. CASE Stays
    <3>1. jobs' = jobs /\ i \in DOMAIN jobs /\ jobs[i] \in Jobs
      BY <1>5, <2>1, ElementOfSeq, LenProperties DEF Stays, IInv, TypeOK
    <3>2. fetch[jobs[i]] = "queued" /\ under[jobs[i]] \in Exchanges
      BY <3>1 DEF IInv, ReplySenderHeld, ToSet, InTime
    <3>3. Owed(jobs[i])
      BY <1>5, <2>1, <3>1, <3>2 DEF Owed, Stays
    <3> QED  BY <1>1, <1>2, <1>5, <3>1, <3>2, <3>3 DEF InTime
  <2>2. CASE Drains
    BY <1>5, <2>2 DEF Drains
  <2> QED  BY <2>1, <2>2
<1> QED  BY <1>1, <1>2, <1>3, <1>4, <1>5 DEF InTime

\* drive() takes the first job, and those behind it move up by one.
LEMMA TakeInTime ==
    ASSUME IInv, IInv', PerformInv, InTime, NEW e \in Exchanges, TakeJob(e),
           UNCHANGED outVars, TimePasses(0)
    PROVE  InTime'
<1> DEFINE D == Perform!Deadline
<1>0. PICK first \in Jobs : first = Head(jobs)
  BY Dequeue DEF TakeJob, IInv, TypeOK
<1>1. /\ TypeOK' /\ due' \in [Jobs -> Int]
      /\ \A j \in Jobs : Owed(j)' /\ fetch[j] # "unsent" => due'[j] = due[j]
  BY DueAfter DEF IInv, InTime
<1>2. D \in Nat /\ D' = D /\ now' = now
  BY DeadlineIsNat DEF outVars, Perform!Deadline
<1>3. /\ pc[e] \in BlockOn /\ jobs # <<>> /\ jobs' = Tail(jobs) /\ under' = under
      /\ fetch' = [fetch EXCEPT ![first] = "performing"]
      /\ \A f \in Exchanges \ {e} : pc'[f] = pc[f]
      /\ pc'[e] \in Performing
  BY <1>0 DEF TakeJob, Goto, IInv, TypeOK, Performing
<1>4. ~InFlight /\ InFlight' /\ Ahead = 0 /\ now = 0 /\ Ahead' = D
  <2>1. ~InFlight /\ InFlight'
    BY <1>3, AloneInFlight DEF InFlight
  <2> QED  BY <1>2, <2>1 DEF InTime, Ahead
<1>5. /\ first \in Jobs /\ first = jobs[1] /\ 1 \in DOMAIN jobs /\ jobs \in Seq(Jobs)
      /\ \A i \in DOMAIN Tail(jobs) : i + 1 \in DOMAIN jobs /\ Tail(jobs)[i] = jobs[i + 1]
      /\ DOMAIN Tail(jobs) \subseteq Nat
      /\ \A i \in DOMAIN jobs : jobs[i] \in Jobs
  <2>1. jobs \in Seq(Jobs)
    BY DEF IInv, TypeOK
  <2> QED  BY <1>0, <1>3, <2>1, Dequeue, ElementOfSeq, LenProperties
<1>6. \A i \in DOMAIN jobs : fetch[jobs[i]] = "queued" /\ under[jobs[i]] = e
  BY <1>3, <1>5 DEF IInv, ReplySenderHeld, ToSet, QueueOfTenure, Tenure
<1>7. \A i \in DOMAIN jobs : Owed(jobs[i])
  BY <1>3, <1>6 DEF Owed, Tenure
<1> HIDE DEF D
<1>8. Owed(first)' /\ due'[first] = due[first] /\ due[first] >= D
  <2>1. Owed(first)'
    BY <1>1, <1>3, <1>5, <1>6 DEF Owed, Tenure, IInv, TypeOK
  <2>2. due'[first] = due[first]
    BY <1>1, <1>5, <1>6, <2>1
  <2>3. due[first] >= 1 * D + 0
    BY <1>4, <1>5, <1>7 DEF InTime, D
  <2> QED  BY <1>2, <1>5, <2>1, <2>2, <2>3 DEF InTime
<1>9. ASSUME NEW j \in Jobs, fetch'[j] = "performing" PROVE due'[j] >= Ahead'
  <2>1. fetch[j] # "performing"
    BY <1>4, PerformingIsOwed
  <2>2. j = first
    BY <1>3, <1>9, <2>1
  <2> QED  BY <1>4, <1>8, <2>2
<1>10. ASSUME NEW i \in DOMAIN jobs', Owed(jobs[i])'
       PROVE  due'[jobs'[i]] >= i * D' + Ahead'
  <2>1. i \in Nat /\ i + 1 \in DOMAIN jobs /\ jobs'[i] = jobs[i + 1] /\ jobs[i + 1] \in Jobs
    BY <1>3, <1>5
  <2>2. due[jobs[i + 1]] >= (i + 1) * D + 0
    BY <1>4, <1>7, <2>1 DEF InTime, D
  <2>3. due'[jobs'[i]] = due[jobs[i + 1]]
    BY <1>1, <1>6, <1>10, <2>1
  <2>4. (i + 1) * D = i * D + D
    BY <1>2, <2>1
  <2> QED  BY <1>2, <1>4, <2>1, <2>2, <2>3, <2>4 DEF InTime
<1>11. \A j \in Jobs : fetch'[j] # "unsent" => under'[j] \in Exchanges
  BY <1>3, <1>5, <1>6 DEF InTime
<1> QED  BY <1>1, <1>2, <1>4, <1>9, <1>10, <1>11 DEF InTime, D

\* A new job is given a deadline for every place of the queue up to its own.
LEMMA SubmitInTime ==
    ASSUME IInv, IInv', PerformInv, InTime, NEW t \in Exchanges, NEW k \in 1..MaxFetches,
           Submit(t, k), UNCHANGED outVars, TimePasses(0)
    PROVE  InTime'
<1> DEFINE D == Perform!Deadline
<1>0. PICK job \in Jobs : job = <<t, k>>
  BY DEF Jobs
<1>1. /\ TypeOK' /\ due' \in [Jobs -> Int]
      /\ \A j \in Jobs : Owed(j)' => due'[j] = IF fetch[j] = "unsent" THEN Len(jobs') * D ELSE due[j]
  BY DueAfter DEF IInv, InTime
<1>2. D \in Nat /\ D' = D /\ now' = now
  BY DeadlineIsNat DEF outVars, Perform!Deadline
<1>3. PICK e \in Exchanges : pc[e] \in BlockOn /\ under' = [under EXCEPT ![job] = e]
  BY <1>0 DEF Submit
<1>4. /\ fetch[job] = "unsent" /\ fetch' = [fetch EXCEPT ![job] = "queued"]
      /\ jobs' = Append(jobs, job) /\ pc' = pc
  BY <1>0 DEF Submit
<1>5. ~InFlight /\ ~InFlight' /\ Ahead = 0 /\ Ahead' = 0 /\ now = 0
  <2>1. ~InFlight
    BY <1>3, AloneInFlight
  <2> QED  BY <1>4, <2>1 DEF InFlight, Ahead, InTime
<1>6. /\ jobs \in Seq(Jobs) /\ Len(jobs') = Len(jobs) + 1 /\ Len(jobs) \in Nat
      /\ DOMAIN jobs = 1..Len(jobs) /\ DOMAIN jobs' = 1..(Len(jobs) + 1)
      /\ \A i \in 1..Len(jobs) : jobs'[i] = jobs[i] /\ jobs[i] \in Jobs
      /\ jobs'[Len(jobs) + 1] = job
  <2>1. jobs \in Seq(Jobs)
    BY DEF IInv, TypeOK
  <2>2. jobs' \in Seq(Jobs)
    BY <1>1 DEF TypeOK
  <2> QED  BY <1>4, <2>1, <2>2, AppendProperties, ElementOfSeq, LenProperties
<1> HIDE DEF D
<1>7. ASSUME NEW i \in DOMAIN jobs', Owed(jobs[i])'
      PROVE  due'[jobs'[i]] >= i * D' + Ahead'
  <2>1. CASE i = Len(jobs) + 1
    <3>1. due'[job] = Len(jobs') * D
      BY <1>1, <1>4, <1>6, <1>7, <2>1
    <3>2. i * D \in Int
      BY <1>2, <1>6, <2>1
    <3> QED  BY <1>2, <1>5, <1>6, <2>1, <3>1, <3>2
  <2>2. CASE i # Len(jobs) + 1
    <3>1. i \in DOMAIN jobs /\ jobs'[i] = jobs[i] /\ jobs[i] \in Jobs
      BY <1>6, <2>2
    <3>2. fetch[jobs[i]] = "queued"
      BY <3>1 DEF IInv, ReplySenderHeld, ToSet
    <3>3. jobs[i] # job
      BY <1>4, <3>2
    <3>4. Owed(jobs[i])
      BY <1>3, <1>4, <1>7, <3>1, <3>2, <3>3 DEF Owed, IInv, TypeOK
    <3>5. due[jobs[i]] >= i * D + Ahead
      BY <3>1, <3>4 DEF InTime, D
    <3>6. due'[jobs[i]] = due[jobs[i]]
      BY <1>1, <1>7, <3>1, <3>2
    <3> QED  BY <1>2, <1>5, <3>1, <3>5, <3>6
  <2> QED  BY <2>1, <2>2
<1>8. ASSUME NEW j \in Jobs, fetch'[j] = "performing" PROVE FALSE
  <2>1. fetch[j] = "performing"
    BY <1>4, <1>8 DEF IInv, TypeOK
  <2> QED  BY <1>5, <2>1, PerformingIsOwed
<1>9. \A j \in Jobs : fetch'[j] # "unsent" => under'[j] \in Exchanges
  BY <1>3, <1>4 DEF InTime, IInv, TypeOK
<1> QED  BY <1>1, <1>2, <1>5, <1>7, <1>8, <1>9 DEF InTime, D

\* perform() has returned, in time, or was dropped: the next job has a whole
\* deadline again.
LEMMA EndInTime ==
    ASSUME IInv, IInv', PerformInv, InTime, NEW e \in Exchanges,
           Performed(e) \/ CancelPerforming(e), AtRest, TimePasses(0)
    PROVE  InTime'
<1> DEFINE D == Perform!Deadline
<1>1. /\ TypeOK' /\ due' \in [Jobs -> Int]
      /\ \A j \in Jobs : Owed(j)' /\ fetch[j] # "unsent" => due'[j] = due[j]
  BY DueAfter DEF IInv, InTime
<1>2. D \in Nat /\ D' = D /\ now' = 0 /\ now <= D
  BY DeadlineIsNat DEF AtRest, Perform!Deadline, InTime
<1>3. /\ pc[e] \in Performing /\ pc'[e] \notin Performing /\ jobs' = jobs /\ under' = under
      /\ \A f \in Exchanges \ {e} : pc'[f] = pc[f]
      /\ \A j \in Jobs : fetch'[j] = fetch[j] \/ (fetch'[j] \in {"answered", "closed"} /\ j = current[e])
  <2>0. TypeOK
    BY DEF IInv
  <2>1. /\ pc[e] \in Performing /\ jobs' = jobs /\ under' = under
        /\ \E phase \in {"head", "body", "done"} : pc' = [pc EXCEPT ![e] = phase]
    BY DEF Performed, CancelPerforming, Goto, Performing
  <2>2. pc'[e] \notin Performing /\ \A f \in Exchanges \ {e} : pc'[f] = pc[f]
    BY <2>0, <2>1 DEF Performing, TypeOK
  <2>3. ASSUME NEW j \in Jobs
        PROVE  fetch'[j] = fetch[j] \/ (fetch'[j] \in {"answered", "closed"} /\ j = current[e])
    <3>1. \/ fetch' = [fetch EXCEPT ![current[e]] = "answered"]
          \/ fetch' = Closed({current[e]})
      BY DEF Performed, CancelPerforming
    <3> QED  BY <2>0, <3>1 DEF TypeOK, Closed
  <2> QED  BY <2>1, <2>2, <2>3
<1>4. InFlight /\ ~InFlight' /\ Ahead' = 0 /\ Ahead = D - now
  <2>1. InFlight
    BY <1>3 DEF InFlight
  <2>2. \A f \in Exchanges \ {e} : pc'[f] \notin Performing
    BY <1>3, AloneInFlight DEF Tenure
  <2>3. ~InFlight'
    BY <1>3, <2>2 DEF InFlight
  <2> QED  BY <2>1, <2>3 DEF Ahead
<1>5. \A j \in Jobs : fetch'[j] # "performing"
  <2> SUFFICES ASSUME NEW j \in Jobs, fetch'[j] = "performing" PROVE FALSE
    OBVIOUS
  <2>1. PICK f \in Exchanges : current'[f] = j
    BY DEF IInv, ReplySenderHeld
  <2>2. current'[f] # NoJob
    BY <2>1, NoJobIsNoJob
  <2>3. pc'[f] \in Performing
    BY <2>2 DEF IInv, ReplySenderHeld
  <2> QED  BY <1>4, <2>3 DEF InFlight
<1>6. \A j \in Jobs : fetch[j] # "unsent" => under[j] \in Exchanges
  BY DEF InTime
<1> HIDE DEF D
<1>7. ASSUME NEW i \in DOMAIN jobs', Owed(jobs[i])'
      PROVE  due'[jobs'[i]] >= i * D' + Ahead'
  <2>1. i \in DOMAIN jobs /\ i \in Nat /\ jobs'[i] = jobs[i] /\ jobs[i] \in Jobs
    BY <1>3, <1>7, ElementOfSeq, LenProperties DEF IInv, TypeOK
  <2>2. fetch[jobs[i]] = "queued"
    BY <2>1 DEF IInv, ReplySenderHeld, ToSet
  <2>3. pc'[under[jobs[i]]] \in Tenure /\ under[jobs[i]] \in Exchanges
    BY <1>3, <1>6, <1>7, <2>1, <2>2 DEF Owed
  <2>4. pc[under[jobs[i]]] \in Tenure
    BY <1>3, <2>3 DEF Tenure
  <2>5. Owed(jobs[i])
    BY <2>2, <2>4 DEF Owed
  <2>6. due[jobs[i]] >= i * D + Ahead
    BY <2>1, <2>5 DEF InTime, D
  <2>7. due'[jobs[i]] = due[jobs[i]] /\ due[jobs[i]] \in Int
    BY <1>1, <1>7, <2>1, <2>2 DEF InTime
  <2>8. i * D \in Int /\ now \in Nat
    BY <1>2, <2>1 DEF PerformInv, Perform!TypeOK
  <2> QED  BY <1>2, <1>4, <2>1, <2>6, <2>7, <2>8
<1>8. \A j \in Jobs : fetch'[j] # "unsent" => under'[j] \in Exchanges
  <2> SUFFICES ASSUME NEW j \in Jobs, fetch'[j] # "unsent" PROVE under[j] \in Exchanges
    BY <1>3
  <2>1. CASE fetch'[j] = fetch[j]
    BY <1>6, <2>1
  <2>2. CASE j = current[e]
    <3>1. fetch[j] = "performing"
      BY <2>2 DEF IInv, ReplySenderHeld
    <3> QED  BY <1>6, <3>1
  <2> QED  BY <1>3, <2>1, <2>2
<1> QED  BY <1>1, <1>2, <1>4, <1>5, <1>7, <1>8 DEF InTime, D

\* Time passes for a fetch only while a job is in flight, and no longer than its
\* deadline: everything else that holds a fetch back takes no time.
LEMMA PassInTime ==
    ASSUME IInv, IInv', PerformInv, InTime, Pass
    PROVE  InTime'
<1> DEFINE D == Perform!Deadline
<1>0. UNCHANGED vars /\ timeoutMs' = timeoutMs
  BY DEF Pass, Perform!Tick, Perform!callVars, outVars
<1>1. /\ pc' = pc /\ jobs' = jobs /\ fetch' = fetch /\ under' = under
      /\ InFlight' = InFlight
  BY <1>0 DEF vars, lockVars, jobVars, toolVars, InFlight
<1>2. /\ TypeOK' /\ due' \in [Jobs -> Int]
      /\ \A j \in Jobs : Owed(j)' /\ fetch[j] # "unsent" => due'[j] = due[j] - 1
  BY DueAfter DEF Pass, IInv
<1>3. D \in Nat /\ D' = D /\ now \in Nat
  BY <1>0, DeadlineIsNat DEF Perform!Deadline, PerformInv, Perform!TypeOK
<1>4. \A j \in Jobs : fetch[j] # "unsent" => under[j] \in Exchanges
  BY DEF InTime
<1>5. CASE InFlight
  <2>1. now < D /\ now' = now + 1
    BY <1>5 DEF Pass, Perform!Tick
  <2>2. Ahead = D - now /\ Ahead' = Ahead - 1 /\ Ahead \in Int
    BY <1>1, <1>3, <1>5, <2>1 DEF Ahead
  <2> HIDE DEF D
  <2>3. ASSUME NEW i \in DOMAIN jobs', Owed(jobs[i])'
        PROVE  due'[jobs'[i]] >= i * D' + Ahead'
    <3>1. i \in DOMAIN jobs /\ i \in Nat /\ jobs'[i] = jobs[i] /\ jobs[i] \in Jobs
      BY <1>1, <2>3, ElementOfSeq, LenProperties DEF IInv, TypeOK
    <3>2. fetch[jobs[i]] = "queued" /\ Owed(jobs[i])
      BY <1>1, <2>3, <3>1 DEF IInv, ReplySenderHeld, ToSet, Owed
    <3>3. due[jobs[i]] >= i * D + Ahead /\ due[jobs[i]] \in Int
      BY <3>1, <3>2 DEF InTime, D
    <3>4. due'[jobs[i]] = due[jobs[i]] - 1
      BY <1>2, <2>3, <3>1, <3>2
    <3>5. i * D \in Int
      BY <1>3, <3>1
    <3> QED  BY <1>3, <2>2, <3>1, <3>3, <3>4, <3>5
  <2>4. ASSUME NEW j \in Jobs, fetch'[j] = "performing" PROVE due'[j] >= Ahead'
    <3>1. fetch[j] = "performing" /\ Owed(j)
      BY <1>1, <2>4, PerformingIsOwed
    <3>2. Owed(j)'
      BY <1>1, <3>1 DEF Owed
    <3>3. due[j] >= Ahead /\ due[j] \in Int /\ due'[j] = due[j] - 1
      BY <1>2, <3>1, <3>2 DEF InTime
    <3> QED  BY <2>2, <3>3
  <2> QED  BY <1>1, <1>2, <1>3, <1>4, <1>5, <2>1, <2>3, <2>4 DEF InTime, D
<1>6. CASE ~InFlight
  <2>1. now' = now /\ now = 0 /\ Ahead' = 0
    BY <1>1, <1>6 DEF Pass, outVars, InTime, Ahead
  <2>2. ASSUME NEW i \in DOMAIN jobs, Owed(jobs[i])  PROVE FALSE
    <3>1. fetch[jobs[i]] = "queued" /\ jobs[i] \in Jobs /\ jobs # <<>>
      BY <2>2, ElementOfSeq, LenProperties DEF IInv, TypeOK, ReplySenderHeld, ToSet
    <3>2. PICK e \in Exchanges : e = under[jobs[i]]
      BY <1>4, <3>1
    <3>3. pc[e] \in Tenure /\ pc[e] \notin Performing /\ pc[e] \notin BlockOn
      BY <1>6, <2>2, <3>1, <3>2 DEF Owed, InFlight, Pass
    <3>4. pc[e] \in {"spawned", "sending", "trailers"}
      BY <3>3 DEF Tenure
    <3> QED  BY <3>1, <3>4 DEF IInv, NoJobBehindThePeer
  <2>3. \A i \in DOMAIN jobs' : ~Owed(jobs[i])'
    BY <1>1, <2>2 DEF Owed
  <2>4. \A j \in Jobs : fetch'[j] # "performing"
    BY <1>1, <1>6, PerformingIsOwed
  <2> QED  BY <1>1, <1>2, <1>3, <1>4, <2>1, <2>3, <2>4 DEF InTime, D
<1> QED  BY <1>5, <1>6

\* perform() and its upstream do not touch the clock.
LEMMA PolledInTime ==
    ASSUME InTime, Polled \/ Upstream \/ UNCHANGED svars
    PROVE  InTime'
<1>1. UNCHANGED <<vars, due>>
  BY DEF Polled, Upstream, svars
<1>2. now' = now /\ timeoutMs' = timeoutMs
  BY DEF Polled, Upstream, svars, outVars, Perform!Poll, Perform!callVars,
         Perform!Refuse, Perform!Build, Perform!SendFailed, Perform!HeadReceived,
         Perform!FrameBuffered, Perform!FrameTooLarge, Perform!BodyFailed,
         Perform!BodyComplete, Perform!DeadlineElapsed, Perform!UploadEnds,
         Perform!UpstreamAnswers, Perform!UpstreamSends, Perform!StreamEnds
<1>3. Perform!Deadline' = Perform!Deadline
  BY <1>2 DEF Perform!Deadline
<1> QED
  BY <1>1, <1>2, <1>3 DEF InTime, Ahead, InFlight, Owed, vars, lockVars, jobVars, toolVars

LEMMA TimeInit == ServiceInit => TimeInv
<1> SUFFICES ASSUME ServiceInit PROVE TimeInv
  OBVIOUS
<1>1. IInv /\ PerformInv
  BY InitInv, PerformInit DEF ServiceInit
<1>2. ~InFlight /\ Ahead = 0
  BY DEF ServiceInit, Init, InFlight, Performing, Ahead
<1>3. jobs = <<>> /\ now = 0 /\ due \in [Jobs -> Int] /\ \A j \in Jobs : fetch[j] = "unsent"
  BY DEF ServiceInit, Init, Perform!Init
<1> QED  BY <1>1, <1>2, <1>3, DeadlineIsNat DEF TimeInv, InTime

LEMMA TimeStep == TimeInv /\ [ServiceNext]_svars => TimeInv'
<1> SUFFICES ASSUME TimeInv, [ServiceNext]_svars PROVE TimeInv'
  OBVIOUS
<1>1. IInv /\ PerformInv /\ InTime
  BY DEF TimeInv
<1>2. IInv'
  <2>1. [Next]_vars
    BY ServiceStep DEF svars
  <2> QED  BY <1>1, <2>1, StepInv
<1>3. PerformInv'
  BY <1>1, PerformStep
<1>4. ASSUME NEW e \in Exchanges, CodeAlone(e) \/ Alone(e) PROVE InTime'
  <2>1. /\ pc[e] \notin Performing
        /\ CodeStep(e) \/ PeerStep(e) \/ ToolStep(e)
        /\ UNCHANGED outVars /\ TimePasses(0)
    BY <1>4 DEF CodeAlone, Alone
  <2>2. ~Performed(e) /\ ~CancelPerforming(e)
    BY <2>1 DEF Performed, CancelPerforming, Performing
  <2>3. CASE (Stays \/ Drains) /\ KeepsPerforming
    BY <1>1, <1>2, <2>1, <2>3, QuietInTime
  <2>4. CASE TakeJob(e)
    BY <1>1, <1>2, <2>1, <2>4, TakeInTime
  <2>5. CASE \E k \in 1..MaxFetches : Submit(e, k)
    BY <1>1, <1>2, <2>1, <2>5, SubmitInTime
  <2> QED  BY <1>1, <2>1, <2>2, <2>3, <2>4, <2>5, QueueSteps
<1>5. ASSUME NEW e \in Exchanges, Reply(e) \/ Cancel(e) PROVE InTime'
  BY <1>1, <1>2, <1>5, EndInTime DEF Reply, Cancel
<1>6. ASSUME Pass PROVE InTime'
  BY <1>1, <1>2, <1>6, PassInTime
<1>7. ASSUME Polled \/ Upstream \/ UNCHANGED svars PROVE InTime'
  BY <1>1, <1>7, PolledInTime
<1> QED
  BY <1>1, <1>2, <1>3, <1>4, <1>5, <1>6, <1>7 DEF ServiceNext, TimeInv

\* A tool that awaits a fetch has its outcome within one deadline for each job
\* that was ahead of it and one of its own, for any number of exchanges and
\* fetches, whatever clients and upstreams do.
THEOREM EveryFetchInTime == ServiceSpec => []FetchInTime
<1>1. TimeInv => FetchInTime
  <2> SUFFICES ASSUME TimeInv, NEW j \in Jobs, Owed(j) PROVE due[j] >= 0
    BY DEF FetchInTime
  <2>1. IInv /\ PerformInv /\ InTime
    BY DEF TimeInv
  <2>2. Perform!Deadline \in Nat /\ Ahead \in Nat /\ due[j] \in Int
    BY <2>1, DeadlineIsNat DEF InTime, Ahead, PerformInv, Perform!TypeOK
  <2>3. CASE fetch[j] = "performing"
    BY <2>1, <2>2, <2>3 DEF InTime
  <2>4. CASE fetch[j] = "queued"
    <3>1. PICK i \in DOMAIN jobs : jobs[i] = j
      BY <2>1, <2>4 DEF IInv, ReplySenderHeld, ToSet
    <3>2. i \in Nat
      BY <2>1, LenProperties DEF IInv, TypeOK
    <3>3. due[j] >= i * Perform!Deadline + Ahead
      BY <2>1, <3>1 DEF InTime
    <3>4. i * Perform!Deadline \in Nat
      BY <2>2, <3>2
    <3> HIDE DEF Perform!Deadline
    <3> QED  BY <2>2, <3>3, <3>4
  <2> QED  BY <2>3, <2>4 DEF Owed
<1> QED  BY <1>1, TimeInit, TimeStep, PTL DEF ServiceSpec
=============================================================================
