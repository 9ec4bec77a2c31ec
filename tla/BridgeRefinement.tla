-------------------------- MODULE BridgeRefinement --------------------------
(***************************************************************************)
(* The bridge implements SerialServer: exchanges are served one at a time, *)
(* in the order in which they asked for the request lock, each at most     *)
(* once, whatever is cancelled, refused or cut short.                      *)
(***************************************************************************)
EXTENDS BridgeProofs

\* The queue of the lock holds the exchanges that wait, once each, and the lock
\* is never free while one waits.
LineInv ==
    /\ lock = NoOne => waiters = <<>>
    /\ lock # NoOne => pc[lock] \in Tenure \cup {"waiting"}
    /\ \A e \in ToSet(waiters) : pc[e] = "waiting" /\ e # lock
    /\ IsInjective(waiters)

-----------------------------------------------------------------------------
(* Sequences                                                               *)

LEMMA ToSetSubset ==
    ASSUME NEW S, NEW s \in Seq(S)
    PROVE  ToSet(s) \subseteq S
  BY DEF ToSet

LEMMA RemovalSet ==
    ASSUME NEW S, NEW s \in Seq(S), NEW i \in DOMAIN s, IsInjective(s)
    PROVE  /\ ToSet(RemoveAt(s, i)) = ToSet(s) \ {s[i]}
           /\ IsInjective(RemoveAt(s, i))
<1> DEFINE r == RemoveAt(s, i)
<1>1. Len(s) \in Nat /\ DOMAIN s = 1..Len(s)
  BY LenProperties
<1>2. /\ r \in Seq(S) /\ DOMAIN r = 1..(Len(s) - 1)
      /\ \A j \in 1..(Len(s) - 1) : r[j] = IF j < i THEN s[j] ELSE s[j + 1]
  BY Removal
<1> HIDE DEF r
<1>3. \A j \in DOMAIN r : (IF j < i THEN j ELSE j + 1) \in DOMAIN s \ {i}
  BY <1>1, <1>2
<1>4. \A j \in DOMAIN r : r[j] \in ToSet(s) \ {s[i]}
  BY <1>1, <1>2, <1>3 DEF IsInjective, ToSet
<1>5. ASSUME NEW x \in ToSet(s) \ {s[i]} PROVE x \in ToSet(r)
  <2>1. PICK k \in DOMAIN s : s[k] = x
    BY DEF ToSet
  <2>2. CASE k < i
    <3>1. k \in DOMAIN r /\ r[k] = x
      BY <1>1, <1>2, <2>1, <2>2
    <3> QED  BY <3>1 DEF ToSet
  <2>3. CASE k > i
    <3>1. k - 1 \in DOMAIN r /\ ~(k - 1 < i) /\ (k - 1) + 1 = k
      BY <1>1, <1>2, <2>1, <2>3
    <3>2. r[k - 1] = x
      BY <1>2, <2>1, <3>1
    <3> QED  BY <3>1, <3>2 DEF ToSet
  <2> QED  BY <1>1, <2>1, <2>2, <2>3
<1>6. IsInjective(r)
  <2> SUFFICES ASSUME NEW a \in DOMAIN r, NEW b \in DOMAIN r, r[a] = r[b] PROVE a = b
    BY DEF IsInjective
  <2> QED  BY <1>1, <1>2, <1>3 DEF IsInjective
<1>7. ToSet(r) = ToSet(s) \ {s[i]}
  BY <1>4, <1>5 DEF ToSet
<1> QED  BY <1>6, <1>7 DEF r

\* A sequence with one more element in front.
LEMMA InFront ==
    ASSUME NEW S, NEW x \in S, NEW s \in Seq(S)
    PROVE  /\ <<x>> \o s \in Seq(S)
           /\ <<x>> \o s # <<>>
           /\ DOMAIN (<<x>> \o s) = 1..(Len(s) + 1)
           /\ (<<x>> \o s)[1] = x
           /\ \A i \in DOMAIN s : (<<x>> \o s)[i + 1] = s[i]
           /\ Head(<<x>> \o s) = x
           /\ Tail(<<x>> \o s) = s
<1> DEFINE t == <<x>> \o s
<1>1. <<x>> \in Seq(S) /\ Len(<<x>>) = 1 /\ <<x>>[1] = x
  OBVIOUS
<1>2. Len(s) \in Nat /\ DOMAIN s = 1..Len(s)
  BY LenProperties
<1>3. /\ t \in Seq(S) /\ Len(t) = 1 + Len(s)
      /\ \A i \in 1..(1 + Len(s)) : t[i] = IF i <= 1 THEN <<x>>[i] ELSE s[i - 1]
  BY <1>1, ConcatProperties
<1> HIDE DEF t
<1>4. DOMAIN t = 1..(Len(s) + 1) /\ t # <<>>
  BY <1>2, <1>3, LenProperties, EmptySeq
<1>5. t[1] = x
  BY <1>1, <1>2, <1>3
<1>6. ASSUME NEW i \in DOMAIN s PROVE t[i + 1] = s[i]
  <2>1. i + 1 \in 1..(1 + Len(s)) /\ ~(i + 1 <= 1) /\ (i + 1) - 1 = i
    BY <1>2
  <2> QED  BY <1>3, <2>1
<1>7. /\ Head(t) = t[1] /\ Tail(t) \in Seq(S) /\ Len(Tail(t)) = Len(t) - 1
      /\ \A i \in 1..Len(Tail(t)) : Tail(t)[i] = t[i + 1]
  BY <1>3, <1>4, Dequeue, HeadTailProperties
<1>8. Tail(t) = s
  BY <1>2, <1>3, <1>6, <1>7, SeqEqual
<1> QED  BY <1>3, <1>4, <1>5, <1>6, <1>7, <1>8 DEF t

\* Putting the head back in front of the tail.
LEMMA HeadTail ==
    ASSUME NEW S, NEW s \in Seq(S), s # <<>>
    PROVE  <<Head(s)>> \o Tail(s) = s
<1>1. /\ Head(s) \in S /\ Head(s) = s[1] /\ Tail(s) \in Seq(S) /\ Len(Tail(s)) = Len(s) - 1
      /\ \A i \in 1..Len(Tail(s)) : Tail(s)[i] = s[i + 1]
  BY Dequeue, HeadTailProperties
<1>2. Len(s) \in Nat /\ Len(s) > 0
  BY EmptySeq, LenProperties
<1> DEFINE t == <<Head(s)>> \o Tail(s)
<1>3. /\ t \in Seq(S) /\ DOMAIN t = 1..Len(s) /\ t[1] = Head(s)
      /\ \A i \in DOMAIN Tail(s) : t[i + 1] = Tail(s)[i]
  BY <1>1, <1>2, InFront
<1>4. Len(t) = Len(s)
  BY <1>2, <1>3, LenProperties
<1> HIDE DEF t
<1>5. ASSUME NEW i \in 1..Len(s) PROVE t[i] = s[i]
  <2>1. CASE i = 1
    BY <1>1, <1>3, <2>1
  <2>2. CASE i # 1
    <3>1. i - 1 \in 1..Len(Tail(s)) /\ (i - 1) + 1 = i /\ i - 1 \in DOMAIN Tail(s)
      BY <1>1, <1>2, <2>2, LenProperties
    <3> QED  BY <1>1, <1>3, <3>1
  <2> QED  BY <2>1, <2>2
<1>6. t = s
  BY <1>3, <1>4, <1>5, SeqEqual
<1> QED  BY <1>6 DEF t

-----------------------------------------------------------------------------
(* The queue of the lock                                                   *)

\* Releasing the lock hands it to the first in the queue.
LEMMA ReleaseLine ==
    ASSUME TypeOK, LineInv, Release
    PROVE  /\ lock' = NoOne => waiters' = <<>>
           /\ lock' # NoOne => lock' \in ToSet(waiters)
           /\ \A e \in ToSet(waiters') : e \in ToSet(waiters) /\ e # lock'
           /\ IsInjective(waiters')
           /\ waiters = IF lock' = NoOne THEN <<>> ELSE <<lock'>> \o waiters'
<1>1. CASE waiters = <<>>
  BY <1>1, EmptyQueue DEF Release
<1>2. CASE waiters # <<>>
  <2>1. waiters \in Seq(Exchanges)
    BY DEF TypeOK
  <2>2. /\ Head(waiters) \in ToSet(waiters) /\ Head(waiters) \in Exchanges
        /\ ToSet(Tail(waiters)) = ToSet(waiters) \ {Head(waiters)}
        /\ IsInjective(Tail(waiters))
        /\ waiters = <<Head(waiters)>> \o Tail(waiters)
    BY <1>2, <2>1, Dequeue, DequeueSet, HeadTail DEF LineInv
  <2>3. lock' = Head(waiters) /\ waiters' = Tail(waiters)
    BY <1>2 DEF Release
  <2>4. lock' # NoOne
    BY <2>2, <2>3, NoOneAssumption
  <2> QED  BY <2>2, <2>3, <2>4
<1> QED  BY <1>1, <1>2

LEMMA LineStep ==
    ASSUME TypeOK, DriveHoldsLock, LineInv, [Next]_vars
    PROVE  LineInv'
<1> USE NoOneAssumption DEF TypeOK, BlockOn, Performing, Tenure, Goto, Moves, DropBody, lockVars, jobVars, toolVars, FutureReady, EnterHead, LineInv
<1>1. CASE UNCHANGED vars
  BY <1>1 DEF vars
<1>2. CASE Quiescent
  BY <1>2 DEF Quiescent, vars
<1>3. ASSUME NEW e \in Exchanges, CodeStep(e) PROVE LineInv'
  <2>1. CASE AnswerDefaultRoute(e)  BY <2>1 DEF AnswerDefaultRoute
  <2>2. CASE AcquireHanded(e)  BY <2>2 DEF AcquireHanded
  <2>3. CASE TakeJob(e)  BY <2>3 DEF TakeJob
  <2>4. CASE Performed(e)  BY <2>4 DEF Performed
  <2>5. CASE HeadersReady(e)  BY <2>5 DEF HeadersReady
  <2>6. CASE HeadersRejected(e)
    <3>1. pc[e] \in Tenure /\ e = lock
      BY <2>6 DEF HeadersRejected, DriveHoldsLock
    <3>2. Release /\ pc' = [pc EXCEPT ![e] = "done"]
      BY <2>6 DEF HeadersRejected
    <3>3. ToSet(waiters) \subseteq Exchanges
      BY ToSetSubset
    <3> QED  BY <3>1, <3>2, <3>3, ReleaseLine
  <2>7. CASE PumpStart(e)  BY <2>7 DEF PumpStart
  <2>8. CASE FrameReady(e)  BY <2>8 DEF FrameReady
  <2>9. CASE BodyEnd(e)  BY <2>9 DEF BodyEnd
  <2>10. CASE SendFailed(e)
    <3>1. pc[e] \in Tenure /\ e = lock
      BY <2>10 DEF SendFailed, DriveHoldsLock
    <3>2. Release /\ pc' = [pc EXCEPT ![e] = "cut"]
      BY <2>10 DEF SendFailed
    <3>3. ToSet(waiters) \subseteq Exchanges
      BY ToSetSubset
    <3> QED  BY <3>1, <3>2, <3>3, ReleaseLine
  <2>11. CASE TransmissionObserved(e)  BY <2>11 DEF TransmissionObserved
  <2> QED  BY <1>3, <2>1, <2>2, <2>3, <2>4, <2>5, <2>6, <2>7, <2>8, <2>9, <2>10, <2>11 DEF CodeStep
<1>4. ASSUME NEW e \in Exchanges, PeerStep(e) PROVE LineInv'
  <2>1. CASE Call(e)  BY <2>1 DEF Call
  <2>2. CASE PayloadTooLarge(e)  BY <2>2 DEF PayloadTooLarge
  <2>3. CASE ReadFailed(e)  BY <2>3 DEF ReadFailed
  <2>4. CASE StaticWritten(e)  BY <2>4 DEF StaticWritten
  <2>5. CASE AcquireFree(e)  BY <2>5, EmptyQueue DEF AcquireFree
  <2>6. CASE AwaitLock(e)
    <3>1. /\ waiters' = Append(waiters, e) /\ lock' = lock /\ lock # NoOne
          /\ pc' = [pc EXCEPT ![e] = "waiting"] /\ pc[e] = "reading"
      BY <2>6 DEF AwaitLock
    <3>2. e \notin ToSet(waiters) /\ e # lock
      BY <3>1
    <3>3. ToSet(waiters') = ToSet(waiters) \cup {e} /\ IsInjective(waiters')
      BY <3>1, <3>2, EnqueueSet
    <3>4. ToSet(waiters) \subseteq Exchanges
      BY ToSetSubset
    <3> QED  BY <3>1, <3>2, <3>3, <3>4
  <2>7. CASE TrailersTaken(e)
    <3>1. pc[e] \in Tenure /\ e = lock
      BY <2>7 DEF TrailersTaken, DriveHoldsLock
    <3>2. Release /\ pc' = [pc EXCEPT ![e] = "observing"]
      BY <2>7 DEF TrailersTaken
    <3>3. ToSet(waiters) \subseteq Exchanges
      BY ToSetSubset
    <3> QED  BY <3>1, <3>2, <3>3, ReleaseLine
  <2>8. CASE CancelReading(e)  BY <2>8 DEF CancelReading
  <2>9. CASE CancelWaiting(e)
    <3>1. pc[e] = "waiting" /\ pc' = [pc EXCEPT ![e] = "done"] /\ ToSet(waiters) \subseteq Exchanges
      BY <2>9, ToSetSubset DEF CancelWaiting
    <3>2. CASE lock = e /\ Release
      BY <3>1, <3>2, ReleaseLine
    <3>3. ASSUME lock # e, NEW i \in DOMAIN waiters, waiters[i] = e,
                 waiters' = RemoveAt(waiters, i), lock' = lock
          PROVE  LineInv'
      <4>1. ToSet(waiters') = ToSet(waiters) \ {e} /\ IsInjective(waiters')
        BY <3>3, RemovalSet
      <4>2. waiters # <<>>
        BY <3>3
      <4> QED  BY <3>1, <3>3, <4>1, <4>2
    <3> QED  BY <2>9, <3>2, <3>3 DEF CancelWaiting
  <2>10. CASE CancelPerforming(e)
    <3>1. pc[e] \in Tenure /\ e = lock
      BY <2>10 DEF CancelPerforming, DriveHoldsLock
    <3>2. Release /\ pc' = [pc EXCEPT ![e] = "done"]
      BY <2>10 DEF CancelPerforming
    <3>3. ToSet(waiters) \subseteq Exchanges
      BY ToSetSubset
    <3> QED  BY <3>1, <3>2, <3>3, ReleaseLine
  <2>11. CASE SendAccepted(e)  BY <2>11 DEF SendAccepted
  <2> QED  BY <1>4, <2>1, <2>2, <2>3, <2>4, <2>5, <2>6, <2>7, <2>8, <2>9, <2>10, <2>11 DEF PeerStep
<1>5. ASSUME NEW t \in Exchanges, ToolStep(t) PROVE LineInv'
  <2>1. ASSUME NEW k \in 1..MaxFetches, Submit(t, k) PROVE LineInv'
    BY <2>1 DEF Submit
  <2>2. CASE Emit(t)  BY <2>2 DEF Emit
  <2>3. CASE Finish(t)  BY <2>3 DEF Finish
  <2> QED  BY <1>5, <2>1, <2>2, <2>3 DEF ToolStep
<1> QED  BY <1>1, <1>2, <1>3, <1>4, <1>5 DEF Next

-----------------------------------------------------------------------------
(* Each step of the bridge, seen as a step of the server                   *)

Gone == {"observing", "cut", "done"}

\* Moving between phases that are alike to the server is a stutter.
LEMMA StutterStep ==
    ASSUME TypeOK, NEW e \in Exchanges, NEW phase, Goto(e, phase), UNCHANGED lockVars,
           pc[e] # "waiting", phase # "waiting", pc[e] \in Gone <=> phase \in Gone
    PROVE  UNCHANGED Serial!vars
<1>1. /\ pc' = [pc EXCEPT ![e] = phase] /\ lock' = lock /\ waiters' = waiters
      /\ pc \in [Exchanges -> Phases] /\ lock \in Exchanges \cup {NoOne}
  BY DEF Goto, lockVars, TypeOK
<1>2. Handed' <=> Handed
  BY <1>1 DEF Handed
<1>3. Line' = Line /\ Active' = Active
  BY <1>1, <1>2 DEF Line, Active
<1>4. \A f \in Exchanges : pc'[f] \in Gone <=> pc[f] \in Gone
  BY <1>1
<1>5. Left' = Left
  BY <1>4 DEF Left, Gone
<1> QED  BY <1>3, <1>5 DEF Serial!vars

\* An exchange that has not asked for the lock is outside.
LEMMA NotYetOutside ==
    ASSUME TypeOK, DriveHoldsLock, LineInv, NEW e \in Exchanges, pc[e] \in {"idle", "reading", "replying"}
    PROVE  Serial!Outside(e)
<1>1. e # lock /\ e \notin ToSet(waiters) /\ e # NoOne
  BY NoOneAssumption DEF LineInv, Tenure, BlockOn, Performing
<1>2. waiters \in Seq(Exchanges)
  BY DEF TypeOK
<1>3. e \notin ToSet(Line)
  <2>1. CASE Handed
    <3>1. lock \in Exchanges
      BY <2>1 DEF Handed, TypeOK
    <3>2. /\ DOMAIN (<<lock>> \o waiters) = 1..(Len(waiters) + 1)
          /\ (<<lock>> \o waiters)[1] = lock
          /\ \A i \in DOMAIN waiters : (<<lock>> \o waiters)[i + 1] = waiters[i]
      BY <1>2, <3>1, InFront
    <3>3. Len(waiters) \in Nat /\ DOMAIN waiters = 1..Len(waiters)
      BY <1>2, LenProperties
    <3>4. ASSUME NEW i \in DOMAIN (<<lock>> \o waiters) PROVE (<<lock>> \o waiters)[i] # e
      <4>1. CASE i = 1
        BY <1>1, <3>2, <4>1
      <4>2. CASE i # 1
        <5>1. i - 1 \in DOMAIN waiters /\ (i - 1) + 1 = i
          BY <3>2, <3>3, <4>2
        <5>2. (<<lock>> \o waiters)[i] = waiters[i - 1]
          BY <3>2, <5>1
        <5> QED  BY <1>1, <5>1, <5>2 DEF ToSet
      <4> QED  BY <4>1, <4>2
    <3> QED  BY <2>1, <3>4 DEF Line, ToSet
  <2>2. CASE ~Handed
    BY <1>1, <2>2 DEF Line
  <2> QED  BY <2>1, <2>2
<1>4. e \notin Left /\ e # Active
  BY <1>1 DEF Left, Active
<1> QED  BY <1>3, <1>4 DEF Serial!Outside, Serial!ToSet, ToSet

\* An exchange that ends without having asked.
LEMMA NeverAskStep ==
    ASSUME TypeOK, DriveHoldsLock, LineInv, NEW e \in Exchanges,
           pc[e] \in {"idle", "reading", "replying"}, Goto(e, "done"), UNCHANGED lockVars
    PROVE  Serial!NeverAsk(e)
<1>1. /\ pc' = [pc EXCEPT ![e] = "done"] /\ lock' = lock /\ waiters' = waiters
      /\ pc \in [Exchanges -> Phases] /\ lock \in Exchanges \cup {NoOne}
  BY DEF Goto, lockVars, TypeOK
<1>2. Handed' <=> Handed
  BY <1>1 DEF Handed
<1>3. Line' = Line /\ Active' = Active
  BY <1>1, <1>2 DEF Line, Active
<1>4. Left' = Left \cup {e}
  BY <1>1 DEF Left
<1>5. Serial!Outside(e)
  BY NotYetOutside
<1> QED  BY <1>3, <1>4, <1>5 DEF Serial!NeverAsk

\* An exchange that ends its tenure, the lock handed to the next in line.
LEMMA CompleteStep ==
    ASSUME TypeOK, DriveHoldsLock, LineInv, NEW e \in Exchanges, NEW phase \in Gone,
           pc[e] \in Tenure, Goto(e, phase), Release
    PROVE  Serial!Complete
<1>1. lock = e /\ pc' = [pc EXCEPT ![e] = phase] /\ pc \in [Exchanges -> Phases] /\ e # NoOne
  BY NoOneAssumption DEF DriveHoldsLock, Goto, TypeOK
<1>2. pc[e] # "waiting" /\ pc[e] \notin Gone
  BY DEF Tenure, BlockOn, Performing, Gone
<1>3. ~Handed /\ Line = waiters /\ Active = e
  BY <1>1, <1>2 DEF Handed, Line, Active
<1>4. /\ lock' = NoOne => waiters' = <<>>
      /\ lock' # NoOne => lock' \in ToSet(waiters)
      /\ waiters = IF lock' = NoOne THEN <<>> ELSE <<lock'>> \o waiters'
  BY ReleaseLine
<1>5. Line' = waiters /\ Active' = NoOne
  <2>1. CASE lock' = NoOne
    BY <1>4, <2>1 DEF Handed, Line, Active
  <2>2. CASE lock' # NoOne
    <3>1. lock' \in Exchanges /\ pc[lock'] = "waiting" /\ lock' # e
      BY <1>1, <1>4, <2>2, ToSetSubset DEF LineInv, TypeOK
    <3>2. Handed'
      BY <1>1, <2>2, <3>1 DEF Handed
    <3> QED  BY <1>4, <2>2, <3>2 DEF Line, Active
  <2> QED  BY <2>1, <2>2
<1>6. Left' = Left \cup {e}
  BY <1>1 DEF Left, Gone
<1> QED  BY <1>1, <1>3, <1>5, <1>6 DEF Serial!Complete

LEMMA AskWhenIdleStep ==
    ASSUME TypeOK, DriveHoldsLock, LineInv, NEW e \in Exchanges, AcquireFree(e)
    PROVE  Serial!AskWhenIdle(e)
<1>1. /\ pc[e] = "reading" /\ lock = NoOne /\ lock' = e /\ waiters' = waiters /\ waiters = <<>>
      /\ pc' = [pc EXCEPT ![e] = "head"] /\ pc \in [Exchanges -> Phases] /\ e # NoOne
  BY NoOneAssumption DEF AcquireFree, EnterHead, Goto, LineInv, TypeOK
<1>2. ~Handed /\ ~Handed'
  BY <1>1 DEF Handed
<1>3. Line = <<>> /\ Line' = <<>> /\ Active = NoOne /\ Active' = e
  BY <1>1, <1>2 DEF Line, Active
<1>4. Left' = Left
  BY <1>1 DEF Left
<1>5. Serial!Outside(e)
  BY <1>1, NotYetOutside
<1> QED  BY <1>3, <1>4, <1>5 DEF Serial!AskWhenIdle

LEMMA JoinStep ==
    ASSUME TypeOK, DriveHoldsLock, LineInv, NEW e \in Exchanges, AwaitLock(e)
    PROVE  Serial!Join(e)
<1>1. /\ pc[e] = "reading" /\ lock # NoOne /\ lock' = lock /\ waiters' = Append(waiters, e)
      /\ pc' = [pc EXCEPT ![e] = "waiting"] /\ pc \in [Exchanges -> Phases]
      /\ lock \in Exchanges /\ waiters \in Seq(Exchanges)
  BY DEF AwaitLock, Goto, TypeOK
<1>2. lock # e
  BY <1>1 DEF LineInv, Tenure, BlockOn, Performing
<1>3. Handed' <=> Handed
  BY <1>1, <1>2 DEF Handed
<1>4. <<lock>> \o Append(waiters, e) = Append(<<lock>> \o waiters, e)
  <2>1. Append(waiters, e) = waiters \o <<e>>
    BY <1>1, AppendIsConcat
  <2>2. <<lock>> \o waiters \in Seq(Exchanges)
    BY <1>1, InFront
  <2>3. Append(<<lock>> \o waiters, e) = (<<lock>> \o waiters) \o <<e>>
    BY <2>2, AppendIsConcat
  <2>4. <<lock>> \in Seq(Exchanges) /\ <<e>> \in Seq(Exchanges)
    BY <1>1
  <2> QED  BY <1>1, <2>1, <2>3, <2>4, ConcatAssociative
<1>5. Line' = Append(Line, e) /\ Active' = Active
  BY <1>1, <1>3, <1>4 DEF Line, Active
<1>6. Left' = Left
  BY <1>1 DEF Left
<1>7. Serial!Outside(e)
  BY <1>1, NotYetOutside
<1> QED  BY <1>5, <1>6, <1>7 DEF Serial!Join

LEMMA BeginStep ==
    ASSUME TypeOK, NEW e \in Exchanges, AcquireHanded(e)
    PROVE  Serial!Begin
<1>1. /\ pc[e] = "waiting" /\ lock = e /\ lock' = e /\ waiters' = waiters
      /\ pc' = [pc EXCEPT ![e] = "head"] /\ pc \in [Exchanges -> Phases]
      /\ waiters \in Seq(Exchanges) /\ e # NoOne
  BY NoOneAssumption DEF AcquireHanded, EnterHead, Goto, TypeOK, lockVars
<1>2. Handed /\ ~Handed'
  BY <1>1 DEF Handed
<1>3. Line = <<e>> \o waiters /\ Line' = waiters /\ Active = NoOne /\ Active' = e
  BY <1>1, <1>2 DEF Line, Active
<1>4. Line # <<>> /\ Head(Line) = e /\ Tail(Line) = waiters
  BY <1>1, <1>3, InFront
<1>5. Left' = Left
  BY <1>1 DEF Left
<1> QED  BY <1>3, <1>4, <1>5 DEF Serial!Begin

\* Giving up a place in the queue, or the lock just handed over.
LEMMA WithdrawStep ==
    ASSUME TypeOK, LineInv, NEW e \in Exchanges, CancelWaiting(e)
    PROVE  \E i \in DOMAIN Line : Serial!Withdraw(i)
<1>1. /\ pc[e] = "waiting" /\ pc' = [pc EXCEPT ![e] = "done"] /\ pc \in [Exchanges -> Phases]
      /\ waiters \in Seq(Exchanges) /\ e # NoOne /\ lock \in Exchanges \cup {NoOne}
  BY NoOneAssumption DEF CancelWaiting, Goto, TypeOK
<1>2. Left' = Left \cup {e}
  BY <1>1 DEF Left
<1>3. CASE lock = e /\ Release
  <2>1. Handed /\ Line = <<e>> \o waiters /\ Active = NoOne
    BY <1>1, <1>3 DEF Handed, Line, Active
  <2>2. /\ lock' = NoOne => waiters' = <<>>
        /\ lock' # NoOne => lock' \in ToSet(waiters)
        /\ waiters = IF lock' = NoOne THEN <<>> ELSE <<lock'>> \o waiters'
    BY <1>3, ReleaseLine
  <2>3. Line' = waiters /\ Active' = NoOne
    <3>1. CASE lock' = NoOne
      BY <2>2, <3>1 DEF Handed, Line, Active
    <3>2. CASE lock' # NoOne
      <4>1. lock' \in Exchanges /\ pc[lock'] = "waiting" /\ lock' # e
        BY <1>1, <1>3, <2>2, <3>2, ToSetSubset DEF LineInv
      <4>2. Handed'
        BY <1>1, <3>2, <4>1 DEF Handed
      <4> QED  BY <2>2, <3>2, <4>2 DEF Line, Active
    <3> QED  BY <3>1, <3>2
  <2>4. /\ Line \in Seq(Exchanges) /\ DOMAIN Line = 1..(Len(waiters) + 1) /\ Line[1] = e
        /\ Tail(Line) = waiters /\ Line # <<>>
    BY <1>1, <2>1, InFront
  <2>5. Len(waiters) \in Nat /\ Len(Line) = Len(waiters) + 1
    BY <1>1, <2>4, LenProperties
  <2>6. RemoveAt(Line, 1) = waiters
    <3>1. SubSeq(Line, 1, 1 - 1) = <<>>
      BY SubSeqEmpty
    <3>2. SubSeq(Line, 1 + 1, Len(Line)) = waiters
      BY <2>4, TailIsSubSeq
    <3> QED  BY <1>1, <3>1, <3>2, ConcatEmptySeq DEF RemoveAt
  <2>7. 1 \in DOMAIN Line
    BY <2>4, <2>5
  <2>8. Line' = RemoveAt(Line, 1) /\ Left' = Left \cup {Line[1]} /\ Active' = Active
    BY <1>2, <2>1, <2>3, <2>4, <2>6
  <2>9. Serial!Withdraw(1)
    BY <2>8 DEF Serial!Withdraw, Serial!RemoveAt, RemoveAt
  <2> QED  BY <2>7, <2>9
<1>4. ASSUME lock # e, NEW i \in DOMAIN waiters, waiters[i] = e,
             waiters' = RemoveAt(waiters, i), lock' = lock
      PROVE  \E k \in DOMAIN Line : Serial!Withdraw(k)
  <2>1. Len(waiters) \in Nat /\ DOMAIN waiters = 1..Len(waiters)
    BY <1>1, LenProperties
  <2>2. (Handed' <=> Handed) /\ Active' = Active
    BY <1>1, <1>4 DEF Handed, Active
  <2>3. CASE ~Handed
    <3>1. Line = waiters /\ Line' = RemoveAt(waiters, i)
      BY <1>4, <2>2, <2>3 DEF Line
    <3>2. Line' = RemoveAt(Line, i) /\ Left' = Left \cup {Line[i]} /\ Active' = Active
      BY <1>2, <1>4, <2>2, <3>1
    <3>3. Serial!Withdraw(i)
      BY <3>2 DEF Serial!Withdraw, Serial!RemoveAt, RemoveAt
    <3> QED  BY <1>4, <3>1, <3>3
  <2>4. CASE Handed
    <3>1. /\ lock \in Exchanges
          /\ Line = <<lock>> \o waiters /\ Line' = <<lock>> \o RemoveAt(waiters, i)
      BY <1>1, <1>4, <2>2, <2>4 DEF Line, Handed
    <3>2. /\ Line \in Seq(Exchanges) /\ DOMAIN Line = 1..(Len(waiters) + 1) /\ Line[1] = lock
          /\ \A j \in DOMAIN waiters : Line[j + 1] = waiters[j]
      BY <1>1, <3>1, InFront
    <3>3. i + 1 \in DOMAIN Line /\ Line[i + 1] = e
      BY <1>4, <2>1, <3>2
    <3>4. RemoveAt(Line, i + 1) = <<lock>> \o RemoveAt(waiters, i)
      <4> DEFINE w == RemoveAt(waiters, i)
                 v == RemoveAt(Line, i + 1)
                 u == <<lock>> \o w
      <4>1. /\ w \in Seq(Exchanges) /\ DOMAIN w = 1..(Len(waiters) - 1)
            /\ Len(w) = Len(waiters) - 1
            /\ \A j \in 1..(Len(waiters) - 1) : w[j] = IF j < i THEN waiters[j] ELSE waiters[j + 1]
        BY <1>1, Removal
      <4>2. Len(Line) = Len(waiters) + 1
        BY <2>1, <3>2, LenProperties
      <4>3. /\ v \in Seq(Exchanges) /\ DOMAIN v = 1..(Len(Line) - 1)
            /\ \A j \in 1..(Len(Line) - 1) : v[j] = IF j < i + 1 THEN Line[j] ELSE Line[j + 1]
        BY <3>2, <3>3, Removal
      <4>4. Len(w) = Len(waiters) - 1
        BY <4>1
      <4>5. /\ u \in Seq(Exchanges) /\ DOMAIN u = 1..(Len(w) + 1) /\ u[1] = lock
            /\ \A j \in DOMAIN w : u[j + 1] = w[j]
        BY <3>1, <4>1, InFront
      <4> HIDE DEF w, v, u
      <4>6. Len(u) = Len(waiters) /\ Len(v) = Len(waiters)
        BY <2>1, <4>2, <4>3, <4>4, <4>5, LenProperties
      <4>7. ASSUME NEW j \in 1..Len(waiters) PROVE v[j] = u[j]
        <5>1. CASE j = 1
          BY <1>4, <2>1, <3>2, <4>2, <4>3, <4>5, <5>1
        <5>2. CASE j # 1
          <6>1. /\ j - 1 \in 1..(Len(waiters) - 1) /\ (j - 1) + 1 = j
                /\ j - 1 \in DOMAIN waiters /\ j \in DOMAIN waiters
                /\ j \in 1..(Len(Line) - 1)
                /\ j < i + 1 <=> j - 1 < i
            BY <1>4, <2>1, <4>2, <5>2
          <6>2. u[j] = w[j - 1] /\ Line[j] = waiters[j - 1] /\ Line[j + 1] = waiters[j]
            BY <3>2, <4>1, <4>5, <6>1
          <6> QED  BY <4>1, <4>3, <6>1, <6>2
        <5> QED  BY <5>1, <5>2
      <4>8. v = u
        BY <4>3, <4>5, <4>6, <4>7, SeqEqual
      <4> QED  BY <4>8 DEF u, v, w
    <3>5. Line' = RemoveAt(Line, i + 1) /\ Left' = Left \cup {Line[i + 1]} /\ Active' = Active
      BY <1>2, <2>2, <3>1, <3>3, <3>4
    <3>6. Serial!Withdraw(i + 1)
      BY <3>5 DEF Serial!Withdraw, Serial!RemoveAt, RemoveAt
    <3> QED  BY <3>3, <3>6
  <2> QED  BY <2>3, <2>4
<1> QED  BY <1>3, <1>4 DEF CancelWaiting

\* Every step of the bridge is a step of the serial server, or none.
LEMMA ServerStep ==
    ASSUME TypeOK, DriveHoldsLock, LineInv, [Next]_vars
    PROVE  [Serial!Next]_Serial!vars
<1>1. CASE UNCHANGED vars
  BY <1>1 DEF vars, lockVars, Serial!vars, Line, Active, Left, Handed
<1>2. CASE Quiescent
  BY <1>2 DEF Quiescent, vars, lockVars, Serial!vars, Line, Active, Left, Handed
<1>3. ASSUME NEW e \in Exchanges, CodeStep(e) PROVE [Serial!Next]_Serial!vars
  <2>1. CASE AnswerDefaultRoute(e)
    BY <2>1, StutterStep DEF Moves, AnswerDefaultRoute, Gone, BlockOn, Performing, FutureReady, lockVars
  <2>2. CASE AcquireHanded(e)
    BY <2>2, BeginStep DEF Serial!Next
  <2>3. CASE TakeJob(e)
    <3>1. /\ pc[e] \in BlockOn /\ UNCHANGED lockVars
          /\ Goto(e, "headPerform") \/ Goto(e, "bodyPerform")
      BY <2>3 DEF TakeJob, BlockOn, Performing
    <3> QED  BY <3>1, StutterStep DEF Gone, BlockOn, Performing
  <2>4. CASE Performed(e)
    <3>1. /\ pc[e] \in Performing /\ UNCHANGED lockVars
          /\ Goto(e, "head") \/ Goto(e, "body")
      BY <2>4 DEF Performed, BlockOn, Performing
    <3> QED  BY <3>1, StutterStep DEF Gone, BlockOn, Performing
  <2>5. CASE HeadersReady(e)
    BY <2>5, StutterStep DEF HeadersReady, Gone, BlockOn, Performing, FutureReady, lockVars
  <2>6. CASE HeadersRejected(e)
    <3>1. pc[e] \in Tenure /\ Release /\ Goto(e, "done")
      BY <2>6 DEF HeadersRejected, FutureReady, Tenure, BlockOn, Performing
    <3> QED  BY <3>1, CompleteStep DEF Serial!Next, Gone
  <2>7. CASE PumpStart(e)
    BY <2>7, StutterStep DEF Moves, PumpStart, Gone, BlockOn, Performing, FutureReady, lockVars
  <2>8. CASE FrameReady(e)
    BY <2>8, StutterStep DEF FrameReady, Gone, BlockOn, Performing, FutureReady, lockVars
  <2>9. CASE BodyEnd(e)
    BY <2>9, StutterStep DEF BodyEnd, Gone, BlockOn, Performing, FutureReady, lockVars
  <2>10. CASE SendFailed(e)
    <3>1. pc[e] \in Tenure /\ Release /\ Goto(e, "cut")
      BY <2>10 DEF SendFailed, FutureReady, Tenure, BlockOn, Performing
    <3> QED  BY <3>1, CompleteStep DEF Serial!Next, Gone
  <2>11. CASE TransmissionObserved(e)
    BY <2>11, StutterStep DEF Moves, TransmissionObserved, Gone, BlockOn, Performing, FutureReady, lockVars
  <2> QED  BY <1>3, <2>1, <2>2, <2>3, <2>4, <2>5, <2>6, <2>7, <2>8, <2>9, <2>10, <2>11 DEF CodeStep
<1>4. ASSUME NEW e \in Exchanges, PeerStep(e) PROVE [Serial!Next]_Serial!vars
  <2>1. CASE Call(e)
    <3>1. pc[e] = "idle" /\ UNCHANGED lockVars
      BY <2>1 DEF Call
    <3>2. CASE Goto(e, "probe") \/ Goto(e, "reading")
      BY <3>1, <3>2, StutterStep DEF Gone
    <3>3. CASE Goto(e, "done")
      BY <3>1, <3>3, NeverAskStep DEF Serial!Next
    <3> QED  BY <2>1, <3>2, <3>3 DEF Call
  <2>2. CASE PayloadTooLarge(e)
    BY <2>2, StutterStep DEF Moves, PayloadTooLarge, Gone, BlockOn, Performing, FutureReady, lockVars
  <2>3. CASE ReadFailed(e)
    <3>1. pc[e] \in {"reading", "replying"} /\ Goto(e, "done") /\ UNCHANGED lockVars
      BY <2>3 DEF Moves, ReadFailed
    <3> QED  BY <3>1, NeverAskStep DEF Serial!Next
  <2>4. CASE StaticWritten(e)
    <3>1. pc[e] \in {"reading", "replying"} /\ Goto(e, "done") /\ UNCHANGED lockVars
      BY <2>4 DEF Moves, StaticWritten
    <3> QED  BY <3>1, NeverAskStep DEF Serial!Next
  <2>5. CASE AcquireFree(e)
    BY <2>5, AskWhenIdleStep DEF Serial!Next
  <2>6. CASE AwaitLock(e)
    BY <2>6, JoinStep DEF Serial!Next
  <2>7. CASE TrailersTaken(e)
    <3>1. pc[e] \in Tenure /\ Release /\ Goto(e, "observing")
      BY <2>7 DEF TrailersTaken, FutureReady, Tenure, BlockOn, Performing
    <3> QED  BY <3>1, CompleteStep DEF Serial!Next, Gone
  <2>8. CASE CancelReading(e)
    <3>1. pc[e] \in {"reading", "replying"} /\ Goto(e, "done") /\ UNCHANGED lockVars
      BY <2>8 DEF Moves, CancelReading
    <3> QED  BY <3>1, NeverAskStep DEF Serial!Next
  <2>9. CASE CancelWaiting(e)
    BY <2>9, WithdrawStep DEF Serial!Next
  <2>10. CASE CancelPerforming(e)
    <3>1. pc[e] \in Tenure /\ Release /\ Goto(e, "done")
      BY <2>10 DEF CancelPerforming, FutureReady, Tenure, BlockOn, Performing
    <3> QED  BY <3>1, CompleteStep DEF Serial!Next, Gone
  <2>11. CASE SendAccepted(e)
    BY <2>11, StutterStep DEF Moves, SendAccepted, Gone, BlockOn, Performing, FutureReady, lockVars
  <2> QED  BY <1>4, <2>1, <2>2, <2>3, <2>4, <2>5, <2>6, <2>7, <2>8, <2>9, <2>10, <2>11 DEF PeerStep
<1>5. ASSUME NEW t \in Exchanges, ToolStep(t) PROVE [Serial!Next]_Serial!vars
  <2>1. ASSUME NEW k \in 1..MaxFetches, Submit(t, k) PROVE [Serial!Next]_Serial!vars
    <3>1. UNCHANGED <<pc, lock, waiters>>
      BY <2>1 DEF Submit, lockVars
    <3> QED  BY <3>1 DEF Serial!vars, Line, Active, Left, Handed
  <2>2. CASE Emit(t)  BY <2>2 DEF Emit, lockVars, Serial!vars, Line, Active, Left, Handed
  <2>3. CASE Finish(t)  BY <2>3 DEF Finish, lockVars, Serial!vars, Line, Active, Left, Handed
  <2> QED  BY <1>5, <2>1, <2>2, <2>3 DEF ToolStep
<1> QED  BY <1>1, <1>2, <1>3, <1>4, <1>5 DEF Next

\* The bridge serves exchanges as SerialServer does: one at a time, first come
\* first served, each at most once, through hand-overs and cancellations.
THEOREM ServesInOrder == Spec => ServedInOrder
<1>1. Init => LineInv
  BY EmptyQueue DEF Init, LineInv
<1>2. Init => Serial!Init
  BY DEF Init, Serial!Init, Line, Active, Left, Handed
<1>3. TypeOK /\ DriveHoldsLock /\ LineInv /\ [Next]_vars => LineInv' /\ [Serial!Next]_Serial!vars
  BY LineStep, ServerStep
<1> QED
  BY <1>1, <1>2, <1>3, TypeCorrect, MutualExclusion, PTL DEF Spec, ServedInOrder, Serial!Spec
=============================================================================
