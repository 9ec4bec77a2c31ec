--------------------------- MODULE OutboundProofs ---------------------------
(***************************************************************************)
(* What perform() promises a tool, for every body size, limit, timeout and *)
(* width of the clock.                                                     *)
(***************************************************************************)
EXTENDS Outbound, TLAPS

\* The transmission outlives the read, and no byte is lost on the way.
Flow ==
    /\ stage \in {"sending", "reading"} => transmission = "held"
    /\ stage = "start" => transmission = "none"
    /\ stage \in {"start", "sending", "reading"} => result = "none" /\ eof # "cut"
    /\ eof = "cut" => result # "ok"
    /\ sent = received + frame
    /\ result = "ok" => frame = 0 /\ eof = "ended"

IInv ==
    /\ TypeOK /\ Flow
    /\ BufferBounded /\ TooLargeExceeds /\ TimedOutIsLate

LEMMA InitInv == Init => IInv
  BY SizesAssumption, TimesAssumption
     DEF Init, IInv, TypeOK, Flow, BufferBounded, TooLargeExceeds, TimedOutIsLate,
         LimitSettings, TimeoutSettings

\* Settings are numbers, and so is their product.
LEMMA SettingsAreNat ==
    /\ \A l \in LimitSettings : l \in Nat
    /\ \A t \in TimeoutSettings : t \in Nat /\ t * NanosPerMilli \in Nat
  BY SizesAssumption, TimesAssumption DEF LimitSettings, TimeoutSettings

LEMMA StepInv == IInv /\ [Next]_vars => IInv'
<1> SUFFICES ASSUME IInv, [Next]_vars PROVE IInv'
  OBVIOUS
<1> USE SizesAssumption, TimesAssumption, SettingsAreNat
        DEF IInv, TypeOK, Flow, BufferBounded, TooLargeExceeds, TimedOutIsLate,
            callVars, hostVars, Return, Fits
<1>1. CASE UNCHANGED vars
  BY <1>1 DEF vars
<1>2. CASE Refuse  BY <1>2 DEF Refuse
<1>3. CASE Build  BY <1>3 DEF Build
<1>4. CASE SendFailed  BY <1>4 DEF SendFailed
<1>5. CASE HeadReceived  BY <1>5 DEF HeadReceived
<1>6. CASE FrameBuffered  BY <1>6 DEF FrameBuffered
<1>7. CASE FrameTooLarge  BY <1>7 DEF FrameTooLarge
<1>8. CASE BodyFailed  BY <1>8 DEF BodyFailed
<1>9. CASE BodyComplete  BY <1>9 DEF BodyComplete
<1>10. CASE DeadlineElapsed
  <2>1. now >= timeoutMs * NanosPerMilli \/ now = MaxU64
    BY <1>10 DEF DeadlineElapsed, Deadline, SaturatingMul
  <2> QED  BY <1>10, <2>1 DEF DeadlineElapsed
<1>11. CASE UploadEnds  BY <1>11 DEF UploadEnds
<1>12. CASE UpstreamAnswers  BY <1>12 DEF UpstreamAnswers
<1>13. CASE UpstreamSends  BY <1>13 DEF UpstreamSends
<1>14. CASE StreamEnds  BY <1>14 DEF StreamEnds
<1>15. CASE Tick  BY <1>15 DEF Tick
<1>16. CASE Over  BY <1>16 DEF Over, vars
<1> QED
  BY <1>1, <1>2, <1>3, <1>4, <1>5, <1>6, <1>7, <1>8, <1>9, <1>10, <1>11, <1>12,
     <1>13, <1>14, <1>15, <1>16 DEF Next, Poll

THEOREM Invariance == Spec => []IInv
  BY InitInv, StepInv, PTL DEF Spec

\* The state of the exchange is well formed in every run.
THEOREM TypeCorrect == Spec => []TypeOK
  BY Invariance, PTL DEF IInv

\* A tool never mistakes a body cut short for a whole one.
THEOREM WholeBody == Spec => []OkIsWhole
<1>1. IInv => OkIsWhole
  BY DEF IInv, TypeOK, Flow, OkIsWhole
<1> QED  BY <1>1, Invariance, PTL

\* The buffer never exceeds the limit, whatever the upstream sends.
THEOREM BoundedBuffer == Spec => []BufferBounded
  BY Invariance, PTL DEF IInv

\* Only a body larger than the limit is refused for its size.
THEOREM LimitIsInclusive == Spec => []TooLargeExceeds
  BY Invariance, PTL DEF IInv

\* No configured timeout, however large, ends an exchange before its time.
THEOREM NeverEarly == Spec => []TimedOutIsLate
  BY Invariance, PTL DEF IInv
=============================================================================
