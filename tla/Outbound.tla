------------------------------ MODULE Outbound ------------------------------
(***************************************************************************)
(* One outbound exchange: bridge::outbound::perform, the request-body      *)
(* writer it spawns, its deadline, and the host and upstream it talks to   *)
(* (src/src/bridge.rs).  The writer, the host and the clock move on their  *)
(* own; perform() moves when it is polled.                                 *)
(*                                                                         *)
(* Sizes and times are scaled down: a byte count and a chunk size are      *)
(* small numbers, NanosPerMilli stands for 1_000_000 and MaxU64 for        *)
(* 2^64 - 1.                                                               *)
(***************************************************************************)
EXTENDS Naturals

CONSTANTS
    MaxChunk,        \* bound: size of one response frame
    MaxSent,         \* bound: bytes an upstream sends
    Limits,          \* values of MCP_OUTBOUND_MAX_BYTES
    Timeouts,        \* values of MCP_OUTBOUND_TIMEOUT_MS
    DefaultLimit, DefaultTimeout,
    NanosPerMilli, MaxU64

ASSUME SizesAssumption ==
    /\ MaxChunk \in Nat \ {0} /\ MaxSent \in Nat
    /\ Limits \subseteq Nat /\ DefaultLimit \in Nat
ASSUME TimesAssumption ==
    /\ Timeouts \subseteq Nat /\ DefaultTimeout \in Nat
    /\ NanosPerMilli \in Nat \ {0} /\ MaxU64 \in Nat

VARIABLES
    stage,         \* where perform() stands
    limit,         \* max_bytes of this call
    timeoutMs,     \* timeout_ms of this call
    upload,        \* the spawned writer of the request body
    transmission,  \* the request's transmission handle
    head,          \* the response head, as the host has it
    frame,         \* size of the response frame the host holds for us (0: none)
    sent,          \* bytes the upstream has sent
    eof,           \* how the response stream ends
    received,      \* bytes collect() has buffered
    result,        \* what perform() returned
    now            \* nanoseconds since the call

hostVars == <<head, frame, sent, eof>>
callVars == <<limit, timeoutMs>>
vars == <<stage, callVars, upload, transmission, hostVars, received, result, now>>

-----------------------------------------------------------------------------
\* The environment variable is absent or does not parse: the default applies.
LimitSettings   == Limits \cup {DefaultLimit}
TimeoutSettings == Timeouts \cup {DefaultTimeout}

\* Mutant: plain multiplication wraps.
WrappingMul(a, b) == (a * b) % (MaxU64 + 1)

SaturatingMul(a, b) == IF a * b > MaxU64 THEN MaxU64 ELSE a * b

Deadline == SaturatingMul(timeoutMs, NanosPerMilli)

Init ==
    /\ stage = "start"
    /\ limit \in LimitSettings
    /\ timeoutMs \in TimeoutSettings
    /\ upload = "none"
    /\ transmission = "none"
    /\ head = "none" /\ frame = 0 /\ sent = 0 /\ eof = "open"
    /\ received = 0
    /\ result = "none"
    /\ now = 0

\* perform() returns; what it still owned, the transmission handle with it, is
\* dropped.
Return(outcome) ==
    /\ stage' = "done"
    /\ result' = outcome
    /\ transmission' = IF transmission = "held" THEN "dropped" ELSE transmission

(* perform() --------------------------------------------------------------*)

\* into_wasi_request fails: a Host header that contradicts the URI, or headers,
\* a method, scheme, authority or path the host rejects.  Nothing has been spawned or sent.
Refuse ==
    /\ stage = "start"
    /\ Return("wasi")
    /\ UNCHANGED <<callVars, upload, hostVars, received, now>>

\* Mutant: the body is written before the request is handed to the host.
BuildAwaitingUpload ==
    /\ \/ /\ stage = "start"
          /\ stage' = "writing"
          /\ upload' = "writing"
          /\ transmission' = "held"
       \/ /\ stage = "writing"
          /\ upload = "ended"
          /\ stage' = "sending"
          /\ UNCHANGED <<upload, transmission>>
    /\ UNCHANGED <<callVars, hostVars, received, result, now>>

\* The request is built, its body writer spawned, and client.send called,
\* without an await in between.
Build ==
    /\ stage = "start"
    /\ stage' = "sending"
    /\ upload' = "writing"
    /\ transmission' = "held"
    /\ UNCHANGED <<callVars, hostVars, received, result, now>>

SendFailed ==
    /\ stage = "sending"
    /\ head = "failed"
    /\ Return("wasi")
    /\ UNCHANGED <<callVars, upload, hostVars, received, now>>

\* Mutant: the transmission handle goes out of scope with the response head.
HeadReceivedDroppingTransmission ==
    /\ stage = "sending"
    /\ head = "arrived"
    /\ stage' = "reading"
    /\ transmission' = "dropped"
    /\ UNCHANGED <<callVars, upload, hostVars, received, result, now>>

HeadReceived ==
    /\ stage = "sending"
    /\ head = "arrived"
    /\ stage' = "reading"
    /\ UNCHANGED <<callVars, upload, transmission, hostVars, received, result, now>>

\* Mutant: the limit is compared with what has been buffered, not with what
\* the frame would make it.
FitsSoFar(size) == received < limit

Fits(size) == received + size <= limit

FrameBuffered ==
    /\ stage = "reading"
    /\ frame # 0
    /\ Fits(frame)
    /\ received' = received + frame
    /\ frame' = 0
    /\ UNCHANGED <<stage, callVars, upload, transmission, head, sent, eof, result, now>>

\* Mutant: a body of exactly the limit is refused as well.
FrameTooLargeAtLimit ==
    /\ stage = "reading"
    /\ frame # 0
    /\ received + frame >= limit
    /\ Return("tooLarge")
    /\ UNCHANGED <<callVars, upload, hostVars, received, now>>

FrameTooLarge ==
    /\ stage = "reading"
    /\ frame # 0
    /\ ~Fits(frame)
    /\ Return("tooLarge")
    /\ UNCHANGED <<callVars, upload, hostVars, received, now>>

BodyFailed ==
    /\ stage = "reading"
    /\ frame = 0 /\ eof = "broken"
    /\ Return("wasi")
    /\ UNCHANGED <<callVars, upload, hostVars, received, now>>

BodyComplete ==
    /\ stage = "reading"
    /\ frame = 0 /\ eof \in {"ended", "cut"}
    /\ Return("ok")
    /\ UNCHANGED <<callVars, upload, hostVars, received, now>>

\* The future timeout() races is pending: nothing has come from the host.
Waiting ==
    \/ stage = "sending" /\ head = "none"
    \/ stage = "reading" /\ frame = 0 /\ eof = "open"

\* Mutant: the deadline covers client.send only.
DeadlineElapsedInSend ==
    /\ now >= Deadline
    /\ stage = "sending" /\ head = "none"
    /\ Return("timedOut")
    /\ UNCHANGED <<callVars, upload, hostVars, received, now>>

\* timeout() polls the future first: the deadline wins only if that is pending.
DeadlineElapsed ==
    /\ now >= Deadline
    /\ Waiting
    /\ Return("timedOut")
    /\ UNCHANGED <<callVars, upload, hostVars, received, now>>

Poll ==
    \/ Refuse \/ Build
    \/ SendFailed \/ HeadReceived
    \/ FrameBuffered \/ FrameTooLarge \/ BodyFailed \/ BodyComplete
    \/ DeadlineElapsed

(* The host, the upstream and the clock -----------------------------------*)

\* The writer ends: the host has taken the body, or has dropped its reader
\* once the request failed or was cancelled.  Nobody reads before send.
UploadEnds ==
    /\ upload = "writing"
    /\ stage \in {"sending", "reading", "done"}
    /\ upload' = "ended"
    /\ UNCHANGED <<stage, callVars, transmission, hostVars, received, result, now>>

\* An upstream may answer before it has read the request body.
UpstreamAnswers ==
    /\ stage = "sending" /\ head = "none"
    /\ head' \in {"arrived", "failed"}
    /\ UNCHANGED <<stage, callVars, upload, transmission, frame, sent, eof, received, result, now>>

\* The stream is unbuffered: a frame is written once the last one was taken.
UpstreamSends ==
    /\ stage = "reading" /\ eof = "open"
    /\ frame = 0
    /\ \E size \in 1..MaxChunk :
          /\ sent + size <= MaxSent
          /\ sent' = sent + size
          /\ frame' = size
    /\ UNCHANGED <<stage, callVars, upload, transmission, head, eof, received, result, now>>

\* Without its transmission handle the host stops the exchange: the stream is
\* cut, as far as its reader can tell like any other end.
StreamEnds ==
    /\ stage = "reading" /\ eof = "open"
    /\ eof' \in {"ended", "broken"} \cup (IF transmission = "dropped" THEN {"cut"} ELSE {})
    /\ UNCHANGED <<stage, callVars, upload, transmission, head, frame, sent, received, result, now>>

Tick ==
    /\ now < MaxU64
    /\ stage # "done"
    /\ now' = now + 1
    /\ UNCHANGED <<stage, callVars, upload, transmission, hostVars, received, result>>

Over == stage = "done" /\ upload # "writing" /\ UNCHANGED vars

Next ==
    \/ Poll \/ UploadEnds
    \/ UpstreamAnswers \/ UpstreamSends \/ StreamEnds
    \/ Tick \/ Over

Spec == Init /\ [][Next]_vars

\* perform() is polled whenever it can move.
FairSpec == Spec /\ WF_vars(Poll)

-----------------------------------------------------------------------------
TypeOK ==
    /\ stage \in {"start", "sending", "reading", "done"}
    /\ limit \in LimitSettings /\ timeoutMs \in TimeoutSettings
    /\ upload \in {"none", "writing", "ended"}
    /\ transmission \in {"none", "held", "dropped"}
    /\ head \in {"none", "arrived", "failed"}
    /\ frame \in 0..MaxChunk
    /\ sent \in 0..MaxSent /\ received \in Nat
    /\ eof \in {"open", "ended", "broken", "cut"}
    /\ result \in {"none", "ok", "wasi", "tooLarge", "timedOut"}
    /\ now \in 0..MaxU64

\* A tool that is given a response has all of its body: every byte the
\* upstream sent until it ended the stream, through a transmission that was
\* kept open until then.
OkIsWhole == result = "ok" => eof = "ended" /\ received = sent

\* However large the response, no more than the limit is ever buffered.
BufferBounded == received <= limit

\* ResponseTooLarge means that the upstream really sent more than the limit: a
\* body of exactly the limit is delivered.
TooLargeExceeds == result = "tooLarge" => sent > limit

\* A configured timeout is never cut short, the largest ones included: the
\* deadline in nanoseconds saturates where it cannot be represented.
TimedOutIsLate ==
    result = "timedOut" => now >= timeoutMs * NanosPerMilli \/ now = MaxU64

-----------------------------------------------------------------------------
\* The tool gets an outcome whatever the upstream does or does not do, if time
\* passes: no stage of the exchange is outside the deadline.
PerformReturns == WF_vars(Tick) => <>(result # "none")

\* The body writer and client.send do not wait for each other: with a host that
\* reads the request and an upstream that answers and ends its body, the
\* exchange ends before any time has passed, or time passes.
HostHealthy ==
    /\ WF_vars(UploadEnds) /\ WF_vars(UpstreamAnswers) /\ WF_vars(StreamEnds)

NeedsNoDeadline == HostHealthy => <>(result # "none" \/ now > 0)
=============================================================================
