------------------------------ MODULE Service ------------------------------
(***************************************************************************)
(* The bridge and the outbound exchanges it performs, over one clock: the  *)
(* job an exchange has taken from the queue is performed step by step      *)
(* (Outbound) while the tokio world stands still.  The lock admits one     *)
(* driver, so there is one outbound exchange at a time.                    *)
(*                                                                         *)
(* Computation takes no time: the clock advances only when every task that *)
(* could run is parked at an await.                                        *)
(***************************************************************************)
EXTENDS Bridge, Integers

CONSTANTS MaxChunk, MaxSent, Limits, Timeouts, DefaultLimit, DefaultTimeout,
          NanosPerMilli, MaxU64

ASSUME OutboundAssumption ==
    /\ MaxChunk \in Nat \ {0} /\ MaxSent \in Nat
    /\ Limits \subseteq Nat /\ DefaultLimit \in Nat
    /\ Timeouts \subseteq Nat /\ DefaultTimeout \in Nat
    /\ NanosPerMilli \in Nat \ {0} /\ MaxU64 \in Nat

VARIABLES
    stage, limit, timeoutMs, upload, transmission, head, frame, sent, eof,
    received, result, now,     \* of the outbound exchange (Outbound)
    due        \* history: the time a fetch may still take

Perform == INSTANCE Outbound

outVars == <<stage, limit, timeoutMs, upload, transmission, head, frame, sent,
             eof, received, result, now>>
svars   == <<vars, outVars, due>>

-----------------------------------------------------------------------------
\* A fetch that its tool awaits under the exchange that took it on.
Owed(j) == fetch[j] \in {"queued", "performing"} /\ pc[under[j]] \in Tenure

\* A fetch is given one deadline for itself and one for each job before it.
TimePasses(elapsed) ==
    due' = [j \in Jobs |->
              IF ~Owed(j)' THEN 0
              ELSE IF fetch[j] = "unsent" THEN Len(jobs') * Perform!Deadline
              ELSE due[j] - elapsed]

\* Until the next job is taken, and after a perform() has ended or was dropped.
AtRest ==
    /\ stage' = "start" /\ upload' = "none" /\ transmission' = "none"
    /\ head' = "none" /\ frame' = 0 /\ sent' = 0 /\ eof' = "open"
    /\ received' = 0 /\ result' = "none" /\ now' = 0
    /\ UNCHANGED <<limit, timeoutMs>>

ServiceInit ==
    /\ Init
    /\ Perform!Init
    /\ due = [j \in Jobs |-> 0]

InFlight == \E e \in Exchanges : pc[e] \in Performing

\* Steps without a part in an outbound exchange, or that start one.
CodeAlone(e) ==
    /\ pc[e] \notin Performing
    /\ CodeStep(e)
    /\ UNCHANGED outVars
    /\ TimePasses(0)

Alone(e) ==
    /\ pc[e] \notin Performing
    /\ PeerStep(e) \/ ToolStep(e)
    /\ UNCHANGED outVars
    /\ TimePasses(0)

\* perform() has returned: drive() sends its result to the tool.
Reply(e) ==
    /\ stage = "done"
    /\ Performed(e)
    /\ AtRest
    /\ TimePasses(0)

\* The host cancels a handle call inside perform(), which is dropped with it.
Cancel(e) ==
    /\ CancelPerforming(e)
    /\ AtRest
    /\ TimePasses(0)

\* perform() is polled by the task that holds it.
Polled == InFlight /\ Perform!Poll /\ UNCHANGED <<vars, due>>

Upstream ==
    /\ InFlight
    /\ \/ Perform!UploadEnds \/ Perform!UpstreamAnswers
       \/ Perform!UpstreamSends \/ Perform!StreamEnds
    /\ UNCHANGED <<vars, due>>

\* The clock of the instance.  block_on takes a queued job before it waits, and
\* perform() waits for the host no longer than its deadline.
Pass ==
    /\ jobs # <<>> => \A e \in Exchanges : pc[e] \notin BlockOn
    /\ UNCHANGED vars
    /\ \/ InFlight /\ Perform!Waiting /\ now < Perform!Deadline /\ Perform!Tick
       \/ ~InFlight /\ UNCHANGED outVars
    /\ TimePasses(1)

ServiceNext ==
    \/ \E e \in Exchanges : CodeAlone(e) \/ Alone(e) \/ Reply(e) \/ Cancel(e)
    \/ Polled \/ Upstream \/ Pass
    \/ Quiescent /\ UNCHANGED svars

ServiceSpec == ServiceInit /\ [][ServiceNext]_svars

\* The instance runs what can run and time passes; a tool that awaits no fetch
\* returns.
FairService ==
    /\ ServiceSpec
    /\ \A e \in Exchanges :
          WF_svars(CodeAlone(e)) /\ WF_svars(Reply(e)) /\ SF_svars(Alone(e) /\ Returns(e))
    /\ WF_svars(Polled) /\ WF_svars(Pass)

-----------------------------------------------------------------------------
\* A tool that awaits a fetch has its outcome within one outbound deadline for
\* each job that was ahead of it and one of its own, however long its client
\* takes to read frames and whatever the upstreams do.
FetchInTime == \A j \in Jobs : Owed(j) => due[j] >= 0

\* What Bridge takes for granted of perform(), that it returns, follows from its
\* deadline: the composition is the bridge, with the fairness stated there.
BridgeAsAssumed == FairSpec
=============================================================================
