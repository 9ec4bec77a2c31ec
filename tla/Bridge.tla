------------------------------- MODULE Bridge -------------------------------
(***************************************************************************)
(* One component instance serving MCP exchanges: the export handler and    *)
(* its response pump (src/src/lib.rs) over the bridge between the          *)
(* component-model world and the tokio world (src/src/bridge.rs).          *)
(*                                                                         *)
(* Everything runs on one thread.  A component-model task (a `handle` call *)
(* or a spawned pump) runs from one await to the next, so an action of an  *)
(* exchange is the code between two awaits.  While an exchange is inside   *)
(* `block_on` the thread belongs to the tokio world: no component-model    *)
(* task moves, and the only steps are those of the tasks tokio has spawned *)
(* (of that exchange and of earlier ones) and the return from `block_on`.  *)
(***************************************************************************)
EXTENDS Naturals, Sequences, SequencesExt

CONSTANTS
    Exchanges,    \* requests the host hands to this instance
    NoOne,        \* no exchange: the lock is free
    MaxFetches,   \* bound: outbound requests one tool submits
    MaxPending    \* bound: body frames waiting for the pump

ASSUME NoOneAssumption == NoOne \notin Exchanges
ASSUME BoundsAssumption == MaxFetches \in Nat /\ MaxPending \in Nat

VARIABLES
    pc,        \* where each exchange's component-model task stands
    lock,      \* owner of request_lock()
    waiters,   \* FIFO of the tasks parked in lock_owned()
    jobs,      \* the static job queue
    current,   \* the job an exchange's drive() has taken and is performing
    fetch,     \* what became of each tool's fetch
    under,     \* history: the exchange whose block_on ran the submission
    tool,      \* the tokio task rmcp spawned for an exchange
    pending    \* frames in an exchange's response body, not yet taken

lockVars == <<lock, waiters>>
jobVars  == <<jobs, current, fetch, under>>
toolVars == <<tool, pending>>
vars     == <<pc, lockVars, jobVars, toolVars>>

-----------------------------------------------------------------------------
(* A fetch is named by the exchange whose tool makes it and its number.    *)
Jobs  == Exchanges \X (1..MaxFetches)
NoJob == <<NoOne, 0>>

BlockOn    == {"head", "body"}
Performing == {"headPerform", "bodyPerform"}
\* From the acquisition of the request lock to its release.
Tenure     == BlockOn \cup Performing \cup {"spawned", "sending", "trailers"}
Phases     == Tenure \cup {"idle", "probe", "reading", "waiting",
                           "replying", "observing", "cut", "done"}

\* No task is inside block_on: component-model tasks may run.
ThreadFree == \A e \in Exchanges : pc[e] \notin BlockOn

Goto(e, phase) == pc' = [pc EXCEPT ![e] = phase]

\* A component-model task runs from one await to the next and touches nothing
\* but its own state.
Moves(e, from, to) ==
    /\ ThreadFree
    /\ pc[e] = from
    /\ Goto(e, to)
    /\ UNCHANGED <<lockVars, jobVars, toolVars>>

\* Dropping a job drops its reply sender: its fetch resolves BridgeClosed.
Closed(dropped) == [j \in Jobs |-> IF j \in dropped THEN "closed" ELSE fetch[j]]

\* Mutant: `if` for `while let`, one job is dropped.
DrainOneJob ==
    /\ jobs' = IF jobs = <<>> THEN <<>> ELSE Tail(jobs)
    /\ fetch' = Closed(ToSet(jobs) \ ToSet(jobs'))

DrainStaleJobs ==
    /\ jobs' = <<>>
    /\ fetch' = Closed(ToSet(jobs))

\* Dropping the guard hands the lock to the first waiter, if there is one.
Release ==
    \/ /\ waiters = <<>>
       /\ lock' = NoOne
       /\ waiters' = <<>>
    \/ /\ waiters # <<>>
       /\ lock' = Head(waiters)
       /\ waiters' = Tail(waiters)

-----------------------------------------------------------------------------
Init ==
    /\ pc = [e \in Exchanges |-> "idle"]
    /\ lock = NoOne
    /\ waiters = <<>>
    /\ jobs = <<>>
    /\ current = [e \in Exchanges |-> NoJob]
    /\ fetch = [j \in Jobs |-> "unsent"]
    /\ under = [j \in Jobs |-> NoOne]
    /\ tool = [e \in Exchanges |-> "absent"]
    /\ pending = [e \in Exchanges |-> 0]

(* Before the lock ------------------------------------------------------- *)

\* The host calls the export, for the default route, for the transport, or with
\* a request that does not convert.
Call(e) ==
    /\ pc[e] = "idle"
    /\ \E route \in {"probe", "reading", "done"} : Goto(e, route)
    /\ UNCHANGED <<lockVars, jobVars, toolVars>>

\* Mutant: the default route is answered behind the request lock.
AnswerUnderLock(e) == lock = NoOne /\ Moves(e, "probe", "replying")

AnswerDefaultRoute(e) == Moves(e, "probe", "replying")

PayloadTooLarge(e) == Moves(e, "reading", "replying")

ReadFailed(e) == Moves(e, "reading", "done")

\* The writer static_response spawned ends: the host took the body, or not.
StaticWritten(e) == Moves(e, "replying", "done")

(* Acquiring the lock: there is no await between lock_owned() and the first *)
(* block_on of drive(), so the drain and the dispatch belong to the step.   *)
EnterHead(e) ==
    /\ DrainStaleJobs
    /\ Goto(e, "head")
    /\ tool' = [tool EXCEPT ![e] = "live"]
    /\ UNCHANGED <<current, under, pending>>

AcquireFree(e) ==
    /\ ThreadFree
    /\ pc[e] = "reading"
    /\ lock = NoOne
    /\ lock' = e
    /\ EnterHead(e)
    /\ UNCHANGED waiters

AwaitLock(e) ==
    /\ ThreadFree
    /\ pc[e] = "reading"
    /\ lock # NoOne
    /\ waiters' = Append(waiters, e)
    /\ Goto(e, "waiting")
    /\ UNCHANGED <<lock, jobVars, toolVars>>

\* The task that was handed the lock gets polled.
AcquireHanded(e) ==
    /\ ThreadFree
    /\ pc[e] = "waiting"
    /\ lock = e
    /\ EnterHead(e)
    /\ UNCHANGED lockVars

\* Mutant: the job is left in the queue until it has been answered.
PeekJob(e) ==
    /\ pc[e] \in BlockOn
    /\ jobs # <<>>
    /\ current' = [current EXCEPT ![e] = Head(jobs)]
    /\ fetch' = [fetch EXCEPT ![Head(jobs)] = "performing"]
    /\ Goto(e, IF pc[e] = "head" THEN "headPerform" ELSE "bodyPerform")
    /\ UNCHANGED <<lockVars, jobs, under, toolVars>>

(* drive(): the biased select polls the job queue before the future, so    *)
(* the future's value is seen only when the queue is empty.                *)
TakeJob(e) ==
    /\ pc[e] \in BlockOn
    /\ jobs # <<>>
    /\ jobs' = Tail(jobs)
    /\ current' = [current EXCEPT ![e] = Head(jobs)]
    /\ fetch' = [fetch EXCEPT ![Head(jobs)] = "performing"]
    /\ Goto(e, IF pc[e] = "head" THEN "headPerform" ELSE "bodyPerform")
    /\ UNCHANGED <<lockVars, under, toolVars>>

\* Mutant: the replies are kept until the drive has ended.
PerformedReplyKept(e) ==
    /\ ThreadFree
    /\ pc[e] \in Performing
    /\ UNCHANGED fetch
    /\ current' = [current EXCEPT ![e] = NoJob]
    /\ Goto(e, IF pc[e] = "headPerform" THEN "head" ELSE "body")
    /\ UNCHANGED <<lockVars, jobs, under, toolVars>>

\* perform() returns, within its deadline; the reply is sent and the loop
\* enters block_on again.
Performed(e) ==
    /\ ThreadFree
    /\ pc[e] \in Performing
    /\ fetch' = [fetch EXCEPT ![current[e]] = "answered"]
    /\ current' = [current EXCEPT ![e] = NoJob]
    /\ Goto(e, IF pc[e] = "headPerform" THEN "head" ELSE "body")
    /\ UNCHANGED <<lockVars, jobs, under, toolVars>>

\* Mutant: an unbiased select may return the value over a queued job.
FutureFirst(e, phase) == pc[e] = phase

FutureReady(e, phase) == pc[e] = phase /\ jobs = <<>>

(* The response head ------------------------------------------------------*)

\* Mutant: the guard is not moved into the pump and drops with `handle`.
HeadersReadyDropsGuard(e) ==
    /\ FutureReady(e, "head")
    /\ Goto(e, "spawned")
    /\ Release
    /\ UNCHANGED <<jobVars, toolVars>>

HeadersReady(e) ==
    /\ FutureReady(e, "head")
    /\ Goto(e, "spawned")
    /\ UNCHANGED <<lockVars, jobVars, toolVars>>

\* The response body is dropped, and the frames in it.
DropBody(e) ==
    /\ pending' = [pending EXCEPT ![e] = 0]
    /\ UNCHANGED tool

\* Headers or a status the host rejects: handle returns Err, dropping the guard.
HeadersRejected(e) ==
    /\ FutureReady(e, "head")
    /\ Goto(e, "done")
    /\ Release
    /\ DropBody(e)
    /\ UNCHANGED jobVars

(* The pump ---------------------------------------------------------------*)

PumpStart(e) == Moves(e, "spawned", "body")

\* Mutant: a frame is taken whether or not the body has one.
FrameAssumed(e) ==
    /\ FutureReady(e, "body")
    /\ pending' = [pending EXCEPT ![e] = @ - 1]
    /\ Goto(e, "sending")
    /\ UNCHANGED <<lockVars, jobVars, tool>>

FrameReady(e) ==
    /\ FutureReady(e, "body")
    /\ pending[e] > 0
    /\ pending' = [pending EXCEPT ![e] = @ - 1]
    /\ Goto(e, "sending")
    /\ UNCHANGED <<lockVars, jobVars, tool>>

BodyEnd(e) ==
    /\ FutureReady(e, "body")
    /\ pending[e] = 0
    /\ tool[e] = "ended"
    /\ Goto(e, "trailers")
    /\ UNCHANGED <<lockVars, jobVars, toolVars>>

SendAccepted(e) == Moves(e, "sending", "body")

\* Mutant: the pump tries again to hand over the same frame.
SendRetried(e) == Moves(e, "sending", "sending")

\* The peer dropped the read end, or SEND_FRAME_TIMEOUT_MS elapsed: the pump
\* returns early.
SendFailed(e) ==
    /\ ThreadFree
    /\ pc[e] = "sending"
    /\ DrainStaleJobs
    /\ Release
    /\ DropBody(e)
    /\ Goto(e, "cut")
    /\ UNCHANGED <<current, under>>

\* The host takes the trailers (or drops their reader).
TrailersTaken(e) ==
    /\ ThreadFree
    /\ pc[e] = "trailers"
    /\ DrainStaleJobs
    /\ Release
    /\ Goto(e, "observing")
    /\ UNCHANGED <<current, under, toolVars>>

\* The transmission result arrives or its deadline elapses.
TransmissionObserved(e) == Moves(e, "observing", "done")

(* The host cancels a `handle` call that is parked at an await: its future *)
(* is dropped with all it owns (a place in the lock's queue, the guard, the *)
(* job being performed); nothing drains the job queue.                     *)
CancelReading(e) == Moves(e, "reading", "done")

\* Mutant: a cancelled waiter keeps the lock it was just handed.
CancelWaitingKeepsLock(e) ==
    /\ ThreadFree
    /\ pc[e] = "waiting"
    /\ \/ lock = e /\ UNCHANGED lockVars
       \/ /\ lock # e
          /\ \E i \in DOMAIN waiters :
                waiters[i] = e /\ waiters' = RemoveAt(waiters, i)
          /\ UNCHANGED lock
    /\ Goto(e, "done")
    /\ UNCHANGED <<jobVars, toolVars>>

CancelWaiting(e) ==
    /\ ThreadFree
    /\ pc[e] = "waiting"
    /\ \/ lock = e /\ Release
       \/ /\ lock # e
          /\ \E i \in DOMAIN waiters :
                waiters[i] = e /\ waiters' = RemoveAt(waiters, i)
          /\ UNCHANGED lock
    /\ Goto(e, "done")
    /\ UNCHANGED <<jobVars, toolVars>>

\* Mutant: perform() is detached from the drive() that is dropped.
CancelDetached(e) ==
    /\ ThreadFree
    /\ pc[e] = "headPerform"
    /\ current' = [current EXCEPT ![e] = NoJob]
    /\ Release
    /\ Goto(e, "done")
    /\ UNCHANGED <<jobs, fetch, under, toolVars>>

CancelPerforming(e) ==
    /\ ThreadFree
    /\ pc[e] = "headPerform"
    /\ fetch' = Closed({current[e]})
    /\ current' = [current EXCEPT ![e] = NoJob]
    /\ Release
    /\ DropBody(e)
    /\ Goto(e, "done")
    /\ UNCHANGED <<jobs, under>>

-----------------------------------------------------------------------------
(* Tokio tasks: they run inside the block_on of any exchange.              *)

\* outbound::fetch: enqueue the request (fetches of one tool may overlap).
Submit(t, k) ==
    /\ tool[t] = "live"
    /\ fetch[<<t, k>>] = "unsent"
    /\ \A i \in 1..(k - 1) : fetch[<<t, i>>] # "unsent"
    /\ \E e \in Exchanges :
          /\ pc[e] \in BlockOn
          /\ under' = [under EXCEPT ![<<t, k>>] = e]
    /\ jobs' = Append(jobs, <<t, k>>)
    /\ fetch' = [fetch EXCEPT ![<<t, k>>] = "queued"]
    /\ UNCHANGED <<pc, lockVars, current, toolVars>>

\* A progress event, a keep-alive or the reply appears in the response body.
Emit(t) ==
    /\ ~ThreadFree
    /\ tool[t] = "live"
    /\ pc[t] \in Tenure
    /\ pending[t] < MaxPending
    /\ pending' = [pending EXCEPT ![t] = @ + 1]
    /\ UNCHANGED <<pc, lockVars, jobVars, tool>>

\* The task returns or is aborted by rmcp, perhaps with fetches outstanding.
Finish(t) ==
    /\ ~ThreadFree
    /\ tool[t] = "live"
    /\ tool' = [tool EXCEPT ![t] = "ended"]
    /\ UNCHANGED <<pc, lockVars, jobVars, pending>>

-----------------------------------------------------------------------------
\* Steps the code and its deadlines always get to: no peer can withhold them
\* (a frame that is not accepted in time has failed).
CodeStep(e) ==
    \/ AnswerDefaultRoute(e) \/ AcquireHanded(e)
    \/ TakeJob(e) \/ Performed(e)
    \/ HeadersReady(e) \/ HeadersRejected(e)
    \/ PumpStart(e) \/ FrameReady(e) \/ BodyEnd(e)
    \/ SendFailed(e) \/ TransmissionObserved(e)

\* Steps that are up to the client or the host.
PeerStep(e) ==
    \/ Call(e) \/ PayloadTooLarge(e) \/ ReadFailed(e) \/ StaticWritten(e)
    \/ AcquireFree(e) \/ AwaitLock(e)
    \/ SendAccepted(e) \/ TrailersTaken(e)
    \/ CancelReading(e) \/ CancelWaiting(e) \/ CancelPerforming(e)

ToolStep(t) ==
    \/ \E k \in 1..MaxFetches : Submit(t, k)
    \/ Emit(t) \/ Finish(t)

\* Every request of the bounded set has been answered: the instance idles.
Quiescent ==
    /\ \A e \in Exchanges : pc[e] \in {"cut", "done"}
    /\ UNCHANGED vars

Next ==
    \/ \E e \in Exchanges : CodeStep(e) \/ PeerStep(e) \/ ToolStep(e)
    \/ Quiescent

Spec == Init /\ [][Next]_vars

\* A tool returns of its own accord: it is parked in fetch() until each of its
\* fetches has resolved, so it is no longer waiting for any.
Returns(t) ==
    /\ \A k \in 1..MaxFetches : fetch[<<t, k>>] \notin {"queued", "performing"}
    /\ Finish(t)

\* The code goes on, whatever its tools do.
DriverSpec == Spec /\ \A e \in Exchanges : WF_vars(CodeStep(e))

\* A tool that waits for no fetch returns, whatever number of frames it emits
\* before that; nobody is bound to abort one that waits.
ToolsReturn == \A e \in Exchanges : SF_vars(Returns(e))

FairSpec == DriverSpec /\ ToolsReturn

\* rmcp's keep-alives go on appearing in an SSE body, whatever its tool does.
KeepAlives == \A e \in Exchanges : WF_vars(Emit(e))

\* A call of the default route is polled some time when block_on lets go of the
\* thread, however soon the pump takes it again.
ProbesPolled == \A e \in Exchanges : SF_vars(AnswerDefaultRoute(e))

-----------------------------------------------------------------------------
TypeOK ==
    /\ pc \in [Exchanges -> Phases]
    /\ lock \in Exchanges \cup {NoOne}
    /\ waiters \in Seq(Exchanges)
    /\ jobs \in Seq(Jobs)
    /\ current \in [Exchanges -> Jobs \cup {NoJob}]
    /\ fetch \in [Jobs -> {"unsent", "queued", "performing", "answered", "closed"}]
    /\ under \in [Jobs -> Exchanges \cup {NoOne}]
    /\ tool \in [Exchanges -> {"absent", "live", "ended"}]
    /\ pending \in [Exchanges -> 0..MaxPending]

-----------------------------------------------------------------------------
(* Safety                                                                  *)

\* "Must only be called while holding request_lock" (drive): of all
\* exchanges, cancelled, handed over or pumping, at most one is between the
\* acquisition and the release of the lock, and it is the owner.
DriveHoldsLock ==
    \A e \in Exchanges : pc[e] \in Tenure => lock = e

\* A job is performed under the request that was being driven when the job
\* was submitted: what an exchange cut short has left in the queue is dropped
\* by drain_stale_jobs before the next exchange's drive can take it.
LeftoversNeverServiced ==
    \A e \in Exchanges : current[e] # NoJob => under[current[e]] = e

\* What makes it so: all queued jobs belong to the exchange in its tenure.
QueueOfTenure ==
    \A e \in Exchanges :
        pc[e] \in Tenure => \A j \in ToSet(jobs) : under[j] = e

\* While the pump hands a frame or the trailers to the host, no tool's request
\* is waiting behind the client: the biased select of drive() returns a frame
\* only when the queue is empty.
NoJobBehindThePeer ==
    \A e \in Exchanges : pc[e] \in {"spawned", "sending", "trailers"} => jobs = <<>>

\* A fetch that is not resolved has its reply sender in exactly one place, the
\* job queue (once) or the hands of one drive(), so the tool awaiting it
\* cannot be left without an answer by a cancellation or an early return.
ReplySenderHeld ==
    /\ \A j \in Jobs :
          /\ fetch[j] = "queued" <=> j \in ToSet(jobs)
          /\ fetch[j] = "performing" <=> \E e \in Exchanges : current[e] = j
    /\ IsInjective(jobs)
    /\ \A e \in Exchanges : current[e] # NoJob <=> pc[e] \in Performing

\* A fetch resolves at most once, and is answered only by an exchange that
\* holds the lock from the submission of the job to its reply; a fetch nobody
\* took resolves closed, never answered.
ResolvedOnce ==
    [][\A j \in Jobs :
          /\ fetch[j] \in {"answered", "closed"} => fetch'[j] = fetch[j]
          /\ fetch'[j] = "answered" /\ fetch[j] # "answered"
               => fetch[j] = "performing" /\ lock = under[j] /\ lock' = lock]_vars

\* Exchanges are served one at a time in the order their bodies were read: a
\* waiter that was handed the lock and has not been polled yet is first in line.
Handed == lock # NoOne /\ pc[lock] = "waiting"
Line   == IF Handed THEN <<lock>> \o waiters ELSE waiters
Active == IF Handed THEN NoOne ELSE lock
Left   == {e \in Exchanges : pc[e] \in {"observing", "cut", "done"}}

Serial == INSTANCE SerialServer WITH
    Clients <- Exchanges, Nobody <- NoOne, line <- Line, active <- Active, left <- Left

ServedInOrder == Serial!Spec

-----------------------------------------------------------------------------
(* Liveness                                                                *)

\* The host always ends up taking the trailers of a body (nothing in the code
\* bounds that wait).
HostTakesTrailers == \A e \in Exchanges : WF_vars(TrailersTaken(e))

\* An exchange that waits for the request lock gets its turn or is cancelled,
\* whatever clients that stop reading, upload slowly or go away do.
LockGranted ==
    HostTakesTrailers =>
        \A e \in Exchanges : pc[e] = "waiting" ~> pc[e] # "waiting"

\* "A health probe must never queue behind an in-flight MCP exchange": it is
\* answered even if the exchange in flight never ends.
ProbeAnswered ==
    \A e \in Exchanges : pc[e] = "probe" ~> pc[e] = "replying"

\* Not even a tool that never returns keeps the thread from a probe for ever: a
\* keep-alive takes the driver out of block_on, and the client reads it or does not.
ProbeOutlastsTools == KeepAlives /\ ProbesPolled => ProbeAnswered

\* An exchange that holds the lock, and the tools it drives, cannot wait for
\* each other for ever: while a tool awaits a fetch the future of its exchange's
\* drive() is not ready, and the exchange reaches the end of its body, or fails
\* before, because the same drive() performs the fetch and sends its reply.
ExchangeReachesTrailers ==
    ToolsReturn =>
        \A e \in Exchanges :
            pc[e] \in Tenure ~> pc[e] \in {"trailers", "observing", "cut", "done"}

\* A client that at some point stops reading frees the instance: even if the
\* tool never returns, the keep-alives run into the pump's deadline, and the
\* lock is released.
StopsReading(e) == <>[][~SendAccepted(e)]_vars

HungToolReleased ==
    HostTakesTrailers /\ KeepAlives =>
        \A e \in Exchanges : StopsReading(e) => (lock = e ~> lock # e)

-----------------------------------------------------------------------------
(* What comments of the code say and the model refutes                     *)

\* lib.rs, of exchanges whose peer dropped the response stream mid-body: "their
\* tools are dead, and servicing them here would run stale work under this
\* request's context".
StaleToolsNeverServiced ==
    \A e \in Exchanges :
        current[e] # NoJob /\ current[e][1] # e => pc[current[e][1]] # "cut"

\* bridge.rs: with its deadlines a client that stops reading its response
\* stream cannot park the instance while it holds the request lock.
StalledPeerNeverParks ==
    \A e \in Exchanges : lock = e ~> lock # e
=============================================================================
