# Verification of the MCP server template

TLA+ models, TLC runs and TLAPS proofs for the component in `src/src`: an MCP
server compiled to a WASI p3 component that serves one exchange at a time on
one thread, lets its tools make outbound HTTP requests, and publishes skills.

    tlc -config MCBridge.cfg MCBridge        # any run of PROJECT.json
    tlapm BridgeProofs.tla                   # any *Proofs.tla, BridgeRefinement.tla

`PROJECT.json` lists the runs, a mutant for every property, the source lines of
every definition, the hazards each property is for, and the theorems.

## The system

| Part | State | Operations | Talks to |
|---|---|---|---|
| Export handler and pump (`lib.rs`) | per exchange: its position, the lock guard, the response body and writer | `handle`; the spawned pump; `static_response`, `payload_too_large` | host (calls, cancels, reads the response), bridge, rmcp |
| Bridge (`bridge.rs`) | static: job queue, request lock, tokio runtime | `drive`, `drain_stale_jobs`, `fetch`, `timeout` | handler, tools, outbound |
| Outbound exchange (`bridge.rs`, `outbound`) | per call: limit, deadline, buffered bytes, transmission handle, body writer | `perform`, `into_wasi_request` | host's `client.send`, clock |
| Tools (`server.rs`) | none of their own | `echo`, `add`, `current_time`, `http_get` | bridge through `fetch` |
| Skills (`skills.rs`, handlers in `server.rs`) | the static `SKILLS` table, entries computed once from it | `get_info`, `skills/list`, `skills/get`, `resources/list`, `resources/read`, `resources/directory/read`; `parse_frontmatter` | clients |
| Discovery (`discovery.rs`) | none | route match, document | handler, skills |
| Transport configuration (`lib.rs`) | none | parse of `MCP_ALLOWED_HOSTS` | rmcp's Host guard |
| Telemetry (`telemetry.rs`) | none that affects control | spans, logs | - |

Two async worlds share the thread. A component-model task (a `handle` call or a
pump) runs from one await to the next; while one of them is inside
`Runtime::block_on` only tokio tasks run, and all of those the static runtime
holds do, the ones spawned for earlier exchanges included. The worlds meet at
`drive`: it leaves `block_on` with the future's value or with a job of the
queue, and performs that job outside.

What is hard here: who holds the lock, and for how long, when an exchange
returns its headers long before its body ends; an exchange the host cancels at
any await; a client that stops reading; tools that outlive their exchange, or
never return; jobs that nobody will answer; a deadline against a late answer, or
several in a row; limits met exactly; one catalog told in several ways.

What makes each part correct:

- bridge and handler: exchanges use the bridge one at a time and in order; no
  job crosses from one exchange to the next; every fetch resolves, once; nobody
  waits for ever on something the code controls; the health probe never waits;
- outbound: a tool gets the whole body or an error, never more than the limit,
  never before its deadline, and always something; and a tool's wait for it is
  bounded by the deadlines of the jobs ahead of it;
- front door: a probe needs no body and no Host, rmcp gets whole bodies within
  the limit, and the guard is the one the setting asks for;
- skills: manifest, listings, catalogs and reads agree and stay inside the table, and
  agree with what a host makes of a playbook;
- `http_get`: the body is cut at a character, never further than needed.

## Modules

| Module | Models | Lines of code |
|---|---|---|
| `SerialServer` | what the bridge promises: clients served one at a time in order | abstract |
| `Bridge` | handler, pump, queue, lock, `drive`, `fetch`, tokio tasks | `lib.rs` 46-172, 210-246; `bridge.rs` 29-134, 270-280 |
| `BridgeProofs`, `BridgeRefinement` | theorems about `Bridge` | - |
| `Outbound`, `OutboundProofs` | `perform`, its writer, deadline and limit | `bridge.rs` 140-163, 183-314 |
| `Service`, `ServiceProofs` | `Bridge` with `Outbound` in the place of `Performed`, over one clock | `bridge.rs` 104-163, 284-314 |
| `FrontDoor`, `FrontDoorProofs` | route, bounded read of the body, `MCP_ALLOWED_HOSTS` and the guard | `lib.rs` 46-82, 186-208; `discovery.rs` 33-41 |
| `Frontmatter`, `FrontmatterProofs` | `parse_frontmatter`, and a host that parses the same document | `skills.rs` 448-464 |
| `Skills`, `SkillsProofs` | the `skill://` namespace, its handlers and its catalogs | `skills.rs` 79-268, 299-446; `server.rs` 231-262, 275-394; `discovery.rs` 43-54 |
| `HttpGet`, `HttpGetProofs` | the `http_get` tool and `truncation_boundary` | `server.rs` 125-151, 171-227 |
| `MC*` | constants for TLC | - |

### Bridge

`pc[e]` is where the component-model task of exchange `e` stands:

| `pc` | Code |
|---|---|
| `idle`, `probe`, `reading` | not called; on the default route; buffering the body (`lib.rs` 71) |
| `waiting` | parked in `lock_owned()` (87) |
| `head`, `headPerform` | inside `block_on`, or performing a job, of the first `drive` (105) |
| `spawned` | response returned, pump not polled yet (126) |
| `body`, `bodyPerform` | the same two for the pump's `drive` (129) |
| `sending`, `trailers` | handing a frame (141), then the trailers (162), to the host |
| `observing`, `done` | lock released, awaiting the transmission result (168); over |
| `cut` | over, the pump having failed at a frame (146) |
| `replying` | the writer of a static response (239) |

An action is the code between two awaits: taking the lock, draining the queue
and dispatching to rmcp are one step (`EnterHead`), as are draining and
releasing at the end of a pump. `fetch[j]` follows one `fetch` call from
`unsent` to `answered` or `closed` (`BridgeClosed`); `jobs` is the static queue
and `current` the job a `drive` holds with its reply sender. `pending` counts the
frames in the response body that the pump has not taken. `under` is a history
variable: which exchange's `block_on` ran the submission.

Taken as external, from how the code uses it: tokio's mutex hands the lock to
waiters first in, first out; rmcp runs a request in a task of its own, which a
dropped response body does not end; the host may cancel a `handle` call parked
at an await. An exchange whose `handle` has returned is past cancelling; its
pump is a spawned task.

### Outbound

`stage` is the position of `perform`; `upload` the spawned body writer;
`transmission` the handle kept to the end; `head`, `frame`, `eof` what the host
has of the response. Streams are unbuffered. A host may cut a response stream
whose transmission handle was dropped, and the reader cannot tell (the README
of the repository reports it of Wasmtime 49). One tick is a nanosecond, scaled.

### Service

`Service` extends `Bridge` and instantiates `Outbound`. While an exchange is in
`headPerform` or `bodyPerform`, the steps are those of its `perform` and of the
upstream; `Reply` is `Performed` once `perform` has returned, `Cancel` drops it at
any of its awaits. The outbound state is at rest in between. Computation takes no
time: the clock ticks only when no task can run, so not while a job is queued
inside `block_on`, and not past a deadline that `timeout` would see. `due` is a
history variable, the time each fetch may still take.

### FrontDoor

A request is its verb, path and Host; the body comes in frames of any size, is
cut off, or never ends. The lock is left to `Bridge`, so a complete body is answered
at once, by the guard or by the transport. A piece of `MCP_ALLOWED_HOSTS`, trimmed,
is a host with or without a port, blank, or a star. rmcp's side of the guard is
external: an empty list accepts every Host, another one those that are in it, in
whatever order, so the list is a set.

### Frontmatter

A document is a sequence of lines, each a field, `---`, a line that begins with
`---` (a field whose key does, such as `---name: x`, or no field), or other text.
`ParseFrontmatter` has the code's search: the first line that begins with three
dashes, from the second line of the block on. `HostFrontmatter` ends the block at the
first `---` on a line of its own; the host is external, and this is what the code's
test for the opening line asks for too. A document is ruled off (`RuledOff`)
when both come to the same line. What YAML makes of a block of such lines is `Yaml`.
The value of a field may be of any type: a constant says which values are
strings. A value that spans lines counts as one line; nested values are left out.

### Skills

A URI is its sequence of segments, so prefix tests on strings become prefix
tests on sequences; an `Option` is a set of at most one value. The loop over the files
of a directory is a recursive function of how many files it has seen (`Listing`). A client calls any
handler with any URI and remembers what it was told: entries, announcements of a
skill (instructions, discovery document, `resources/list`), listed resources,
directories it walked, and the last text it read. A skill is announced with its
`Description`: that of the frontmatter if it is a string, the empty text otherwise.
The table must be well
formed (distinct names, distinct relative paths without empty, `.` or `..`
segments): the tests of `skills.rs` pin that for the shipped table, nothing in
the types does, and the walk is wrong without it. SHA-256 is injective.

### HttpGet

A text is its length and the set of its character boundaries. The list of
local hosts is a constant. `fetch` may fail or give any body; what it can give
is `Bridge` and `Outbound`.

## Runs

| Run | Instance | Shows |
|---|---|---|
| `bridge` | 3 exchanges, 2 fetches, 1 frame, symmetry | the owner of the lock alone is in its tenure; no job served under a later exchange, none waiting behind the client, reply senders never lost, fetches resolve once; refinement of `SerialServer` |
| `bridge_live` | 3 exchanges, no fetch, 2 frames | every waiter gets its turn, past waiters that are cancelled; probes are answered |
| `bridge_hung` | 2 exchanges, 2 fetches, 2 frames | a tool that hangs behind a client that stops reading loses the lock, and does not keep the thread from probes; exchanges and tools that return never deadlock |
| `bridge_stale` | 2 exchanges, 1 fetch, 1 frame | finding: stale tools are serviced |
| `bridge_stalled` | 2 exchanges, no fetch, 1 frame | finding: the trailers have no deadline |
| `service` | 2 exchanges, 1 fetch, 1 frame, deadline 2 | a fetch is answered within the deadlines of the jobs up to it; the composition implements `Bridge` with its fairness |
| `front_door` | 3 names, 2 ports, 7 settings, limit 2, frames to 2 | route, limit, read errors, guard |
| `front_door_star` | the same | finding: blank settings disable the guard |
| `outbound` | bodies, limits and timeouts around each other, a clock that saturates | outcome is right, bounded, in time, and comes |
| `skills` | the shipped table, a crowded one and two of odd playbooks, 823 URIs | the routes and the catalogs agree, with a host too |
| `skills_frontmatter` | the same | finding: an entry has fields a host does not find |
| `http_get` | bodies to 8 bytes, limit 5, all character layouts | truncation |

Why the bounds are enough. A job can only be mishandled between the exchange
that submits it and one that follows. A cancelled waiter matters when another
waits behind it and one holds the lock: three exchanges. Two jobs left over beside
one being performed would need a third fetch, which only the proofs cover. `pending` bounds the frames that wait in a body, not those a tool emits:
a pump goes round its loop any number of times, and one or two frames waiting at once
meet every order of emission, hand-over, failure and end. In `Service` a tool and a stale tool give
one job in flight and one queued; in `bridge_hung` two overlapping fetches of each keep the
queue filled in front of a frame. A clock that goes up to the deadline sees every
order of the two waits. A character is at most four bytes, so a limit of five with
three bytes after it sees every position of a cut. For safety the proofs remove
the bounds. `CHECK_DEADLOCK` stays on: where a bounded instance is finished,
`Quiescent` (or `Over`) says so.

### Fairness

`Bridge` is fair, per exchange, to `CodeStep`: answers of the code itself, polls
of a task that can move, and waits with a deadline (`perform`, a frame, the
transmission result). Those happen because the executor polls woken tasks and
the clock advances. It is fair to nothing a peer decides: calls, uploads,
cancellation, reading a frame, taking trailers. `LockGranted` therefore needs a
premise of its own, `HostTakesTrailers`, since nothing in the code bounds that
wait. The lock needs no strong fairness, because its hand-off is FIFO.

What tools do is a premise of its own. `ToolsReturn`: a tool that waits for no fetch
returns. It is strongly fair, because a tool gets to run only while somebody is
inside `block_on`, and it may emit any number of frames before. It says nothing of
a tool whose fetch is queued or performed: `http_get` awaits it, so it is the
driver that must let that tool go on, which is what `ExchangeReachesTrailers`
is about; rmcp may abort such a tool, and need not. Fetches are finite in number
(`MaxFetches`): a tool that submits for ever never returns, and frames would wait
behind its jobs.
`FairSpec` adds the premise to the fairness of the code, `DriverSpec`; `FairService`
replaces the fairness of `Performed` by that of polls and of the clock, and `service`
shows that `FairSpec` follows.

Without the premise a tool may hang. `KeepAlives` then has rmcp's keep-alives (every
15 s) go on appearing, as they do in an SSE response, the only kind whose head
comes before its tool returns. `ProbesPolled` is strong fairness to a call of
the default route: with a hung tool and a client that reads, the thread is free
again and again and never for good, and the executor polls a woken task in
one of those gaps. `HungToolReleased` and `ProbeOutlastsTools` name these as premises.

The front door is fair to the code's own step only: a client may never send
another byte. `Outbound` is fair to polls of `perform`; its two liveness properties name
the further premises they use, time passing in one and a healthy host in the
other.

## Findings

1. `lib.rs` 89-92 says that the tools of an exchange that ended early are dead.
   They are tokio tasks of a static runtime: the jobs they have queued are
   dropped, but they run on under the next exchange, and a fetch they make
   there is performed under its lock. `LeftoversNeverServiced` is what does hold.
2. `bridge.rs` 142-146 says deadlines keep a stalled peer from parking the
   instance while it holds the lock. The write of the trailers (`lib.rs` 162) has
   none and comes before the release.
3. `lib.rs` 189-196 names `*` as the value that disables the Host guard. A value with
   nothing but blanks and commas filters to the same empty list (200-204).
4. `skills.rs` 450-452 says that the frontmatter of an entry is identical, field by field,
   to what a host parses. The search for its end (458) takes any line that begins
   with three dashes, and not the line right below the opening. Where `---and more` stands
   before the rule, or a second `---` right below the first, the entry can have fields and
   the host find no mapping; a key such as `---name` cuts the entry short. `FrontmatterVerbatim` is what holds.

Remarks. `NoJobBehindThePeer` shows that the two drains in the pump always find
the queue empty; the drain that matters is the one after the lock, for an exchange
cancelled while it performed a job. A frame that is ready waits while the pump's
`drive` performs a job, so frames are not always pumped as they materialize.
A health probe
needs no lock (`lib.rs` 54-56), but it needs the thread: a tool that neither returns
nor fetches can delay it until the next keep-alive.

By reading, not by a run: a description that YAML takes for a list or a number is announced
as the empty text, where `skills.rs` 254 speaks of the verbatim description. The playbook
`skills/building-mcp-servers/SKILL.md` 397-400 warns of a single-line parser that
gives an empty catalog entry for a multi-line description; `parse_frontmatter` is a
YAML parse, which reads a `>-` block as one string, and that is announced in full.
A path that is both a file and a directory of one skill has its URI twice in a
listing, once of each kind.

## Proofs

Assumptions: `NoOne` is no exchange and the bounds are naturals (`Bridge`);
sizes and times are naturals and `NanosPerMilli` is positive (`Outbound`, and
again in `Service`, which instantiates it); the table is well formed, URIs are sequences of segments and documents sequences of
lines (`Skills`); a field's key is neither empty nor `---`, and those that begin with dashes are fields (`Frontmatter`); lengths
and limits are naturals (`HttpGet`, `FrontDoor`); a Host has a name, a setting has
a piece and rmcp's own list has a host (`FrontDoor`).

**Bridge.** None of the safety properties is inductive alone. The invariant
`IInv` of `BridgeProofs` joins `TypeOK`, `DriveHoldsLock`, `ReplySenderHeld`,
`NoJobBehindThePeer`, `LeftoversNeverServiced` with what they lean on:
`QueueOfTenure` says that in a tenure the queue holds jobs of that tenure only,
which the drain in `EnterHead` establishes and mutual exclusion keeps, since only
the exchange inside `block_on`, the owner, lets tools submit. Taking a job then
cannot take another exchange's. `ResolvedOnce` is an action property proved from
the same invariant: a performed job was submitted under its performer, who owns
the lock. Each lemma `...Step` shows one conjunct preserved by every action.

**Refinement.** `BridgeRefinement` proves that `Bridge` implements
`SerialServer`. The abstract line is the lock's queue, with a waiter that was
handed the lock and has not run yet still at its head; the abstract client in
service is the owner once it runs. `LineInv` says that the queue holds each
waiting exchange once and nobody waits for a free lock.

**Composition.** `ServiceStep`: every step of `Service` is a step of `Bridge` or leaves
its variables alone, so `ServiceIsBridge` and all that is proved of `Bridge`
carries over, the order of service included. Conversely the `perform` inside keeps
its own promises (`ServiceDelivers`, from `PerformInv`): it is at rest unless some
exchange is performing, and `Polled`, `Upstream` and `Pass` are its own steps.

`FetchInTime` needs `TimeInv`, which accounts for the whole of the wait. Write `D` for
the outbound deadline. The fetch in flight has at least what is left of
`perform`'s deadline, `due >= D - now`. The job at place `n` of the queue has
at least `n * D` and, while one is in flight, `D - now` more: each job ahead of it
can use up one deadline and no more. Taking the head pays one deadline, which the new
`perform` starts with; submitting adds a place at the end, for which `TimePasses` grants
`D`; a tick takes one from every `due` and adds one to `now`, and there is none while
a job is queued inside `block_on` or once `now` has reached `D`. Between drives the
queue of a tenure is empty (`NoJobBehindThePeer`), so the client's pace, which has no
bound, is never part of the wait. The fetches of an exchange whose tenure is over
are owed nothing.

**Outbound.** `Flow` says the transmission is held until `perform` returns, so
the stream is never cut, and that bytes sent are bytes buffered plus the frame
in flight; the properties follow, with the saturated product for the deadline.

**HttpGet.** `SearchInv`: the search has passed over no boundary. As 0 is one, it
never steps below 0.

**Skills.** `PlaceOfUri`: in a well-formed table each file has a URI of its own,
which is not the catalog's. What a client read is a file under that URI, and what
it knows are entries of the table, so digests agree.

The walk is an induction, and the prover takes none over an operator. `Least` (of `FrontmatterProofs`) gets
the least number of a set from the well-foundedness of `<`, and `Induction` follows
for sets of numbers. `Recursion` builds a function from its step the same way, which
shows that the function `Listing` chooses exists, and `ListingUpTo` that it goes file
by file. `ListingIsWhole`, by induction over the files, says a listing has each child of
the directory once and nothing else: two files never give one file node, their paths
being distinct, and a subdirectory is skipped when it is there. `Walkable` and
`WalkedIsDirectory` say that directories are the strict prefixes of paths, and nothing
else. `WalkInv` adds to `IInv` that what was shown is the catalog, a file of the table or
one of its directories, and that the listing of a walked directory has been
found; `NothingDangling` and `ListedOnce` follow. For `WalkIsManifest`, `WalkedDown` is
an induction over the depth: the root was walked; if the directory at depth `d` of
a file's path was, then the next was shown, hence walked; the last one shows the file.

**Frontmatter.** `SameEnd`: in a document that is ruled off the code's first possible end
is a rule, hence one of the host's, and the host's are all among the code's; so the least
of each (there is one, `Least`) is the same line, and the blocks are. In any other document
in which a host finds fields its block begins with no rule, so its end is one of the code's as well, and
the code's block is a prefix of it (`EveryDocument`). `FrontmatterIsVerbatim` and
`ChannelsAgree` then follow in `SkillsProofs`: what a client heard and knows
comes from entries, what it read at a skill's own URI is the playbook the
entry was built from, and as no key is there twice (`KeysDistinct`), the description a skill is
announced with is the one there is.

**FrontDoor.** While `handle` reads on, nothing that was sent is missing from the
buffer; the properties of the answer follow from where it is given. For the guard the
invariant keeps what the answer says of the Host. A blank piece lists no host, so
that dropping it changes nothing unless it leaves the list empty, which is the case
that `GuardAsConfigured` excepts and finding 3 reports.

Model-checked only: liveness (`LockGranted`, `ProbeAnswered`, `HungToolReleased`,
`ProbeOutlastsTools`, `ExchangeReachesTrailers`, `ProbeNeedsNoBody`, `PerformReturns`, `NeedsNoDeadline`), since
TLAPS has no `ENABLED` reasoning here, and with it `BridgeAsAssumed`, whose safety part
is `ServiceIsBridge`. Every invariant and action property of a run is a theorem.

## Not modelled

JSON and SSE contents, response headers, tracing, titles, sizes and MIME types of
resources, the two URI templates, cache hints, nested YAML, rmcp's internals but
for what the code relies on, the other three tools (no shared state), deployment,
the compat shim and the end-to-end script. `poolSize` instances share nothing; one
is modelled. That the reply a client receives is that of its own request is up to
rmcp, which makes the body and the task: in the code it is one local variable.

## Plan

Done, in this order: `SerialServer`, `Bridge` with its runs, `BridgeProofs`,
`BridgeRefinement`, `Outbound`, `HttpGet`, `Skills`, with proofs; then hung tools
and stalled clients in `Bridge`, `Service`, `FrontDoor`, `Frontmatter` and the
catalogs of `Skills`, with proofs.

Then, proving: `FetchInTime` for every number of fetches and every deadline, what
`perform` promises inside the composition, the Host guard, and the walk of `Skills`.

Left: an abstract specification of a fetch as its tool sees it, which `Service` and
`Outbound` would both implement.
