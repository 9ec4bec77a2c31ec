------------------------------ MODULE FrontDoor ------------------------------
(***************************************************************************)
(* What happens to a request before rmcp sees it, and what rmcp is told:   *)
(* the default route, the bounded read of the body and the Host guard      *)
(* (src/src/lib.rs, src/src/discovery.rs).  The lock comes after the body  *)
(* and is Bridge's; here the transport answers at once.                    *)
(*                                                                         *)
(* A Host, and a trimmed piece of MCP_ALLOWED_HOSTS between two commas, is *)
(* a name and a port, with port 0 where none is given.                     *)
(***************************************************************************)
EXTENDS Naturals, SequencesExt

CONSTANTS
    Names, Ports,   \* of hosts, in requests and in settings
    Settings,       \* values of MCP_ALLOWED_HOSTS: sequences of pieces
    DefaultHosts,   \* rmcp's own list
    MaxBody,        \* rmcp's max_request_body_bytes, scaled down
    MaxChunk        \* bound: size of a body frame

Hosts == [name : Names, port : Ports \cup {0}]
Blank == [name |-> "", port |-> 0]
Star  == [name |-> "*", port |-> 0]
Unset == <<>>    \* splitting a value gives one piece at least

ASSUME SizeAssumption    == MaxBody \in Nat /\ MaxChunk \in Nat \ {0}
ASSUME NamesAssumption   == "" \notin Names   \* a Host that names nothing does not parse
ASSUME HostsAssumption   == DefaultHosts \subseteq Hosts /\ DefaultHosts # {}
ASSUME SettingAssumption ==
    \A s \in Settings : s \in Seq(Hosts \cup {Blank, Star}) /\ s # <<>>

VARIABLES
    setting,    \* the environment, or Unset
    request,    \* verb, path and Host of the request
    stage,      \* where handle() stands
    sent,       \* bytes of the body so far, those that got lost included
    received,   \* bytes collect() has buffered
    reply       \* the answer

vars == <<setting, request, stage, sent, received, reply>>

-----------------------------------------------------------------------------
DISCOVERY_PATHS == {"/", "/health"}

\* What http_from_wasi_request makes of a request; one that it refuses goes no
\* further.
Requests == [read : BOOLEAN, path : {"/", "/health", "/mcp"}, host : Hosts]

Matches == request.read /\ request.path \in DISCOVERY_PATHS

\* What stands between the commas.
Pieces == ToSet(setting)

\* Mutant: the setting adds to rmcp's list.
AllowedHostsExtended ==
    IF setting = Unset THEN DefaultHosts
    ELSE IF setting = <<Star>> THEN {}
    ELSE DefaultHosts \cup (Pieces \ {Blank})

\* rmcp goes by whether the list is empty and by what is in it.
AllowedHosts ==
    IF setting = Unset THEN DefaultHosts
    ELSE IF setting = <<Star>> THEN {}
    ELSE Pieces \ {Blank}

Among(host, listed) == \E h \in listed : h.name = host.name /\ h.port \in {0, host.port}

\* rmcp's guard: an empty list accepts every Host.
Accepted(host) == AllowedHosts = {} \/ Among(host, AllowedHosts)

Init ==
    /\ setting \in Settings \cup {Unset}
    /\ request \in Requests
    /\ stage = "called"
    /\ sent = 0 /\ received = 0
    /\ reply = "none"

Answer(what) == stage' = "answered" /\ reply' = what

\* Mutant: the body is read first, whatever the route.
RouteAfterBody ==
    /\ stage = "called"
    /\ stage' = "reading"
    /\ UNCHANGED <<setting, request, sent, received, reply>>

Route ==
    /\ stage = "called"
    /\ \/ Matches /\ Answer("discovery")
       \/ ~Matches /\ stage' = "reading" /\ UNCHANGED reply
    /\ UNCHANGED <<setting, request, sent, received>>

\* Mutant: the limit is tested before the frame is counted.
FitsSoFar(size) == received < MaxBody

Fits(size) == received + size <= MaxBody

FrameArrives ==
    /\ stage = "reading"
    /\ \E size \in 1..MaxChunk :
          /\ sent' = sent + size
          /\ \/ Fits(size) /\ received' = received + size /\ UNCHANGED <<stage, reply>>
             \/ ~Fits(size) /\ Answer("tooLarge") /\ UNCHANGED received
    /\ UNCHANGED <<setting, request>>

\* Mutant: what came before the failure is handed over.
ReadFailedIgnored ==
    /\ stage = "reading"
    /\ sent' = sent + 1
    /\ Answer(IF Accepted(request.host) THEN "served" ELSE "forbidden")
    /\ UNCHANGED <<setting, request, received>>

\* The rest of the body is lost: handle returns Err.
ReadFailed ==
    /\ stage = "reading"
    /\ sent' = sent + 1
    /\ Answer("error")
    /\ UNCHANGED <<setting, request, received>>

\* The body is complete, and goes to rmcp.
Handed ==
    /\ stage = "reading"
    /\ Answer(IF Accepted(request.host) THEN "served" ELSE "forbidden")
    /\ UNCHANGED <<setting, request, sent, received>>

Over == stage = "answered" /\ UNCHANGED vars

Next == Route \/ FrameArrives \/ ReadFailed \/ Handed \/ Over

\* The client may never send another byte.
Spec == Init /\ [][Next]_vars /\ WF_vars(Route)

-----------------------------------------------------------------------------
\* No more than the limit is ever buffered.
TypeOK ==
    /\ setting \in Settings \cup {Unset} /\ request \in Requests
    /\ stage \in {"called", "reading", "answered"}
    /\ sent \in Nat /\ received \in 0..MaxBody
    /\ reply \in {"none", "discovery", "tooLarge", "error", "forbidden", "served"}

\* rmcp is given a body only as a whole, and a body is refused as too large only
\* if the client sent more than the limit: one of exactly the limit is served.
OnlyWholeBodies ==
    /\ reply \in {"served", "forbidden"} => received = sent
    /\ reply = "tooLarge" => sent > MaxBody

\* The guard is what the setting says: rmcp's list unless it is set, no guard
\* for `*`, and otherwise the listed hosts and no others.
GuardAsConfigured ==
    LET asked ==
          CASE setting = Unset    -> Among(request.host, DefaultHosts)
            [] setting = <<Star>> -> TRUE
            [] OTHER              -> Among(request.host, Pieces) IN
    (setting = Unset \/ Pieces # {Blank}) =>
        /\ reply = "served" => asked
        /\ reply = "forbidden" => ~asked

\* A health probe is answered whatever Host it names, and even if the body it
\* announces never arrives.
ProbeNeedsNoBody ==
    request.read /\ request.path = "/health" ~> reply = "discovery"

\* lib.rs: the guard is disabled by `*`; and hosts are accepted by being listed.
OnlyStarDisables ==
    reply = "served" =>
        \/ setting = <<Star>>
        \/ setting = Unset /\ Among(request.host, DefaultHosts)
        \/ setting # Unset /\ Among(request.host, Pieces)
=============================================================================
