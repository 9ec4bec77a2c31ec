------------------------------ MODULE HttpGet -------------------------------
(***************************************************************************)
(* The http_get tool (src/src/server.rs): its in-guest target check, the   *)
(* fetch it awaits from the bridge and the truncation of the body it       *)
(* shows.  A text is its length in bytes and the set of its character      *)
(* boundaries, which is all that is_char_boundary and truncate see of it.  *)
(* An index is a usize: stepping below 0, like truncating between two      *)
(* boundaries, panics.                                                     *)
(***************************************************************************)
EXTENDS Naturals

CONSTANTS
    MaxLen,                 \* bound: bytes of a response body
    HTTP_GET_BODY_LIMIT,
    Hosts, LocalHosts       \* hosts of URLs, and the local or private ones

ASSUME LengthsAssumption == MaxLen \in Nat /\ HTTP_GET_BODY_LIMIT \in Nat
ASSUME HostsAssumption == LocalHosts \subseteq Hosts

VARIABLES
    stage,        \* where the tool stands
    target,       \* the url parameter
    allowLocal,   \* MCP_HTTP_GET_ALLOW_LOCAL
    len, bounds,  \* the body: its length and its character boundaries
    index,        \* truncation_boundary's index
    shown,        \* bytes of the body in the answer
    marked        \* the answer ends with the truncation marker

inputVars == <<target, allowLocal>>
bodyVars  == <<len, bounds>>
vars == <<stage, inputVars, bodyVars, index, shown, marked>>

-----------------------------------------------------------------------------
\* A URL as the code sees it: one http::Request accepts, with a scheme that is
\* http(s) or not, or one it rejects.
Targets == [scheme : {"web", "other", "unparsable"}, host : Hosts]

\* A UTF-8 character has at most four bytes.
IsText(n, cuts) ==
    /\ cuts \subseteq 0..n
    /\ {0, n} \subseteq cuts
    /\ \A i \in 0..n : \E b \in cuts : b <= i /\ i <= b + 3

\* deny_private_target: the scheme is checked first, whatever the setting.
Denied ==
    \/ target.scheme = "other"
    \/ ~allowLocal /\ target.host \in LocalHosts

Smaller(a, b) == IF a <= b THEN a ELSE b

\* Mutant: a body of exactly the limit is truncated too.
FitsBelow == len < HTTP_GET_BODY_LIMIT

Fits == len <= HTTP_GET_BODY_LIMIT

Init ==
    /\ stage = "called"
    /\ target \in Targets
    /\ allowLocal \in BOOLEAN
    /\ len = 0 /\ bounds = {0}
    /\ index = 0 /\ shown = 0 /\ marked = FALSE

Refuse ==
    /\ stage = "called"
    /\ \/ target.scheme = "unparsable" /\ stage' = "invalidParams"
       \/ target.scheme # "unparsable" /\ Denied /\ stage' = "toolError"
    /\ UNCHANGED <<inputVars, bodyVars, index, shown, marked>>

Fetch ==
    /\ stage = "called"
    /\ target.scheme # "unparsable" /\ ~Denied
    /\ stage' = "fetching"
    /\ UNCHANGED <<inputVars, bodyVars, index, shown, marked>>

\* The fetch resolves with an error of the exchange, or BridgeClosed.
FetchFailed ==
    /\ stage = "fetching"
    /\ stage' = "toolError"
    /\ UNCHANGED <<inputVars, bodyVars, index, shown, marked>>

\* The body, as from_utf8_lossy makes a text of it.
Fetched ==
    /\ stage = "fetching"
    /\ len' \in 0..MaxLen
    /\ bounds' \in {cuts \in SUBSET (0..len') : IsText(len', cuts)}
    /\ stage' = "body"
    /\ UNCHANGED <<inputVars, index, shown, marked>>

ShowWhole ==
    /\ stage = "body"
    /\ Fits
    /\ shown' = len
    /\ stage' = "answered"
    /\ UNCHANGED <<inputVars, bodyVars, index, marked>>

BeginTruncation ==
    /\ stage = "body"
    /\ ~Fits
    /\ index' = Smaller(HTTP_GET_BODY_LIMIT, len)
    /\ stage' = "truncating"
    /\ UNCHANGED <<inputVars, bodyVars, shown, marked>>

\* Mutant: the index is moved before it is looked at, so a boundary at the
\* limit is passed over.
StepBackFirst ==
    /\ stage = "truncating"
    /\ index \notin bounds \/ index = HTTP_GET_BODY_LIMIT
    /\ IF index = 0 THEN stage' = "panicked" /\ index' = 0
                    ELSE stage' = stage /\ index' = index - 1
    /\ UNCHANGED <<inputVars, bodyVars, shown, marked>>

StepBack ==
    /\ stage = "truncating"
    /\ index \notin bounds
    /\ IF index = 0 THEN stage' = "panicked" /\ index' = 0
                    ELSE stage' = stage /\ index' = index - 1
    /\ UNCHANGED <<inputVars, bodyVars, shown, marked>>

\* Mutant: truncates at the limit itself.
TruncateAtLimit ==
    /\ stage = "truncating"
    /\ shown' = HTTP_GET_BODY_LIMIT
    /\ marked' = TRUE
    /\ stage' = IF HTTP_GET_BODY_LIMIT \in bounds THEN "answered" ELSE "panicked"
    /\ UNCHANGED <<inputVars, bodyVars, index>>

Truncate ==
    /\ stage = "truncating"
    /\ index \in bounds
    /\ shown' = index
    /\ marked' = TRUE
    /\ stage' = "answered"
    /\ UNCHANGED <<inputVars, bodyVars, index>>

Over ==
    /\ stage \in {"answered", "toolError", "invalidParams"}
    /\ UNCHANGED vars

Next ==
    \/ Refuse \/ Fetch \/ FetchFailed \/ Fetched
    \/ ShowWhole \/ BeginTruncation \/ StepBack \/ Truncate
    \/ Over

Spec == Init /\ [][Next]_vars

-----------------------------------------------------------------------------
\* No body, whatever its characters and wherever the limit falls in them, makes
\* the tool trap the instance.
NeverPanics == stage # "panicked"

\* The answer shows the longest prefix of whole characters within the limit.
LongestPrefix ==
    stage = "answered" =>
        /\ shown \in bounds /\ shown <= HTTP_GET_BODY_LIMIT
        /\ \A b \in bounds : b <= HTTP_GET_BODY_LIMIT => b <= shown

\* The marker is there when, and only when, a part of the body is not shown.
MarkedWhenCut ==
    stage = "answered" => (marked <=> shown < len)
=============================================================================
