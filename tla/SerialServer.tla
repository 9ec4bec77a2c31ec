---------------------------- MODULE SerialServer ----------------------------
(***************************************************************************)
(* What the bridge promises about MCP exchanges: an instance serves one    *)
(* client at a time, in the order in which they asked, each at most once.  *)
(* A client may give up before its turn, or never ask.                     *)
(***************************************************************************)
EXTENDS Sequences, SequencesExt

CONSTANTS Clients, Nobody

VARIABLES
    line,     \* clients that asked and wait, in the order they asked
    active,   \* the client being served
    left      \* clients that are gone for good

vars == <<line, active, left>>

Init ==
    /\ line = <<>>
    /\ active = Nobody
    /\ left = {}

Outside(c) == c \notin left \cup ToSet(line) \cup {active}

AskWhenIdle(c) ==
    /\ Outside(c)
    /\ active = Nobody /\ line = <<>>
    /\ active' = c
    /\ UNCHANGED <<line, left>>

Join(c) ==
    /\ Outside(c)
    /\ line' = Append(line, c)
    /\ UNCHANGED <<active, left>>

Begin ==
    /\ active = Nobody /\ line # <<>>
    /\ active' = Head(line)
    /\ line' = Tail(line)
    /\ UNCHANGED left

Complete ==
    /\ active # Nobody
    /\ active' = Nobody
    /\ left' = left \cup {active}
    /\ UNCHANGED line

Withdraw(i) ==
    /\ line' = RemoveAt(line, i)
    /\ left' = left \cup {line[i]}
    /\ UNCHANGED active

NeverAsk(c) ==
    /\ Outside(c)
    /\ left' = left \cup {c}
    /\ UNCHANGED <<line, active>>

Next ==
    \/ \E c \in Clients : AskWhenIdle(c) \/ Join(c) \/ NeverAsk(c)
    \/ Begin \/ Complete
    \/ \E i \in DOMAIN line : Withdraw(i)

Spec == Init /\ [][Next]_vars
=============================================================================
