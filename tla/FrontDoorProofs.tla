--------------------------- MODULE FrontDoorProofs ---------------------------
(***************************************************************************)
(* The bounded read of a request body, for every limit and every way the   *)
(* body is cut into frames, and the Host guard, for every setting.         *)
(***************************************************************************)
EXTENDS FrontDoor, SequenceTheorems, TLAPS

\* Nothing that was sent is missing from the buffer while handle() reads on, and
\* an answer that depends on the body is final.
IInv ==
    /\ TypeOK
    /\ OnlyWholeBodies
    /\ stage # "answered" => received = sent /\ reply = "none"
    /\ reply = "served" => Accepted(request.host)
    /\ reply = "forbidden" => ~Accepted(request.host)

LEMMA InitInv == Init => IInv
<1> SUFFICES ASSUME Init PROVE IInv
  OBVIOUS
<1>1. TypeOK
  BY SizeAssumption DEF Init, TypeOK
<1>2. received = sent /\ reply = "none"
  BY DEF Init
<1> QED  BY <1>1, <1>2 DEF IInv, OnlyWholeBodies

LEMMA StepInv == IInv /\ [Next]_vars => IInv'
<1> SUFFICES ASSUME IInv, [Next]_vars PROVE IInv'
  OBVIOUS
<1>0. /\ setting' = setting /\ request' = request
      /\ Accepted(request.host)' <=> Accepted(request.host)
  <2>1. setting' = setting /\ request' = request
    BY DEF Next, Over, vars, Route, FrameArrives, ReadFailed, Handed
  <2> QED  BY <2>1 DEF Accepted, AllowedHosts, Pieces, Among
<1> USE <1>0 DEF IInv, TypeOK, OnlyWholeBodies, Answer
<1>1. CASE Route
  BY <1>1 DEF Route
<1>2. CASE FrameArrives
  <2>1. stage = "reading" /\ received = sent /\ reply = "none"
    BY <1>2 DEF FrameArrives
  <2>2. MaxBody \in Nat /\ MaxChunk \in Nat
    BY SizeAssumption
  <2>3. PICK size \in 1..MaxChunk :
           /\ sent' = sent + size
           /\ \/ Fits(size) /\ received' = received + size /\ UNCHANGED <<stage, reply>>
              \/ ~Fits(size) /\ Answer("tooLarge") /\ UNCHANGED received
           /\ UNCHANGED <<setting, request>>
    BY <1>2 DEF FrameArrives
  <2>4. sent' \in Nat
    BY <2>2, <2>3
  <2>5. CASE Fits(size)
    <3>1. received' = sent' /\ received' \in 0..MaxBody /\ UNCHANGED <<stage, reply>>
      BY <2>1, <2>2, <2>3, <2>5 DEF Fits
    <3> QED  BY <2>1, <2>3, <2>4, <3>1
  <2>6. CASE ~Fits(size)
    <3>1. sent' > MaxBody /\ received' = received /\ stage' = "answered" /\ reply' = "tooLarge"
      BY <2>1, <2>2, <2>3, <2>6 DEF Fits
    <3> QED  BY <2>3, <2>4, <3>1
  <2> QED  BY <2>5, <2>6
<1>3. CASE ReadFailed
  BY <1>3 DEF ReadFailed
<1>4. CASE Handed
  <2>1. reply' \in {"served", "forbidden"}
    BY <1>4 DEF Handed
  <2> QED  BY <1>4, <2>1 DEF Handed
<1>5. CASE UNCHANGED vars
  BY <1>5 DEF vars
<1> QED
  BY <1>1, <1>2, <1>3, <1>4, <1>5 DEF Next, Over

THEOREM Invariance == Spec => []IInv
  BY InitInv, StepInv, PTL DEF Spec

\* The buffer stays within the limit.
THEOREM TypeCorrect == Spec => []TypeOK
  BY Invariance, PTL DEF IInv

\* rmcp is never given part of a body, and the limit is inclusive.
THEOREM WholeBodies == Spec => []OnlyWholeBodies
  BY Invariance, PTL DEF IInv

\* A blank piece lists no host.
LEMMA BlankListsNothing ==
  ASSUME NEW host \in Hosts
  PROVE  Among(host, Pieces \ {Blank}) <=> Among(host, Pieces)
<1>1. host.name # Blank.name
  BY NamesAssumption DEF Hosts, Blank
<1> QED  BY <1>1 DEF Among

\* The guard lets through the hosts that were configured, for every setting that
\* lists one, and for the setting that disables it.
THEOREM GuardsAsConfigured == Spec => []GuardAsConfigured
<1>1. IInv => GuardAsConfigured
  <2> SUFFICES ASSUME IInv, setting = Unset \/ Pieces # {Blank}
               PROVE  GuardAsConfigured
    BY DEF GuardAsConfigured
  <2> DEFINE accepted == Accepted(request.host)
  <2>1. (reply = "served" => accepted) /\ (reply = "forbidden" => ~accepted)
    BY DEF IInv
  <2>2. Unset # <<Star>>
    BY DEF Unset
  <2>3. CASE setting = Unset
    <3>1. AllowedHosts = DefaultHosts /\ DefaultHosts # {} /\ setting # <<Star>>
      BY <2>2, <2>3, HostsAssumption DEF AllowedHosts
    <3>2. accepted <=> Among(request.host, DefaultHosts)
      BY <3>1 DEF Accepted
    <3> QED  BY <2>1, <2>3, <3>1, <3>2 DEF GuardAsConfigured
  <2>4. CASE setting = <<Star>>
    <3>1. AllowedHosts = {} /\ setting # Unset
      BY <2>2, <2>4 DEF AllowedHosts
    <3>2. accepted
      BY <3>1 DEF Accepted
    <3> QED  BY <2>1, <2>4, <3>1, <3>2 DEF GuardAsConfigured
  <2>5. CASE setting # Unset /\ setting # <<Star>>
    <3>1. AllowedHosts = Pieces \ {Blank}
      BY <2>5 DEF AllowedHosts
    <3>2. Pieces # {}
      <4>1. setting \in Seq(Hosts \cup {Blank, Star}) /\ setting # <<>>
        BY <2>5, SettingAssumption DEF IInv, TypeOK, Unset
      <4>2. 1 \in DOMAIN setting
        BY <4>1, EmptySeq, LenProperties
      <4> QED  BY <4>2 DEF Pieces, ToSet
    <3>3. AllowedHosts # {}
      BY <2>5, <3>1, <3>2
    <3>4. request.host \in Hosts
      BY DEF IInv, TypeOK, Requests
    <3>5. accepted <=> Among(request.host, Pieces)
      BY <3>1, <3>3, <3>4, BlankListsNothing DEF Accepted
    <3> QED  BY <2>1, <2>5, <3>5 DEF GuardAsConfigured
  <2> QED  BY <2>3, <2>4, <2>5
<1> QED  BY <1>1, Invariance, PTL
=============================================================================
