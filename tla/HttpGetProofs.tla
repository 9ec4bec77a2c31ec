--------------------------- MODULE HttpGetProofs ----------------------------
(***************************************************************************)
(* The truncation of http_get is safe and as long as it can be for every   *)
(* body, whatever its size, and every limit.                               *)
(***************************************************************************)
EXTENDS HttpGet, TLAPS

TypeInv ==
    /\ len \in 0..MaxLen
    /\ IsText(len, bounds)
    /\ index \in Nat /\ shown \in Nat /\ marked \in BOOLEAN

\* The search has passed over no boundary, so it ends at 0 at the latest.
SearchInv ==
    /\ stage = "truncating" =>
          /\ ~Fits
          /\ index <= HTTP_GET_BODY_LIMIT
          /\ \A b \in bounds : b <= HTTP_GET_BODY_LIMIT => b <= index
    /\ stage \in {"called", "fetching", "body", "truncating"} => ~marked

IInv == TypeInv /\ SearchInv /\ NeverPanics /\ LongestPrefix /\ MarkedWhenCut

LEMMA InitInv == Init => IInv
<1> SUFFICES ASSUME Init PROVE IInv
  OBVIOUS
<1>1. len = 0 /\ bounds = {0} /\ index = 0 /\ shown = 0 /\ marked = FALSE
  BY DEF Init
<1>2. IsText(len, bounds)
  BY <1>1 DEF IsText
<1>3. len \in 0..MaxLen /\ index \in Nat /\ shown \in Nat
  BY <1>1, LengthsAssumption
<1>4. marked \in BOOLEAN
  BY <1>1, Zenon
<1>5. SearchInv /\ NeverPanics /\ LongestPrefix /\ MarkedWhenCut
  BY DEF Init, SearchInv, NeverPanics, LongestPrefix, MarkedWhenCut
<1> QED
  BY <1>2, <1>3, <1>4, <1>5 DEF IInv, TypeInv

LEMMA StepInv == IInv /\ [Next]_vars => IInv'
<1> SUFFICES ASSUME IInv, [Next]_vars PROVE IInv'
  OBVIOUS
<1> USE LengthsAssumption
        DEF IInv, TypeInv, SearchInv, NeverPanics, LongestPrefix, MarkedWhenCut,
            inputVars, bodyVars, Fits
<1>1. CASE UNCHANGED vars
  BY <1>1 DEF vars
<1>2. CASE Refuse  BY <1>2 DEF Refuse
<1>3. CASE Fetch  BY <1>3 DEF Fetch
<1>4. CASE FetchFailed  BY <1>4 DEF FetchFailed
<1>5. CASE Fetched  BY <1>5 DEF Fetched
<1>6. CASE ShowWhole  BY <1>6 DEF ShowWhole, IsText
<1>7. CASE BeginTruncation  BY <1>7 DEF BeginTruncation, Smaller
<1>8. CASE StepBack
  <2>1. index # 0
    BY <1>8 DEF StepBack, IsText
  <2>2. index' \in Nat /\ index' = index - 1 /\ stage' = stage
    BY <1>8, <2>1 DEF StepBack
  <2>3. \A b \in bounds : b <= HTTP_GET_BODY_LIMIT => b <= index'
    BY <1>8, <2>2 DEF StepBack, IsText
  <2> QED  BY <1>8, <2>2, <2>3 DEF StepBack
<1>9. CASE Truncate
  BY <1>9 DEF Truncate, IsText
<1>10. CASE Over
  BY <1>10 DEF Over, vars
<1> QED
  BY <1>1, <1>2, <1>3, <1>4, <1>5, <1>6, <1>7, <1>8, <1>9, <1>10 DEF Next

THEOREM Invariance == Spec => []IInv
  BY InitInv, StepInv, PTL DEF Spec

\* The index never goes below 0 and truncate is only called at a boundary.
THEOREM NoPanic == Spec => []NeverPanics
  BY Invariance, PTL DEF IInv

\* What is shown is the longest prefix the limit and the characters allow.
THEOREM LongestShown == Spec => []LongestPrefix
  BY Invariance, PTL DEF IInv

\* The reader of an answer can tell whether the body was cut.
THEOREM CutIsMarked == Spec => []MarkedWhenCut
  BY Invariance, PTL DEF IInv
=============================================================================
