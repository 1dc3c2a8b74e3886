------------------------- MODULE ChecksInputsProofs -------------------------
(***************************************************************************)
(* The comparison of the four checks with their reference definition, for  *)
(* every set of signers, keys, names, bounds, times and tolerances.        *)
(***************************************************************************)
EXTENDS ChecksInputs, ChecksProofs

\* What a state of ChecksInputs is: inputs of their kinds, and a verdict that
\* Decide may have given for them.
IInv ==
  /\ cert \in Certs /\ cas \in SUBSET Signers /\ user \in Names
  /\ map \in Maps(Names)
  /\ now \in Times /\ tolerance \in Tolerances
  /\ \/ verdict = "none"
     \/ verdict \in Verdicts(cert, cas, OurKey, user, map, now, tolerance)

\* The certificate and the host it is checked against are of their types,
\* and the verdict is that of Verdicts on them (checks.c:56-270).
LEMMA Inductive == Spec => []IInv
<1>1. Init => IInv
  BY DEF Init, IInv
<1>2. IInv /\ [Decide]_vars => IInv'
  BY DEF IInv, Decide, vars, input
<1>3. QED
  BY <1>1, <1>2, PTL DEF Spec

\* The inputs are what the lemmas of ChecksProofs ask for.
LEMMA InputsAreTyped ==
  ASSUME IInv
  PROVE  /\ cert.algo \in {"supported", "unsupported"}
         /\ cert.after \in 0..UintMax /\ cert.before \in 0..UintMax
         /\ map.load # "loaded" => map.names = {}
         /\ now \in Nat /\ tolerance \in Int /\ tolerance >= -IntMax
         /\ now + tolerance < IntMax /\ now - tolerance <= IntMax
<1>1. /\ cert.algo \in {"supported", "unsupported"}
      /\ cert.after \in 0..UintMax /\ cert.before \in 0..UintMax
  BY InputsAssumption DEF IInv, Certs
<1>2. map.load # "loaded" => map.names = {}
  BY DEF IInv, Maps
<1>3. now \in Times /\ tolerance \in Tolerances
  BY DEF IInv
<1>4. QED
  BY <1>1, <1>2, <1>3, InputsAssumption

\* A certificate that passes the four checks authorizes (checks.c:56-276).
THEOREM PassedIsAuthorized == Spec => []PassedMeansAuthorizes
<1>1. IInv => PassedMeansAuthorizes
  <2> SUFFICES ASSUME IInv, verdict = "passed", Clamp(cert.after) - tolerance <= IntMax
               PROVE  Authorizes(cert, cas, OurKey, user, map, now, tolerance)
    BY DEF PassedMeansAuthorizes
  <2>1. "passed" \in Verdicts(cert, cas, OurKey, user, map, now, tolerance)
    BY DEF IInv
  <2>2. QED
    BY <2>1, InputsAreTyped, PassedAuthorizes
<1>2. QED
  BY <1>1, Inductive, PTL

\* A certificate that authorizes and does not last to the end of time is never
\* refused (checks.c:56-276).
THEOREM AuthorizedIsPassing == Spec => []AuthorizedPasses
<1>1. IInv => AuthorizedPasses
  <2> SUFFICES ASSUME IInv, verdict \notin {"none", "passed"}, InRange(cert, tolerance),
                      Authorizes(cert, cas, OurKey, user, map, now, tolerance)
               PROVE  FALSE
    BY DEF AuthorizedPasses
  <2>1. verdict \in Verdicts(cert, cas, OurKey, user, map, now, tolerance)
    BY DEF IInv
  <2>2. Verdicts(cert, cas, OurKey, user, map, now, tolerance) = {"passed"}
    BY InputsAreTyped, AuthorizedIsPassed
  <2>3. QED
    BY <2>1, <2>2
<1>2. QED
  BY <1>1, Inductive, PTL

\* A principals map never takes a way in away (checks.c:156-162).
THEOREM MapsOnlyAdd == Spec => []MapOnlyAdds
<1>1. IInv => MapOnlyAdds
  <2> SUFFICES ASSUME IInv, verdict = "principal"
               PROVE  "principal" \in Verdicts(cert, cas, OurKey, user, NoMap, now, tolerance)
    BY DEF MapOnlyAdds
  <2>1. "principal" \in Verdicts(cert, cas, OurKey, user, map, now, tolerance)
    BY DEF IInv
  <2>2. "principal" \notin CheckValidity(cert, now, tolerance)
    BY DEF CheckValidity
  <2>3. /\ CheckCaSignature(cert, cas) /\ CheckKeyBinding(cert, OurKey)
        /\ ~CheckPrincipal(cert, user, map)
    BY <2>1, <2>2 DEF Verdicts
  <2>4. ~CheckPrincipal(cert, user, NoMap)
    BY <2>3 DEF CheckPrincipal, NoMap
  <2>5. QED
    BY <2>3, <2>4 DEF Verdicts
<1>2. QED
  BY <1>1, Inductive, PTL
=============================================================================
