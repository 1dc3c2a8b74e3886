---------------------------- MODULE ChecksProofs ----------------------------
(***************************************************************************)
(* What the four checks of Checks decide, for every certificate and every  *)
(* width of int64_t.                                                       *)
(***************************************************************************)
EXTENDS Checks, TLAPS

\* A principals map that did not load names nobody, so the names check 3 looks
\* for are the account and the principals mapped to it (checks.c:144-231).
LEMMA PrincipalIsEntitled ==
  ASSUME NEW cert, NEW user, NEW map, map.load # "loaded" => map.names = {}
  PROVE  CheckPrincipal(cert, user, map) <=> Entitled(cert, user, map)
BY DEF CheckPrincipal, Entitled

\* Check 4 lets a certificate through only inside its widened window, whatever
\* an overflow of its upper bound gives (checks.c:233-276).
LEMMA ValidityIsCurrent ==
  ASSUME NEW cert, cert.after \in 0..UintMax, cert.before \in 0..UintMax,
         NEW now \in Nat, NEW tolerance \in Int, now + tolerance < IntMax,
         Clamp(cert.after) - tolerance <= IntMax,
         "passed" \in CheckValidity(cert, now, tolerance)
  PROVE  Current(cert, now, tolerance)
<1>1. IntMax \in Nat /\ UintMax \in Nat
  BY ChecksAssumption DEF UintMax
<1>2. PICK first \in Signed(Clamp(cert.after) - tolerance),
           last \in Signed(Clamp(cert.before) + tolerance) :
         now >= first /\ now <= last
  BY DEF CheckValidity
<1>3. first = Clamp(cert.after) - tolerance
  BY DEF Signed
<1>4. last \in Int /\ last <= Clamp(cert.before) + tolerance
  <2>1. Clamp(cert.before) \in Int
    BY <1>1 DEF Clamp
  <2>2. \A x \in Int : \A y \in Signed(x) : y \in Int /\ y <= x
    BY <1>1 DEF Signed
  <2>3. QED
    BY <2>1, <2>2
<1>5. now + tolerance >= cert.after
  BY <1>1, <1>2, <1>3 DEF Clamp
<1>6. now - tolerance <= cert.before
  BY <1>1, <1>2, <1>4 DEF Clamp
<1>7. QED
  BY <1>5, <1>6 DEF Current

\* The other way round, where neither bound overflows.
LEMMA CurrentIsValid ==
  ASSUME NEW cert, cert.after \in 0..UintMax, cert.before \in 0..UintMax,
         NEW now \in Nat, NEW tolerance \in Int, tolerance >= -IntMax,
         now + tolerance < IntMax, now - tolerance <= IntMax,
         InRange(cert, tolerance),
         Current(cert, now, tolerance)
  PROVE  CheckValidity(cert, now, tolerance) = {"passed"}
<1>1. IntMax \in Nat /\ UintMax \in Nat
  BY ChecksAssumption DEF UintMax
<1>2. /\ Signed(Clamp(cert.after) - tolerance) = {Clamp(cert.after) - tolerance}
      /\ Signed(Clamp(cert.before) + tolerance) = {Clamp(cert.before) + tolerance}
  BY DEF InRange, Signed
<1>3. now >= Clamp(cert.after) - tolerance
  BY <1>1 DEF Current, Clamp
<1>4. now <= Clamp(cert.before) + tolerance
  <2>1. CASE cert.before > IntMax
    BY <1>1, <2>1 DEF Clamp
  <2>2. CASE ~(cert.before > IntMax)
    BY <1>1, <2>2 DEF Current, Clamp
  <2>3. QED
    BY <2>1, <2>2
<1>5. QED
  BY <1>2, <1>3, <1>4 DEF CheckValidity
\* One trusted key that verifies the signature is a trusted signer, and no
\* other is (checks.c:56-116).
LEMMA SignatureIsTrust ==
  ASSUME NEW cert, cert.algo \in {"supported", "unsupported"}, NEW cas
  PROVE  CheckCaSignature(cert, cas) <=> Trusted(cert, cas)
BY DEF CheckCaSignature, VerifyResult, Trusted

\* All four in the order of the code (auth.c:869-873): what passes authorizes.
LEMMA PassedAuthorizes ==
  ASSUME NEW cert, cert.algo \in {"supported", "unsupported"},
         cert.after \in 0..UintMax, cert.before \in 0..UintMax,
         NEW cas, NEW ourKey, NEW user,
         NEW map, map.load # "loaded" => map.names = {},
         NEW now \in Nat, NEW tolerance \in Int, now + tolerance < IntMax,
         Clamp(cert.after) - tolerance <= IntMax,
         "passed" \in Verdicts(cert, cas, ourKey, user, map, now, tolerance)
  PROVE  Authorizes(cert, cas, ourKey, user, map, now, tolerance)
<1>1. /\ CheckCaSignature(cert, cas)
      /\ CheckKeyBinding(cert, ourKey)
      /\ CheckPrincipal(cert, user, map)
      /\ "passed" \in CheckValidity(cert, now, tolerance)
  BY DEF Verdicts
<1>2. Trusted(cert, cas)
  BY <1>1, SignatureIsTrust
<1>3. Entitled(cert, user, map)
  BY <1>1, PrincipalIsEntitled
<1>4. Current(cert, now, tolerance)
  BY <1>1, ValidityIsCurrent
<1>5. QED
  BY <1>1, <1>2, <1>3, <1>4 DEF Authorizes, CheckKeyBinding

\* And what authorizes passes, where neither bound overflows.
LEMMA AuthorizedIsPassed ==
  ASSUME NEW cert, cert.algo \in {"supported", "unsupported"},
         cert.after \in 0..UintMax, cert.before \in 0..UintMax,
         NEW cas, NEW ourKey, NEW user,
         NEW map, map.load # "loaded" => map.names = {},
         NEW now \in Nat, NEW tolerance \in Int, tolerance >= -IntMax,
         now + tolerance < IntMax, now - tolerance <= IntMax,
         InRange(cert, tolerance),
         Authorizes(cert, cas, ourKey, user, map, now, tolerance)
  PROVE  Verdicts(cert, cas, ourKey, user, map, now, tolerance) = {"passed"}
<1>1. /\ Trusted(cert, cas) /\ cert.key = ourKey
      /\ Entitled(cert, user, map) /\ Current(cert, now, tolerance)
  BY DEF Authorizes
<1>2. CheckCaSignature(cert, cas)
  BY <1>1, SignatureIsTrust
<1>3. CheckPrincipal(cert, user, map)
  BY <1>1, PrincipalIsEntitled
<1>4. CheckValidity(cert, now, tolerance) = {"passed"}
  BY <1>1, CurrentIsValid
<1>5. QED
  BY <1>1, <1>2, <1>3, <1>4 DEF Verdicts, CheckKeyBinding
=============================================================================
