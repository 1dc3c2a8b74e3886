------------------------------- MODULE Checks -------------------------------
(***************************************************************************)
(* The four checks of src/src/checks.c an issued certificate must pass, in *)
(* the order auth.c:869-873 makes them.  Constant operators only: the      *)
(* attempt (Authenticate) and the exhaustive comparison with the reference *)
(* definition (MCChecks) both use them.                                    *)
(*                                                                         *)
(* A certificate is a record: signer, the CA key that signed it; algo,     *)
(* whether this build can verify its signature algorithm; key, the subject *)
(* key; principals, a set of names; after and before, the uint64 bounds.   *)
(* int64_t is scaled down: its largest value is IntMax.                    *)
(*                                                                         *)
(* In every module an operator whose name ends in an underscored word is a *)
(* seeded fault: a plausible slip in the definition after it, kept to show *)
(* which property notices it.  No specification uses one.                  *)
(***************************************************************************)
EXTENDS Integers

CONSTANT IntMax     \* INT64_MAX of the scaled int64_t

ASSUME ChecksAssumption == IntMax \in Nat \ {0}

UintMax == 2 * IntMax + 1

-----------------------------------------------------------------------------
(* Machine integers.                                                       *)

\* The values a signed expression of mathematical value x <= UintMax may have
\* in the built module.  Overflow is undefined in C: the build may wrap, or
\* compare as if the type were wider.
Signed(x) == IF x <= IntMax THEN {x} ELSE {x, x - (UintMax + 1)}

\* checks.c:240-245: a uint64 bound as an int64_t.
Clamp_Cast(u) == IF u > IntMax THEN u - (UintMax + 1) ELSE u
Clamp(u) == IF u > IntMax THEN IntMax ELSE u

-----------------------------------------------------------------------------
\* sshcert.c:222-229, crypto_openssl.c:421-471, as Verify has them in detail: the
\* algorithm alone decides whether a signature can be verified, and an error is
\* as good as a bad one.
VerifyResult(cert, ca) ==
  IF cert.algo = "unsupported" THEN "UNSUPPORTED"
  ELSE IF cert.signer = ca THEN "OK" ELSE "BAD"

\* checks.c:56-116: any one trusted key will do.
CheckCaSignature_NotBad(cert, cas) ==
  \E ca \in cas : VerifyResult(cert, ca) # "BAD"
CheckCaSignature(cert, cas) == \E ca \in cas : VerifyResult(cert, ca) = "OK"

\* checks.c:118-142: the certificate is for the key of this very attempt.
CheckKeyBinding(cert, ourKey) == cert.key = ourKey

\* What ssoossh_principals_map_load leaves behind: how the load went, and the
\* principals the account is mapped to (none where the account does not occur,
\* principals_map.h:44-51; nothing is read from a map that did not load).
Maps(names) ==
  {m \in [load: {"unset", "failed", "loaded"}, names: SUBSET names] :
     m.load # "loaded" => m.names = {}}

\* checks.c:144-231: the account's own name always suffices; a map that loads
\* only adds names to it.
CheckPrincipal_MapReplaces(cert, user, map) ==
  IF map.load = "loaded" THEN cert.principals \cap map.names # {}
  ELSE user \in cert.principals
CheckPrincipal(cert, user, map) ==
  \/ user \in cert.principals
  \/ map.load = "loaded" /\ cert.principals \cap map.names # {}

\* checks.c:233-276: the set of verdicts check 4 may give.  A tolerance may be
\* negative (args.c takes "-5s"), and either bound may overflow.
CheckValidity_ExpiryOnly(cert, now, tolerance) ==
  {IF now >= Clamp(cert.after) /\ now <= last THEN "passed" ELSE "validity" :
     last \in Signed(Clamp(cert.before) + tolerance)}
CheckValidity(cert, now, tolerance) ==
  {IF now >= first /\ now <= last THEN "passed" ELSE "validity" :
     first \in Signed(Clamp(cert.after) - tolerance),
     last \in Signed(Clamp(cert.before) + tolerance)}

\* Neither bound overflows: true of every certificate that does not last to
\* the end of time.
InRange(cert, tolerance) ==
  /\ Clamp(cert.after) - tolerance <= IntMax
  /\ Clamp(cert.before) + tolerance <= IntMax

-----------------------------------------------------------------------------
\* auth.c:869-873: each check runs only when the ones before it have passed.
\* The set of possible verdicts: "passed", or the check that refuses.
Verdicts(cert, cas, ourKey, user, map, now, tolerance) ==
  IF ~CheckCaSignature(cert, cas) THEN {"ca signature"}
  ELSE IF ~CheckKeyBinding(cert, ourKey) THEN {"key binding"}
  ELSE IF ~CheckPrincipal(cert, user, map) THEN {"principal"}
  ELSE CheckValidity(cert, now, tolerance)

-----------------------------------------------------------------------------
(* The reference: what the checks are for, in unbounded arithmetic.        *)

Trusted(cert, cas) == cert.algo = "supported" /\ cert.signer \in cas

Entitled(cert, user, map) ==
  cert.principals \cap ({user} \cup map.names) # {}

Current(cert, now, tolerance) ==
  now + tolerance >= cert.after /\ now - tolerance <= cert.before

Authorizes(cert, cas, ourKey, user, map, now, tolerance) ==
  /\ Trusted(cert, cas)
  /\ cert.key = ourKey
  /\ Entitled(cert, user, map)
  /\ Current(cert, now, tolerance)
=============================================================================
