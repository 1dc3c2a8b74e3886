---------------------------- MODULE ChecksInputs ----------------------------
(***************************************************************************)
(* Every input of the four checks over small sets, each decided in one     *)
(* step and compared with the reference definition of Checks.              *)
(***************************************************************************)
EXTENDS Checks

CONSTANTS Signers, Keys, Names, Bounds, Times, Tolerances

\* Certificate bounds are uint64; the clock is far from the end of int64.
ASSUME InputsAssumption ==
  /\ Bounds \subseteq 0..UintMax
  /\ Times \subseteq Nat /\ Tolerances \subseteq Int
  /\ \A n \in Times, t \in Tolerances :
       n + t < IntMax /\ n - t <= IntMax /\ t >= -IntMax
  /\ Keys # {}

VARIABLES cert, cas, user, map, now, tolerance, verdict
input == <<cert, cas, user, map, now, tolerance>>
vars == <<cert, cas, user, map, now, tolerance, verdict>>

\* The key of the attempt at hand; the rest of Keys are other keys.
OurKey == CHOOSE k \in Keys : TRUE

NoMap == [load |-> "unset", names |-> {}]

Certs == [signer: Signers, algo: {"supported", "unsupported"}, key: Keys,
          principals: SUBSET Names, after: Bounds, before: Bounds]

\* A trusted-CA file with no usable key never gets this far (auth.c:573-578).
Init ==
  /\ cert \in Certs
  /\ cas \in SUBSET Signers \ {{}}
  /\ user \in Names
  /\ map \in Maps(Names)
  /\ now \in Times /\ tolerance \in Tolerances
  /\ verdict = "none"

Decide ==
  /\ verdict = "none"
  /\ verdict' \in Verdicts(cert, cas, OurKey, user, map, now, tolerance)
  /\ UNCHANGED input

Spec == Init /\ [][Decide]_vars

-----------------------------------------------------------------------------
\* A certificate that passes is signed by a trusted CA, for this attempt's
\* key, names the account or a principal mapped to it, and is inside its
\* widened window in unbounded arithmetic, whichever way an overflow of the
\* upper bound goes (checks.c:56-276).  The lower bound overflows only for a
\* negative tolerance and a certificate not valid before the end of time.
PassedMeansAuthorizes ==
  /\ verdict = "passed"
  /\ Clamp(cert.after) - tolerance <= IntMax
  => Authorizes(cert, cas, OurKey, user, map, now, tolerance)

\* A certificate whose bounds leave room for the tolerance is refused only for
\* a reason: check 4 has no other false refusals than the overflow.
AuthorizedPasses ==
  /\ verdict \notin {"none", "passed"}
  /\ InRange(cert, tolerance)
  => ~Authorizes(cert, cas, OurKey, user, map, now, tolerance)

\* A principals map can only add a way in: whoever passes with no map passes
\* with any map, loaded or not (checks.c:156-162, principals_map.h:10-13).
MapOnlyAdds ==
  verdict = "principal" => "principal" \in Verdicts(cert, cas, OurKey, user,
                                     NoMap, now, tolerance)

-----------------------------------------------------------------------------
\* checks.c:236-239: a bound OpenSSH writes for "forever" is clamped "without
\* making the parser reject a certificate OpenSSH considers valid".
ForeverIsNeverExpired ==
  cert.before = UintMax /\ cert.after <= now /\ tolerance >= 0 => verdict # "validity"

\* docs/pam_ssoossh.8:148-149: "A map that loads is authoritative: an account
\* with no entry in it is denied."
MapIsAuthoritative ==
  map.load = "loaded" /\ map.names = {} => verdict # "passed"
=============================================================================
