------------------------------- MODULE Verify -------------------------------
(***************************************************************************)
(* ssoossh_cert_verify (src/src/sshcert.c:223-230) and the OpenSSL backend *)
(* beneath it (src/src/crypto_openssl.c:217-471, crypto_common.c): is this *)
(* signature by this key over these bytes?                                 *)
(*                                                                         *)
(* A public key is [type, curve, nums]: its type string, the curve its     *)
(* second field names, and its byte strings, numbers with or without       *)
(* leading zeros.  A signature is [body, by, digest, made, alias]: the     *)
(* byte strings the certificate holds, and who made it: the numbers by     *)
(* made over these bytes with that digest, <<>> if none; alias for one     *)
(* that differs from it by the group's order (S >= L).                     *)
(***************************************************************************)
EXTENDS Der, FiniteSets

VARIABLES
  signed,   \* what is verified: [algo, key, sig, host]
  verdict   \* what ssoossh_crypto_verify returned; "unread" before

verifyVars == <<signed, verdict>>

NoSignature == [algo |-> "", key |-> <<>>, sig |-> <<>>, host |-> ""]
VerifyInit == verdict = "unread" /\ signed = NoSignature

TypeEd == "ssh-ed25519"
TypeRsa == "ssh-rsa"
CurveOf ==
  [t \in {"ecdsa-sha2-nistp256", "ecdsa-sha2-nistp384", "ecdsa-sha2-nistp521"} |->
     CASE t = "ecdsa-sha2-nistp256" -> "nistp256"
       [] t = "ecdsa-sha2-nistp384" -> "nistp384"
       [] t = "ecdsa-sha2-nistp521" -> "nistp521"]
Ecdsa == DOMAIN CurveOf

-----------------------------------------------------------------------------
(* OpenSSL: what it makes of DER, and of a signature.  How good its        *)
(* Ed25519 is depends on the host.                                         *)

\* The element at the beginning of b, and what follows it; a tag of 0 for none.
NoElement == [tag |-> 0, content |-> <<>>, rest |-> <<>>]
Element(b) ==
  LET long == CASE b[2] = 129 -> 1 [] b[2] = 130 -> 2 [] OTHER -> 0
      size == CASE b[2] = 129 -> b[3] [] b[2] = 130 -> 256 * b[3] + b[4] [] OTHER -> b[2]
  IN  IF Len(b) < 2 \/ Len(b) < 2 + long \/ Len(b) < 2 + long + size THEN NoElement
      ELSE [tag |-> b[1], content |-> SubSeq(b, 3 + long, 2 + long + size),
            rest |-> SubSeq(b, 3 + long + size, Len(b))]

\* What is in the one sequence, and in the two elements with these tags, b
\* consists of; <<>> if it does not.
Inside(b) ==
  LET e == Element(b) IN IF e.tag = SequenceTag /\ e.rest = <<>> THEN e.content ELSE <<>>
PairIn(b, tag1, tag2) ==
  LET e == Element(b)
      f == Element(e.rest)
  IN  IF e.tag = tag1 /\ f.tag = tag2 /\ f.rest = <<>> THEN <<e.content, f.content>> ELSE <<>>

\* A number that is not negative and not padded for nothing.
IsNumber(int) ==
  /\ int # <<>> /\ int[1] < 128
  /\ Len(int) > 1 /\ int[1] = 0 => int[2] >= 128
NumbersOf(ints) ==
  IF \A k \in DOMAIN ints : IsNumber(ints[k])
  THEN [k \in DOMAIN ints |-> Magnitude(ints[k])] ELSE <<>>
IntegersIn(b) == NumbersOf(PairIn(b, IntegerTag, IntegerTag))

\* Whose key it is: its algorithm and its numbers; nobody's, if there are none.
Nobody == [kind |-> "none", nums |-> <<>>]
RsaNumbers(nums) ==
  IF nums = <<>> THEN Nobody ELSE [kind |-> "rsa", nums |-> <<nums[2], nums[1]>>]
KeyInBits(algorithm, bits) ==
  IF algorithm = OidRsa \o Null THEN RsaNumbers(IntegersIn(Inside(bits)))
  ELSE IF algorithm = OidEd25519 THEN [kind |-> "ed25519", nums |-> <<bits>>]
  ELSE IF \E c \in DOMAIN OidOf : algorithm = OidEc \o OidOf[c]
  THEN [kind |-> CHOOSE c \in DOMAIN OidOf : algorithm = OidEc \o OidOf[c], nums |-> <<bits>>]
  ELSE Nobody
KeyInParts(parts) ==
  IF parts = <<>> THEN Nobody ELSE KeyInBits(parts[1], Tail(parts[2]))
KeyIn(spki) == KeyInParts(PairIn(Inside(spki), SequenceTag, BitStringTag))

Hosts == {"strict", "malleable", "credulous", "blind", "without"}
EdVerdict(host, genuine, alias) ==
  CASE host = "without" -> "ERROR"
    [] host = "credulous" -> "OK"
    [] host = "malleable" -> IF genuine \/ alias THEN "OK" ELSE "BAD"
    [] host = "strict" -> IF genuine THEN "OK" ELSE "BAD"
    [] host = "blind" -> "BAD"

\* crypto_openssl.c:365-417: `given' is the signature after its conversion, key
\* what is read from the SubjectPublicKeyInfo.
VerifyWith(key, host, digest, given, sig) ==
  LET genuine == /\ key = sig.by /\ digest = sig.digest
                 /\ sig.made # <<>> /\ given = sig.made
  IN  IF key = Nobody THEN "ERROR"
      ELSE IF key.kind = "ed25519" THEN EdVerdict(host, genuine, key = sig.by /\ sig.alias)
      ELSE IF genuine THEN "OK" ELSE "BAD"
VerifySpki(spki, host, digest, given, sig) == VerifyWith(KeyIn(spki), host, digest, given, sig)

-----------------------------------------------------------------------------
(* The backend.                                                            *)

\* crypto_openssl.c:289-339 (probe, ed25519_init): the key of the known answers,
\* which byte strings stand for; one of them is flipped.
KnownKey == [i \in 1..32 |-> 252]
KnownAnswer ==
  [body |-> <<<<98>>>>, by |-> [kind |-> "ed25519", nums |-> <<KnownKey>>],
   digest |-> "none", made |-> <<<<98>>>>, alias |-> FALSE]
Flipped == [KnownAnswer EXCEPT !.body = <<<<99>>>>]
BigS == [KnownAnswer EXCEPT !.body = <<<<100>>>>, !.alias = TRUE]
Probe(host, sig) == VerifySpki(SpkiEd25519(KnownKey), host, "none", sig.body, sig)

Ed25519Usable(host) ==
  /\ Probe(host, KnownAnswer) = "OK" /\ Probe(host, Flipped) = "BAD"
  /\ Probe(host, BigS) = "BAD"

\* crypto_common.c:22-38; "" for NULL.
KeyTypeOf(algo, host) ==
  CASE algo = TypeEd -> IF Ed25519Usable(host) THEN TypeEd ELSE ""
    [] algo \in {"rsa-sha2-256", "rsa-sha2-512"} -> TypeRsa
    [] algo \in Ecdsa -> algo
    [] OTHER -> ""

\* crypto_openssl.c:344-363.
DigestOf(algo) ==
  CASE algo = TypeEd -> "none"
    [] algo \in {"rsa-sha2-256", "ecdsa-sha2-nistp256"} -> "sha256"
    [] algo = "ecdsa-sha2-nistp384" -> "sha384"
    [] OTHER -> "sha512"

\* crypto_openssl.c:214-277 (spki_from_ssh_key): <<>> for a key that is not one.
SpkiOf(key) ==
  CASE key.type = TypeEd /\ Len(key.nums) = 1 -> SpkiEd25519(key.nums[1])
    [] key.type = TypeRsa /\ Len(key.nums) = 2 -> SpkiRsa(key.nums[1], key.nums[2])
    [] key.type \in Ecdsa /\ Len(key.nums) = 1 /\ key.curve = CurveOf[key.type]
         -> SpkiEc(key.curve, key.nums[1])
    [] OTHER -> <<>>

\* crypto_common.c:40-53: what the library reads in the converted signature.
VerifyDer(spki, s, der) ==
  IF der = <<>> THEN "ERROR"
  ELSE VerifySpki(spki, s.host, DigestOf(s.algo), IntegersIn(Inside(der)), s.sig)

\* crypto_openssl.c:444-461, with spki_from_ssh_key's result.
VerdictOn(spki, s) ==
  IF spki = <<>> \/ s.key.type # KeyTypeOf(s.algo, s.host) THEN "ERROR"
  ELSE IF s.algo \in Ecdsa
  THEN IF Len(s.sig.body) # 2 THEN "ERROR"
       ELSE VerifyDer(spki, s, EcdsaSig(s.sig.body[1], s.sig.body[2]))
  ELSE IF s.algo = TypeEd /\ Len(s.sig.body[1]) # 64 THEN "ERROR"
  ELSE VerifySpki(spki, s.host, DigestOf(s.algo), s.sig.body, s.sig)

\* crypto_openssl.c:419-471.
CryptoVerify(s) ==
  IF KeyTypeOf(s.algo, s.host) = "" THEN "UNSUPPORTED" ELSE VerdictOn(SpkiOf(s.key), s)

VerifySignature(s) ==
  /\ verdict = "unread"
  /\ signed' = s /\ verdict' = CryptoVerify(s)

-----------------------------------------------------------------------------
(* The same from who made the signature and the numbers it consists of.    *)

SameNumbers(p, q) == [k \in DOMAIN p |-> Magnitude(p[k])] = [k \in DOMAIN q |-> Magnitude(q[k])]

\* A key something can be signed with: two numbers, 32 bytes, or a point that
\* no SubjectPublicKeyInfo is too small for.
Strings == Seq(Seq(0..255))
TwoNumbers(nums) == Len(nums) = 2 /\ \A k \in 1..2 : Magnitude(nums[k]) = nums[k]
IsMaker(by) ==
  /\ by \in [kind : {"rsa", "ed25519"} \cup DOMAIN OidOf, nums : Strings]
  /\ by.kind = "rsa" => TwoNumbers(by.nums)
  /\ by.kind = "ed25519" => Len(by.nums) = 1 /\ Len(by.nums[1]) = 32
  /\ by.kind \in DOMAIN OidOf =>
       Len(by.nums) = 1 /\ Len(by.nums[1]) \in 1..SpkiCap - 30 /\ by.nums[1][1] = 4

\* What may have to be verified: byte strings, and a signature such a key makes,
\* 64 bytes or two numbers.
IsSigned(s) ==
  /\ s.host \in Hosts /\ IsMaker(s.sig.by)
  /\ {s.key.nums, s.sig.body, s.sig.made} \subseteq Strings
  /\ s.sig.made # <<>> =>
       /\ s.sig.by.kind = "ed25519" => Len(s.sig.made) = 1 /\ Len(s.sig.made[1]) = 64
       /\ s.sig.by.kind \in DOMAIN OidOf => TwoNumbers(s.sig.made)

\* The maker's key is the one of these byte strings.
Owns(by, key) ==
  CASE key.type = TypeRsa -> by.kind = "rsa" /\ SameNumbers(by.nums, key.nums)
    [] key.type = TypeEd -> by.kind = "ed25519" /\ by.nums = key.nums
    [] key.type \in Ecdsa ->
         key.curve = CurveOf[key.type] /\ by.kind = key.curve /\ by.nums = key.nums
    [] OTHER -> FALSE

Made(s) ==
  /\ Owns(s.sig.by, s.key)
  /\ s.sig.made # <<>>
  /\ CASE s.algo \in Ecdsa -> s.algo = s.key.type /\ SameNumbers(s.sig.made, s.sig.body)
       [] s.algo = TypeEd -> s.key.type = TypeEd /\ s.sig.made = s.sig.body
       [] OTHER -> s.key.type = TypeRsa /\ s.sig.made = s.sig.body
  /\ <<s.algo, s.sig.digest>> \in
       {<<TypeEd, "none">>, <<"rsa-sha2-256", "sha256">>, <<"rsa-sha2-512", "sha512">>,
        <<"ecdsa-sha2-nistp256", "sha256">>, <<"ecdsa-sha2-nistp384", "sha384">>,
        <<"ecdsa-sha2-nistp521", "sha512">>}

\* A key or a signature all of whose numbers, with a tag, a length and a sign
\* each, are no larger than the buffers.
Bytes(nums) == IF Len(nums) = 2 THEN Len(nums[1]) + Len(nums[2]) ELSE Len(nums[1])
FitsTheBuffers(s) ==
  /\ s.key.type = TypeRsa => Bytes(s.key.nums) + 10 <= InnerCap
  /\ s.algo \in Ecdsa => Bytes(s.sig.body) + 13 <= EcdsaCap

\* A signature is good exactly when this key made it over these bytes with this
\* algorithm: no leading zero, sign byte or order of the numbers in between
\* loses a good one or makes another good; and Ed25519 is refused as such on
\* every host whose library accepts more, or less, than it should
\* (crypto_openssl.c:214-471, crypto_common.c:22-53, der.c).
VerdictIsTheMakers ==
  verdict # "unread" =>
    /\ verdict = "OK" => Made(signed)
    /\ verdict = "UNSUPPORTED"
         <=> \/ signed.algo = TypeEd /\ signed.host # "strict"
             \/ signed.algo \notin {TypeEd, "rsa-sha2-256", "rsa-sha2-512"} \cup Ecdsa
    /\ Made(signed) /\ FitsTheBuffers(signed) => verdict \in {"OK", "UNSUPPORTED"}
=============================================================================
