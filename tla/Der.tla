-------------------------------- MODULE Der --------------------------------
(***************************************************************************)
(* The DER a backend hands to its library (src/src/der.c), byte for byte.  *)
(* <<>> is what a writer has when something did not fit; a length of three *)
(* bytes is more than any of the buffers holds.                            *)
(***************************************************************************)
EXTENDS Integers, Sequences

CONSTANTS
  SpkiCap,     \* sizeof body of spki, and of the caller's buffer for it
  InnerCap,    \* sizeof inner of ssoossh_der_rsa_pkcs1
  RsaKeyCap,   \* sizeof key of ssoossh_der_spki_rsa
  EcdsaCap     \* sizeof body of ssoossh_der_ecdsa_sig, and of the caller's buffer

\* der.c:17-31: more is latched as bad.
MaxDerLen == 256 * 256 - 1

\* An Ed25519 key fits, and what fits one buffer fits the next one with what is
\* put in front of it.
ASSUME DerAssumption ==
  /\ {SpkiCap, InnerCap, RsaKeyCap} \subseteq 0..MaxDerLen /\ EcdsaCap \in 0..256
  /\ 44 <= SpkiCap /\ InnerCap + 4 <= RsaKeyCap /\ RsaKeyCap + 24 <= SpkiCap

IntegerTag == 2
BitStringTag == 3
NullTag == 5
OidTag == 6
SequenceTag == 48

\* der.c:17-31.
DerLen(n) ==
  IF n < 128 THEN <<n>>
  ELSE IF n <= 255 THEN <<129, n>>
  ELSE <<130, n \div 256, n % 256>>

\* der.c:33-38.
Tlv(tag, content) == <<tag>> \o DerLen(Len(content)) \o content

\* der.c:45-52: a number without its leading zeros.
Magnitude(p) ==
  LET zeros == CHOOSE i \in 0..Len(p) :
                 /\ \A k \in 1..i : p[k] = 0
                 /\ i < Len(p) => p[i + 1] # 0
  IN  SubSeq(p, zeros + 1, Len(p))

\* der.c:40-65.
DerInteger_Unpadded(p) ==
  Tlv(IntegerTag, IF Magnitude(p) = <<>> THEN <<0>> ELSE Magnitude(p))
DerInteger(p) ==
  LET m == Magnitude(p) IN
  Tlv(IntegerTag,
      IF m = <<>> THEN <<0>> ELSE IF m[1] >= 128 THEN <<0>> \o m ELSE m)

\* der.c:67-75.
DerBitString(p) == Tlv(BitStringTag, <<0>> \o p)

\* der.c:77-86: a finished writer of that size.
Fitting(cap, bytes) == IF Len(bytes) <= cap THEN bytes ELSE <<>>
InSequence(cap, body) ==
  IF body = <<>> THEN <<>> ELSE Fitting(cap, Tlv(SequenceTag, body))

\* der.c:88-108.
EcdsaSig(r, s) ==
  InSequence(EcdsaCap, Fitting(EcdsaCap, DerInteger(r) \o DerInteger(s)))

\* der.c:110-123.
OidEc == Tlv(OidTag, <<42, 134, 72, 206, 61, 2, 1>>)
OidRsa == Tlv(OidTag, <<42, 134, 72, 134, 247, 13, 1, 1, 1>>)
OidEd25519 == Tlv(OidTag, <<43, 101, 112>>)
OidOf ==
  [c \in {"nistp256", "nistp384", "nistp521"} |->
     Tlv(OidTag, CASE c = "nistp256" -> <<42, 134, 72, 206, 61, 3, 1, 7>>
                   [] c = "nistp384" -> <<43, 129, 4, 0, 34>>
                   [] c = "nistp521" -> <<43, 129, 4, 0, 35>>)]
Null == Tlv(NullTag, <<>>)

\* der.c:125-153.
Spki(algorithm, key) ==
  InSequence(SpkiCap, Fitting(SpkiCap, Tlv(SequenceTag, algorithm) \o DerBitString(key)))

\* der.c:155-188: only an uncompressed point.
SpkiEc(curve, point) ==
  IF point = <<>> THEN <<>>
  ELSE IF point[1] # 4 THEN <<>>
  ELSE Spki(OidEc \o OidOf[curve], point)

\* der.c:190-229: n before e.
RsaPkcs1(e, n) ==
  InSequence(RsaKeyCap, Fitting(InnerCap, DerInteger(n) \o DerInteger(e)))
SpkiOfPkcs1(key) == IF key = <<>> THEN <<>> ELSE Spki(OidRsa \o Null, key)
SpkiRsa(e, n) == SpkiOfPkcs1(RsaPkcs1(e, n))

\* der.c:231-239.
SpkiEd25519(key) == IF Len(key) = 32 THEN Spki(OidEd25519, key) ELSE <<>>
=============================================================================
