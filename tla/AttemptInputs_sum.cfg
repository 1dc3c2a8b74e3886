SPECIFICATION Spec
CONSTANTS
  Digit <- MCDigit
  Unit <- MCUnit
  TopInt = 6005
  ValueCap = 6
  ConsoleBuilt = TRUE
  Supported = {"ecdsa"}
  MaxCas = 2
  Account = "alice"
  Spelling <- MCSpelling
  TooLong = {"a name too long"}
  MaxPrincipals = 2
  CertAlgo <- MCCertAlgo
  NameCap = 2
  KeyCap = 6
  MaxCert = 36
  MaxCertPrincipals = 2
  MaxTokens = 16
  Spelled <- MCSpelled
  Base <- MCBase
  UrlCap = 8
  JoinCap = 11
  CodeCap = 4
  ExpiresCap = 40
  ErrorCap = 6
  CertCap = 8
  PamLines <- MCPamLines
  CaFiles <- MCCaFiles
  Sources <- MCSources
  BodyCap = 148
  HostCap = 6
  MaxAddrs = 2
  MaxNamed = 1
  Fingerprint <- MCFingerprint
  Bodies <- MCBodies
  Envelopes <- MCEnvelopes
  IssuedLines <- MCIssuedLines
  Signatures <- MCSignatures
  MapFiles <- MCMapFiles
  SpkiCap = 2048
  InnerCap = 1200
  RsaKeyCap = 1216
  EcdsaCap = 256
  Plain <- MCPlain
INVARIANT OverflowIsCaught
CHECK_DEADLOCK FALSE
