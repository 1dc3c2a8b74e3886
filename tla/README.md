# A TLA+ model of pam_ssoossh

`pam_ssoossh` is a PAM module in C. For each authentication it makes a fresh key
pair, asks an ssoosshd server for a user certificate on that key, shows the user
where to approve the request, waits on a stream of server-sent events for the
outcome, and lets the user in if the certificate it is given passes four checks.
It runs inside processes it does not own (sudo, sshd, login): it must end in
time, undo what it did to the process, and answer with the PAM code that makes
the rest of the stack do the right thing.

The modules here are translated from `src/src/*.c`; every action and operator
names its lines. `PROJECT.json` has the map from definitions to code, the runs,
the seeded faults, the hazards and the theorems.

## The system

| Component | State it keeps | Operations | What makes it correct |
|---|---|---|---|
| PAM entry, `pam_ssoossh.c` | none of its own (a process-wide debug flag) | `pam_sm_authenticate`, `pam_sm_setcred` | refuses a bad pam.d line before anything else |
| The attempt, `auth.c` | key, buffers, deadline, `armed`, the answer | `ssoossh_authenticate`, the event callback | success is earned, earned success is granted, each PAM code means what it says, everything is released, the timeout holds |
| HTTP client, `httpc.c` | one connection, its status, the deadline | create call, events wait with reconnects | ends by its deadline, loses no answer, retries only what may be retried |
| Ctrl-C, `cancel.c` | the process's SIGINT disposition and flag, the thread's mask | arm, disarm, handler | mask and disposition come back; the signal is answered by the transaction it fell into |
| Checks, `checks.c` | none | signature, key binding, principal, validity | accept exactly what is trusted, bound, entitled and current |
| SSE parser, `sse.c` | line, event name, data, two latches | init, feed | no event lost, invented or joined across connections |
| Principals map, `principals_map.c` | one account's list | load, allow | a failed load only withdraws a way in |
| CA file and keys, `sshkey.c` | up to 32 keys | load, fingerprint | the file's usable keys, all or none |
| Certificates, `sshcert.c`, `sshwire.c`, `base64.c` | cursor over a blob | parse | reads inside the blob, all of it, once |
| Signatures, `crypto_*.c`, `der.c` | the result of one probe | verify, generate | good exactly when this key made it over these bytes |
| Arguments, `args.c` | the configuration | parse, durations | the last argument for a setting holds, a time is what it spells, a bad mode refuses |
| JSON, `json.c` over `jsmn.h` | tokens, a bounded buffer | read a string, a time; write | the field that is asked for, whole, or none |
| The request, `build_body`, `hostinfo.c`, `localaddrs.c` | one buffer | build | the server reads what the host says |
| Conversation, `conv.c` | none | sanitize, converse | only the alphabet of each class reaches the tty |
| Console and session detection, `console.c`, `sshdetect.c` | none | two predicates | |
| QR, logging | | conversions | |

How they interact: libpam calls the entry point, which calls the attempt. The
attempt calls down into the rest and is called back once, by the SSE parser
through the HTTP client (`on_event`). Everything runs on the calling thread. Two
things are shared beyond it: the SIGINT disposition and the flag, which belong to
the process, and the debug flag. The signal handler runs between any two
instructions and only sets the flag; the poll loops, the reconnect sleep and the
end of the attempt read it. Nothing is persisted, so there is no recovery after
a crash to model.

What is hard here: a signal at any point of a sequence of system calls whose
effects are per thread and per process; a wait with three ways to end that can
coincide; two nested retry loops under one deadline; a dozen error exits that
share one cleanup; 64-bit bounds from the server compared with a signed clock;
and PAM codes that decide whether an outage becomes a lock-out. `PROJECT.json`
lists each hazard at its line.

## The modules

    HttpResults --- EventsPromise <==implements== EventsWait --- EventsWaitProofs
         |               |
         |            INSTANCE
         |               |
         +---------- Authenticate --- MCAuthenticate      AuthenticateProofs
                         |                                  |
                      Checks --- ChecksInputs --- MCChecks  ChecksProofs
                                       |                    |
    Sigint --- SigintProofs            +--------- ChecksInputsProofs

    Sse --- SseStream --- MCSse      Loops --- SseProofs
                 +------- SseProofs    +------ ReadersProofs

    Duration --- Arguments --+
                   CaFile ---+
    Json --- Request --------+
      +--- Replies ----------+--- AttemptInputs --- MCAttemptInputs
    Timestamp -+             |         +---------- ReadersProofs
               Certificate --+
    Der --- Verify ----------+
             PrincipalsMap --+

**Sigint** is `cancel.c` with the calls of it in `auth.c`. `disposition`,
`interrupted` and `pending` are the process's; `blocked`, the `ssoossh_cancel`
struct and `rc` each thread's. `ssoossh_cancel_arm` is three steps (`ArmClear`,
`ArmInstall` or `ArmFails`, `ArmUnblock`) and `ssoossh_cancel_disarm` two
(`DisarmReblock`, `DisarmRestore`, or `DisarmNothing`), because the user or
another thread may come between any two of the system calls. A SIGINT goes to
any thread that does not block it, stays pending once if all do, and is delivered
before `pthread_sigmask` returns when it is unblocked.

**HttpResults** is the vocabulary: results, retryable statuses, terminal events,
`http_to_pam`.

**EventsPromise** says what `ssoossh_httpc_events` promises: it returns once,
with a result that is true of what happened. **EventsWait** implements it
(`Promise`, an INSTANCE, is a property of its run) and is the code:
`run_stream`'s poll loop, the write callback and `on_event`, the classification
of a finished transfer, and the reconnects of `ssoossh_httpc_events`. Each thing
one `curl_multi_perform` may bring is an action (`PerformStatus`, `PerformBody`,
`PerformTerminal`, ...). The distinction the code makes between a status libcurl
knows and one the write callback has asked for is kept (`conn.status`,
`conn.known`), as is `*status`, which outlives the connection that set it.
`conn.floor` stands for `tls_floor_ok`: only a build whose libcurl cannot pin TLS
1.3 finds out after the fact, and choosing FALSE covers it.

**Checks** holds the four checks and `Verdicts`, their order, as constant
operators over certificates as records, next to the reference `Authorizes` in
unbounded arithmetic. `int64_t` is scaled to `IntMax`; `Signed` is the set of
values an overflowing signed sum may have (wrapped, or wider). `VerifyResult` is
`ssoossh_cert_verify` as far as check 1 tells it apart: the algorithm alone decides
whether a signature can be verified, and it is good iff the key is the signer's;
**Verify** has it in detail. **ChecksInputs** enumerates their inputs.

**Authenticate** is `pam_sm_authenticate` and `ssoossh_authenticate` from the
arguments to the cleanup, one action per early return and one per way on, over
several attempts of one process. The wait for events is replaced by the promise
(`Wait!Truthful`), the Ctrl-C handler by the flag, and the checks are those of
`Checks`. The n-th attempt's key is the number n, so a certificate for an earlier
attempt's key can arrive in a later one. `ca_load`, key generation, the JSON
fields and the URLs are outcomes: each may fail where the code tests it. `late`
remembers that the deadline had passed when the wait began.

**Sse** is the push parser: one byte of `ssoossh_sse_feed` per step, the chunks
cut anywhere, `ssoossh_sse_init` between chunks as `httpc.c:725` calls it. `line`,
`name` and `data` are the three buffers, `sent` and `delivered` the history since
init. **SseStream** adds the reference, which sees the whole of `sent` at once:
its lines, the blocks between the blank ones, and what each block says, with its
data lines joined by newlines as `sse.c:85-86` says (`DataOf`). `Told` is what the
code makes of them where the first is empty.

**AttemptInputs** puts what an attempt reads and writes in its order
(`pam_ssoossh.c:54`, `auth.c:562`, `650`, `685`, `786`, `832`, `checks.c:65`,
`171`), each on what the one before left: the paths and the flow are the
arguments', the fingerprints in the request the CA file's, the certificate line
the envelope's, and a refusal ends it. `odd` says which of these is anything; the
others are ordinary. Its parts have one action per argument, line, field or
return, and next to them a reference that sees the whole text:

- **Arguments**, with **Duration**: `ssoossh_args_parse`. A duration is read in
  `TopInt`-bounded arithmetic; the two tests of a sum's sign that the compiler may
  drop (`kept`) make a set of `Readings`. The reference splits the text at its
  units and adds exactly. Of two arguments for a setting the last holds.
- **CaFile**: `ssoossh_ca_load`; the reference is the usable lines up to the limit.
- **Request**: `build_body` with `hostinfo.c` (on Linux), `localaddrs.c` and the
  JSON writer. Names and files are bytes; the reference reads the body back as
  JSON and compares it with what the host has.
- **Replies**, with **Json** and **Timestamp**: what `auth.c` makes of the reply
  and of the envelope. A body is a sequence of cells, strings with their bytes.
  `Json` builds jsmn's token array, walks it as `skip` and `object_get` do, and
  unescapes into a buffer of a given size, and refuses a body of more than
  `MaxTokens` tokens; `Timestamp` is RFC 3339 with `days_from_civil`. The references
  match brackets over the body as a whole, know a timestamp by the shape
  `json.h:69-71` describes, and count days year by year and month by month.
- **Certificate**: the parser. A blob is a sequence of 4-byte cells, so that a
  wrong length leads the reader into the middle of a text just as it does in the
  code; `rd` and `inner` are its two `ssh_rd`, with their latch `bad`. The
  reference is the positions where the fields of the format end.
- **Verify**, over **Der**: `ssoossh_cert_verify` on OpenSSL. `Der` writes byte for
  byte; the library, which is external, parses those bytes again, strictly, and
  verifies iff the key it finds made the numbers it finds. Hosts differ in how good
  their Ed25519 is, which the probe must find out. The reference compares the
  certificate's numbers with the maker's, without DER.
- **PrincipalsMap**: `ssoossh_principals_map_load`; the reference is the account
  line that owns an item.

Operators with an underscored suffix (`FinalAnswer_CtrlCWins`) are seeded
faults: a plausible slip in the definition that follows, which the property named
beside it in `PROJECT.json` is shown to notice. No specification uses them.

## The runs

| Run | States | What it shows |
|---|---|---|
| `sigint` | one thread, two transactions, three Ctrl-C | mask and disposition restored, Ctrl-C answered by the right transaction, never given to a host that holds it, and a held one ends the wait |
| `sigint_overlap` | two threads | **violation**: the disposition is not restored when transactions overlap |
| `events_wait` | 129,043 | deadline kept, Ctrl-C noticed within one sleep, an answer is this connection's and is not dropped, reconnects only where one more attempt may help, the wait ends, and it implements `EventsPromise` |
| `events_refusal` | one refusing server | **violation**: a refusal with an empty body is asked again |
| `checks` | 223,200 | the four checks agree with the reference up to overflow; a map only adds |
| `checks_forever` | same | **violation**: a certificate valid forever is refused as expired |
| `checks_map` | same | **violation** of the man page: a loaded map is not authoritative |
| `authenticate` | 444,805 | the meaning of every PAM code, cleanup, cost of a bad configuration, the timeout; an attempt returns though nobody answers |
| `sse` | 382,799 | what is called back is what the stream says, whatever the chunks; the parser stops exactly for a terminal event or for what does not fit; nothing is stored past a buffer |
| `attempt_inputs` | 252,079 | each reader makes of its text what the text means, and a broken one gives nothing; the request says what the host says; a signature is good exactly when the key made it; no length in a certificate leads a reader outside |
| `inputs_sum` | same | **violation**: a sum of durations that overflows is accepted where the build drops the test |
| `inputs_shown` | same | **violation**: a field too long for its buffer is used, or shown, cut |

### Bounds, and why they are enough

- *sigint*: a second transaction is what a leftover of the first can disturb, and
  three Ctrl-C allow one before, in and after; a fourth meets the same states.
- *events_wait*: `Slice` 2 and `Delay` 3 ticks are the smallest lengths between
  which a Ctrl-C and the deadline can fall, in an order that depends on which is
  longer. Deadlines 0 and 1 expire before and during the first sleep, 5 after a
  reconnect. Three statuses are one of each class: a stream, a final refusal, a
  retryable one. Three connections are a first, one after a drop, and one after
  two; the last is not dropped (`MaxConns`), so `MaxConns - 1` drops is the bound.
- *checks*: bounds 0, 3, 7 = `IntMax` and 15 = `UintMax`, clocks 2 and 4 on both
  sides of 3, tolerances -1, 0 and 1. Overflow happens. The theorems hold for
  every width.
- *authenticate*: two attempts, so that the first can leave something to the
  second; a certificate that is right, and one wrong in each single respect;
  a timeout of one tick with a server deadline in the past and one beyond it.
  Timeouts may be negative, which `args.c` accepts.
- *sse*: five chunks of one or several tokens make streams of two events with
  names, data of two lines, comments and CRLF. A line of 5, a name of 1 and data of
  4 tokens fit exactly, so every limit is met at its last token and one past it.
- *attempt_inputs*: one input varies, the others are ordinary, since they meet only
  in the paths, the flow and the order. Three arguments are a setting, a second
  value for it and one that refuses. Times are all texts of three characters and
  combinations of whole, fraction, unit and a second part on both sides of
  `TopInt` = 6005. `MaxCas`, `MaxPrincipals`, `MaxCertPrincipals` and `MaxAddrs` are
  2 and `MaxNamed` is 1, and files and lists exceed them. Requests have every name
  of one or two bytes out of 13 (quotes, backslash, control bytes, one above 127)
  and longer ones up to a body that no longer fits (`BodyCap`), and every list of
  three interfaces out of eight kinds. Bodies have any one cell changed,
  inserted, removed or the rest cut, any two brackets changed, 13 to 20 tokens where
  `MaxTokens` 16 are read (the code reads 512), and any text of two
  fragments (bytes, escapes, halves of a surrogate pair) or of any length around
  the buffers' (`UrlCap` 8, `JoinCap` 11, `CodeCap` 4, `ErrorCap` 6, `CertCap` 8;
  `ExpiresCap` has its real 40). Timestamps cover every month, days 0 to 32, leap
  and common years and centuries, and zones to both limits, with `T`, `t` or a blank and `Z` or `z`. Eleven certificates
  (both key shapes, both classes, none to three principals, names and keys over
  their limits) are cut at every cell, extended, and changed in any one cell to
  lengths 0 to 6 or a text. The buffers of `Der` have their real sizes, and keys
  and signatures reach them: RSA moduli of 1024 and 1190 bytes, P-521 points, ECDSA
  numbers up to 124 bytes, each with and without leading zeros and top bits.

`CHECK_DEADLOCK FALSE` throughout: a call that has returned, and a process whose
attempts or clock are used up, stop.

### Fairness

- The code runs when it can (weak fairness of the module's own steps).
- `EventsWait`: the clock is strongly fair, since a stream that stirs at every
  poll disables it again and again but cannot stop time. Nothing is assumed of
  the server, the network or the user.
- `Authenticate`: the clock, and the ends of a network call that need nobody
  (`CallEnds`): libcurl calls its progress callback or returns from its wait, so
  a call whose deadline has passed ends. How promptly is libcurl's affair; with a
  resolver that blocks it can be late. The host's conversation returns at once
  from a text; from sshd's prompt, and from the one `pam_get_user` may hold to ask
  for the name, it returns when the user answers, which is not fair: `Returns`
  excludes sshd and begins once the name is known.

## What is proved

Proofs hold for every value of the constants that satisfies the named
assumptions (`AuthenticateAssumption`, `ChecksAssumption`, `InputsAssumption`,
`SigintAssumption`, `SseAssumption`, `EventsAssumption`, `CertificateAssumption`,
`AttemptInputsAssumption` and those of the modules it extends). TLC evaluates each
of them on the instance of a run. Three are worth a word. `SseAssumption` asks for a
line buffer above one byte: with one the carriage return of an empty line would
not fit, and the code's is 64 KiB. `CertificateAssumption` asks that the names of the algorithms that
are handled fit the buffer a name is read into; they are the literals of
`sshcert.c:13-45`. `DerAssumption` asks that a buffer for DER is no larger than
a length can say, that the one of an ECDSA signature has at most 256 bytes, that an
Ed25519 key fits, and that what fits one buffer of an RSA key fits the next with the
header in between; the code's are 2048, 1200, 1216 and 256 bytes.

**AuthenticateProofs**: type correctness and all nine safety invariants of the
run `authenticate`, for any number of attempts, any certificates, keys, timeouts
and clocks. The inductive invariant `IInv` has a part for each concern, because
the properties speak only of the moment an attempt has returned:

- `AnswerInv`: what is known of the answer at each place (an answer and no error
  once the envelope is read, an approval and a certificate once it is parsed), so
  that a success found at `Check` is still earned at `Finish`;
- `OutcomeInv`: the four properties on `rc`, carried from the place `rc` is set,
  through `Disarm`, to the return;
- `SigintInv`: which places have the handler installed, and that a raised flag in
  an armed attempt is a Ctrl-C of that attempt, because `Arm` cleared it;
- `EarlyInv`: a Ctrl-C seen before the wait leaves no way to an answer: the
  promise gives no OK then; nor does it when the wait begins late;
- `SpentInv`: no key and no request before the configuration has been judged;
- `TimeInv`: `deadline <= timeout` and, where time has passed, `now` is at most
  the larger of 0 and the timeout: the clock moves only below the deadline.

Each action keeps `IInv` (`InvStep`, one step per action), types are kept by
`TypeStep`, and the temporal theorems follow by PTL.

**ChecksProofs** and **ChecksInputsProofs**: for every `IntMax`, what passes the
four checks authorizes the user in unbounded arithmetic, what authorizes the user
passes where no bound overflows, and a map only adds a way in. The lemmas
`ValidityIsCurrent` and `CurrentIsValid` do the arithmetic of check 4,
`PassedAuthorizes` and `AuthorizedIsPassed` are what `Authenticate` uses.

**EventsWaitProofs**: for every length of the two sleeps, every deadline, every
set of statuses and any number of connections, all that `events_wait` checks
except that the wait ends. `NeverLate`, `CtrlCPrompt` and
`AnswersAreThisConnections` speak of the moment the call returns, so the inductive
invariant says what leads there:

- `ClockInv`: the loop polls and plans a sleep only where it has just seen that
  the deadline lies ahead, and every sleep is clamped to it;
- `CtrlCInv`: a sleep is at most `Slice` or `Delay` long, and once the flag is up
  no other sleep begins, so the Ctrl-C costs what is left of one;
- `AnswerInv`: a connection whose parser stopped has left its answer with the
  caller; if it met the TLS floor too it is the last one, and `OK` is exactly that;
- `CauseInv`: what `run_stream` returned is true of the connection it ran
  (`GotInv`), stays so until the next one is opened, and is not final on the way
  there, which gives the action property `ReconnectsForCause`.

`PromiseKept` is the refinement: `Init` maps to the promise's `Init`, every step
that does not return is a step or a stutter of the promise (`ListensOrReturns`),
and every step that returns gives a result the promise allows
(`ReturnsTheTruth`, one case per result). It is what entitles `Authenticate` to
use `EventsPromise` in place of the loop.

**SigintProofs**: for any number of threads whose transactions overlap, types,
that each thread gets its mask back, and that PAM_IGNORE answers a Ctrl-C of the
transaction's own time. `MaskInv` says where the host's mask is in force and
where it is saved in the struct; `FlagInv` that a raised flag has been marked in
every armed transaction, since each arm clears it. `DispositionRestored`,
`CtrlCAnswered` and `HeldForHost` are false where transactions overlap (run
`sigint_overlap`). They are proved for any number of threads under
`[]OneAtATime`: no two transactions are armed at once, which is what a host that
authenticates in one thread, or under a lock, gives, and what the run `sigint`
with its one thread satisfies. `DispositionInv` says that the handler is in
exactly while some struct says it installed it, and that this struct holds the
host's disposition; `AnswerInv` that a Ctrl-C marked in an armed transaction is
still in the flag when the transaction reads it.

**SseProofs**: for any chunks and any buffer sizes, types, that nothing is stored
past a buffer, that no event is called back after a terminal one, and that the
parser is right: `DeliveredAsSent` and `StopsForCause` for every stream. The
reference reads all that was sent at once, the parser a byte at a time, so the
inductive invariant says what the parser is at any byte:

- `IInv`: the types, the sizes, and `StoppedReadsNothing`: once a latch is set
  nothing of the chunk is left to read;
- `StreamInv`: while no latch is set, `line` is the unfinished last line of what
  has been read of the stream (`ReadSoFar`), `name` and `data` are what the
  unfinished last block says so far, and `delivered` is what its complete blocks
  say, none of which stops it (`GoesOn`); once one is set, one block of the stream
  is the first to stop it, for that reason (`EndedBy`, `OverBy`).

What makes it inductive is how the reference changes with one more byte:
`LinesMore` (the last line grows, or a new one begins), `BlocksMore`, `ValuesMore`
and `BlockMore` (a field line adds its value to the block's, a blank line ends the
block), `CallsMore` (a block adds its event), and that no longer stream undoes a
stop (`StopStays`). `ByteStep`, `BlankStep` and `FieldStep` are the branches of
`ssoossh_sse_feed` against them. What the code has collected of a block's data is
`Told` (`ToldAsSaid`), which is what the comment says, the lines joined with
newlines, unless the first of several is empty (`JoinedAsSaid`).

**ReadersProofs**: for every argument vector, every CA file, every principals map
and every certificate, of any length, what the reader leaves is what the reference
reads off the whole text: `LastArgumentHolds`, `KeysAreTheFiles`, `MapMeansItsFile`,
`BrokenMapGrantsNothing` and `AcceptsCertificates`; and `ReadsInside` and, for
every key and signature, `VerdictIsTheMakers`. The properties of the readers speak
of one that has finished; the invariants speak of the part it has read so far:

- `CaInv`: the keys kept are the usable keys among the lines passed, in order
  (`CaSoFar`), and a load that ended did so at the end of the file, at the limit or
  at a line that is no key, with none before it (`CaEnded`);
- `ArgInv`: each setting is its default or the value of an argument passed with no
  readable one for it since (`LastSo`), and no argument passed is one that refuses
  the line (`ArgEnded`);
- `MapInv`: the account that is open is the one of the nearest account line
  (`OpenOne`), the principals granted so far are what the lines passed list,
  without the names too long and up to the limit (`Granted`), every line passed is
  well formed (`FitsThere`), and a load that failed has stopped at one that is not
  and cleared what it had (`MapEnded`);
- `CertInv`: a reader's cursor is inside its slice and its slice inside the blob
  (`ReadersInv`), what was taken is a slice of the blob (`SlicesInv`), and the
  number of key fields is known when they are skipped (`AlgoInv`); `StringRead` is
  the heart: a string is stepped over only if it ends inside;
- `AcceptInv`: at each field, the reader stands where the format says that the
  field before ends, or is bad if that is outside (`OnField`), and what has been
  taken so far is what the format has there (`Come`, a case per field). The class
  and the validity are read without asking whether the reader is still good, so
  the invariant has to carry the bad reader on to the next field that is a string,
  where it is refused. One lemma per field (`AcceptAlgo` to
  `AcceptSignatureFields`) shows that a refusal is right and that going on keeps
  it; `StringField` and `NumberField` say what one read does to `OnField`, and
  `NameString` the same inside the principals and the signature.

`VerdictIsTheMakers` is about one step, so its invariant (`VerdictInv`) says only
that what was verified may have to be, and was judged by `CryptoVerify`. The work is
in what `der.c` writes and the library reads, for numbers of any length and buffers
of any size that `DerAssumption` allows, in five layers:

- a number is told from its leading zeros in one way (`ZerosEndOnce`), and is the
  same without them and with a sign byte (`MagnitudeIsPlain`, `PlainMagnitude`);
- an element is read as what was written, whichever of the three forms its length
  has (`DerLenSays`, `TlvLaidOut`, `ElementRead`), and so is a pair of them
  (`PairOfTlvs`); an INTEGER is never negative and never padded for nothing
  (`DerIntegerSays`), so that a strict library accepts it as the number;
- what is written into one buffer and wrapped into another is there whole, or
  nothing is, and it is there if its parts fit (`Boxed`; `EcdsaSigIs`, `RsaPkcs1Is`,
  `SpkiIs`);
- the algorithm identifiers differ, so a key is read as the algorithm it was
  written for (`Oids`, `KeysTold`), with its own numbers in their order (`SpkiOfIs`):
  it is somebody's exactly if its numbers are theirs (`HeldIsOwned`);
- the three known answers tell a strict Ed25519 from the other four kinds
  (`UsableHosts`), and each algorithm has one key type and one digest
  (`TypeOfAlgorithm`, `DigestsAre`); with `MadeIsReadable` for a good signature that
  must not be lost and `ReadableIsJudged` for one that must not be accepted,
  `CryptoVerifyIsRight` follows.

Several of these compare two loops: an item's value is read inside one step by one,
modelled by a recursive function, and the reference has another. That both are what
they should be for every length needs induction, and the library's induction
theorems take an operator as a parameter, which the installed provers cannot
instantiate. **Loops** gets it from the pigeonhole principle of
`FiniteSetTheorems`, for sets instead of predicates (`Iterations`): a set with 0
and with the successor of each of its numbers has all of them. From it `LoopComputes`
shows that a function defined by recursion on an interval exists and satisfies its
equation, `LoopsAgree` that two loops which agree at 0 and keep agreeing agree
throughout, and `ListInduction`, `Counting` and `FlattenMore` what lists one element
longer are.

`AttemptInputsAssumption` says what the proofs need of the inputs: argument values
and the lines of files are sequences, a file is read whole, found too large or
fails, a map's line has one of the kinds and an indentation, and a blob is a
sequence of cells. Of what is verified it asks (`IsSigned`) that the certificate's
key and signature are byte strings, any number of any length; and of whoever made
the signature, that it was made with a key: two numbers, 32 bytes or a point that a
SubjectPublicKeyInfo has room for; an Ed25519 signature has 64 bytes and one of a
curve is two numbers. It excludes nothing the code can be given.

**Model-checked only**:

- liveness (`CtrlCEndsWait`, `WaitEnds`, `Returns`), which the prover does not do;
- `DurationsAreExact`, `FieldsAreTheReply`, `ExpiryIsItsInstant` and
  `RequestSaysIt`, which compare two recursions over text, numbers or nested
  structures. Not out of reach of the induction of **Loops**, and not done: of the
  duration it is the digits of a text against their value, of the reply jsmn's
  token array against matched brackets, of the expiry division by the eras of the
  calendar against a count of days, of the request an escape against its reader;
- that the library behind `CryptoVerify` verifies as `VerifyWith` says: it is
  external, and its answer is the model's assumption.

## What the model and the code disagree with the documents about

1. Overlapping transactions leave the module's handler installed
   (`cancel.c:35`, against `cancel.h:12-15`).
2. A refusal without a body is retried until the deadline (`httpc.c:648`, against
   `httpc.h:66`).
3. A certificate valid forever is refused as expired under the default tolerance
   (`checks.c:258`, against the comment at `checks.c:236-239`).
4. The man page says a map that loads is authoritative; the code and its comments
   say it only adds (`checks.c:156-168`, against `docs/pam_ssoossh.8:148-149`).
5. A sum of durations, or a fraction, that overflows is accepted by an optimised
   build, with another value (`args.c:177` and `77`, against `args.c:171-172` and
   `58-61`).
6. A link, a field or an error too long for its buffer is used as far as it went
   (`auth.c:455`, `692-701`, `786-788`, against `auth.c:331-333` and `784-785`).

Five more have no run of their own. The property about the code concerned states
what the document says and names the exception, where it allows the document's
reading and the code's; the cases are in the inputs of its run.

| Property | The document | The code |
|---|---|---|
| `DeliveredAsSent` | data lines are joined with newlines (`sse.c:85-86`) | the newline after a first empty `data:` line is lost (`sse.c:87`) |
| `LastArgumentHolds` | an unreadable time is its default, an unreadable flag false (`args.h:85-91`) | an earlier argument for the same setting stays (`args.c:461`) |
| `KeysAreTheFiles` | anything malformed fails the whole file (`sshkey.h:84-86`) | a line behind the 33rd usable key is not read (`sshkey.c:260-264`) |
| `AcceptsCertificates` | a truncated certificate is malformed (`sshcert.h:87-96`) | one cut before its class, or a host's cut after it, is no user certificate (`sshcert.c:144`); both are refused, and one of class user never as that |
| `ExpiryIsItsInstant` | only the shape Go's `time.Time` marshals to (`json.h:69-71`) | `t`, `z`, a blank for the `T`, second 60 and the 31st of a shorter month are read too (`json.c:394-403`, `419`), at the instant they mean |

Also seen, and covered by no property (most are in the list of hazards, with the
reason): a reconnect that is refused ends the wait, since a new connection starts
with status 0 (`httpc.c:636`, `749`); a connection that fails before its transfer
ends is judged by the previous one's status (`httpc.c:743`); under sshd an approval
in time followed by a late Enter is answered as a timeout (`auth.c:404`); the prompt
is shown before the events URL is known to be usable (`auth.c:759`, `762`); a claim
cut by its buffer inside a UTF-8 character goes into the request as it is
(`hostinfo.c:36`, `json.c:325`), and the server's reader decides what becomes of it.

## What is not modelled, and why

- base64, the QR code and log lines: stateless conversions; wrong base64 surfaces
  as a certificate that does not parse. Of `jsmn` the scan of characters outside
  strings is abstracted to cells.
- Key generation, hashing and fingerprints succeed or fail, or are functions given
  by a constant. The Darwin backend calls another library in another shape and
  would be a second `Verify`. OpenSSL in FIPS mode may refuse a key the model
  accepts: `VerdictIsTheMakers` is about a library that refuses none but Ed25519.
- The create call is modelled by its results; the TLS probe's parsing of libcurl's
  debug text is not. `console.c` and `sshdetect.c`, the terminal's name, the
  environment and the walk up the process table, are free choices.
- `hostinfo.c` on FreeBSD and macOS; an `os-release` line of more than 511 bytes.
- Packaging, the SELinux policy, fuzzers and end-to-end tests.

The clock of an attempt counts only while a call blocks: keygen and file reads
take no time, so `BoundedAttempt` bounds the waiting, not the computing.

## Plan

Done, in order of importance: the attempt, the wait, the signal handling, the
checks; the stream parser and the readers of outside text; then durations, JSON,
timestamps, the request and the verification of signatures; then the proofs about
the wait, the signals of transactions that do not overlap, the readers, the
event stream, the certificate and the verification of its signature.

1. In the proofs, with the induction of **Loops**: the digits of a duration
   (`LeadingInt`) for every text; the calendar of **Timestamp** for every year.
2. `Sse` under `EventsWait`: the parser in place of the two latches, so that
   `PerformTerminal` and `PerformOverflow` follow from the bytes.
3. The create call (`httpc.c`) and the conversation (`conv.c`) as modules, if they
   turn out to have properties that several steps can break.
