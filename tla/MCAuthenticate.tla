--------------------------- MODULE MCAuthenticate ---------------------------
(* Values of Authenticate's constants that a configuration cannot spell.   *)
EXTENDS Authenticate

CONSTANTS ca1, ca2, alice, ops

MCNames == {alice, ops}

\* A certificate that authorizes attempt n, and every one that differs from it
\* in one respect.
Good(n) == [signer |-> ca1, algo |-> "supported", key |-> n,
            principals |-> {alice}, after |-> 2, before |-> 4]
Near(n) ==
  {Good(n),
   [Good(n) EXCEPT !.signer = ca2], [Good(n) EXCEPT !.algo = "unsupported"],
   [Good(n) EXCEPT !.key = 0],
   [Good(n) EXCEPT !.principals = {}], [Good(n) EXCEPT !.principals = {ops}],
   [Good(n) EXCEPT !.after = 5], [Good(n) EXCEPT !.before = UintMax]}
\* The last attempt meets them all, and the certificates of those before it.
MCCerts == Near(MaxAttempts) \cup {Good(n) : n \in 1..MaxAttempts}

\* A server that shortens the wait to nothing and one that allows more time
\* than the timeout.
MCRemainders == {-1, 3}
MCTimeouts == {-1, 1}
=============================================================================
