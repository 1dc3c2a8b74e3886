---------------------------- MODULE HttpResults ----------------------------
(***************************************************************************)
(* The vocabulary httpc.c and auth.c share: what an HTTP exchange can end  *)
(* with, which HTTP statuses invite another try, which events resolve a    *)
(* request, and the PAM code each ending becomes.                          *)
(***************************************************************************)
EXTENDS Integers

\* httpc.h:21-34, without the SSOOSSH_HTTP_ prefix.
HttpResult ==
  {"OK", "TRANSPORT", "STATUS", "TIMEOUT", "CANCELLED", "TOO_LARGE", "INTERNAL"}

\* httpc.c:504-511
RetryableStatus(status) == status = 429 \/ status >= 500

\* httpc.c:480 and 648 tell an error body from a stream this way; 0 is "no
\* response yet".
Refusal(status) == status >= 300
Definitive(status) == Refusal(status) /\ ~RetryableStatus(status)

\* auth.c:89-103: the statuses that resolve a request.
Terminal == {"approved", "denied", "expired", "enrolled", "failed"}

PamCode == {"SUCCESS", "AUTH_ERR", "AUTHINFO_UNAVAIL", "IGNORE", "ABORT",
            "USER_UNKNOWN", "NO_MODULE_DATA"}

\* auth.c:288-324
HttpToPam_Unmapped(r) == IF r = "OK" THEN "SUCCESS" ELSE r
HttpToPam_TransportDenies(r) ==
  CASE r = "OK" -> "SUCCESS"
    [] r = "CANCELLED" -> "IGNORE"
    [] r \in {"TIMEOUT", "TRANSPORT"} -> "AUTH_ERR"
    [] r \in {"STATUS", "TOO_LARGE"} -> "AUTHINFO_UNAVAIL"
    [] OTHER -> "ABORT"
HttpToPam(r) ==
  CASE r = "OK" -> "SUCCESS"
    [] r = "CANCELLED" -> "IGNORE"
    [] r = "TIMEOUT" -> "AUTH_ERR"
    [] r \in {"STATUS", "TOO_LARGE", "TRANSPORT"} -> "AUTHINFO_UNAVAIL"
    [] OTHER -> "ABORT"
=============================================================================
