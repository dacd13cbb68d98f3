----------------------------- MODULE MCWebProcess -----------------------------
(* Instances of WebProcess for TLC. *)
EXTENDS WebProcess

CONSTANTS s1, s2, a, b

Sent(service, scheme, header, key_id) ==
    [service |-> service, scheme |-> scheme, client_state |-> header,
     key_id |-> key_id]

(* An OAuth client with and without the other header, with one that        *)
(* contradicts its key id, and a BrowserID client of another service.      *)
FourRequests == {Sent(s1, "bearer", Absent, a), Sent(s1, "bearer", a, a),
                 Sent(s1, "bearer", b, a), Sent(s2, "browserid", b, Absent)}

=============================================================================
