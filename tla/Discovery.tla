------------------------------- MODULE Discovery -------------------------------
(***************************************************************************)
(* How the client takes a metadata document to come from the PDP it asked   *)
(* (client.go, Metadata).  A URL is [scheme, host, port, path, user, caps,  *)
(* slash]: "" is an absent part, caps says that scheme or host hold capital *)
(* letters, slash that the path ends in one; NoURL does not parse.          *)
(***************************************************************************)
CONSTANTS
    NoURL,          \* a string that is no URL
    Loopback        \* the hosts that name the loopback interface

Rejected(u) ==
    \/ u.user
    \/ u.host = ""
    \/ u.scheme = "http" /\ u.host \notin Loopback
    \/ u.scheme \notin {"http", "https"}

DefaultPort(scheme) == IF scheme = "https" THEN "443" ELSE "80"

(* Mutant of normalizeIssuer: either default port is dropped, whatever the  *)
(* scheme.                                                                  *)
normalizeAnyPort(u) ==
    IF u = NoURL THEN NoURL
    ELSE IF Rejected(u) THEN NoURL
    ELSE [scheme |-> u.scheme, host |-> u.host, path |-> u.path,
          port |-> IF u.port \in {"443", "80"} THEN "" ELSE u.port]

(* The canonical form, without the case of the letters and a final slash,   *)
(* or NoURL for an identifier that must be rejected.                        *)
normalizeIssuer(u) ==
    IF u = NoURL THEN NoURL
    ELSE IF Rejected(u) THEN NoURL
    ELSE [scheme |-> u.scheme, host |-> u.host, path |-> u.path,
          port |-> IF u.port = DefaultPort(u.scheme) THEN "" ELSE u.port]

sameIssuer(expected, got) ==
    /\ normalizeIssuer(expected) # NoURL
    /\ normalizeIssuer(expected) = normalizeIssuer(got)

(* Two identifiers name the same PDP: the same scheme, host, path and       *)
(* effective port, and one that TLS or the loopback interface protects.     *)
EffectivePort(u) == IF u.port = "" THEN DefaultPort(u.scheme) ELSE u.port

SamePdp(a, b) ==
    /\ NoURL \notin {a, b} /\ ~a.user /\ ~b.user
    /\ a.scheme = b.scheme /\ a.host = b.host /\ a.path = b.path
    /\ EffectivePort(a) = EffectivePort(b)
    /\ a.scheme = "https" \/ (a.scheme = "http" /\ a.host \in Loopback)
=============================================================================
