--------------------------- MODULE MCDecisionService ---------------------------
(***************************************************************************)
(* A small instance of DecisionService: one subject, one action and two     *)
(* resources; batches of none to four members; requests that are valid,    *)
(* that miss an entity or an id, that hold empty maps and maps the encoder  *)
(* refuses; responses of every shape.                                       *)
(***************************************************************************)
EXTENDS DecisionService

Alice(props) == [type |-> "user", id |-> "alice", props |-> props]
Anyone == [type |-> "user", id |-> "", props |-> None]
Read == [name |-> "read", props |-> None]
Doc(i) == [type |-> "doc", id |-> i, props |-> None]
AnyDoc == [type |-> "doc", id |-> "", props |-> "empty"]

Member(s, r, c) == [subject |-> s, action |-> None, resource |-> r, context |-> c]
Asking(s, a, r, c) == [subject |-> s, action |-> a, resource |-> r, context |-> c]
Boxcar(s, r, c, members, o) ==
    [subject |-> s, action |-> Read, resource |-> r, context |-> c,
     evaluations |-> members, options |-> o]

Evaluations == {
    Asking(Alice("empty"), Read, Doc("1"), "empty"),
    Asking(Anyone, Read, Doc("1"), None),
    Asking(Alice(None), Read, Doc("1"), "opaque") }

One == <<Member(None, Doc("1"), None)>>
Two == <<Member(None, Doc("1"), "empty"), Member(Alice("plain"), Doc("2"), None)>>
Three == Append(Two, Member(None, None, None))
Four == Append(Three, Member(None, None, "plain"))

(* Members take what they lack from the defaults; the invalid batches have  *)
(* too many members, lack a default or have a semantic that is none.        *)
Boxcars == {Boxcar(Alice("plain"), Doc("1"), "plain", m, o) :
                m \in {<<>>, Two}, o \in {None, "deny_on_first_deny"}}
    \cup {Boxcar(Alice("plain"), Doc("1"), "plain", Two, "permit_on_first_permit"),
          Boxcar(Alice("plain"), Doc("1"), None, Three, ""),
          Boxcar(Alice("plain"), None, "plain", Two, "execute_all")}

Invalid == {Boxcar(Alice(None), Doc("1"), None, Four, None),
            Boxcar(Alice(None), None, None, Three, None),
            Boxcar(Alice(None), Doc("1"), None, One, "typo"),
            Boxcar(Alice(None), Doc("1"), None, One, "number")}

MCBatches == Boxcars \cup Invalid \cup {JsonBatch(r) : r \in Boxcars \cup Invalid}

Paging(limit) == [limit |-> limit, token |-> "", props |-> None]

Searching(s, r, p) ==
    [subject |-> s, action |-> Read, resource |-> r, context |-> None, page |-> p]

SearchFor(op) ==
    LET pages == {None, Paging(-5), Paging(0), Paging(5)} IN
    CASE op = "subjects"  -> {Searching(s, Doc("1"), p) : s \in {Anyone, Alice(None)}, p \in pages}
      [] op = "resources" -> {Searching(Alice(None), r, p) : r \in {AnyDoc, Doc("1")}, p \in pages}
      [] op = "actions"   -> {[Searching(Alice(None), Doc("1"), p) EXCEPT !.action = None] : p \in pages}

A(pep, binding, op, form, body, given, gate) ==
    [pep |-> pep, binding |-> binding, op |-> op, form |-> form, body |-> body,
     requestId |-> given, gate |-> gate, own |-> pep = "raw", timeout |-> 0]

(* The Go client with a Timeout, or with an http.Client that has one.       *)
Timed(r, own, timeout) ==
    [A("client", "http", "evaluate", "ok", r, FALSE, 0) EXCEPT !.own = own, !.timeout = timeout]

Encodable(op, bodies) == {r \in bodies : "opaque" \notin RequestMaps(op, r)}

MCCalls ==
    {A("client", b, "evaluate", "ok", r, FALSE, 0) : b \in {"http", "grpc"}, r \in Evaluations}
    \cup {Timed(r, own, timeout) : r \in Encodable("evaluate", Evaluations), own \in BOOLEAN,
                                   timeout \in {-1, 0, 5}}
    \cup {A("raw", "http", "evaluate", f, r, TRUE, 0) :
            f \in {"ok", "path", "method", "media", "large", "malformed"}, r \in Encodable("evaluate", Evaluations)}
    \cup {A("raw", "grpc", "evaluate", "ok", r, FALSE, 0) : r \in Encodable("evaluate", Evaluations)}
    \cup {A("cli", "http", "evaluate", f, r, FALSE, g) :
            f \in {"ok", "help", "usage", "unreadable", "unsigned"}, r \in Evaluations, g \in {0, 1, 3}}
    \cup {A("cli", "http", "batch", f, r, FALSE, 0) : f \in {"ok", "unreadable"}, r \in Boxcars}
    \cup {A("client", b, "batch", "ok", r, FALSE, 0) : b \in {"http", "grpc"}, r \in Boxcars}
    \cup {A("raw", "http", "batch", "ok", r, FALSE, 0) : r \in Boxcars \cup Invalid}
    \cup {A("raw", "grpc", "batch", "ok", r, FALSE, 0) : r \in Invalid}
    \cup UNION {{A("client", b, op, "ok", r, FALSE, 0) : b \in {"http", "grpc"}, r \in SearchFor(op)}
                : op \in Searches}
    \cup {A("client", b, "metadata", "ok", None, FALSE, 0) : b \in {"http", "grpc"}}
    \cup {A("cli", "http", "metadata", f, None, FALSE, 0) : f \in {"ok", "help", "usage"}}
    \cup UNION {{A("cli", "http", op, f, r, FALSE, 0) :
                    f \in {"ok", "usage"}, r \in {q \in SearchFor(op) : q.page # Paging(0)}}
                : op \in Searches}

Decided(b, c) == [decision |-> b, context |-> c, error |-> None]

MCDecisions == {Decided(TRUE, None), Decided(FALSE, "empty"), Decided(TRUE, "opaque"), Decided(TRUE, "bomb")}

MCBatchResults ==
    {[single |-> Decided(TRUE, "plain"), list |-> None], [single |-> None, list |-> None],
     [single |-> None, list |-> <<Decided(FALSE, None), Decided(TRUE, None)>>]}

Found == [op \in Searches |->
    CASE op = "subjects" -> Alice("plain") [] op = "resources" -> Doc("1") [] op = "actions" -> Read]

MCSearchResults == [op \in Searches |->
    {[results |-> None, page |-> None, context |-> "empty"],
     [results |-> <<Found[op]>>, page |-> [next |-> "more", count |-> 9, props |-> None],
      context |-> None],
     [results |-> <<>>, page |-> None, context |-> "opaque"]}]

URL(scheme, host, port, caps, user) ==
    [scheme |-> scheme, host |-> host, port |-> port, path |-> "", user |-> user,
     caps |-> caps, slash |-> FALSE]

MCIssuer == URL("https", "pdp", "", FALSE, FALSE)

Document(u) == [issuer |-> u]

MCDocuments ==
    {None, Document(NoURL), Document(URL("https", "pdp", "443", TRUE, FALSE)),
     Document(URL("https", "pdp", "80", FALSE, FALSE)),
     Document(URL("http", "pdp", "", FALSE, FALSE)),
     Document(URL("https", "pdp", "", FALSE, TRUE)),
     Document(URL("https", "", "", FALSE, FALSE))}
=============================================================================
