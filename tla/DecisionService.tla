---------------------------- MODULE DecisionService ----------------------------
(***************************************************************************)
(* One call of a policy enforcement point: from the Go client, the command  *)
(* line or any other client, over the HTTPS+JSON or the gRPC binding, into  *)
(* the server (server.Handler, authzengrpc.Server), to the PDP and back.    *)
(* The client may give up at any time while the server goes on; the batch   *)
(* loop is that of BatchEvaluation.                                         *)
(*                                                                         *)
(* Abstractions and bounds: one call at a time (the server keeps nothing    *)
(* between calls); a handler's work between two calls of the PDP is one     *)
(* step, no other process can see inside it; message texts are left out,    *)
(* except whether they carry the detail of a backend error.                 *)
(***************************************************************************)
EXTENDS BatchEvaluation, GrpcConversion, Discovery

CONSTANTS
    Calls,          \* the calls a PEP makes
    SearchResults,  \* what a PDP may answer a search with, by operation
    BatchResults,   \* what a PDP that does its own batches may answer
    OwnBatches,     \* whether an HTTP PDP may be, or not be, a BatchEvaluator
    MaxBatchSize,   \* WithMaxBatchSize; NewHandler replaces one that is not positive
    Issuer,         \* ExpectedIssuer, or the base URL
    Documents       \* metadata documents a PDP publishes; None: not configured

Searches == {"subjects", "resources", "actions"}

(* What a call is made with, by operation, and what can answer it.          *)
Bodies(op) ==
    CASE op = "evaluate"  -> EvaluationRequests
      [] op = "batch"     -> EvaluationsRequests
      [] op \in Searches  -> SearchRequests
      [] OTHER            -> {None}

RequestValues == EvaluationRequests \cup EvaluationsRequests \cup SearchRequests \cup {None}

ResponseValues ==
    EvaluationResponses \cup EvaluationsResponses \cup SearchResponses \cup Documents \cup {None}

HandedRequests == [request : RequestValues]

Verdicts == [how : {"decided", "error", "nil", "panic", "abort"}, value : ResponseValues]

Results == [kind : {"error", "decision", "batch", "search", "metadata"}, value : ResponseValues]

(* What a call is made with fits its operation.  A batch response is either *)
(* a single decision or a list, as its type asks for (evaluations.go:289-   *)
(* 302): with both set, one binding would send the decision and the other   *)
(* the list.                                                                *)
ASSUME ServiceAssumption ==
    /\ OwnBatches \subseteq BOOLEAN /\ OwnBatches # {}
    /\ MaxBatchSize \in Nat \ {0}
    /\ \A c \in Calls :
          /\ c.op \in {"evaluate", "batch", "metadata"} \cup Searches
          /\ c.binding \in {"http", "grpc"}
          /\ c.body \in Bodies(c.op)
          /\ c.gate \in Nat
          /\ c.own \in BOOLEAN /\ c.timeout \in Int
          /\ c.op = "batch" /\ c.binding = "http" =>
                c.body \in Batches /\ JsonBatch(c.body) \in Batches
    /\ BatchResults \subseteq EvaluationsResponses
    /\ \A r \in BatchResults : r.single # None => r.list \in {None, <<>>}
    /\ \A op \in Searches : SearchResults[op] \subseteq SearchResponses
    /\ \A d \in Documents \ {None} : d = [issuer |-> d.issuer]
    /\ None \notin Calls /\ None \notin HandedRequests /\ None \notin Verdicts
    /\ None \notin Results

VARIABLES
    call,       \* what the PEP asks, None between calls
    client,     \* "idle", "waiting" for the response, "done"
    wire,       \* the request message, None when there is none on the way
    server,     \* "idle", "pdp": waiting for it, "batch": in the loop, "done"
    handed,     \* the request the PDP was called with, one of HandedRequests
    verdict,    \* how the PDP answered it, one of Verdicts
    reply,      \* the response: [statuses, body], None if the stream broke
    log,        \* correlation ids logged by the handler
    result,     \* what the PEP's call returned, one of Results
    exit,       \* the exit code of the command line tool
    printed     \* and the lines of its summary, None without one

serviceVars == <<call, client, wire, server, handed, verdict, reply, log, result, exit,
                 printed>>
allVars == <<serviceVars, batchVars>>

(***************************************************************************)
(* The client side.                                                         *)
(***************************************************************************)
Valid(op, r) ==
    CASE op = "evaluate"  -> ValidEvaluation(r)
      [] op = "batch"     -> ValidBatch(r)
      [] op = "subjects"  -> ValidSubjectSearch(r)
      [] op = "resources" -> ValidResourceSearch(r)
      [] op = "actions"   -> ValidActionSearch(r)
      [] OTHER            -> TRUE

RequestMaps(op, r) ==
    CASE op = "evaluate"    -> MapsOf(r)
      [] op = "batch"       -> MapsOfBatch(r)
      [] op \in Searches    -> MapsOfSearch(r)
      [] OTHER              -> {}

(* What the Go clients put on the wire.                                     *)
JsonRequest(op, r) ==
    CASE op = "evaluate"    -> JsonEvaluation(r)
      [] op = "batch"       -> JsonBatch(r)
      [] op \in Searches    -> JsonSearch(r)
      [] OTHER              -> None

ProtoRequest(op, r) ==
    CASE op = "evaluate"    -> evaluationRequestToProto(r)
      [] op = "batch"       -> evaluationsRequestToProto(r)
      [] op = "subjects"    -> subjectSearchRequestToProto(r)
      [] op = "resources"   -> resourceSearchRequestToProto(r)
      [] op = "actions"     -> actionSearchRequestToProto(r)
      [] OTHER              -> None

Encoded(c) ==
    IF c.binding = "grpc" THEN ProtoRequest(c.op, c.body)
    ELSE IF c.pep = "raw" THEN c.body ELSE JsonRequest(c.op, c.body)

Failed == [kind |-> "error", value |-> None]

(***************************************************************************)
(* The command line tool: the exit code a returned call gives a command,    *)
(* and the lines of its summary.  A gate is what --deny-exit-code sets.     *)
(***************************************************************************)
Leaves(code, lines) == [code |-> code, lines |-> lines]

(* Mutant of runEvaluate: the decision is read without a look at the error. *)
runEvaluateUnchecked(c, r) ==
    LET decision == r.kind = "error" \/ r.value.decision
    IN Leaves(IF decision THEN 0 ELSE c.gate, <<decision>>)

runEvaluate(c, r) ==
    IF r.kind = "error" THEN Leaves(1, <<>>)
    ELSE Leaves(IF r.value.decision THEN 0 ELSE c.gate, <<r.value.decision>>)

(* One line per element of the evaluations array: a response of the single  *)
(* shape has none, and prints nothing.                                      *)
runEvaluations(r) ==
    IF r.kind = "error" THEN Leaves(1, <<>>)
    ELSE IF r.value.list = None THEN Leaves(0, <<>>)
    ELSE Leaves(0, [k \in DOMAIN r.value.list |-> r.value.list[k].decision])

(* A line per result, then the token of the next page if there is one.      *)
printPage(found, page) ==
    found \o (IF page = None THEN <<>> ELSE IF page.next = "" THEN <<>> ELSE <<page.next>>)

runSearchSubject(r) ==
    IF r.kind = "error" THEN Leaves(1, <<>>)
    ELSE LET found == Listed(r.value.results) IN
         Leaves(0, printPage([k \in DOMAIN found |-> <<found[k].type, found[k].id>>], r.value.page))

runSearchResource(r) == runSearchSubject(r)

runSearchAction(r) ==
    IF r.kind = "error" THEN Leaves(1, <<>>)
    ELSE LET found == Listed(r.value.results) IN
         Leaves(0, printPage([k \in DOMAIN found |-> found[k].name], r.value.page))

runSearchKind(kind, r) ==
    CASE kind = "subjects"  -> runSearchSubject(r)
      [] kind = "resources" -> runSearchResource(r)
      [] kind = "actions"   -> runSearchAction(r)

runDiscover(r) == IF r.kind = "error" THEN Leaves(1, <<>>) ELSE Leaves(0, <<r.value.issuer>>)

Command(c, r) ==
    CASE c.op = "evaluate"  -> runEvaluate(c, r)
      [] c.op = "batch"     -> runEvaluations(r)
      [] c.op \in Searches  -> runSearchKind(c.op, r)
      [] c.op = "metadata"  -> runDiscover(r)

(* The tool prints the summary, or with --json the response as it is, which *)
(* may fail; other PEPs print nothing.                                      *)
Prints(c, r) ==
    IF c.pep # "cli" THEN exit' = None /\ printed' = None
    ELSE \/ exit' = Command(c, r).code /\ printed' = Command(c, r).lines
         \/ exit' \in {Command(c, r).code, 1} /\ printed' = None

(* Mutant of Returns: the call is over for the client, its result is not.   *)
ReturnsNothing(c, r) ==
    client' = "done" /\ result' = None /\ exit' = None /\ printed' = None

(* The PEP's call is over and returns r.                                    *)
Returns(c, r) == client' = "done" /\ result' = r /\ Prints(c, r)

(* A call the command line tool ends before it builds a client: help, a     *)
(* usage error, a request document it cannot read.                          *)
CommandLineStops(c) ==
    /\ c.pep = "cli" /\ c.form \in {"help", "usage", "unreadable"}
    /\ client' = "done" /\ result' = Failed /\ server' = "done" /\ wire' = None
    /\ exit' = CASE c.form = "help" -> 0 [] c.form = "usage" -> 2 [] OTHER -> 1
    /\ printed' = None

(* A Go client refuses an invalid request, one it cannot encode, and one    *)
(* its authentication hook refuses to sign.                                 *)
ClientRefuses(c) ==
    /\ c.pep \in {"client", "cli"} /\ c.form \in {"ok", "unsigned"}
    /\ \/ ~Valid(c.op, c.body)
       \/ "opaque" \in RequestMaps(c.op, c.body)
       \/ c.form = "unsigned"
    /\ Returns(c, Failed) /\ server' = "done" /\ wire' = None

Sends(c) ==
    /\ c.pep = "raw" \/ (c.form = "ok" /\ Valid(c.op, c.body))
    /\ "opaque" \notin RequestMaps(c.op, c.body)
    /\ client' = "waiting" /\ wire' = [message |-> Encoded(c)]
    /\ UNCHANGED <<server, result, exit, printed>>

MakeCall ==
    /\ client = "idle"
    /\ \E c \in Calls :
        /\ call' = c
        /\ CommandLineStops(c) \/ ClientRefuses(c) \/ Sends(c)
    /\ UNCHANGED <<handed, verdict, reply, log, batchVars>>

(***************************************************************************)
(* Responses of the HTTP server.  Statuses are in the order written: the    *)
(* client sees the first.                                                   *)
(***************************************************************************)
ErrorBody(id, detail) == [kind |-> "error", value |-> [id |-> id, detail |-> detail]]

Nothing == [kind |-> "nothing", value |-> None]

(* writeJSON: the status line goes out before the encoder meets the maps;   *)
(* what it cannot encode leaves an empty body.                              *)
writeJSON(status, body, maps) ==
    [statuses |-> <<status>>,
     body |-> IF maps \cap {"opaque", "bomb"} = {} THEN body ELSE Nothing]

writeError(status) == writeJSON(status, ErrorBody(None, FALSE), {})

(* The id of one error: the client's X-Request-ID, else a random one.       *)
correlationID(c) == IF c.requestId THEN "given" ELSE "fresh"

(* Mutant of writeServerError: the id is made anew for the response.        *)
writeServerErrorNewId(c) == writeJSON(500, ErrorBody("another", VerboseErrors), {})

writeServerError(c) == writeJSON(500, ErrorBody(correlationID(c), VerboseErrors), {})

(* Mutant of Recovered: the 500 is written whatever was written before.     *)
RecoveredAlways(c, rep) ==
    [statuses |-> rep.statuses \o <<500>>, body |-> ErrorBody(correlationID(c), FALSE)]

(* recoverMiddleware, given what the handler had written when it panicked.  *)
Recovered(c, rep) ==
    IF rep.statuses # <<>> THEN rep
    ELSE writeJSON(500, ErrorBody(correlationID(c), FALSE), {})

Unwritten == [statuses |-> <<>>, body |-> Nothing]

(* The handler ends and leaves the response rep.                            *)
Ends(rep, ids) ==
    /\ server' = "done" /\ reply' = rep /\ log' = log \cup ids

(* A body that panics in the encoder is recovered after the status line.    *)
WritesBody(c, body, maps) ==
    IF "bomb" \in maps
    THEN Ends(Recovered(c, writeJSON(200, body, maps)), {correlationID(c)})
    ELSE Ends(writeJSON(200, body, maps), {})

Panics(c) == Ends(Recovered(c, Unwritten), {correlationID(c)})

(***************************************************************************)
(* The HTTP server.                                                         *)
(***************************************************************************)
(* Mutant of Stripped: the id of the searched entity is passed on.          *)
StrippedNot(op, r) == r

(* What the handlers take out of a valid request before they pass it on.    *)
Stripped(op, r) ==
    CASE op = "subjects"  -> [r EXCEPT !.subject.id = ""]
      [] op = "resources" -> [r EXCEPT !.resource.id = ""]
      [] OTHER            -> r

(* requirePost, decodeJSON and Validate, then the size of a batch: the      *)
(* status with which a request is refused before the PDP is asked, or 0.    *)
Refusal(c, r) ==
    IF c.form = "path" THEN 404
    ELSE IF c.form = "method" THEN 405
    ELSE IF c.op = "metadata" THEN 0
    ELSE IF c.form = "media" THEN 415
    ELSE IF c.form = "large" THEN 413
    ELSE IF \/ c.form = "malformed"
            \/ c.op = "batch" /\ ~JsonOptionsDecode(r.options)
            \/ ~Valid(c.op, r)
            \/ c.op = "batch" /\ Len(r.evaluations) > MaxBatchSize
         THEN 400
    ELSE 0

(* The document published at the well-known path.                           *)
ServesMetadata ==
    \E d \in Documents :
        Ends(IF d = None THEN writeError(404)
             ELSE writeJSON(200, [kind |-> "metadata", value |-> d], {}), {})

HttpReceives ==
    /\ call # None /\ call.binding = "http" /\ wire # None /\ server = "idle"
    /\ LET r == wire.message IN
       \/ /\ Refusal(call, r) # 0
          /\ Ends(writeError(Refusal(call, r)), {})
          /\ UNCHANGED <<handed, batchVars>>
       \/ /\ Refusal(call, r) = 0 /\ call.op = "metadata"
          /\ ServesMetadata /\ UNCHANGED <<handed, batchVars>>
       \/ /\ Refusal(call, r) = 0 /\ call.op = "batch" /\ FALSE \in OwnBatches
          /\ server' = "batch" /\ Begin(r) /\ UNCHANGED <<handed, reply, log>>
       \/ /\ Refusal(call, r) = 0 /\ call.op # "metadata"
          /\ call.op = "batch" => TRUE \in OwnBatches
          /\ server' = "pdp" /\ handed' = [request |-> Stripped(call.op, r)]
          /\ UNCHANGED <<reply, log, batchVars>>
    /\ UNCHANGED <<call, client, wire, verdict, result, exit, printed>>

(* The values a PDP may answer with (its own batches hold no more decisions *)
(* than there are members), their maps, and how they are encoded.           *)
Values(op) ==
    CASE op = "evaluate" -> Decisions
      [] op = "batch"    ->
            {v \in BatchResults : v.list # None => Len(v.list) <= Len(Resolved(handed.request))}
      [] op \in Searches -> SearchResults[op]
      [] op = "metadata" -> Documents \ {None}

ValueMaps(op, v) ==
    CASE op = "evaluate" -> {v.context}
      [] op = "batch"    -> MapsOfBatchResponse(v)
      [] op \in Searches -> MapsOfSearchResponse(v)
      [] op = "metadata" -> {}

JsonBody(op, v) ==
    CASE op = "evaluate" -> [kind |-> "decision", value |-> JsonDecision(v)]
      [] op = "batch"    -> [kind |-> "batch", value |-> JsonBatchResponse(v)]
      [] op \in Searches -> [kind |-> "search", value |-> JsonSearchResponse(v)]

(* The PDP's answer to a request that is not a default batch.               *)
HttpAnswered ==
    /\ server = "pdp" /\ call.binding = "http"
    /\ \/ \E v \in Values(call.op) :
            /\ verdict' = [how |-> "decided", value |-> v]
            /\ WritesBody(call, JsonBody(call.op, v), ValueMaps(call.op, v))
       \/ /\ verdict' = [how |-> "error", value |-> None]
          /\ Ends(writeServerError(call), {correlationID(call)})
       \/ /\ verdict' = [how |-> "nil", value |-> None]
          /\ Ends(writeJSON(200, [kind |-> "null", value |-> None], {}), {})
       \/ verdict' = [how |-> "panic", value |-> None] /\ Panics(call)
       \/ verdict' = [how |-> "abort", value |-> None] /\ Ends(None, {})
    /\ UNCHANGED <<call, client, wire, handed, result, exit, printed, batchVars>>

(* The batch loop goes on, whether or not the PEP still waits for it.       *)
InLoop == server = "batch" /\ BatchStep /\ UNCHANGED serviceVars

(* The server learns that the PEP is gone: the request's context is done.   *)
Disconnected ==
    /\ client = "done" /\ server = "batch" /\ stage = "loop"
    /\ Cancel /\ UNCHANGED serviceVars

LoopEnded ==
    /\ server = "batch" /\ stage \in Outcomes
    /\ CASE stage = "returned" ->
              LET resp == [single |-> None, list |-> out] IN
              WritesBody(call, JsonBody("batch", resp), MapsOfBatchResponse(resp))
         [] stage = "failed"   -> Ends(writeServerError(call), {correlationID(call)})
         [] stage = "panicked" -> Panics(call)
         [] stage = "aborted"  -> Ends(None, {})
    /\ UNCHANGED <<call, client, wire, handed, verdict, result, exit, printed, batchVars>>

(***************************************************************************)
(* The gRPC server: codes 0 OK, 2 Unknown, 3 InvalidArgument, 7 a status of *)
(* the PDP's own, 13 Internal.  Nothing recovers a panic: the process ends. *)
(***************************************************************************)
FromProto(op, m) ==
    CASE op = "evaluate"    -> evaluationRequestFromProto(m)
      [] op = "batch"       -> evaluationsRequestFromProto(m)
      [] op = "subjects"    -> subjectSearchRequestFromProto(m)
      [] op = "resources"   -> resourceSearchRequestFromProto(m)
      [] op = "actions"     -> actionSearchRequestFromProto(m)
      [] OTHER              -> None

ProtoBody(op, v) ==
    CASE op = "evaluate"  -> [kind |-> "decision", value |-> evaluationResponseToProto(v)]
      [] op = "batch"     -> [kind |-> "batch", value |-> evaluationsResponseToProto(v)]
      [] op = "subjects"  -> [kind |-> "search", value |-> subjectSearchResponseToProto(v)]
      [] op = "resources" -> [kind |-> "search", value |-> resourceSearchResponseToProto(v)]
      [] op = "actions"   -> [kind |-> "search", value |-> actionSearchResponseToProto(v)]
      [] op = "metadata"  -> [kind |-> "metadata", value |-> metadataToProto(v)]

GrpcStatus(code) == [statuses |-> <<code>>, body |-> Nothing]

GrpcReceives ==
    /\ call # None /\ call.binding = "grpc" /\ wire # None /\ server = "idle"
    /\ LET r == FromProto(call.op, wire.message) IN
       \/ ~Valid(call.op, r) /\ Ends(GrpcStatus(3), {}) /\ UNCHANGED handed
       \/ /\ Valid(call.op, r)
          /\ server' = "pdp" /\ handed' = [request |-> Stripped(call.op, r)]
          /\ UNCHANGED <<reply, log>>
    /\ UNCHANGED <<call, client, wire, verdict, result, exit, printed, batchVars>>

(* pdpError: an error that is a status keeps its code.                      *)
pdpError(isStatus) == IF isStatus THEN GrpcStatus(7) ELSE GrpcStatus(13)

GrpcAnswered ==
    /\ server = "pdp" /\ call.binding = "grpc"
    /\ \/ \E v \in Values(call.op) :
            /\ verdict' = [how |-> "decided", value |-> v]
            /\ LET maps == ValueMaps(call.op, v) IN
               Ends(IF "bomb" \in maps THEN None
                    ELSE IF Normalizable(maps)
                    THEN [statuses |-> <<0>>, body |-> ProtoBody(call.op, v)]
                    ELSE GrpcStatus(2), {})
       \/ \E isStatus \in BOOLEAN :
            /\ verdict' = [how |-> "error", value |-> None]
            /\ Ends(pdpError(isStatus), {})
       \/ verdict' = [how |-> "panic", value |-> None] /\ Ends(None, {})
    /\ UNCHANGED <<call, client, wire, handed, result, exit, printed, batchVars>>

(***************************************************************************)
(* The client reads the response, or gives up on it: a timeout, a broken    *)
(* connection, a body longer than MaxResponseBytes.                         *)
(***************************************************************************)
(* What the zero value of the response type says: nobody decided.           *)
ZeroValue(op) ==
    CASE op = "evaluate" ->
            [kind |-> "decision",
             value |-> [decision |-> FALSE, context |-> None, error |-> None]]
      [] op = "batch"    -> [kind |-> "batch", value |-> [single |-> None, list |-> None]]
      [] op \in Searches ->
            [kind |-> "search", value |-> [results |-> None, page |-> None, context |-> None]]
      [] op = "metadata" -> Failed

(* Client.do and Metadata.  A JSON body without the expected keys, null     *)
(* included, leaves the zero value.                                         *)
HttpDecoded(op, rep) ==
    IF rep.statuses[1] \notin 200 .. 299 \/ rep.body.kind = "nothing" THEN Failed
    ELSE IF rep.body.kind \in {"null", "error"} THEN ZeroValue(op)
    ELSE IF op = "metadata" /\ ~sameIssuer(Issuer, rep.body.value.issuer) THEN Failed
    ELSE rep.body

GrpcDecoded(op, rep) ==
    IF rep.statuses[1] # 0 THEN Failed
    ELSE [kind |-> rep.body.kind, value |->
            CASE op = "evaluate"  -> evaluationResponseFromProto(rep.body.value)
              [] op = "batch"     -> evaluationsResponseFromProto(rep.body.value)
              [] op = "subjects"  -> subjectSearchResponseFromProto(rep.body.value)
              [] op = "resources" -> resourceSearchResponseFromProto(rep.body.value)
              [] op = "actions"   -> actionSearchResponseFromProto(rep.body.value)
              [] op = "metadata"  -> metadataFromProto(rep.body.value)]

Receives ==
    /\ client = "waiting" /\ server = "done" /\ reply # None
    /\ Returns(call, IF call.binding = "http" THEN HttpDecoded(call.op, reply)
                     ELSE GrpcDecoded(call.op, reply))
    /\ UNCHANGED <<call, wire, server, handed, verdict, reply, log, batchVars>>

GivesUp ==
    /\ client = "waiting"
    /\ Returns(call, Failed)
    /\ UNCHANGED <<call, wire, server, handed, verdict, reply, log, batchVars>>

(* A request nobody waits for any more may never arrive.                    *)
RequestLost ==
    /\ client = "done" /\ server = "idle" /\ wire # None
    /\ server' = "done"
    /\ UNCHANGED <<call, client, wire, handed, verdict, reply, log, result, exit, printed, batchVars>>

(* Both sides are through with the call, and the PEP may make another.      *)
NextCall ==
    /\ client = "done" /\ server = "done"
    /\ call' = None /\ client' = "idle" /\ wire' = None /\ server' = "idle"
    /\ handed' = None /\ verdict' = None /\ reply' = None /\ log' = {}
    /\ result' = None /\ exit' = None /\ printed' = None
    /\ IF stage = "idle" THEN UNCHANGED batchVars ELSE Return

ServiceInit ==
    /\ BatchInit
    /\ call = None /\ client = "idle" /\ wire = None /\ server = "idle"
    /\ handed = None /\ verdict = None /\ reply = None /\ log = {}
    /\ result = None /\ exit = None /\ printed = None

ServiceNext ==
    \/ MakeCall
    \/ HttpReceives \/ HttpAnswered \/ InLoop \/ Disconnected \/ LoopEnded
    \/ GrpcReceives \/ GrpcAnswered
    \/ Receives \/ GivesUp \/ RequestLost
    \/ NextCall

ServiceSpec == ServiceInit /\ [][ServiceNext]_allVars

(***************************************************************************)
(* Fairness.  An HTTP client with a Timeout gives up when it has passed;    *)
(* one without, and a gRPC call, may wait for ever.  A caller who supplies  *)
(* an http.Client of its own (c.own) governs that client's Timeout, which   *)
(* c.timeout then is; else c.timeout is the one the Client was configured   *)
(* with, 0 if it was not, as by the command line (client.go:77-80, 575-589, *)
(* main.go:161-170).  A handler is a goroutine that runs on once the PDP has *)
(* answered; that a PDP answers is assumed for HandlersEnd only.            *)
(***************************************************************************)
DefaultTimeout == 30

(* Mutant of httpTimeout: the fallback client takes the Timeout as it is.   *)
httpTimeoutAsSet(c) == c.timeout

(* The Timeout of the http.Client that sends c; none if it is not positive. *)
httpTimeout(c) == IF c.own \/ c.timeout > 0 THEN c.timeout ELSE DefaultTimeout

Deadline == call # None /\ call.binding = "http" /\ httpTimeout(call) > 0 /\ GivesUp

PdpResponds ==
    HttpAnswered \/ GrpcAnswered \/ (InLoop /\ Len(seen') > Len(seen)) \/ LoopEnded

FairServiceSpec == ServiceSpec /\ WF_allVars(Deadline)

(***************************************************************************)
(* Properties.                                                              *)
(***************************************************************************)
ServiceTypeOK ==
    /\ call \in Calls \cup {None}
    /\ client \in {"idle", "waiting", "done"} /\ server \in {"idle", "pdp", "batch", "done"}
    /\ stage \in {"idle", "loop"} \cup Outcomes
    /\ handed \in HandedRequests \cup {None} /\ verdict \in Verdicts \cup {None}
    /\ result \in Results \cup {None}
    /\ client = "done" <=> result # None
    /\ handed # None => call # None /\ server \in {"pdp", "done"}
    /\ stage # "idle" => call # None /\ server \in {"batch", "done"}

(* The decisions a result holds, in order.                                  *)
DecisionsIn(r) ==
    CASE r.kind = "decision" -> <<r.value>>
      [] r.kind = "batch" /\ r.value.single # None -> <<r.value.single>>
      [] r.kind = "batch" /\ r.value.single = None /\ r.value.list # None -> r.value.list
      [] OTHER -> <<>>

(* The decisions the PDP made for this call, closed where it failed.        *)
DecisionsMade ==
    IF stage # "idle"
    THEN [k \in 1 .. Len(answers) |-> IF answers[k].how = "decided" THEN answers[k].decision
                                      ELSE [decision |-> FALSE]]
    ELSE IF verdict = None THEN <<>>
    ELSE IF verdict.value = None THEN <<>>
    ELSE DecisionsIn(IF call.op = "evaluate" THEN [kind |-> "decision", value |-> verdict.value]
                     ELSE [kind |-> "batch", value |-> verdict.value])

(* What the PDP was asked, member by member.                                *)
MembersAsked ==
    IF stage # "idle" THEN seen
    ELSE IF handed = None THEN <<>>
    ELSE IF call.op = "batch" THEN Resolved(handed.request) ELSE <<handed.request>>

MembersOf(c) == IF c.op = "batch" THEN Resolved(c.body) ELSE <<c.body>>

Named(e) == IF e = None THEN None ELSE [e EXCEPT !.props = None]

(* Fail closed, from one end to the other: a PEP reads a permit only for a  *)
(* member the PDP was asked about, with the very subject, action and        *)
(* resource the PEP named for it, and permitted - over either binding, and  *)
(* whatever was lost, cancelled, refused by an encoder or panicked on the   *)
(* way (server.go:125-126, 454-524; client.go:515-551; conv.go).            *)
PermitsAreDecided ==
    result # None /\ call.op \in {"evaluate", "batch"} =>
        \A k \in 1 .. Len(DecisionsIn(result)) :
            DecisionsIn(result)[k].decision =>
                /\ k <= Len(DecisionsMade) /\ DecisionsMade[k].decision
                /\ k <= Len(MembersAsked)
                /\ \A f \in {"subject", "action", "resource"} :
                        Named(MembersAsked[k][f]) = Named(MembersOf(call)[k][f])

(* A call that does not fail returns every decision that was made, in the   *)
(* order of the members, whichever response shape the PDP chose and         *)
(* whichever binding carried it (evaluations.go:323-374; conv.go:402-441).  *)
DecisionsArrive ==
    result # None /\ result.kind \in {"decision", "batch"} /\ verdict # [how |-> "nil", value |-> None] =>
        /\ Len(DecisionsIn(result)) = Len(DecisionsMade)
        /\ \A k \in 1 .. Len(DecisionsMade) :
              DecisionsIn(result)[k].decision = DecisionsMade[k].decision

(* A PDP sees only requests that passed validation, batches within the      *)
(* configured size over HTTP, and searches without the id of the entity     *)
(* searched for (server.go:58-61, 485-500, 536-541; grpc/server.go:121-156).*)
OnlyValidRequestsReachPdp ==
    /\ handed # None =>
        /\ Valid(call.op, handed.request)
        /\ call.op = "subjects" => handed.request.subject.id = ""
        /\ call.op = "resources" => handed.request.resource.id = ""
        /\ call.op = "batch" /\ call.binding = "http" =>
                Len(handed.request.evaluations) <= MaxBatchSize
    /\ \A k \in 1 .. Len(seen) : ValidEvaluation(seen[k]) /\ k <= MaxBatchSize

(* The status tells whether there was an answer: one status line, with an   *)
(* error body if and only if it says so, so that a client never reads an    *)
(* error as the zero decision (server.go:408-451, 802-811).                 *)
StatusTellsOutcome ==
    reply # None /\ call.binding = "http" =>
        /\ Len(reply.statuses) = 1
        /\ reply.body.kind = "error" <=> reply.statuses[1] # 200

(* Every error a response carries, for the call or for a member of a        *)
(* batch, has a correlation id that was logged with the error it stands     *)
(* for, and shows the detail itself only with verbose errors on; only       *)
(* refusals, which are about the request, have no id (server.go:217-232,    *)
(* 408-434, 712-745).                                                       *)
Traceable(error, ids) == error.id \in ids /\ (error.detail => VerboseErrors)

ErrorsTraceable ==
    reply # None /\ call.binding = "http" =>
        /\ reply.body.kind = "error" /\ reply.statuses[1] = 500 =>
              Traceable(reply.body.value, log)
        /\ stage # "idle" /\ reply.body.kind = "batch" =>
              \A k \in 1 .. Len(reply.body.value.list) :
                 LET error == reply.body.value.list[k].error IN
                 error # None => Traceable(error, logged)

(* A page limit too wide for the message's int32 is cut, never wrapped: the *)
(* PDP is asked for a page exactly when the PEP asked for one, of no more   *)
(* results, and a limit that means none keeps its sign (conv.go:115-123,    *)
(* 456-486).                                                                *)
PageLimitKeepsSign ==
    handed # None /\ call.op \in Searches /\ call.pep # "raw" /\ call.body.page # None =>
        LET asked == call.body.page.limit
            got == IF handed.request.page = None THEN 0 ELSE handed.request.page.limit
        IN /\ asked >= 0 => got <= asked
           /\ got > 0 <=> asked > 0
           /\ got < 0 <=> asked < 0

(* Over HTTP a metadata document is returned only if the PDP it names is    *)
(* the one that was asked (client.go:372-470).                              *)
MetadataNamesIssuer ==
    result # None /\ result.kind = "metadata" /\ call.binding = "http" =>
        SamePdp(Issuer, result.value.issuer)

(* The command line tool can be scripted: with a deny exit code set, exit 0 *)
(* of "authzen evaluate" gates nothing but a permit - an error, a usage     *)
(* error and a deny all exit non-zero - and a line of a summary that says   *)
(* "allow" stands for the member of that number, which the PDP permitted    *)
(* (main.go:18-25, evaluate.go:84-110, evaluations.go:70-87).               *)
ToolTellsDecisions ==
    /\ exit = 0 /\ call.op = "evaluate" /\ call.gate # 0 /\ call.form # "help" =>
            verdict # None /\ verdict.how = "decided" /\ verdict.value.decision
    /\ printed # None /\ call.op \in {"evaluate", "batch"} =>
            \A k \in 1 .. Len(printed) :
                printed[k] => k <= Len(DecisionsMade) /\ DecisionsMade[k].decision

(* A PEP that leaves the HTTP client to the library is never hung by a stuck *)
(* PDP: its call returns even if the PDP never answers and whatever Timeout *)
(* was configured, zero or negative included (client.go:37-40, 82-85,       *)
(* 575-582).  Nothing is promised to a caller with an http.Client of its    *)
(* own, nor over gRPC.                                                      *)
CallsReturn ==
    (client = "waiting" /\ call.binding = "http" /\ ~call.own) ~> client = "done"

(* A PDP that answers every call it is made ends every handler: no member   *)
(* of a batch is asked for ever, whether its answers are decisions, errors  *)
(* or come after the PEP is gone (server.go:145-176).                       *)
HandlersEnd ==
    WF_allVars(PdpResponds) => (server \in {"pdp", "batch"} ~> server = "done")

(* "A request that carries no (or an empty) evaluations array MUST be       *)
(* answered with the single Access Evaluation response shape" - what        *)
(* evaluations.go:278-281 says of the response, and what the default        *)
(* EvaluateBatch, which answers every request in the batch shape, does not  *)
(* do (server.go:145-176, 503-523).                                         *)
EmptyBatchAnsweredSingly ==
    reply # None /\ reply.body.kind = "batch" /\ stage # "idle" =>
        (request.evaluations = <<>> => reply.body.value.single # None)
=============================================================================
