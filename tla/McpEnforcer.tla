------------------------------ MODULE McpEnforcer ------------------------------
(***************************************************************************)
(* The MCP Enforcer (mcp/middleware.go, mcp.go): an HTTP middleware that    *)
(* extracts an MCP request, asks an AuthZEN Authorizer about it, and either *)
(* passes the request to the wrapped handler or answers with a challenge.   *)
(* The extractor, the Authorizer, the wrapped handler and a custom          *)
(* responder are the user's: each may also panic, a handler or a responder  *)
(* after it has begun to answer.                                            *)
(*                                                                         *)
(* One request at a time: an Enforcer keeps nothing between requests.  A    *)
(* call's arguments, transport and resource indicator are copied and left   *)
(* out.                                                                     *)
(***************************************************************************)
EXTENDS McpChallenge

CONSTANTS
    Requests,       \* what an extractor returns
    Challenges,     \* what a PDP that knows the profile puts in DenyContext
    OtherContexts,  \* mcp objects made by hand (Absent: a deny has none)
    Statuses,       \* what a wrapped handler answers with
    Scope, ResourceMetadata, Realm,     \* With...: the Enforcer's defaults
    Responders      \* subset of {"default", "custom"}: WithErrorResponder

ASSUME EnforcerAssumption ==
    /\ Responders # {} /\ Responders \subseteq {"default", "custom"}
    /\ Statuses \subseteq 200 .. 599
    /\ Challenges \subseteq AnyChallenge
    /\ Scope \in Texts /\ ResourceMetadata \in Texts /\ Realm \in Texts
    /\ \A m \in OtherContexts : m # Absent => m.status.n \in Int
    /\ \A c \in Challenges :
          Absent \notin {DenyContext(c), OverTheWire(DenyContext(c)), DenyContext(c).auth}
    /\ Absent \notin Requests

VARIABLES
    phase,      \* "idle", "extract", "authorize", "next", "deny", "done"
    mreq,       \* the extracted Request, Absent before
    asked,      \* the evaluation requests the Authorizer was sent
    answer,     \* what it returned: [decision, mcp, err]
    denials,    \* the DenyInfos given to the responder: [challenge, err]
    recovering, \* the deferred recover has run: a second panic escapes
    entered,    \* the wrapped handler was called
    response    \* [status, headers, bodies]; status 0 while nothing is written

enforcerVars == <<phase, mreq, asked, answer, denials, recovering, entered, response>>

(***************************************************************************)
(* Request.EvaluationRequest.  A Request is [method, tool, uri, prompt,     *)
(* server, token, context]; a token is [subject, client, actor, scopes,     *)
(* audience]; context the caller's own entries, which may include "mcp".    *)
(***************************************************************************)
Methods == {"tools/call", "tools/list", "resources/read", "resources/list",
            "prompts/get", "prompts/list"}

(* What a method names: its target, or the server for the collections.      *)
Target(q) ==
    CASE q.method = "tools/call"     -> [type |-> "mcp_tool", id |-> q.tool, server |-> q.server]
      [] q.method = "resources/read" -> [type |-> "mcp_resource", id |-> q.uri, server |-> ""]
      [] q.method = "prompts/get"    -> [type |-> "mcp_prompt", id |-> q.prompt, server |-> q.server]
      [] OTHER                       -> [type |-> "mcp_server", id |-> q.server, server |-> ""]

(* The claims that are copied when they are present.                        *)
Claims(t) ==
    {<<k, t[k]>> : k \in {j \in {"client", "scopes", "actor", "audience"} : t[j] # ""}}

(* Mutant of SubjectFromToken: an actor is the subject of its own calls.    *)
SubjectFromActor(t) ==
    IF t.actor # "" THEN [type |-> "agent", id |-> t.actor, props |-> Claims(t)]
    ELSE IF t.subject = "" /\ t.client # "" THEN [type |-> "client", id |-> t.client, props |-> Claims(t)]
    ELSE [type |-> "user", id |-> t.subject, props |-> Claims(t)]

SubjectFromToken(t) ==
    IF t.actor # "" THEN [type |-> "agent", id |-> t.subject, props |-> Claims(t)]
    ELSE IF t.subject = "" /\ t.client # "" THEN [type |-> "client", id |-> t.client, props |-> Claims(t)]
    ELSE [type |-> "user", id |-> t.subject, props |-> Claims(t)]

(* The error EvaluationRequest returns, "" when it returns none.            *)
AssemblyError(q) ==
    IF q.method \notin Methods THEN "ErrUnknownMethod"
    ELSE IF q.method \in {"tools/call", "resources/read", "prompts/get"} /\ Target(q).id = ""
         THEN "ErrMissingTarget"
    ELSE IF SubjectFromToken(q.token).id = "" THEN "ErrMissingSubject"
    ELSE ""

(* The caller's context entries, and the reserved mcp object over them.     *)
evaluationContext(q) ==
    [k \in q.context \cup {"mcp"} |->
        IF k = "mcp"
        THEN [method |-> q.method, sub |-> q.token.subject, claims |-> Claims(q.token)]
        ELSE "caller"]

EvaluationRequest(q) ==
    [subject |-> SubjectFromToken(q.token), action |-> q.method, resource |-> Target(q),
     context |-> evaluationContext(q)]

(***************************************************************************)
(* Challenges.                                                              *)
(***************************************************************************)
insufficient == [InsufficientScope(Scope, ResourceMetadata) EXCEPT !.realm = Realm]

unauthorized == [Unauthorized(ResourceMetadata) EXCEPT !.scope = Scope, !.realm = Realm]

(* Mutant of challengeForError: only a token that is missing is challenged. *)
challengeForNoToken(err) == IF err = "ErrNoToken" THEN unauthorized ELSE insufficient

challengeForError(err) ==
    IF err \in {"ErrNoToken", "ErrMissingSubject"} THEN unauthorized ELSE insufficient

challengeFromResponse(m) ==
    IF ~CarriesChallenge(m) THEN insufficient
    ELSE LET c == ChallengeFromDenyContext(m) IN
         [c EXCEPT !.status = IF @ = 0 THEN 403 ELSE @, !.metadata = Or(@, ResourceMetadata),
                   !.scope = Or(@, Scope), !.realm = Or(@, Realm)]

(* Mutant of clampDenyStatus: a redirection is let through.                 *)
clampRedirects(status) == IF status < 300 \/ status > 599 THEN 403 ELSE status

clampDenyStatus(status) == IF status < 400 \/ status > 599 THEN 403 ELSE status

(***************************************************************************)
(* http.ResponseWriter: the first status is the one that is sent, with the  *)
(* WWW-Authenticate headers set by then; what is written later is appended  *)
(* to the body.                                                             *)
(***************************************************************************)
Unanswered == [status |-> 0, headers |-> <<>>, bodies |-> <<>>]

Written(rep, status, headers, body) ==
    IF rep.status # 0 THEN [rep EXCEPT !.bodies = Append(@, body)]
    ELSE [status |-> status, headers |-> headers, bodies |-> <<body>>]

(* defaultResponder's error code: the challenge's own, else by the status.  *)
ErrorCode(c) ==
    IF c.error # <<>> THEN c.error
    ELSE IF c.status = 401 THEN <<"invalid_token">> ELSE <<"insufficient_scope">>

Denial(c) == Written(response, clampDenyStatus(c.status), <<Rendered(c)>>, ErrorCode(c))

(***************************************************************************)
(* The handler.                                                             *)
(***************************************************************************)
EnforcerInit ==
    /\ phase = "idle" /\ mreq = Absent /\ asked = <<>> /\ answer = Absent
    /\ denials = <<>> /\ recovering = FALSE /\ entered = FALSE /\ response = Unanswered

(* Enforcer.deny hands the clamped challenge to the responder.              *)
Deny(challenge, err) ==
    /\ phase' = "deny"
    /\ denials' = Append(denials,
            [challenge |-> [challenge EXCEPT !.status = clampDenyStatus(@)], err |-> err])

(* The deferred function: the first panic is denied, one while that deny is *)
(* written escapes to net/http, which drops the connection.                 *)
Panicked ==
    IF recovering THEN phase' = "done" /\ UNCHANGED <<denials, recovering>>
    ELSE recovering' = TRUE /\ Deny(insufficient, "panic")

Receive ==
    /\ phase = "idle" /\ phase' = "extract"
    /\ UNCHANGED <<mreq, asked, answer, denials, recovering, entered, response>>

ExtractorFails ==
    /\ phase = "extract"
    /\ \/ \E err \in {"ErrNoToken", "other"} :
            Deny(challengeForError(err), err) /\ UNCHANGED recovering
       \/ Panicked
    /\ UNCHANGED <<mreq, asked, answer, entered, response>>

(* The request is extracted and assembled; the Authorizer is asked.         *)
Extracted(q) ==
    /\ phase = "extract" /\ mreq' = q
    /\ IF AssemblyError(q) # ""
       THEN Deny(challengeForError(AssemblyError(q)), AssemblyError(q)) /\ UNCHANGED asked
       ELSE /\ phase' = "authorize" /\ asked' = Append(asked, EvaluationRequest(q))
            /\ UNCHANGED denials
    /\ UNCHANGED <<answer, recovering, entered, response>>

(* Mutant of Authorized: the decision is looked at before the error.        *)
AuthorizedFirst(a) ==
    /\ phase = "authorize" /\ answer' = a
    /\ IF a.decision
       THEN phase' = "next" /\ entered' = TRUE /\ UNCHANGED denials
       ELSE Deny(challengeFromResponse(a.mcp), a.err) /\ UNCHANGED entered
    /\ UNCHANGED <<mreq, asked, recovering, response>>

(* An error denies whatever came with it; then the decision counts.         *)
Authorized(a) ==
    /\ phase = "authorize" /\ answer' = a
    /\ CASE a.err # ""                 -> Deny(insufficient, a.err) /\ UNCHANGED entered
         [] a.err = "" /\ ~a.decision  -> Deny(challengeFromResponse(a.mcp), "") /\ UNCHANGED entered
         [] a.err = "" /\ a.decision   -> phase' = "next" /\ entered' = TRUE /\ UNCHANGED denials
    /\ UNCHANGED <<mreq, asked, recovering, response>>

AuthorizerPanics ==
    /\ phase = "authorize" /\ Panicked
    /\ UNCHANGED <<mreq, asked, answer, entered, response>>

(* The wrapped handler writes, returns (net/http sends 200 when nothing was *)
(* written) or panics, which the same deferred function recovers.           *)
NextWrites(status) ==
    /\ phase = "next" /\ Len(response.bodies) < 2
    /\ response' = Written(response, status, <<>>, <<"next">>)
    /\ UNCHANGED <<phase, mreq, asked, answer, denials, recovering, entered>>

NextReturns ==
    /\ phase = "next" /\ phase' = "done"
    /\ response' = IF response.status = 0 THEN [response EXCEPT !.status = 200] ELSE response
    /\ UNCHANGED <<mreq, asked, answer, denials, recovering, entered>>

NextPanics ==
    /\ phase = "next" /\ Panicked
    /\ UNCHANGED <<mreq, asked, answer, entered, response>>

Current == denials[Len(denials)]

(* The responder writes the deny.  A custom one, taken to write what it is  *)
(* given, may panic before or after; the default one does not.              *)
Respond ==
    /\ phase = "deny"
    /\ \/ /\ phase' = "done" /\ response' = Denial(Current.challenge)
          /\ UNCHANGED <<denials, recovering>>
       \/ /\ "custom" \in Responders /\ Panicked
          /\ response' \in {response, Denial(Current.challenge)}
    /\ UNCHANGED <<mreq, asked, answer, entered>>

(* The next request.                                                        *)
Forget ==
    /\ phase = "done"
    /\ phase' = "idle" /\ mreq' = Absent /\ asked' = <<>> /\ answer' = Absent
    /\ denials' = <<>> /\ recovering' = FALSE /\ entered' = FALSE /\ response' = Unanswered

DenyContexts ==
    {DenyContext(c) : c \in Challenges} \cup {OverTheWire(DenyContext(c)) : c \in Challenges}
        \cup OtherContexts

Answers ==
    {[decision |-> TRUE, mcp |-> Absent, err |-> ""], [decision |-> TRUE, mcp |-> Absent, err |-> "pdp"]}
        \cup [decision : {FALSE}, mcp : DenyContexts, err : {"", "pdp"}]

(* An answer is never nil.                                                  *)
ASSUME AnswerAssumption == Absent \notin Answers

EnforcerNext ==
    \/ Receive
    \/ ExtractorFails
    \/ \E q \in Requests : Extracted(q)
    \/ \E a \in Answers : Authorized(a)
    \/ AuthorizerPanics
    \/ \E status \in Statuses : NextWrites(status)
    \/ NextReturns
    \/ NextPanics
    \/ Respond
    \/ Forget

EnforcerSpec == EnforcerInit /\ [][EnforcerNext]_enforcerVars

(***************************************************************************)
(* Properties.                                                              *)
(***************************************************************************)

(* Fail closed: the wrapped handler runs only for a request the Authorizer  *)
(* was asked about, once, and permitted without an error, and none of the   *)
(* panics on the way opens it (middleware.go:175-225).                      *)
PassesOnlyPermitted ==
    entered => /\ asked = <<EvaluationRequest(mreq)>>
               /\ answer.decision /\ answer.err = ""

(* What a call is about, whatever the assembly makes of it.                 *)
SameCall(p, q) ==
    /\ p.method = q.method
    /\ p.method = "tools/call" => p.tool = q.tool /\ p.server = q.server
    /\ p.method = "prompts/get" => p.prompt = q.prompt /\ p.server = q.server
    /\ p.method = "resources/read" => p.uri = q.uri
    /\ p.method \in {"tools/list", "resources/list", "prompts/list"} => p.server = q.server
    /\ \A k \in {"subject", "client", "actor"} : p.token[k] = q.token[k]

(* A decision is about one call: no two calls that differ in the principal, *)
(* the acting agent, the method or the target reach the Authorizer as the   *)
(* same subject, action and resource, and what the caller puts in its own   *)
(* context never stands in for the token (mcp.go:153-397).                  *)
DecisionIsAboutTheCall ==
    asked # <<>> =>
        /\ \A q \in Requests :
              LET e == EvaluationRequest(q) IN
              /\ AssemblyError(q) = ""
              /\ \A k \in {"subject", "action", "resource"} : e[k] = asked[1][k]
              => SameCall(q, mreq)
        /\ asked[1].context["mcp"].sub = mreq.token.subject

(* A deny looks like one: a status that is no error was written by the      *)
(* wrapped handler of a permitted request, before any deny, and every       *)
(* other answer carries a challenge - whatever status the PDP named, and    *)
(* whatever panicked (middleware.go:187-225, 283-301).                      *)
DeniesAreErrors ==
    phase = "done" /\ response.status # 0 =>
        \/ response.status \in 400 .. 599 /\ response.headers # <<>> /\ denials # <<>>
        \/ /\ entered /\ answer.decision
           /\ denials # <<>> => response.bodies[1] = <<"next">>

(* The challenges a context stands for.                                     *)
Meant ==
    [m \in DenyContexts |->
        {c \in Challenges : m \in {DenyContext(c), OverTheWire(DenyContext(c))}}]

(* The client of a denied request is answered with the status the PDP       *)
(* named, where that is an error (middleware.go:246-263, 283-301).          *)
StatusReachesClient ==
    phase = "done" /\ answer # Absent /\ ~recovering =>
        (~answer.decision /\ answer.err = "" =>
            \A c \in Meant[answer.mcp] : response.status = clampDenyStatus(c.status))

(* The client of a denied request reads in the header what the PDP meant,   *)
(* with the Enforcer's defaults where it said nothing: through DenyContext, *)
(* either binding, String and the client's ParseChallenge, whatever quotes, *)
(* backslashes, commas and control characters the values hold               *)
(* (challenge.go:74-283, middleware.go:246-263).                            *)
ChallengeReachesClient ==
    /\ StatusReachesClient
    /\ phase = "done" /\ answer # Absent /\ ~recovering =>
        (~answer.decision /\ answer.err = "" =>
            \A c \in Meant[answer.mcp] :
               LET p == Parsed(response.headers[1]) IN
               /\ p.scheme = Or(sanitizeScheme(c.scheme), <<"Bearer">>)
               /\ p.error = stripControl(c.error)
               /\ p.description = stripControl(c.description)
               /\ p.scope = stripControl(Or(c.scope, Scope))
               /\ p.metadata = stripControl(Or(c.metadata, ResourceMetadata))
               /\ p.realm = stripControl(Or(c.realm, Realm)))

(* What the Enforcer refused before it asked anybody, panics aside.         *)
RefusedUnasked == phase = "done" /\ denials # <<>> /\ answer = Absent /\ ~recovering

(* The token names nobody: a client id counts only when nobody acts for it. *)
NamesNobody(t) == t.subject = "" /\ (t.client = "" \/ t.actor # "")

(* The request asks for something the profile knows, and names it.          *)
WellFormed(q) ==
    /\ q.method \in Methods
    /\ q.method = "tools/call"     => q.tool # ""
    /\ q.method = "resources/read" => q.uri # ""
    /\ q.method = "prompts/get"    => q.prompt # ""

(* All that is wrong with the request is that nobody makes it: it has no    *)
(* token, or it is well-formed and its token names nobody.                  *)
Unauthenticated ==
    IF mreq = Absent THEN Current.err = "ErrNoToken"
    ELSE WellFormed(mreq) /\ NamesNobody(mreq.token)

(* A request refused unasked is told to get a token exactly when that would *)
(* help.  A request the profile does not know, or that lacks its target, is *)
(* a 403 whoever makes it, a caller without a principal included: the       *)
(* assembly looks at the principal last (mcp.go:311-342, middleware.go:     *)
(* 227-239).                                                                *)
OnlyUnauthenticatedGet401 ==
    RefusedUnasked => response.status = IF Unauthenticated THEN 401 ELSE 403

(* A 401, and only a 401, sends a caller through the discovery, and both    *)
(* refusals say where it begins: a 401 to a caller whose token is good, or  *)
(* whose request no token would mend, would send it round for ever          *)
(* (middleware.go:227-239, 266-270).                                        *)
UnauthenticatedStartDiscovery ==
    /\ OnlyUnauthenticatedGet401
    /\ RefusedUnasked =>
            Parsed(response.headers[1]).metadata = stripControl(ResourceMetadata)
=============================================================================
