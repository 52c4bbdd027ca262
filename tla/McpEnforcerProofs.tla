--------------------------- MODULE McpEnforcerProofs ---------------------------
(***************************************************************************)
(* The Enforcer fails closed, asks about the call in hand, and its denies   *)
(* are errors with the status and the challenge the first of them named,    *)
(* for every extractor, Authorizer, wrapped handler and responder of the    *)
(* model, with whatever statuses, challenges and requests.                  *)
(***************************************************************************)
EXTENDS McpEnforcer, McpChallengeProofs

(* The challenges that reach a responder, and what a body can consist of.   *)
Clamped(c) == [c EXCEPT !.status = clampDenyStatus(@)]

DeniedWith ==
    {Clamped(c) :
        c \in {insufficient, unauthorized}
                \cup {challengeFromResponse(m) : m \in DenyContexts}}

Errors == {"ErrNoToken", "other", "ErrUnknownMethod", "ErrMissingTarget", "ErrMissingSubject",
           "pdp", "", "panic"}

BodySet == {<<"next">>} \cup {ErrorCode(c) : c \in DeniedWith}

Responses ==
    [status : Nat, headers : {<<>>} \cup {<<Rendered(c)>> : c \in DeniedWith},
     bodies : Seq(BodySet)]

Phases == {"idle", "extract", "authorize", "next", "deny", "done"}

(* What holds of a request by the time it is in each phase.                 *)
Stages ==
    /\ phase \in Phases
    /\ phase \in {"idle", "extract"} => asked = <<>> /\ ~entered /\ denials = <<>>
    /\ phase = "authorize" =>
            asked = <<EvaluationRequest(mreq)>> /\ ~entered /\ denials = <<>>
    /\ phase = "next" => entered /\ denials = <<>>
    /\ phase = "deny" => denials # <<>>
    /\ phase \in {"idle", "extract", "authorize"} => response = Unanswered
    /\ denials \in Seq([challenge : DeniedWith, err : Errors])

Enters == entered => asked = <<EvaluationRequest(mreq)>> /\ answer.decision /\ answer.err = ""

(* Who wrote the status that is sent: a deny, or the wrapped handler first. *)
WrittenBy ==
    /\ response \in Responses
    /\ response.status = 0 => response = Unanswered
    /\ response.status # 0 =>
        \/ response.status \in 400 .. 599 /\ response.headers # <<>> /\ denials # <<>>
        \/ entered /\ response.bodies # <<>> /\ response.bodies[1] = <<"next">>
        \/ entered /\ denials = <<>> /\ phase = "done"

EnforcerInv == Stages /\ Enters /\ WrittenBy

(***************************************************************************)
(* Challenges and responses.                                                *)
(***************************************************************************)
(* A PDP names an int.                                                      *)
LEMMA StatusType == \A c \in Challenges : c.status \in Int
<1>1. \A c \in AnyChallenge : c.status \in Int
  BY DEF AnyChallenge
<1> QED
  BY <1>1, EnforcerAssumption

LEMMA ClampedIsError == \A n \in Int : clampDenyStatus(n) \in 400 .. 599
  BY DEF clampDenyStatus

HasStatus(c) == "status" \in DOMAIN c /\ c.status \in Int

LEMMA InsufficientHasStatus == HasStatus(insufficient)
<1> DEFINE n == 403
           b == [NoChallenge EXCEPT !.scheme = <<"Bearer">>, !.error = <<"insufficient_scope">>,
                                    !.scope = Scope, !.metadata = ResourceMetadata, !.status = n]
<1>1. n \in Int
  OBVIOUS
<1> HIDE DEF n
<1>2. HasStatus(b)
  BY <1>1 DEF NoChallenge, HasStatus
<1> HIDE DEF b
<1>3. HasStatus([b EXCEPT !.realm = Realm])
  BY <1>2 DEF HasStatus
<1>4. insufficient = [b EXCEPT !.realm = Realm]
  BY DEF insufficient, InsufficientScope, b, n
<1> QED
  BY <1>3, <1>4

LEMMA UnauthorizedHasStatus == HasStatus(unauthorized)
<1> DEFINE n == 401
           b == [NoChallenge EXCEPT !.scheme = <<"Bearer">>, !.metadata = ResourceMetadata,
                                    !.status = n]
<1>1. n \in Int
  OBVIOUS
<1> HIDE DEF n
<1>2. HasStatus(b)
  BY <1>1 DEF NoChallenge, HasStatus
<1> HIDE DEF b
<1>3. HasStatus([b EXCEPT !.scope = Scope, !.realm = Realm])
  BY <1>2 DEF HasStatus
<1>4. unauthorized = [b EXCEPT !.scope = Scope, !.realm = Realm]
  BY DEF unauthorized, Unauthorized, b, n
<1> QED
  BY <1>3, <1>4

(* Whatever a PDP puts in the context of a deny, it ends as a challenge.    *)
LEMMA ResponseHasStatus ==
    ASSUME NEW m \in DenyContexts
    PROVE  HasStatus(challengeFromResponse(m))
<1>1. CASE ~CarriesChallenge(m)
  BY <1>1, InsufficientHasStatus DEF challengeFromResponse
<1>2. CASE CarriesChallenge(m)
  <2> DEFINE w == m.auth
             header == IF w = Absent \/ TrimSpace(w.header) = <<>> THEN NoChallenge
                       ELSE Parsed(w.header)
             fields == IF w = Absent THEN header
                       ELSE [header EXCEPT !.scope = Or(w.scope, @), !.metadata = Or(w.metadata, @),
                                           !.realm = Or(w.realm, @)]
             n == IF IntField(m.status) THEN m.status.n ELSE fields.status
             c == [fields EXCEPT !.error = Or(m.error, @), !.status = n]
             k == IF c.status = 0 THEN 403 ELSE c.status
  <2>1. HasStatus(NoChallenge) /\ \A h : HasStatus(Parsed(h))
    BY DEF NoChallenge, Parsed, HasStatus
  <2>2. HasStatus(header)
    BY <2>1
  <2> HIDE DEF header
  <2>3. HasStatus(fields)
    BY <2>2 DEF HasStatus
  <2> HIDE DEF fields
  <2>4. n \in Int
    <3>1. m # Absent
      BY <1>2 DEF CarriesChallenge
    <3>2. ASSUME NEW d \in Challenges PROVE DenyContext(d).status.n \in Int
      BY StatusType DEF DenyContext
    <3>3. ASSUME NEW d \in Challenges PROVE OverTheWire(DenyContext(d)).status.n \in Int
      BY StatusType DEF DenyContext, OverTheWire
    <3>4. m.status.n \in Int
      BY <3>1, <3>2, <3>3, EnforcerAssumption DEF DenyContexts
    <3> QED
      BY <3>4, <2>3 DEF HasStatus
  <2> HIDE DEF n
  <2>5. HasStatus(c)
    BY <2>3, <2>4 DEF HasStatus
  <2>6. ChallengeFromDenyContext(m) = c
    BY DEF ChallengeFromDenyContext, c, n, fields, header
  <2> HIDE DEF c
  <2>7. k \in Int
    BY <2>5 DEF HasStatus
  <2> HIDE DEF k
  <2>8. challengeFromResponse(m)
            = [c EXCEPT !.status = k, !.metadata = Or(@, ResourceMetadata),
                        !.scope = Or(@, Scope), !.realm = Or(@, Realm)]
    BY <1>2, <2>6 DEF challengeFromResponse, k
  <2> QED
    BY <2>5, <2>7, <2>8 DEF HasStatus
<1> QED
  BY <1>1, <1>2

(* A challenge that reaches the responder has an error status.              *)
LEMMA DeniedWithErrors ==
    /\ Clamped(insufficient) \in DeniedWith /\ Clamped(unauthorized) \in DeniedWith
    /\ \A m \in DenyContexts : Clamped(challengeFromResponse(m)) \in DeniedWith
    /\ \A c \in DeniedWith : clampDenyStatus(c.status) \in 400 .. 599
<1>1. ASSUME NEW c, HasStatus(c)
      PROVE  clampDenyStatus(Clamped(c).status) \in 400 .. 599
  <2>1. clampDenyStatus(c.status) \in 400 .. 599
    BY <1>1, ClampedIsError DEF HasStatus
  <2>2. Clamped(c).status = clampDenyStatus(c.status)
    BY <1>1 DEF HasStatus, Clamped
  <2>3. Clamped(c).status \in Int
    BY <2>1, <2>2
  <2> QED
    BY <2>3, ClampedIsError
<1>2. \A c \in {insufficient, unauthorized} \cup {challengeFromResponse(m) : m \in DenyContexts} :
        HasStatus(c)
  BY InsufficientHasStatus, UnauthorizedHasStatus, ResponseHasStatus
<1> QED
  BY <1>1, <1>2 DEF DeniedWith

(***************************************************************************)
(* Writing and denying.                                                     *)
(***************************************************************************)
LEMMA WrittenTwice ==
    ASSUME NEW rep \in Responses, NEW status \in Nat \ {0}, NEW body \in BodySet,
           NEW headers \in {<<>>} \cup {<<Rendered(c)>> : c \in DeniedWith}
    PROVE  /\ Written(rep, status, headers, body) \in Responses
           /\ Written(rep, status, headers, body).status # 0
           /\ rep.status = 0 => Written(rep, status, headers, body)
                                    = [status |-> status, headers |-> headers, bodies |-> <<body>>]
           /\ rep.status # 0 =>
                /\ Written(rep, status, headers, body).status = rep.status
                /\ Written(rep, status, headers, body).headers = rep.headers
                /\ rep.bodies # <<>> => /\ Written(rep, status, headers, body).bodies # <<>>
                                        /\ Written(rep, status, headers, body).bodies[1] = rep.bodies[1]
<1> DEFINE b == Append(rep.bodies, body)
<1>1. /\ b \in Seq(BodySet) /\ b # <<>>
      /\ rep.bodies # <<>> => b[1] = rep.bodies[1]
  BY DEF Responses
<1> HIDE DEF b
<1>2. CASE rep.status = 0
  BY <1>2 DEF Written, Responses
<1>3. CASE rep.status # 0
  <2>1. Written(rep, status, headers, body) = [rep EXCEPT !.bodies = b]
    BY <1>3 DEF Written, b
  <2> QED
    BY <1>1, <1>3, <2>1 DEF Responses
<1> QED
  BY <1>2, <1>3

(* A deny that begins: the responder is given an error challenge.           *)
LEMMA DenyBegins ==
    ASSUME EnforcerInv, NEW c, Clamped(c) \in DeniedWith, NEW err \in Errors, Deny(c, err)
    PROVE  /\ phase' = "deny" /\ denials' # <<>>
           /\ denials' \in Seq([challenge : DeniedWith, err : Errors])
<1> DEFINE d == [challenge |-> Clamped(c), err |-> err]
<1>1. d \in [challenge : DeniedWith, err : Errors]
  OBVIOUS
<1>2. phase' = "deny" /\ denials' = Append(denials, d)
  BY DEF Deny, Clamped
<1>3. denials \in Seq([challenge : DeniedWith, err : Errors])
  BY DEF EnforcerInv, Stages
<1> HIDE DEF d
<1> QED
  BY <1>1, <1>2, <1>3

LEMMA UnansweredIsResponse == Unanswered \in Responses /\ Unanswered.status = 0
<1> DEFINE n == 0
<1>1. n \in Nat
  OBVIOUS
<1>2. Unanswered = [status |-> n, headers |-> <<>>, bodies |-> <<>>]
  BY DEF Unanswered
<1> HIDE DEF n
<1>3. Unanswered \in Responses
  BY <1>1, <1>2 DEF Responses
<1> QED
  BY <1>2, <1>3 DEF n

(* As long as nothing is written, no one wrote it.                          *)
LEMMA UnansweredWrittenBy ==
    ASSUME response' = Unanswered
    PROVE  WrittenBy'
  BY UnansweredIsResponse DEF WrittenBy

(* A panic in a handler that has entered nothing more than it had.          *)
LEMMA PanicKeepsInv ==
    ASSUME EnforcerInv, phase \in {"extract", "authorize", "next"}, Panicked,
           UNCHANGED <<mreq, asked, answer, entered, response>>
    PROVE  EnforcerInv'
<1>1. /\ \/ phase' = "done" /\ denials' = denials
         \/ phase' = "deny" /\ denials' # <<>>
      /\ denials' \in Seq([challenge : DeniedWith, err : Errors])
  BY DenyBegins, DeniedWithErrors DEF Panicked, Errors, EnforcerInv, Stages
<1>2. Stages'
  BY <1>1 DEF EnforcerInv, Stages, Phases, Errors
<1>3. WrittenBy'
  BY <1>1 DEF EnforcerInv, Stages, WrittenBy
<1> QED
  BY <1>2, <1>3 DEF EnforcerInv, Enters

(***************************************************************************)
(* Every step keeps the invariant.                                          *)
(***************************************************************************)
LEMMA ExtractKeepsInv ==
    ASSUME EnforcerInv, ExtractorFails \/ \E q \in Requests : Extracted(q)
    PROVE  EnforcerInv'
<1>1. CASE ExtractorFails
  <2>1. CASE \E err \in {"ErrNoToken", "other"} :
                Deny(challengeForError(err), err) /\ UNCHANGED recovering
    <3>1. PICK err \in Errors : Deny(challengeForError(err), err)
      BY <2>1 DEF Errors
    <3>2. Clamped(challengeForError(err)) \in DeniedWith
      BY DeniedWithErrors DEF challengeForError
    <3>3. /\ phase' = "deny" /\ denials' # <<>>
          /\ denials' \in Seq([challenge : DeniedWith, err : Errors])
      BY <3>1, <3>2, DenyBegins
    <3>4. UNCHANGED <<mreq, asked, answer, entered, response>> /\ response = Unanswered
      BY <1>1 DEF ExtractorFails, EnforcerInv, Stages
    <3>5. WrittenBy'
      BY <3>4, UnansweredWrittenBy
    <3> QED
      BY <3>3, <3>4, <3>5 DEF EnforcerInv, Stages, Enters, Phases
  <2>2. CASE Panicked
    BY <1>1, <2>2, PanicKeepsInv DEF ExtractorFails
  <2> QED
    BY <1>1, <2>1, <2>2 DEF ExtractorFails
<1>2. ASSUME NEW q \in Requests, Extracted(q)
      PROVE  EnforcerInv'
  <2>1. /\ phase = "extract" /\ mreq' = q
        /\ UNCHANGED <<answer, recovering, entered, response>>
        /\ asked = <<>> /\ ~entered /\ denials = <<>> /\ response = Unanswered
    BY <1>2 DEF Extracted, EnforcerInv, Stages
  <2>2. CASE AssemblyError(q) # ""
    <3>1. AssemblyError(q) \in Errors
      BY DEF AssemblyError, Errors
    <3>2. Clamped(challengeForError(AssemblyError(q))) \in DeniedWith
      BY DeniedWithErrors DEF challengeForError
    <3>3. Deny(challengeForError(AssemblyError(q)), AssemblyError(q)) /\ asked' = asked
      BY <1>2, <2>2 DEF Extracted
    <3>4. /\ phase' = "deny" /\ denials' # <<>>
          /\ denials' \in Seq([challenge : DeniedWith, err : Errors])
      BY <3>1, <3>2, <3>3, DenyBegins
    <3>5. WrittenBy'
      BY <2>1, UnansweredWrittenBy
    <3> QED
      BY <2>1, <3>3, <3>4, <3>5 DEF EnforcerInv, Stages, Enters, Phases
  <2>3. CASE AssemblyError(q) = ""
    <3>1. /\ phase' = "authorize" /\ asked' = Append(asked, EvaluationRequest(q))
          /\ denials' = denials
      BY <1>2, <2>3 DEF Extracted
    <3>2. asked' = <<EvaluationRequest(mreq')>>
      BY <2>1, <3>1 DEF EvaluationRequest
    <3>3. WrittenBy'
      BY <2>1, UnansweredWrittenBy
    <3> QED
      BY <2>1, <3>1, <3>2, <3>3 DEF EnforcerInv, Stages, Enters, Phases
  <2> QED
    BY <2>2, <2>3
<1> QED
  BY <1>1, <1>2

LEMMA AuthorizeKeepsInv ==
    ASSUME EnforcerInv, AuthorizerPanics \/ \E a \in Answers : Authorized(a)
    PROVE  EnforcerInv'
<1>1. CASE AuthorizerPanics
  BY <1>1, PanicKeepsInv DEF AuthorizerPanics
<1>2. ASSUME NEW a \in Answers, Authorized(a)
      PROVE  EnforcerInv'
  <2>1. /\ phase = "authorize" /\ answer' = a
        /\ UNCHANGED <<mreq, asked, recovering, response>>
        /\ asked = <<EvaluationRequest(mreq)>> /\ ~entered /\ denials = <<>>
        /\ response = Unanswered
    BY <1>2 DEF Authorized, EnforcerInv, Stages
  <2>2. /\ a.err \in {"", "pdp"} /\ a.decision \in BOOLEAN
        /\ ~a.decision => a.mcp \in DenyContexts
    <3>1. CASE a = [decision |-> TRUE, mcp |-> Absent, err |-> ""]
      BY <3>1
    <3>2. CASE a = [decision |-> TRUE, mcp |-> Absent, err |-> "pdp"]
      BY <3>2
    <3>3. CASE a \in [decision : {FALSE}, mcp : DenyContexts, err : {"", "pdp"}]
      BY <3>3
    <3> QED
      BY <3>1, <3>2, <3>3 DEF Answers
  <2>3. CASE a.err # "" \/ ~a.decision
    <3>1. PICK c : Clamped(c) \in DeniedWith /\ Deny(c, a.err)
      <4>1. CASE a.err # ""
        BY <1>2, <4>1, DeniedWithErrors DEF Authorized
      <4>2. CASE a.err = "" /\ ~a.decision
        <5>1. a.mcp \in DenyContexts
          BY <2>2, <4>2
        <5>2. Deny(challengeFromResponse(a.mcp), a.err)
          BY <1>2, <4>2 DEF Authorized
        <5> QED
          BY <5>1, <5>2, DeniedWithErrors
      <4> QED
        BY <2>3, <4>1, <4>2
    <3>2. entered' = entered
      BY <1>2, <2>3 DEF Authorized
    <3>3. /\ phase' = "deny" /\ denials' # <<>>
          /\ denials' \in Seq([challenge : DeniedWith, err : Errors])
      BY <2>2, <3>1, DenyBegins DEF Errors
    <3>4. WrittenBy'
      BY <2>1, UnansweredWrittenBy
    <3> QED
      BY <2>1, <3>2, <3>3, <3>4 DEF EnforcerInv, Stages, Enters, Phases
  <2>4. CASE a.err = "" /\ a.decision
    <3>1. phase' = "next" /\ entered' = TRUE /\ denials' = denials
      BY <1>2, <2>4 DEF Authorized
    <3>2. WrittenBy'
      BY <2>1, UnansweredWrittenBy
    <3> QED
      BY <2>1, <2>4, <3>1, <3>2 DEF EnforcerInv, Stages, Enters, Phases
  <2> QED
    BY <2>2, <2>3, <2>4
<1> QED
  BY <1>1, <1>2

LEMMA NextKeepsInv ==
    ASSUME EnforcerInv, NextReturns \/ NextPanics \/ \E status \in Statuses : NextWrites(status)
    PROVE  EnforcerInv'
<1>1. phase = "next" /\ entered /\ denials = <<>> /\ response \in Responses
  BY DEF NextReturns, NextPanics, NextWrites, EnforcerInv, Stages, WrittenBy
<1>2. ASSUME NEW status \in Statuses, NextWrites(status)
      PROVE  EnforcerInv'
  <2> DEFINE rep == Written(response, status, <<>>, <<"next">>)
  <2>1. response' = rep /\ UNCHANGED <<phase, mreq, asked, answer, denials, recovering, entered>>
    BY <1>2 DEF NextWrites
  <2>2. status \in Nat \ {0} /\ <<"next">> \in BodySet
    BY EnforcerAssumption DEF BodySet
  <2> DEFINE none == <<>>
             body == <<"next">>
  <2> HIDE DEF rep, body
  <2>3. none \in {<<>>} \cup {<<Rendered(c)>> : c \in DeniedWith} /\ body \in BodySet
    BY <2>2 DEF body
  <2> HIDE DEF none
  <2>4. rep = Written(response, status, none, body)
    BY DEF rep, none, body
  <2>5. /\ rep \in Responses /\ rep.status # 0
        /\ response.status = 0 => rep = [status |-> status, headers |-> none, bodies |-> <<body>>]
        /\ response.status # 0 =>
              /\ rep.status = response.status /\ rep.headers = response.headers
              /\ response.bodies # <<>> => rep.bodies # <<>> /\ rep.bodies[1] = response.bodies[1]
    BY <1>1, <2>2, <2>3, <2>4, WrittenTwice
  <2>6. rep.bodies # <<>> /\ rep.bodies[1] = <<"next">>
    BY <1>1, <2>5 DEF EnforcerInv, WrittenBy, body
  <2> QED
    BY <1>1, <2>1, <2>5, <2>6 DEF EnforcerInv, Stages, Enters, WrittenBy
<1>3. CASE NextReturns
  <2>1. phase' = "done" /\ UNCHANGED <<mreq, asked, answer, denials, recovering, entered>>
    BY <1>3 DEF NextReturns
  <2>2. response' \in Responses /\ response'.status # 0
    <3>1. CASE response.status = 0
      <4> DEFINE n == 200
      <4>1. n \in Nat /\ n # 0
        OBVIOUS
      <4>2. response' = [response EXCEPT !.status = n]
        BY <1>3, <3>1 DEF NextReturns
      <4> HIDE DEF n
      <4> QED
        BY <1>1, <4>1, <4>2 DEF Responses
    <3>2. CASE response.status # 0
      BY <1>1, <1>3, <3>2 DEF NextReturns
    <3> QED
      BY <3>1, <3>2
  <2> QED
    BY <1>1, <2>1, <2>2 DEF EnforcerInv, Stages, Enters, WrittenBy, Phases
<1>4. CASE NextPanics
  BY <1>1, <1>4, PanicKeepsInv DEF NextPanics
<1> QED
  BY <1>2, <1>3, <1>4

(* What the responder writes comes after what the wrapped handler wrote, or *)
(* is an error itself.                                                      *)
LEMMA RespondKeepsInv ==
    ASSUME EnforcerInv, Respond
    PROVE  EnforcerInv'
<1> DEFINE c == Current.challenge
           rep == Denial(c)
<1>1. /\ phase = "deny" /\ denials # <<>> /\ response \in Responses
      /\ UNCHANGED <<mreq, asked, answer, entered>>
  BY DEF Respond, EnforcerInv, Stages, WrittenBy
<1>2. c \in DeniedWith
  <2>1. denials \in Seq([challenge : DeniedWith, err : Errors]) /\ denials # <<>>
    BY <1>1 DEF EnforcerInv, Stages
  <2>2. Len(denials) \in 1 .. Len(denials)
    BY <2>1, EmptySeq, LenProperties
  <2>3. Current \in [challenge : DeniedWith, err : Errors]
    BY <2>1, <2>2, ElementOfSeq DEF Current
  <2> QED
    BY <2>3
<1> HIDE DEF c
<1>3. clampDenyStatus(c.status) \in 400 .. 599 /\ ErrorCode(c) \in BodySet
  BY <1>2, DeniedWithErrors DEF BodySet
<1>4. rep = Written(response, clampDenyStatus(c.status), <<Rendered(c)>>, ErrorCode(c))
  BY DEF Denial
<1> HIDE DEF rep
<1> DEFINE n == clampDenyStatus(c.status)
           h == <<Rendered(c)>>
           b == ErrorCode(c)
<1>9. /\ n \in Nat \ {0} /\ n \in 400 .. 599 /\ b \in BodySet /\ h # <<>>
      /\ h \in {<<>>} \cup {<<Rendered(d)>> : d \in DeniedWith}
      /\ rep = Written(response, n, h, b)
  BY <1>2, <1>3, <1>4
<1> HIDE DEF n, h, b
<1>5. /\ rep \in Responses /\ rep.status # 0
      /\ response.status = 0 => rep = [status |-> n, headers |-> h, bodies |-> <<b>>]
      /\ response.status # 0 =>
            /\ rep.status = response.status /\ rep.headers = response.headers
            /\ response.bodies # <<>> => rep.bodies # <<>> /\ rep.bodies[1] = response.bodies[1]
  BY <1>1, <1>9, WrittenTwice
<1>6. \/ rep.status \in 400 .. 599 /\ rep.headers # <<>>
      \/ entered /\ rep.bodies # <<>> /\ rep.bodies[1] = <<"next">>
  <2>1. CASE response.status = 0
    BY <1>9, <1>5, <2>1
  <2>2. CASE response.status # 0
    BY <1>1, <1>5, <2>2 DEF EnforcerInv, WrittenBy
  <2> QED
    BY <2>1, <2>2
<1>7. /\ phase' \in {"deny", "done"} /\ denials' # <<>>
      /\ denials' \in Seq([challenge : DeniedWith, err : Errors])
      /\ response' \in {response, rep}
  <2>1. CASE phase' = "done" /\ response' = rep /\ UNCHANGED <<denials, recovering>>
    BY <1>1, <2>1 DEF EnforcerInv, Stages
  <2>2. CASE Panicked /\ response' \in {response, rep}
    BY <1>1, <2>2, DenyBegins, DeniedWithErrors DEF Panicked, Errors, EnforcerInv, Stages
  <2> QED
    BY <2>1, <2>2 DEF Respond, rep, c
<1>8. WrittenBy'
  <2>1. CASE response' = rep
    BY <1>1, <1>5, <1>6, <1>7, <2>1 DEF WrittenBy
  <2>2. CASE response' = response
    BY <1>1, <1>7, <2>2 DEF EnforcerInv, WrittenBy
  <2> QED
    BY <1>7, <2>1, <2>2
<1> QED
  BY <1>1, <1>7, <1>8 DEF EnforcerInv, Stages, Enters, Phases

LEMMA EnforcerInvHolds == EnforcerSpec => []EnforcerInv
<1>1. EnforcerInit => EnforcerInv
  BY UnansweredIsResponse
     DEF EnforcerInit, EnforcerInv, Stages, Enters, WrittenBy, Phases
<1>2. EnforcerInv /\ [EnforcerNext]_enforcerVars => EnforcerInv'
  <2> SUFFICES ASSUME EnforcerInv, [EnforcerNext]_enforcerVars
               PROVE  EnforcerInv'
    OBVIOUS
  <2>1. CASE Receive
    BY <2>1 DEF Receive, EnforcerInv, Stages, Enters, WrittenBy, Phases
  <2>2. CASE ExtractorFails \/ \E q \in Requests : Extracted(q)
    BY <2>2, ExtractKeepsInv
  <2>3. CASE AuthorizerPanics \/ \E a \in Answers : Authorized(a)
    BY <2>3, AuthorizeKeepsInv
  <2>4. CASE NextReturns \/ NextPanics \/ \E status \in Statuses : NextWrites(status)
    BY <2>4, NextKeepsInv
  <2>5. CASE Respond
    BY <2>5, RespondKeepsInv
  <2>6. CASE Forget
    <3>1. WrittenBy'
      BY <2>6, UnansweredWrittenBy DEF Forget
    <3> QED
      BY <2>6, <3>1, EmptySeq DEF Forget, EnforcerInv, Stages, Enters, Phases
  <2>7. CASE UNCHANGED enforcerVars
    BY <2>7 DEF enforcerVars, EnforcerInv, Stages, Enters, WrittenBy
  <2> QED
    BY <2>1, <2>2, <2>3, <2>4, <2>5, <2>6, <2>7 DEF EnforcerNext
<1> QED
  BY <1>1, <1>2, PTL DEF EnforcerSpec

(***************************************************************************)
(* What the Authorizer is asked.                                            *)
(***************************************************************************)
(* What the Authorizer was asked is the assembly of the request in hand.    *)
AskedAbout ==
    /\ phase \in {"idle", "extract"} => asked = <<>>
    /\ asked # <<>> => asked = <<EvaluationRequest(mreq)>> /\ AssemblyError(mreq) = ""

(* Assembly asks once, of the request that was extracted.                   *)
LEMMA AskedAboutHolds == EnforcerSpec => []AskedAbout
<1>1. EnforcerInit => AskedAbout
  BY DEF EnforcerInit, AskedAbout
<1>2. AskedAbout /\ [EnforcerNext]_enforcerVars => AskedAbout'
  <2> SUFFICES ASSUME AskedAbout, [EnforcerNext]_enforcerVars
               PROVE  AskedAbout'
    OBVIOUS
  <2>1. ASSUME UNCHANGED <<mreq, asked>>, phase' \notin {"idle", "extract"} \/ phase = "idle"
                                           \/ UNCHANGED phase
        PROVE  AskedAbout'
    BY <2>1 DEF AskedAbout
  <2>2. ASSUME NEW c, NEW err, Deny(c, err)
        PROVE  phase' = "deny"
    BY <2>2 DEF Deny
  <2>3. Panicked => phase' \in {"deny", "done"}
    BY <2>2 DEF Panicked
  <2>4. CASE Receive
    BY <2>1, <2>4 DEF Receive
  <2>5. CASE ExtractorFails
    BY <2>1, <2>2, <2>3, <2>5 DEF ExtractorFails
  <2>6. ASSUME NEW q \in Requests, Extracted(q)
        PROVE  AskedAbout'
    <3>1. phase = "extract" /\ mreq' = q /\ asked = <<>>
      BY <2>6 DEF Extracted, AskedAbout
    <3>2. CASE AssemblyError(q) # ""
      BY <2>2, <2>6, <3>1, <3>2 DEF Extracted, AskedAbout
    <3>3. CASE AssemblyError(q) = ""
      <4>1. phase' = "authorize" /\ asked' = <<EvaluationRequest(q)>>
        <5>1. phase' = "authorize" /\ asked' = Append(asked, EvaluationRequest(q))
          BY <2>6, <3>3 DEF Extracted
        <5> QED
          BY <3>1, <5>1
      <4>2. (AssemblyError(mreq) = "")' /\ EvaluationRequest(mreq)' = EvaluationRequest(q)
        BY <3>1, <3>3 DEF AssemblyError, EvaluationRequest
      <4> QED
        BY <4>1, <4>2 DEF AskedAbout
    <3> QED
      BY <3>2, <3>3
  <2>7. ASSUME NEW a \in Answers, Authorized(a)
        PROVE  AskedAbout'
    BY <2>1, <2>2, <2>7 DEF Authorized
  <2>8. CASE AuthorizerPanics \/ NextPanics
    BY <2>1, <2>3, <2>8 DEF AuthorizerPanics, NextPanics
  <2>9. CASE NextReturns \/ \E status \in Statuses : NextWrites(status)
    BY <2>1, <2>9 DEF NextReturns, NextWrites
  <2>10. CASE Respond
    BY <2>1, <2>3, <2>10 DEF Respond
  <2>11. CASE Forget
    BY <2>11 DEF Forget, AskedAbout
  <2>12. CASE UNCHANGED enforcerVars
    BY <2>1, <2>12 DEF enforcerVars
  <2> QED
    BY <2>4, <2>5, <2>6, <2>7, <2>8, <2>9, <2>10, <2>11, <2>12 DEF EnforcerNext
<1> QED
  BY <1>1, <1>2, PTL DEF EnforcerSpec

(* Equal claims are equal claim by claim.                                   *)
LEMMA ClaimsSeparate ==
    ASSUME NEW s, NEW t, Claims(s) = Claims(t),
           NEW k \in {"client", "scopes", "actor", "audience"}
    PROVE  s[k] = t[k]
<1>1. ASSUME NEW u, NEW v
      PROVE  <<k, v>> \in Claims(u) <=> (u[k] # "" /\ v = u[k])
  BY DEF Claims
<1>2. s[k] # "" => t[k] = s[k]
  BY <1>1
<1>3. t[k] # "" => t[k] = s[k]
  BY <1>1
<1> QED
  BY <1>2, <1>3

(* The subject of an evaluation request tells the principal, the client and *)
(* the actor apart.                                                         *)
LEMMA SubjectsSeparate ==
    ASSUME NEW s, NEW t, SubjectFromToken(s) = SubjectFromToken(t)
    PROVE  s.subject = t.subject /\ s.client = t.client /\ s.actor = t.actor
<1>1. ASSUME NEW u
      PROVE  /\ SubjectFromToken(u).props = Claims(u)
             /\ u.actor # "" => SubjectFromToken(u) = [type |-> "agent", id |-> u.subject, props |-> Claims(u)]
             /\ u.actor = "" /\ u.subject = "" /\ u.client # "" =>
                    SubjectFromToken(u) = [type |-> "client", id |-> u.client, props |-> Claims(u)]
             /\ u.actor = "" /\ ~(u.subject = "" /\ u.client # "") =>
                    SubjectFromToken(u) = [type |-> "user", id |-> u.subject, props |-> Claims(u)]
  BY DEF SubjectFromToken
<1>2. Claims(s) = Claims(t)
  BY <1>1
<1>3. s["client"] = t["client"] /\ s["actor"] = t["actor"]
  BY <1>2, ClaimsSeparate
<1>4. s.client = t.client /\ s.actor = t.actor
  BY <1>3
<1>5. s.subject = t.subject
  <2>1. CASE s.actor # ""
    <3>1. ASSUME NEW u, u.actor # "" PROVE SubjectFromToken(u).id = u.subject
      BY <3>1 DEF SubjectFromToken
    <3> QED
      BY <1>4, <2>1, <3>1
  <2>2. CASE s.actor = ""
    <3>1. ASSUME NEW u, u.actor = ""
          PROVE  /\ SubjectFromToken(u).type \in {"client", "user"}
                 /\ SubjectFromToken(u).type = "client" <=> (u.subject = "" /\ u.client # "")
                 /\ SubjectFromToken(u).type = "user" => SubjectFromToken(u).id = u.subject
      <4>1. CASE u.subject = "" /\ u.client # ""
        BY <3>1, <4>1 DEF SubjectFromToken
      <4>2. CASE ~ (u.subject = "" /\ u.client # "")
        BY <3>1, <4>2 DEF SubjectFromToken
      <4> QED
        BY <4>1, <4>2
    <3> QED
      BY <1>4, <2>2, <3>1
  <2> QED
    BY <2>1, <2>2
<1> QED
  BY <1>4, <1>5

(* Two requests that are assembled without an error and ask about the same  *)
(* subject, action and resource are about the same call.                    *)
LEMMA AssemblySeparates ==
    ASSUME NEW p, NEW q, AssemblyError(p) = "", AssemblyError(q) = "",
           \A k \in {"subject", "action", "resource"} :
              EvaluationRequest(p)[k] = EvaluationRequest(q)[k]
    PROVE  SameCall(p, q)
<1>1. /\ SubjectFromToken(p.token) = SubjectFromToken(q.token)
      /\ p.method = q.method /\ Target(p) = Target(q)
  <2>1. ASSUME NEW r
        PROVE  /\ EvaluationRequest(r)["subject"] = SubjectFromToken(r.token)
               /\ EvaluationRequest(r)["action"] = r.method
               /\ EvaluationRequest(r)["resource"] = Target(r)
    BY DEF EvaluationRequest
  <2> QED
    BY <2>1
<1>2. p.method \in Methods
  BY DEF AssemblyError
<1>3. ASSUME NEW r
      PROVE  /\ r.method = "tools/call" => Target(r).id = r.tool /\ Target(r).server = r.server
             /\ r.method = "resources/read" => Target(r).id = r.uri
             /\ r.method = "prompts/get" => Target(r).id = r.prompt /\ Target(r).server = r.server
             /\ r.method \in {"tools/list", "resources/list", "prompts/list"} =>
                    Target(r).id = r.server
  BY DEF Target
<1>4. \A k \in {"subject", "client", "actor"} : p.token[k] = q.token[k]
  <2>1. /\ p.token.subject = q.token.subject /\ p.token.client = q.token.client
        /\ p.token.actor = q.token.actor
    BY <1>1, SubjectsSeparate
  <2> QED
    BY <2>1
<1> QED
  BY <1>1, <1>3, <1>4 DEF SameCall

(***************************************************************************)
(* The first deny, and what of it is sent.                                  *)
(***************************************************************************)
DenyInfo(c, err) == [challenge |-> Clamped(c), err |-> err]

(* Who denied, and with what: the extractor, the assembly, the PDP.         *)
DeniedByExtractor ==
    /\ answer = Absent /\ mreq = Absent
    /\ \E err \in {"ErrNoToken", "other"} : denials = <<DenyInfo(challengeForError(err), err)>>

DeniedByAssembly ==
    /\ answer = Absent /\ mreq \in Requests
    /\ denials = <<DenyInfo(challengeForError(AssemblyError(mreq)), AssemblyError(mreq))>>

DeniedByAnswer ==
    /\ answer \in Answers
    /\ answer.err = "" => denials = <<DenyInfo(challengeFromResponse(answer.mcp), "")>>

DeniedBy == DeniedByExtractor \/ DeniedByAssembly \/ DeniedByAnswer

(* As long as nothing has panicked, a denied request has one deny, by one   *)
(* of the three, and its status and challenge are what the client sees.     *)
FirstDeny ==
    /\ phase \in {"idle", "extract"} => mreq = Absent
    /\ phase \in {"idle", "extract", "authorize"} => answer = Absent
    /\ phase = "done" => recovering \/ denials # <<>> \/ entered
    /\ ~recovering /\ denials # <<>> =>
          /\ DeniedBy
          /\ phase = "deny" => response = Unanswered
          /\ phase = "done" =>
                /\ response.status = clampDenyStatus(Current.challenge.status)
                /\ response.headers = <<Rendered(Current.challenge)>>

(* Nothing is claimed of a request on whose way something panicked.         *)
LEMMA PanickedKeepsFirstDeny ==
    ASSUME Panicked
    PROVE  FirstDeny'
<1>1. recovering' /\ phase' \in {"deny", "done"}
  <2>1. CASE recovering
    BY <2>1 DEF Panicked
  <2>2. CASE ~recovering
    BY <2>2 DEF Panicked, Deny
  <2> QED
    BY <2>1, <2>2
<1> QED
  BY <1>1 DEF FirstDeny

(* Where nothing was denied before, what Deny records is the first deny.    *)
LEMMA DenyIsFirst ==
    ASSUME denials = <<>>, NEW c, NEW err, Deny(c, err)
    PROVE  phase' = "deny" /\ denials' = <<DenyInfo(c, err)>>
<1> DEFINE d == DenyInfo(c, err)
<1>1. phase' = "deny" /\ denials' = Append(denials, d)
  BY DEF Deny, DenyInfo, Clamped
<1> HIDE DEF d
<1>2. denials' = <<d>>
  BY <1>1
<1> QED
  BY <1>1, <1>2 DEF d

(* A deny that begins with nothing written is the first.                    *)
LEMMA DeniedKeepsFirstDeny ==
    ASSUME phase' = "deny", response' = Unanswered, DeniedBy'
    PROVE  FirstDeny'
  BY DEF FirstDeny

(* What the responder was given is what the first deny named, and that is   *)
(* what is sent.                                                            *)
LEMMA FirstDenyHolds == EnforcerSpec => []FirstDeny
<1>1. EnforcerInit => FirstDeny
  BY DEF EnforcerInit, FirstDeny
<1>2. EnforcerInv /\ FirstDeny /\ [EnforcerNext]_enforcerVars => FirstDeny'
  <2> SUFFICES ASSUME EnforcerInv, FirstDeny, [EnforcerNext]_enforcerVars
               PROVE  FirstDeny'
    OBVIOUS
  <2>1. CASE Receive
    BY <2>1 DEF Receive, FirstDeny, EnforcerInv, Stages
  <2>2. CASE ExtractorFails
    <3>1. CASE Panicked
      BY <3>1, PanickedKeepsFirstDeny
    <3>2. ASSUME NEW err \in {"ErrNoToken", "other"}, Deny(challengeForError(err), err)
          PROVE  FirstDeny'
      <4>1. /\ denials = <<>> /\ response' = Unanswered /\ mreq' = Absent /\ answer' = Absent
        BY <2>2 DEF ExtractorFails, FirstDeny, EnforcerInv, Stages
      <4>2. phase' = "deny" /\ denials' = <<DenyInfo(challengeForError(err), err)>>
        BY <3>2, <4>1, DenyIsFirst
      <4>3. DeniedBy'
        BY <4>1, <4>2 DEF DeniedBy, DeniedByExtractor, DeniedByAssembly, DeniedByAnswer, DenyInfo, Clamped
      <4> QED
        BY <4>1, <4>2, <4>3, DeniedKeepsFirstDeny
    <3> QED
      BY <2>2, <3>1, <3>2 DEF ExtractorFails
  <2>3. ASSUME NEW q \in Requests, Extracted(q)
        PROVE  FirstDeny'
    <3>1. /\ denials = <<>> /\ response' = Unanswered /\ mreq' = q /\ answer' = Absent
      BY <2>3 DEF Extracted, FirstDeny, EnforcerInv, Stages
    <3>2. CASE AssemblyError(q) # ""
      <4>1. Deny(challengeForError(AssemblyError(q)), AssemblyError(q))
        BY <2>3, <3>2 DEF Extracted
      <4>2. /\ phase' = "deny"
            /\ denials' = <<DenyInfo(challengeForError(AssemblyError(q)), AssemblyError(q))>>
        BY <3>1, <4>1, DenyIsFirst
      <4>3. DeniedBy'
        <5>1. AssemblyError(mreq)' = AssemblyError(mreq')
          BY DEF AssemblyError
        <5>2. AssemblyError(mreq)' = AssemblyError(q)
          BY <3>1, <5>1
        <5> QED
          BY <3>1, <3>2, <4>2, <5>2 DEF DeniedBy, DeniedByExtractor, DeniedByAssembly, DeniedByAnswer, DenyInfo, Clamped
      <4> QED
        BY <3>1, <4>2, <4>3, DeniedKeepsFirstDeny
    <3>3. CASE AssemblyError(q) = ""
      <4>1. phase' = "authorize" /\ denials' = denials
        BY <2>3, <3>3 DEF Extracted
      <4> QED
        BY <3>1, <4>1 DEF FirstDeny
    <3> QED
      BY <3>2, <3>3
  <2>4. ASSUME NEW a \in Answers, Authorized(a)
        PROVE  FirstDeny'
    <3>1. denials = <<>> /\ response' = Unanswered /\ answer' = a
      BY <2>4 DEF Authorized, EnforcerInv, Stages
    <3>2. CASE a.err # ""
      <4>1. Deny(insufficient, a.err)
        BY <2>4, <3>2 DEF Authorized
      <4>2. phase' = "deny"
        BY <4>1 DEF Deny
      <4>3. DeniedBy'
        BY <3>1, <3>2 DEF DeniedBy, DeniedByExtractor, DeniedByAssembly, DeniedByAnswer
      <4> QED
        BY <3>1, <4>2, <4>3, DeniedKeepsFirstDeny
    <3>3. CASE a.err = "" /\ ~a.decision
      <4>1. Deny(challengeFromResponse(a.mcp), "")
        BY <2>4, <3>3 DEF Authorized
      <4>2. phase' = "deny" /\ denials' = <<DenyInfo(challengeFromResponse(a.mcp), "")>>
        BY <3>1, <4>1, DenyIsFirst
      <4>3. DeniedBy'
        BY <3>1, <3>3, <4>2 DEF DeniedBy, DeniedByExtractor, DeniedByAssembly, DeniedByAnswer, DenyInfo, Clamped
      <4> QED
        BY <3>1, <4>2, <4>3, DeniedKeepsFirstDeny
    <3>4. CASE a.err = "" /\ a.decision
      <4>1. phase' = "next" /\ denials' = denials
        BY <2>4, <3>4 DEF Authorized
      <4> QED
        BY <3>1, <4>1 DEF FirstDeny
    <3> QED
      BY <3>2, <3>3, <3>4
  <2>5. CASE AuthorizerPanics \/ NextPanics
    BY <2>5, PanickedKeepsFirstDeny DEF AuthorizerPanics, NextPanics
  <2>6. CASE NextReturns \/ \E status \in Statuses : NextWrites(status)
    BY <2>6 DEF NextReturns, NextWrites, FirstDeny, EnforcerInv, Stages
  <2>7. CASE Respond
    <3>1. CASE Panicked
      BY <3>1, PanickedKeepsFirstDeny
    <3>2. CASE /\ phase' = "done" /\ response' = Denial(Current.challenge)
               /\ UNCHANGED <<denials, recovering>>
      <4>1. UNCHANGED <<mreq, asked, answer, entered>> /\ denials # <<>> /\ phase = "deny"
        BY <2>7 DEF Respond, EnforcerInv, Stages
      <4>2. ASSUME ~recovering
            PROVE  /\ DeniedBy' /\ response'.status = clampDenyStatus(Current.challenge.status)
                   /\ response'.headers = <<Rendered(Current.challenge)>>
        <5>1. DeniedBy /\ response = Unanswered
          BY <4>1, <4>2 DEF FirstDeny
        <5>2. DeniedBy'
          BY <3>2, <4>1, <5>1 DEF DeniedBy, DeniedByExtractor, DeniedByAssembly, DeniedByAnswer
        <5> DEFINE n == clampDenyStatus(Current.challenge.status)
                   h == <<Rendered(Current.challenge)>>
                   b == ErrorCode(Current.challenge)
        <5>3. response' = Written(Unanswered, n, h, b)
          BY <3>2, <5>1 DEF Denial
        <5> HIDE DEF n, h, b
        <5>4. response' = [status |-> n, headers |-> h, bodies |-> <<b>>]
          BY <5>3 DEF Written, Unanswered
        <5>5. response'.status = n /\ response'.headers = h
          BY <5>4
        <5> QED
          BY <5>2, <5>5 DEF n, h
      <4>3. Current' = Current
        BY <3>2 DEF Current
      <4>4. Rendered(Current.challenge)' = Rendered(Current.challenge')
        BY DEF Rendered
      <4> QED
        BY <3>2, <4>1, <4>2, <4>3, <4>4 DEF FirstDeny
    <3> QED
      BY <2>7, <3>1, <3>2 DEF Respond
  <2>8. CASE Forget
    BY <2>8 DEF Forget, FirstDeny
  <2>9. CASE UNCHANGED enforcerVars
    BY <2>9 DEF enforcerVars, FirstDeny, DeniedBy, DeniedByExtractor, DeniedByAssembly, DeniedByAnswer, Current
  <2> QED
    BY <2>1, <2>2, <2>3, <2>4, <2>5, <2>6, <2>7, <2>8, <2>9 DEF EnforcerNext
<1> QED
  BY <1>1, <1>2, EnforcerInvHolds, PTL DEF EnforcerSpec

(* The challenges the enforcer makes up itself are a 403 and a 401.         *)
LEMMA DefaultStatuses == insufficient.status = 403 /\ unauthorized.status = 401
<1>1. insufficient.status = 403
  <2> DEFINE n == 403
             b == [NoChallenge EXCEPT !.scheme = <<"Bearer">>, !.error = <<"insufficient_scope">>,
                                      !.scope = Scope, !.metadata = ResourceMetadata, !.status = n]
  <2> HIDE DEF n
  <2>1. HasStatus(b) <=> n \in Int
    BY DEF NoChallenge, HasStatus
  <2>2. b.status = n
    BY DEF NoChallenge
  <2> HIDE DEF b
  <2>3. [b EXCEPT !.realm = Realm].status = b.status
    OBVIOUS
  <2>4. insufficient = [b EXCEPT !.realm = Realm]
    BY DEF insufficient, InsufficientScope, b, n
  <2> QED
    BY <2>2, <2>3, <2>4 DEF n
<1>2. unauthorized.status = 401
  <2> DEFINE n == 401
             b == [NoChallenge EXCEPT !.scheme = <<"Bearer">>, !.metadata = ResourceMetadata,
                                      !.status = n]
  <2> HIDE DEF n
  <2>2. b.status = n
    BY DEF NoChallenge
  <2> HIDE DEF b
  <2>3. [b EXCEPT !.scope = Scope, !.realm = Realm].status = b.status
    OBVIOUS
  <2>4. unauthorized = [b EXCEPT !.scope = Scope, !.realm = Realm]
    BY DEF unauthorized, Unauthorized, b, n
  <2> QED
    BY <2>2, <2>3, <2>4 DEF n
<1> QED
  BY <1>1, <1>2

(* What the responder is given of a status, and what it sends.              *)
LEMMA ClampedOnce ==
    ASSUME NEW c, HasStatus(c), NEW err
    PROVE  clampDenyStatus(DenyInfo(c, err).challenge.status) = clampDenyStatus(c.status)
<1>1. DenyInfo(c, err).challenge = Clamped(c)
  BY DEF DenyInfo
<1>2. Clamped(c).status = clampDenyStatus(c.status)
  BY DEF Clamped, HasStatus
<1>3. clampDenyStatus(clampDenyStatus(c.status)) = clampDenyStatus(c.status)
  BY DEF clampDenyStatus, HasStatus
<1> QED
  BY <1>1, <1>2, <1>3

(* The first deny is the one that is sent.                                  *)
LEMMA CurrentIsFirst ==
    ASSUME NEW c, HasStatus(c), NEW err, denials = <<DenyInfo(c, err)>>
    PROVE  /\ Current.err = err
           /\ clampDenyStatus(Current.challenge.status) = clampDenyStatus(c.status)
           /\ Current.challenge = Clamped(c)
<1> DEFINE d == DenyInfo(c, err)
<1>1. denials = <<d>> /\ d.err = err /\ d.challenge = Clamped(c)
  BY DEF DenyInfo
<1>2. clampDenyStatus(d.challenge.status) = clampDenyStatus(c.status)
  BY ClampedOnce
<1> HIDE DEF d
<1>3. Current = d
  BY <1>1 DEF Current
<1> QED
  BY <1>1, <1>2, <1>3

(* The status a PDP names in a deny's context is read back from it, over    *)
(* either binding; 0, which names none, is a 403.                           *)
LEMMA StatusCrosses ==
    ASSUME NEW c \in Challenges, NEW m \in {DenyContext(c), OverTheWire(DenyContext(c))}
    PROVE  clampDenyStatus(challengeFromResponse(m).status) = clampDenyStatus(c.status)
<1>1. /\ m # Absent /\ m.auth # Absent /\ m.status.n = c.status
      /\ IntField(m.status) <=> c.status # 0
  <2> DEFINE k == [type |-> IF c.status = 0 THEN "absent" ELSE "int", n |-> c.status]
             k2 == [k EXCEPT !.type = IF k.type = "int" THEN "float64" ELSE k.type]
  <2>1. DenyContext(c).status = k /\ DenyContext(c).auth # Absent /\ m # Absent
    BY EnforcerAssumption DEF DenyContext
  <2>2. OverTheWire(DenyContext(c)).status = k2
        /\ OverTheWire(DenyContext(c)).auth = DenyContext(c).auth
    BY DEF DenyContext, OverTheWire
  <2>3. k.n = c.status /\ (IntField(k) <=> c.status # 0)
    BY DEF IntField
  <2>4. k2.n = c.status
    OBVIOUS
  <2>5. IntField(k2) <=> c.status # 0
    BY DEF IntField
  <2> HIDE DEF k, k2
  <2>6. CASE m = DenyContext(c)
    BY <2>1, <2>3, <2>6
  <2>7. CASE m = OverTheWire(DenyContext(c))
    <3>1. m.status = k2
      BY <2>2, <2>7
    <3>2. m.auth # Absent /\ m # Absent
      BY <2>1, <2>2, <2>7
    <3> QED
      BY <2>4, <2>5, <3>1, <3>2
  <2> QED
    BY <2>6, <2>7
<1>2. CarriesChallenge(m)
  BY <1>1 DEF CarriesChallenge
<1>3. ChallengeFromDenyContext(m).status = c.status /\ HasStatus(ChallengeFromDenyContext(m))
  <2> DEFINE w == m.auth
             header == IF w = Absent \/ TrimSpace(w.header) = <<>> THEN NoChallenge
                       ELSE Parsed(w.header)
             fields == IF w = Absent THEN header
                       ELSE [header EXCEPT !.scope = Or(w.scope, @), !.metadata = Or(w.metadata, @),
                                           !.realm = Or(w.realm, @)]
             n == IF IntField(m.status) THEN m.status.n ELSE fields.status
             d == [fields EXCEPT !.error = Or(m.error, @), !.status = n]
  <2>1. /\ HasStatus(NoChallenge) /\ \A h : HasStatus(Parsed(h))
        /\ NoChallenge.status = 0 /\ \A h : Parsed(h).status = 0
    BY DEF NoChallenge, Parsed, HasStatus
  <2>2. HasStatus(header) /\ header.status = 0
    BY <2>1
  <2> HIDE DEF header
  <2>3. HasStatus(fields) /\ fields.status = 0
    BY <2>2 DEF HasStatus
  <2> HIDE DEF fields
  <2>4. n = c.status /\ n \in Int
    BY <1>1, <2>3, StatusType
  <2> HIDE DEF n
  <2>5. HasStatus(d) /\ d.status = n
    BY <2>3, <2>4 DEF HasStatus
  <2>6. ChallengeFromDenyContext(m) = d
    BY DEF ChallengeFromDenyContext, d, n, fields, header
  <2> QED
    BY <2>4, <2>5, <2>6
<1> DEFINE d == ChallengeFromDenyContext(m)
           k == IF d.status = 0 THEN 403 ELSE d.status
<1>4. challengeFromResponse(m)
        = [d EXCEPT !.status = k, !.metadata = Or(@, ResourceMetadata),
                    !.scope = Or(@, Scope), !.realm = Or(@, Realm)]
  BY <1>2 DEF challengeFromResponse
<1>5. clampDenyStatus(k) = clampDenyStatus(c.status)
  BY <1>3, StatusType DEF clampDenyStatus
<1> HIDE DEF k, d
<1>6. challengeFromResponse(m).status = k
  BY <1>3, <1>4 DEF HasStatus, d
<1> QED
  BY <1>5, <1>6

(* The challenges the Enforcer makes up itself are challenges.              *)
LEMMA DefaultsAreChallenges ==
    /\ insufficient \in AnyChallenge /\ insufficient.metadata = ResourceMetadata
    /\ unauthorized \in AnyChallenge /\ unauthorized.metadata = ResourceMetadata
<1> DEFINE z == <<"Bearer">>
           e == <<"insufficient_scope">>
           n == 403
           k == 401
           i == [NoChallenge EXCEPT !.scheme = z, !.error = e, !.scope = Scope,
                                    !.metadata = ResourceMetadata, !.status = n]
           u == [NoChallenge EXCEPT !.scheme = z, !.metadata = ResourceMetadata, !.status = k]
<1>1. /\ z \in Texts /\ e \in Texts /\ n \in Int /\ k \in Int
      /\ Scope \in Texts /\ ResourceMetadata \in Texts /\ Realm \in Texts
  <2>1. "Bearer" \in Characters /\ "insufficient_scope" \in Characters
    BY DEF Characters
  <2> QED
    BY <2>1, CharacterText, EnforcerAssumption
<1>2. NoChallenge \in AnyChallenge
  <2> DEFINE o == 0
  <2>1. <<>> \in Texts /\ o \in Int
    BY EmptySeq DEF Texts
  <2>2. NoChallenge = [scheme |-> <<>>, error |-> <<>>, description |-> <<>>, scope |-> <<>>,
                       metadata |-> <<>>, realm |-> <<>>, status |-> o]
    BY DEF NoChallenge
  <2> HIDE DEF o
  <2> QED
    BY <2>1, <2>2 DEF AnyChallenge
<1>3. insufficient = [i EXCEPT !.realm = Realm]
  BY DEF insufficient, InsufficientScope
<1>4. unauthorized = [u EXCEPT !.scope = Scope, !.realm = Realm]
  BY DEF unauthorized, Unauthorized
<1> HIDE DEF z, e, n, k
<1>5. i \in AnyChallenge /\ i.metadata = ResourceMetadata
  BY <1>1, <1>2 DEF AnyChallenge
<1>6. u \in AnyChallenge /\ u.metadata = ResourceMetadata
  BY <1>1, <1>2 DEF AnyChallenge
<1> HIDE DEF i, u
<1>7. insufficient \in AnyChallenge /\ insufficient.metadata = ResourceMetadata
  BY <1>1, <1>3, <1>5 DEF AnyChallenge
<1>8. unauthorized \in AnyChallenge /\ unauthorized.metadata = ResourceMetadata
  BY <1>1, <1>4, <1>6 DEF AnyChallenge
<1> QED
  BY <1>7, <1>8

(* What a client reads of a challenge with a clamped status.                *)
LEMMA ClampedIsRead ==
    ASSUME NEW c \in AnyChallenge
    PROVE  Parsed(Rendered(Clamped(c))) =
                [scheme |-> SchemeOf(c), error |-> stripControl(c.error),
                 description |-> stripControl(c.description), scope |-> stripControl(c.scope),
                 metadata |-> stripControl(c.metadata), realm |-> stripControl(c.realm),
                 status |-> 0]
<1> DEFINE d == Clamped(c)
<1>1. clampDenyStatus(c.status) \in Int
  BY ClampedIsError DEF AnyChallenge
<1>2. /\ d \in AnyChallenge
      /\ d.scheme = c.scheme /\ d.error = c.error /\ d.description = c.description
      /\ d.scope = c.scope /\ d.metadata = c.metadata /\ d.realm = c.realm
  BY <1>1 DEF AnyChallenge, Clamped
<1> HIDE DEF d
<1>3. SchemeOf(d) = SchemeOf(c)
  BY <1>2 DEF SchemeOf
<1>4. Parsed(Rendered(d)) =
        [scheme |-> SchemeOf(d), error |-> stripControl(d.error),
         description |-> stripControl(d.description), scope |-> stripControl(d.scope),
         metadata |-> stripControl(d.metadata), realm |-> stripControl(d.realm),
         status |-> 0]
  BY <1>2, RoundTrip
<1> QED
  BY <1>2, <1>3, <1>4 DEF d

(* What the client is to read of c: what ChallengeReachesClient says.       *)
Means(p, c) ==
    /\ p.scheme = SchemeOf(c)
    /\ p.error = stripControl(c.error)
    /\ p.description = stripControl(c.description)
    /\ p.scope = stripControl(Or(c.scope, Scope))
    /\ p.metadata = stripControl(Or(c.metadata, ResourceMetadata))
    /\ p.realm = stripControl(Or(c.realm, Realm))

(* A field is what it was, whether it comes out of the header or beside it. *)
LEMMA FieldCrosses ==
    ASSUME NEW v \in Texts, NEW default \in Texts
    PROVE  /\ Or(v, stripControl(v)) = v
           /\ Or(v, default) \in Texts
<1>1. stripControl(<<>>) = <<>>
  <2>1. <<>> \in Texts /\ Len(<<>>) = 0
    BY EmptySeq DEF Texts
  <2> QED
    BY <2>1, DroppedNothing DEF stripControl
<1> QED
  BY <1>1 DEF Or

(* A challenge that a PDP put in the context of a deny comes out of it with *)
(* every field, over either binding.                                        *)
LEMMA ChallengeCrosses ==
    ASSUME NEW c \in Challenges, NEW m \in {DenyContext(c), OverTheWire(DenyContext(c))}
    PROVE  /\ challengeFromResponse(m) \in AnyChallenge
           /\ Means(Parsed(Rendered(Clamped(challengeFromResponse(m)))), c)
<1> DEFINE w == m.auth
           f == ChallengeFromDenyContext(m)
           d == challengeFromResponse(m)
<1>1. /\ c \in AnyChallenge /\ c.scheme \in Texts /\ c.error \in Texts /\ c.description \in Texts
      /\ c.scope \in Texts /\ c.metadata \in Texts /\ c.realm \in Texts /\ c.status \in Int
      /\ Scope \in Texts /\ ResourceMetadata \in Texts /\ Realm \in Texts
  BY EnforcerAssumption DEF AnyChallenge
<1>2. /\ m # Absent /\ w # Absent /\ m.error = c.error /\ w.header = Rendered(c)
      /\ w.scope = c.scope /\ w.metadata = c.metadata /\ w.realm = c.realm
      /\ m.status.n = c.status
  <2> DEFINE a == [header |-> Rendered(c), scope |-> c.scope, metadata |-> c.metadata,
                   realm |-> c.realm]
             k == [type |-> IF c.status = 0 THEN "absent" ELSE "int", n |-> c.status]
             k2 == [k EXCEPT !.type = IF k.type = "int" THEN "float64" ELSE k.type]
  <2>1. DenyContext(c) = [auth |-> a, error |-> c.error, status |-> k]
    BY DEF DenyContext
  <2>2. OverTheWire(DenyContext(c)) = [auth |-> a, error |-> c.error, status |-> k2]
    BY <2>1 DEF OverTheWire
  <2>3. k.n = c.status /\ k2.n = c.status
    OBVIOUS
  <2>4. /\ a.header = Rendered(c) /\ a.scope = c.scope /\ a.metadata = c.metadata
        /\ a.realm = c.realm
    OBVIOUS
  <2>5. m # Absent /\ a # Absent
    BY <2>1, EnforcerAssumption
  <2> HIDE DEF a, k, k2
  <2>6. w = a /\ m.error = c.error /\ m.status.n = c.status
    BY <2>1, <2>2, <2>3
  <2> QED
    BY <2>4, <2>5, <2>6
<1>3. CarriesChallenge(m)
  BY <1>2 DEF CarriesChallenge
<1> DEFINE p == [scheme |-> SchemeOf(c), error |-> stripControl(c.error),
                 description |-> stripControl(c.description), scope |-> stripControl(c.scope),
                 metadata |-> stripControl(c.metadata), realm |-> stripControl(c.realm),
                 status |-> 0]
<1>4. Parsed(w.header) = p /\ TrimSpace(w.header) # <<>>
  BY <1>1, <1>2, RoundTrip
<1> DEFINE n == IF IntField(m.status) THEN m.status.n ELSE 0
           k == IF n = 0 THEN 403 ELSE n
<1>5. k \in Int
  BY <1>1, <1>2
<1>6. f = [scheme |-> SchemeOf(c), error |-> c.error, description |-> stripControl(c.description),
           scope |-> c.scope, metadata |-> c.metadata, realm |-> c.realm, status |-> n]
  <2> DEFINE q == [p EXCEPT !.scope = Or(w.scope, @), !.metadata = Or(w.metadata, @),
                            !.realm = Or(w.realm, @)]
             r == [p EXCEPT !.scope = c.scope, !.metadata = c.metadata, !.realm = c.realm]
  <2>1. f = [q EXCEPT !.error = Or(m.error, @), !.status = IF IntField(m.status) THEN m.status.n ELSE @]
    BY <1>2, <1>4 DEF ChallengeFromDenyContext
  <2>2. q = r
    BY <1>1, <1>2, FieldCrosses
  <2> DEFINE x == Or(m.error, r.error)
             y == IF IntField(m.status) THEN m.status.n ELSE r.status
  <2>3. x = c.error /\ y = n
    <3>1. r.error = stripControl(c.error) /\ r.status = 0
      OBVIOUS
    <3> QED
      BY <1>1, <1>2, <3>1, FieldCrosses
  <2>4. f = [r EXCEPT !.error = x, !.status = y]
    <3> HIDE DEF f, q, r
    <3>1. f = [r EXCEPT !.error = Or(m.error, @), !.status = IF IntField(m.status) THEN m.status.n ELSE @]
      BY <2>1, <2>2
    <3> QED
      BY <3>1
  <2> HIDE DEF x, y, f, n
  <2> QED
    BY <2>3, <2>4
<1> HIDE DEF n
<1>7. d = [scheme |-> SchemeOf(c), error |-> c.error, description |-> stripControl(c.description),
           scope |-> Or(c.scope, Scope), metadata |-> Or(c.metadata, ResourceMetadata),
           realm |-> Or(c.realm, Realm), status |-> k]
  <2>1. d = [f EXCEPT !.status = IF @ = 0 THEN 403 ELSE @, !.metadata = Or(@, ResourceMetadata),
                      !.scope = Or(@, Scope), !.realm = Or(@, Realm)]
    BY <1>3 DEF challengeFromResponse
  <2> HIDE DEF f, d
  <2> QED
    BY <1>6, <2>1
<1> HIDE DEF d, k, f, p, w
<1>8. /\ SchemeOf(c) \in Texts /\ stripControl(c.description) \in Texts
      /\ Or(c.scope, Scope) \in Texts /\ Or(c.metadata, ResourceMetadata) \in Texts
      /\ Or(c.realm, Realm) \in Texts
  BY <1>1, SchemeText, StrippedText, FieldCrosses
<1>9. d \in AnyChallenge
  BY <1>1, <1>5, <1>7, <1>8 DEF AnyChallenge
<1>10. SchemeOf(d) = SchemeOf(c)
  <2>1. d.scheme = SchemeOf(c)
    BY <1>7
  <2> QED
    BY <1>1, <2>1, SchemeTwice
<1>11. Parsed(Rendered(Clamped(d))) =
        [scheme |-> SchemeOf(d), error |-> stripControl(d.error),
         description |-> stripControl(d.description), scope |-> stripControl(d.scope),
         metadata |-> stripControl(d.metadata), realm |-> stripControl(d.realm),
         status |-> 0]
  BY <1>9, ClampedIsRead
<1>12. stripControl(stripControl(c.description)) = stripControl(c.description)
  BY <1>1, StrippedText
<1>13. /\ d.error = c.error /\ d.description = stripControl(c.description)
       /\ d.scope = Or(c.scope, Scope) /\ d.metadata = Or(c.metadata, ResourceMetadata)
       /\ d.realm = Or(c.realm, Realm)
  BY <1>7
<1> QED
  BY <1>9, <1>10, <1>11, <1>12, <1>13 DEF Means, d

(* The assembly fails for want of a principal on well-formed requests whose *)
(* token names nobody, and on no others.                                    *)
LEMMA UnnamedCallers ==
    ASSUME NEW q
    PROVE  /\ AssemblyError(q) = "ErrMissingSubject" <=> WellFormed(q) /\ NamesNobody(q.token)
           /\ AssemblyError(q) # "ErrNoToken"
<1>1. SubjectFromToken(q.token).id = "" <=> NamesNobody(q.token)
  <2> DEFINE t == q.token
  <2>1. CASE t.actor # ""
    BY <2>1 DEF SubjectFromToken, NamesNobody
  <2>2. CASE t.actor = "" /\ t.subject = "" /\ t.client # ""
    BY <2>2 DEF SubjectFromToken, NamesNobody
  <2>3. CASE t.actor = "" /\ ~(t.subject = "" /\ t.client # "")
    BY <2>3 DEF SubjectFromToken, NamesNobody
  <2> QED
    BY <2>1, <2>2, <2>3
<1> DEFINE noId == SubjectFromToken(q.token).id = ""
           noTarget == /\ q.method \in {"tools/call", "resources/read", "prompts/get"}
                       /\ Target(q).id = ""
<1>2. AssemblyError(q) = IF q.method \notin Methods THEN "ErrUnknownMethod"
                         ELSE IF noTarget THEN "ErrMissingTarget"
                         ELSE IF noId THEN "ErrMissingSubject" ELSE ""
  <2>1. CASE q.method \notin Methods
    BY <2>1 DEF AssemblyError
  <2>2. CASE q.method \in Methods /\ noTarget
    BY <2>2 DEF AssemblyError
  <2>3. CASE q.method \in Methods /\ ~noTarget /\ noId
    BY <2>3 DEF AssemblyError
  <2>4. CASE q.method \in Methods /\ ~noTarget /\ ~noId
    BY <2>4 DEF AssemblyError
  <2> QED
    BY <2>1, <2>2, <2>3, <2>4
<1>3. WellFormed(q) <=> q.method \in Methods /\ ~noTarget
  BY DEF WellFormed, Target
<1> HIDE DEF noId, noTarget
<1>4. noId <=> NamesNobody(q.token)
  BY <1>1 DEF noId
<1> QED
  BY <1>2, <1>3, <1>4

(***************************************************************************)
(* Theorems.                                                                *)
(***************************************************************************)

(* No error, no panic and no answer that comes with an error lets a request *)
(* through to the wrapped handler (middleware.go:187-225).                  *)
THEOREM EnforcerFailsClosed == EnforcerSpec => []PassesOnlyPermitted
<1>1. EnforcerInv => PassesOnlyPermitted
  BY DEF EnforcerInv, Enters, PassesOnlyPermitted
<1> QED
  BY <1>1, EnforcerInvHolds, PTL

(* A status that is no error is the wrapped handler's, whatever status and  *)
(* challenge a PDP names and wherever the code panics                       *)
(* (middleware.go:187-301).                                                 *)
THEOREM EnforcerDeniesAreErrors == EnforcerSpec => []DeniesAreErrors
<1>1. EnforcerInv => DeniesAreErrors
  BY DEF EnforcerInv, Enters, WrittenBy, DeniesAreErrors
<1> QED
  BY <1>1, EnforcerInvHolds, PTL

(* What the Authorizer decides is about the call it was asked for and no    *)
(* other: what differs in the principal, the actor, the method or the       *)
(* target differs in what is asked (mcp.go:153-397).                        *)
THEOREM DecisionsAreAboutTheCall == EnforcerSpec => []DecisionIsAboutTheCall
<1>1. AskedAbout => DecisionIsAboutTheCall
  <2> SUFFICES ASSUME AskedAbout, asked # <<>>
               PROVE  /\ \A q \in Requests :
                            LET e == EvaluationRequest(q) IN
                            /\ AssemblyError(q) = ""
                            /\ \A k \in {"subject", "action", "resource"} : e[k] = asked[1][k]
                            => SameCall(q, mreq)
                      /\ asked[1].context["mcp"].sub = mreq.token.subject
    BY DEF DecisionIsAboutTheCall
  <2>1. asked[1] = EvaluationRequest(mreq) /\ AssemblyError(mreq) = ""
    <3> DEFINE x == EvaluationRequest(mreq)
    <3>1. asked = <<x>> /\ AssemblyError(mreq) = ""
      BY DEF AskedAbout
    <3> HIDE DEF x
    <3>2. asked[1] = x
      BY <3>1
    <3> QED
      BY <3>1, <3>2 DEF x
  <2>2. ASSUME NEW q \in Requests, AssemblyError(q) = "",
               \A k \in {"subject", "action", "resource"} : EvaluationRequest(q)[k] = asked[1][k]
        PROVE  SameCall(q, mreq)
    BY <2>1, <2>2, AssemblySeparates
  <2>3. asked[1].context["mcp"].sub = mreq.token.subject
    <3> DEFINE x == [method |-> mreq.method, sub |-> mreq.token.subject, claims |-> Claims(mreq.token)]
    <3>1. asked[1].context = evaluationContext(mreq)
      <4>1. EvaluationRequest(mreq).context = evaluationContext(mreq)
        BY DEF EvaluationRequest
      <4> QED
        BY <2>1, <4>1
    <3>2. evaluationContext(mreq)["mcp"] = x
      BY DEF evaluationContext
    <3>3. x.sub = mreq.token.subject
      OBVIOUS
    <3> QED
      BY <3>1, <3>2, <3>3
  <2> QED
    BY <2>2, <2>3
<1> QED
  BY <1>1, AskedAboutHolds, PTL

(* What the responder was given for a deny of the Authorizer's.             *)
LEMMA AnswersAreDenied ==
    ASSUME EnforcerInv, FirstDeny, phase = "done", answer # Absent, ~recovering,
           ~answer.decision, answer.err = "", NEW c \in Meant[answer.mcp]
    PROVE  /\ c \in Challenges /\ answer.mcp \in {DenyContext(c), OverTheWire(DenyContext(c))}
           /\ answer.mcp \in DenyContexts
           /\ denials = <<DenyInfo(challengeFromResponse(answer.mcp), "")>>
           /\ response.status = clampDenyStatus(Current.challenge.status)
           /\ response.headers = <<Rendered(Current.challenge)>>
<1>1. ~entered
  BY DEF EnforcerInv, Enters
<1>2. /\ DeniedBy /\ response.status = clampDenyStatus(Current.challenge.status)
      /\ response.headers = <<Rendered(Current.challenge)>>
  BY <1>1 DEF FirstDeny
<1>3. answer \in Answers /\ denials = <<DenyInfo(challengeFromResponse(answer.mcp), "")>>
  <2>1. DeniedByAnswer
    BY <1>2, Zenon DEF DeniedBy, DeniedByExtractor, DeniedByAssembly
  <2> QED
    BY <2>1 DEF DeniedByAnswer
<1>4. answer.mcp \in DenyContexts
  <2>1. CASE answer = [decision |-> TRUE, mcp |-> Absent, err |-> ""]
    <3>1. answer.decision
      BY <2>1, Zenon
    <3> QED
      BY <3>1
  <2>2. CASE answer = [decision |-> TRUE, mcp |-> Absent, err |-> "pdp"]
    <3>1. answer.decision
      BY <2>2, Zenon
    <3> QED
      BY <3>1
  <2>3. CASE answer \in [decision : {FALSE}, mcp : DenyContexts, err : {"", "pdp"}]
    BY <2>3
  <2> QED
    BY <1>3, <2>1, <2>2, <2>3 DEF Answers
<1>5. c \in Challenges /\ answer.mcp \in {DenyContext(c), OverTheWire(DenyContext(c))}
  BY <1>4 DEF Meant
<1> QED
  BY <1>2, <1>3, <1>4, <1>5

(* The client of a denied request gets the status the PDP named, clamped to *)
(* the errors, and reads in the header what it meant: what comes out of     *)
(* DenyContext, either binding, the Enforcer's defaults, String and         *)
(* ParseChallenge is each field it put in, whatever characters it has       *)
(* (challenge.go:74-283, middleware.go:246-263, 283-301).                   *)
THEOREM ChallengesReachClients == EnforcerSpec => []ChallengeReachesClient
<1>1. EnforcerInv /\ FirstDeny => ChallengeReachesClient
  <2> SUFFICES ASSUME EnforcerInv, FirstDeny, phase = "done", answer # Absent, ~recovering,
                      ~answer.decision, answer.err = "", NEW c \in Meant[answer.mcp]
               PROVE  /\ response.status = clampDenyStatus(c.status)
                      /\ Means(Parsed(response.headers[1]), c)
    BY DEF ChallengeReachesClient, StatusReachesClient, Means, SchemeOf
  <2> DEFINE m == answer.mcp
             d == challengeFromResponse(m)
  <2>1. /\ c \in Challenges /\ m \in {DenyContext(c), OverTheWire(DenyContext(c))}
        /\ m \in DenyContexts /\ denials = <<DenyInfo(d, "")>>
        /\ response.status = clampDenyStatus(Current.challenge.status)
        /\ response.headers = <<Rendered(Current.challenge)>>
    BY AnswersAreDenied
  <2>2. clampDenyStatus(d.status) = clampDenyStatus(c.status) /\ HasStatus(d)
    BY <2>1, ResponseHasStatus, StatusCrosses
  <2>3. d \in AnyChallenge /\ Means(Parsed(Rendered(Clamped(d))), c)
    BY <2>1, ChallengeCrosses
  <2> HIDE DEF m, d
  <2>4. /\ clampDenyStatus(Current.challenge.status) = clampDenyStatus(d.status)
        /\ Current.challenge = Clamped(d)
    BY <2>1, <2>2, CurrentIsFirst
  <2>5. response.headers[1] = Rendered(Clamped(d))
    <3> DEFINE h == Rendered(Clamped(d))
    <3>1. response.headers = <<h>>
      BY <2>1, <2>4
    <3> HIDE DEF h, d
    <3>2. <<h>>[1] = h
      OBVIOUS
    <3>3. response.headers[1] = h
      BY <3>1, <3>2
    <3> QED
      BY <3>3 DEF h
  <2> QED
    BY <2>1, <2>2, <2>3, <2>4, <2>5
<1> QED
  BY <1>1, EnforcerInvHolds, FirstDenyHolds, PTL

(* Of the requests refused unasked, those whose one fault is that nobody    *)
(* makes them - no token, or a well-formed request whose token names nobody *)
(* - get a 401, which sends the caller to get a token, and all others a     *)
(* 403; the header of either says where the resource describes itself       *)
(* (mcp.go:311-342, middleware.go:227-239, 266-270).                        *)
THEOREM DiscoveryStartsWhereItShould == EnforcerSpec => []UnauthenticatedStartDiscovery
<1>1. FirstDeny => UnauthenticatedStartDiscovery
  <2> SUFFICES ASSUME FirstDeny, RefusedUnasked
               PROVE  /\ response.status = IF Unauthenticated THEN 401 ELSE 403
                      /\ Parsed(response.headers[1]).metadata = stripControl(ResourceMetadata)
    BY DEF UnauthenticatedStartDiscovery, OnlyUnauthenticatedGet401
  <2>1. /\ DeniedBy /\ answer = Absent
        /\ response.status = clampDenyStatus(Current.challenge.status)
        /\ response.headers = <<Rendered(Current.challenge)>>
    BY DEF FirstDeny, RefusedUnasked
  <2>2. ASSUME NEW err, denials = <<DenyInfo(challengeForError(err), err)>>
        PROVE  /\ Current.err = err
               /\ response.status
                    = IF err \in {"ErrNoToken", "ErrMissingSubject"} THEN 401 ELSE 403
               /\ Parsed(response.headers[1]).metadata = stripControl(ResourceMetadata)
    <3>1. HasStatus(challengeForError(err))
      BY InsufficientHasStatus, UnauthorizedHasStatus DEF challengeForError
    <3>2. challengeForError(err).status
            = IF err \in {"ErrNoToken", "ErrMissingSubject"} THEN 401 ELSE 403
      BY DefaultStatuses DEF challengeForError
    <3>3. /\ Current.err = err
          /\ response.status = clampDenyStatus(challengeForError(err).status)
          /\ Current.challenge = Clamped(challengeForError(err))
      BY <2>1, <2>2, <3>1, CurrentIsFirst
    <3>4. response.headers[1] = Rendered(Clamped(challengeForError(err)))
      <4> DEFINE h == Rendered(Clamped(challengeForError(err)))
      <4>1. response.headers = <<h>>
        BY <2>1, <3>3
      <4> HIDE DEF h
      <4>2. response.headers[1] = h
        BY <4>1
      <4> QED
        BY <4>2 DEF h
    <3>5. Parsed(Rendered(Clamped(challengeForError(err)))).metadata = stripControl(ResourceMetadata)
      BY DefaultsAreChallenges, ClampedIsRead DEF challengeForError
    <3>6. response.status = IF err \in {"ErrNoToken", "ErrMissingSubject"} THEN 401 ELSE 403
      BY <3>2, <3>3 DEF clampDenyStatus
    <3> QED
      BY <3>3, <3>4, <3>5, <3>6
  <2>3. CASE /\ mreq = Absent
             /\ \E err \in {"ErrNoToken", "other"} : denials = <<DenyInfo(challengeForError(err), err)>>
    BY <2>2, <2>3 DEF Unauthenticated
  <2>4. CASE /\ mreq \in Requests
             /\ denials = <<DenyInfo(challengeForError(AssemblyError(mreq)), AssemblyError(mreq))>>
    <3>1. mreq # Absent
      BY <2>4, EnforcerAssumption
    <3>2. /\ Current.err = AssemblyError(mreq)
          /\ response.status
               = IF AssemblyError(mreq) \in {"ErrNoToken", "ErrMissingSubject"} THEN 401 ELSE 403
          /\ Parsed(response.headers[1]).metadata = stripControl(ResourceMetadata)
      BY <2>2, <2>4
    <3>3. Unauthenticated <=> AssemblyError(mreq) = "ErrMissingSubject"
      BY <3>1, UnnamedCallers DEF Unauthenticated
    <3>4. AssemblyError(mreq) # "ErrNoToken"
      BY UnnamedCallers
    <3>5. response.status = IF Unauthenticated THEN 401 ELSE 403
      BY <3>2, <3>3, <3>4
    <3> QED
      BY <3>2, <3>5
  <2> QED
    BY <2>1, <2>3, <2>4, AnswerAssumption DEF DeniedBy, DeniedByExtractor, DeniedByAssembly, DeniedByAnswer
<1> QED
  BY <1>1, FirstDenyHolds, PTL
=============================================================================
