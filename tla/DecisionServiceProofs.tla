------------------------- MODULE DecisionServiceProofs -------------------------
(***************************************************************************)
(* What the service keeps of its parts and of every call, for every call,   *)
(* PDP and instance: the batch loop behind the HTTP handler is a            *)
(* BatchEvaluation, with all that is proved of it; a status line tells      *)
(* whether the response is an answer; and what a PEP asks, is granted and   *)
(* prints is what the PDP was asked and decided, over either binding.       *)
(***************************************************************************)
EXTENDS DecisionService, BatchEvaluationProofs

(***************************************************************************)
(* What requests become on their way over a binding.                        *)
(***************************************************************************)

EntityFields == {"subject", "action", "resource"}

(* The request as the server has it, once it has crossed the binding.       *)
Received(c) == IF c.binding = "grpc" THEN FromProto(c.op, Encoded(c)) ELSE Encoded(c)

(* Two requests that name the same entities.                                *)
SameNames(r, q) == \A f \in EntityFields : Named(r[f]) = Named(q[f])

SameBatch(r, q) ==
    /\ SameNames(r, q) /\ Len(r.evaluations) = Len(q.evaluations)
    /\ \A k \in 1 .. Len(r.evaluations) : SameNames(r.evaluations[k], q.evaluations[k])

(* A function on the first n numbers is a sequence of length n.             *)
LEMMA Sliced ==
    ASSUME NEW T, NEW n \in Nat, NEW t \in [1 .. n -> T]
    PROVE  t \in Seq(T) /\ Len(t) = n /\ DOMAIN t = 1 .. n
<1>1. t \in Seq(T)
  BY SeqDef
<1>2. DOMAIN t = 1 .. n /\ DOMAIN t = 1 .. Len(t) /\ Len(t) \in Nat
  BY <1>1, LenProperties
<1> QED
  BY <1>1, <1>2

(* An entity keeps its name over either binding, and stays nil or not.      *)
LEMMA EntityCrosses ==
    /\ \A e \in Nullable(Entities) :
        /\ JsonEntity(e) \in Nullable(Entities) /\ Named(JsonEntity(e)) = Named(e)
        /\ subjectFromProto(subjectToProto(e)) \in Nullable(Entities)
        /\ Named(subjectFromProto(subjectToProto(e))) = Named(e)
    /\ \A e \in Nullable(Actions) :
        /\ JsonEntity(e) \in Nullable(Actions) /\ Named(JsonEntity(e)) = Named(e)
        /\ actionFromProto(actionToProto(e)) \in Nullable(Actions)
        /\ Named(actionFromProto(actionToProto(e))) = Named(e)
<1>1. \A e \in Nullable(Entities) :
        JsonEntity(e) \in Nullable(Entities) /\ Named(JsonEntity(e)) = Named(e)
  BY NilAssumption DEF Nullable, Entities, Named, JsonEntity, JsonMap, Maps
<1>2. \A e \in Nullable(Actions) :
        JsonEntity(e) \in Nullable(Actions) /\ Named(JsonEntity(e)) = Named(e)
  BY NilAssumption DEF Nullable, Actions, Named, JsonEntity, JsonMap, Maps
<1>3. \A e \in Nullable(Entities) :
        /\ subjectFromProto(subjectToProto(e)) \in Nullable(Entities)
        /\ Named(subjectFromProto(subjectToProto(e))) = Named(e)
  BY NilAssumption, NilMessageAssumption
     DEF Nullable, Entities, Named, subjectFromProto, subjectToProto, mapToStruct, structToMap,
         Maps, Structs, ProtoEntities
<1>4. \A e \in Nullable(Actions) :
        /\ actionFromProto(actionToProto(e)) \in Nullable(Actions)
        /\ Named(actionFromProto(actionToProto(e))) = Named(e)
  BY NilAssumption, NilMessageAssumption
     DEF Nullable, Actions, Named, actionFromProto, actionToProto, mapToStruct, structToMap,
         Maps, Structs, ProtoActions
<1> QED
  BY <1>1, <1>2, <1>3, <1>4

(* A map stays a map, and nil nil or empty, over either binding.            *)
LEMMA MapCrosses ==
    \A m \in Nullable(Maps) :
        JsonMap(m) \in Nullable(Maps) /\ structToMap(mapToStruct(m)) \in Nullable(Maps)
  BY NilAssumption, NilMessageAssumption DEF Nullable, JsonMap, structToMap, mapToStruct, Structs, Maps

(* An evaluation request names the same entities over either binding.       *)
LEMMA EvaluationCrosses ==
    ASSUME NEW r \in EvaluationRequests
    PROVE  /\ JsonEvaluation(r) \in EvaluationRequests /\ SameNames(JsonEvaluation(r), r)
           /\ evaluationRequestFromProto(evaluationRequestToProto(r)) \in EvaluationRequests
           /\ SameNames(evaluationRequestFromProto(evaluationRequestToProto(r)), r)
<1>1. /\ r.subject \in Nullable(Entities) /\ r.action \in Nullable(Actions)
      /\ r.resource \in Nullable(Entities) /\ r.context \in Nullable(Maps)
  BY DEF EvaluationRequests
<1>2. JsonEvaluation(r) = [subject |-> JsonEntity(r.subject), action |-> JsonEntity(r.action),
                           resource |-> JsonEntity(r.resource), context |-> JsonMap(r.context)]
  BY DEF JsonEvaluation, Fields
<1>3. JsonEvaluation(r) \in EvaluationRequests /\ SameNames(JsonEvaluation(r), r)
  BY <1>1, <1>2, EntityCrosses, MapCrosses DEF SameNames, EntityFields, EvaluationRequests
<1>4. evaluationRequestFromProto(evaluationRequestToProto(r)) =
        [subject |-> subjectFromProto(subjectToProto(r.subject)),
         action |-> actionFromProto(actionToProto(r.action)),
         resource |-> subjectFromProto(subjectToProto(r.resource)),
         context |-> structToMap(mapToStruct(r.context))]
  BY DEF evaluationRequestFromProto, evaluationRequestToProto, resourceFromProto, resourceToProto
<1> QED
  BY <1>1, <1>3, <1>4, EntityCrosses, MapCrosses DEF SameNames, EntityFields, EvaluationRequests

(* And so do a batch and each of its members.                               *)
LEMMA BatchCrosses ==
    ASSUME NEW r \in EvaluationsRequests
    PROVE  /\ JsonBatch(r) \in EvaluationsRequests /\ SameBatch(JsonBatch(r), r)
           /\ evaluationsRequestFromProto(evaluationsRequestToProto(r)) \in EvaluationsRequests
           /\ SameBatch(evaluationsRequestFromProto(evaluationsRequestToProto(r)), r)
<1>1. /\ r.subject \in Nullable(Entities) /\ r.action \in Nullable(Actions)
      /\ r.resource \in Nullable(Entities) /\ r.context \in Nullable(Maps)
      /\ r.evaluations \in Seq(EvaluationRequests) /\ r.options \in Nullable(Strings)
  BY DEF EvaluationsRequests
<1>2. /\ DOMAIN r.evaluations = 1 .. Len(r.evaluations)
      /\ \A k \in 1 .. Len(r.evaluations) : r.evaluations[k] \in EvaluationRequests
  BY <1>1, LenProperties, ElementOfSeq
<1> DEFINE es == r.evaluations
           js == [k \in DOMAIN es |-> JsonEvaluation(es[k])]
           m == [k \in DOMAIN es |-> evaluationRequestToProto(es[k])]
           ps == [k \in DOMAIN m |-> evaluationRequestFromProto(m[k])]
<1>3. /\ js \in Seq(EvaluationRequests) /\ Len(js) = Len(es)
      /\ \A k \in 1 .. Len(es) : SameNames(js[k], es[k])
  <2>1. \A k \in 1 .. Len(es) : js[k] \in EvaluationRequests /\ SameNames(js[k], es[k])
    BY <1>2, EvaluationCrosses
  <2>2. js \in [1 .. Len(es) -> EvaluationRequests] /\ Len(es) \in Nat
    BY <1>1, <1>2, <2>1, LenProperties
  <2> HIDE DEF js, es
  <2> QED
    BY <2>1, <2>2, Sliced
<1>4. /\ ps \in Seq(EvaluationRequests) /\ Len(ps) = Len(es)
      /\ \A k \in 1 .. Len(es) : SameNames(ps[k], es[k])
  <2>1. \A k \in 1 .. Len(es) : ps[k] \in EvaluationRequests /\ SameNames(ps[k], es[k])
    BY <1>2, EvaluationCrosses
  <2>2. ps \in [1 .. Len(es) -> EvaluationRequests] /\ Len(es) \in Nat
    BY <1>1, <1>2, <2>1, LenProperties
  <2> HIDE DEF ps, es
  <2> QED
    BY <2>1, <2>2, Sliced
<1> DEFINE q == evaluationsRequestFromProto(evaluationsRequestToProto(r))
<1>5. JsonBatch(r) \in EvaluationsRequests /\ SameBatch(JsonBatch(r), r)
  <2>1. JsonBatch(r) = [subject |-> JsonEntity(r.subject), action |-> JsonEntity(r.action),
                        resource |-> JsonEntity(r.resource), context |-> JsonMap(r.context),
                        evaluations |-> js, options |-> r.options]
    BY DEF JsonBatch
  <2> HIDE DEF js
  <2> QED
    BY <1>1, <1>3, <2>1, EntityCrosses, MapCrosses
       DEF SameBatch, SameNames, EntityFields, EvaluationsRequests
<1>6. q = [subject |-> subjectFromProto(subjectToProto(r.subject)),
           action |-> actionFromProto(actionToProto(r.action)),
           resource |-> subjectFromProto(subjectToProto(r.resource)),
           context |-> structToMap(mapToStruct(r.context)),
           evaluations |-> ps, options |-> optionsFromProto(optionsToProto(r.options))]
  <2> DEFINE p == evaluationsRequestToProto(r)
  <2>1. /\ p.subject = subjectToProto(r.subject) /\ p.action = actionToProto(r.action)
        /\ p.resource = subjectToProto(r.resource) /\ p.context = mapToStruct(r.context)
        /\ p.evaluations = m /\ p.options = optionsToProto(r.options)
    BY DEF evaluationsRequestToProto, resourceToProto
  <2>2. q = [subject |-> subjectFromProto(p.subject), action |-> actionFromProto(p.action),
             resource |-> subjectFromProto(p.resource), context |-> structToMap(p.context),
             evaluations |-> [k \in DOMAIN p.evaluations |->
                                evaluationRequestFromProto(p.evaluations[k])],
             options |-> optionsFromProto(p.options)]
    BY DEF evaluationsRequestFromProto, resourceFromProto
  <2> HIDE DEF p, q, m
  <2>3. [k \in DOMAIN p.evaluations |-> evaluationRequestFromProto(p.evaluations[k])] = ps
    BY <2>1, Zenon
  <2> HIDE DEF ps
  <2> QED
    BY <2>1, <2>2, <2>3
<1>7. optionsFromProto(optionsToProto(r.options)) \in Nullable(Strings)
  BY <1>1, NilAssumption
     DEF optionsFromProto, optionsToProto, semanticToProto, semanticFromProto, Semantics, Nullable,
         Strings
<1>8. q \in EvaluationsRequests /\ SameBatch(q, r)
  <2> HIDE DEF q, ps
  <2> QED
    BY <1>1, <1>4, <1>6, <1>7, EntityCrosses, MapCrosses
       DEF SameBatch, SameNames, EntityFields, EvaluationsRequests
<1> QED
  BY <1>5, <1>8

(* The members a batch resolves to: one for a batch without any.            *)
LEMMA ResolvedTyped ==
    ASSUME NEW r \in EvaluationsRequests
    PROVE  /\ Resolved(r) \in Seq(EvaluationRequests)
           /\ Len(Resolved(r)) = IF Len(r.evaluations) = 0 THEN 1 ELSE Len(r.evaluations)
           /\ Len(r.evaluations) \in Nat
           /\ r.evaluations = <<>> <=> Len(r.evaluations) = 0
<1>1. /\ r.subject \in Nullable(Entities) /\ r.action \in Nullable(Actions)
      /\ r.resource \in Nullable(Entities) /\ r.context \in Nullable(Maps)
      /\ r.evaluations \in Seq(EvaluationRequests)
  BY DEF EvaluationsRequests
<1>2. /\ DOMAIN r.evaluations = 1 .. Len(r.evaluations) /\ Len(r.evaluations) \in Nat
      /\ \A k \in 1 .. Len(r.evaluations) : r.evaluations[k] \in EvaluationRequests
      /\ r.evaluations = <<>> <=> Len(r.evaluations) = 0
  BY <1>1, LenProperties, ElementOfSeq, EmptySeq
<1>3. CASE r.evaluations = <<>>
  <2>1. [f \in Fields |-> r[f]] =
            [subject |-> r.subject, action |-> r.action, resource |-> r.resource, context |-> r.context]
    BY DEF Fields
  <2>2. [f \in Fields |-> r[f]] \in EvaluationRequests
    BY <1>1, <2>1 DEF EvaluationRequests
  <2> QED
    BY <1>2, <1>3, <2>2 DEF Resolved
<1>4. CASE r.evaluations # <<>>
  <2> DEFINE t == [k \in 1 .. Len(r.evaluations) |->
                    [f \in Fields |-> IF r.evaluations[k][f] # None
                                      THEN r.evaluations[k][f] ELSE r[f]]]
  <2>1. Resolved(r) = t
    BY <1>4 DEF Resolved
  <2>2. ASSUME NEW k \in 1 .. Len(r.evaluations) PROVE t[k] \in EvaluationRequests
    <3> DEFINE e == r.evaluations[k]
               g(f) == IF e[f] # None THEN e[f] ELSE r[f]
    <3>1. t[k] = [subject |-> g("subject"), action |-> g("action"),
                  resource |-> g("resource"), context |-> g("context")]
      BY DEF Fields
    <3>2. e \in EvaluationRequests
      BY <1>2
    <3>3. /\ g("subject") \in Nullable(Entities) /\ g("action") \in Nullable(Actions)
          /\ g("resource") \in Nullable(Entities) /\ g("context") \in Nullable(Maps)
      BY <1>1, <3>2 DEF EvaluationRequests
    <3> HIDE DEF t, g
    <3> QED
      BY <3>1, <3>3 DEF EvaluationRequests
  <2>3. t \in [1 .. Len(r.evaluations) -> EvaluationRequests]
    BY <2>2
  <2> HIDE DEF t
  <2>4. t \in Seq(EvaluationRequests) /\ Len(t) = Len(r.evaluations)
    BY <1>2, <2>3, Sliced
  <2> QED
    BY <1>2, <1>4, <2>1, <2>4
<1> QED
  BY <1>3, <1>4

(* An entity has a name if it is there.                                     *)
LEMMA NamedNil == \A e \in Nullable(Entities) \cup Nullable(Actions) : Named(e) = None <=> e = None
  BY NilAssumption DEF Nullable, Entities, Actions, Named

(* Batches that name the same entities resolve to members that do.          *)
LEMMA SameBatchResolved ==
    ASSUME NEW r \in EvaluationsRequests, NEW q \in EvaluationsRequests, SameBatch(r, q)
    PROVE  /\ Len(Resolved(r)) = Len(Resolved(q))
           /\ \A k \in 1 .. Len(Resolved(r)) : SameNames(Resolved(r)[k], Resolved(q)[k])
<1>1. Len(r.evaluations) = Len(q.evaluations) /\ SameNames(r, q)
  BY DEF SameBatch
<1>2. Len(Resolved(r)) = Len(Resolved(q))
  BY <1>1, ResolvedTyped
<1>3. CASE r.evaluations = <<>>
  <2>1. q.evaluations = <<>> /\ Len(Resolved(r)) = 1
    BY <1>1, <1>3, ResolvedTyped
  <2>2. \A f \in EntityFields : Resolved(r)[1][f] = r[f] /\ Resolved(q)[1][f] = q[f]
    BY <1>3, <2>1 DEF Resolved, EntityFields, Fields
  <2> QED
    BY <1>1, <1>2, <2>1, <2>2 DEF SameNames
<1>4. CASE r.evaluations # <<>>
  <2>1. q.evaluations # <<>> /\ Len(Resolved(r)) = Len(r.evaluations)
    BY <1>1, <1>4, ResolvedTyped
  <2>2. ASSUME NEW k \in 1 .. Len(r.evaluations), NEW f \in EntityFields
        PROVE  Named(Resolved(r)[k][f]) = Named(Resolved(q)[k][f])
    <3>1. /\ Resolved(r)[k][f] = IF r.evaluations[k][f] # None THEN r.evaluations[k][f] ELSE r[f]
          /\ Resolved(q)[k][f] = IF q.evaluations[k][f] # None THEN q.evaluations[k][f] ELSE q[f]
      BY <1>1, <1>4, <2>1 DEF Resolved, EntityFields, Fields
    <3>2. Named(r.evaluations[k][f]) = Named(q.evaluations[k][f]) /\ Named(r[f]) = Named(q[f])
      BY <1>1 DEF SameBatch, SameNames
    <3>3. /\ r.evaluations[k] \in EvaluationRequests /\ q.evaluations[k] \in EvaluationRequests
      <4>1. r.evaluations \in Seq(EvaluationRequests) /\ q.evaluations \in Seq(EvaluationRequests)
        BY DEF EvaluationsRequests
      <4> QED
        BY <1>1, <4>1, ElementOfSeq
    <3>4. /\ r.evaluations[k][f] \in Nullable(Entities) \cup Nullable(Actions)
          /\ q.evaluations[k][f] \in Nullable(Entities) \cup Nullable(Actions)
      BY <3>3 DEF EvaluationRequests, EntityFields
    <3> QED
      BY <3>1, <3>2, <3>4, NamedNil
  <2> QED
    BY <1>2, <2>1, <2>2 DEF SameNames
<1> QED
  BY <1>3, <1>4

(* A page limit after a conversion: never more, and none stays none.        *)
LimitKept(asked, got) ==
    /\ asked >= 0 => got <= asked
    /\ got > 0 <=> asked > 0
    /\ got < 0 <=> asked < 0

(* The conversion to int32 cuts and keeps the sign (conv.go:115-123).       *)
LEMMA ClampKeepsSign ==
    ASSUME NEW n \in Int
    PROVE  clampInt32(n) \in Int /\ LimitKept(n, clampInt32(n))
  BY Int32Assumption DEF clampInt32, LimitKept

LimitOf(p) == IF p = None THEN 0 ELSE p.limit

(* A page keeps its limit, as far as the message can hold it.               *)
LEMMA PageCrosses ==
    ASSUME NEW p \in Nullable(Pages)
    PROVE  /\ JsonPage(p) \in Nullable(Pages)
           /\ pageFromProto(pageToProto(p)) \in Nullable(Pages)
           /\ p # None => /\ LimitKept(p.limit, LimitOf(JsonPage(p)))
                          /\ LimitKept(p.limit, LimitOf(pageFromProto(pageToProto(p))))
<1>1. CASE p = None
  <2>1. pageFromProto(pageToProto(p)) = None
    BY <1>1 DEF pageFromProto, pageToProto
  <2> QED
    BY <1>1, <2>1 DEF JsonPage, Nullable
<1>2. CASE p \in Pages
  <2> DEFINE n == clampInt32(p.limit)
             m == [size |-> n, token |-> p.token, props |-> mapToStruct(p.props)]
  <2>1. p # None /\ p.limit \in Int /\ p.token \in Strings /\ p.props \in Nullable(Maps)
    BY <1>2, NilAssumption DEF Pages
  <2>2. JsonPage(p) \in Pages /\ JsonPage(p).limit = p.limit
    BY <1>2, <2>1, MapCrosses DEF JsonPage, Pages
  <2>3. LimitKept(p.limit, p.limit)
    BY <2>1 DEF LimitKept
  <2>4. n \in Int /\ LimitKept(p.limit, n)
    BY <2>1, ClampKeepsSign
  <2>5. pageToProto(p) = m
    BY <2>1 DEF pageToProto
  <2> HIDE DEF n
  <2>6. CASE m = [size |-> 0, token |-> "", props |-> None]
    <3>1. n = 0 /\ pageFromProto(m) = None
      BY <2>6 DEF pageFromProto
    <3> QED
      BY <2>1, <2>2, <2>3, <2>4, <2>5, <3>1, NilAssumption DEF LimitOf, Nullable
  <2>7. CASE m # [size |-> 0, token |-> "", props |-> None]
    <3> DEFINE g == [limit |-> n, token |-> p.token, props |-> structToMap(mapToStruct(p.props))]
    <3>1. pageFromProto(m) = g
      BY <2>7 DEF pageFromProto
    <3>2. g \in Pages /\ g.limit = n
      BY <2>1, <2>4, MapCrosses DEF Pages
    <3> HIDE DEF g, m
    <3> QED
      BY <2>1, <2>2, <2>3, <2>4, <2>5, <3>1, <3>2, NilAssumption DEF LimitOf, Nullable
  <2> QED
    BY <2>6, <2>7
<1> QED
  BY <1>1, <1>2 DEF Nullable

(* A search keeps its form over either binding; only an action search       *)
(* drops a field, the action nobody searches with.                          *)
LEMMA SearchCrosses ==
    ASSUME NEW r \in SearchRequests
    PROVE  /\ JsonSearch(r) \in SearchRequests
           /\ JsonSearch(r).page = JsonPage(r.page)
           /\ subjectSearchRequestFromProto(subjectSearchRequestToProto(r)) \in SearchRequests
           /\ subjectSearchRequestFromProto(subjectSearchRequestToProto(r)).page
                = pageFromProto(pageToProto(r.page))
           /\ actionSearchRequestFromProto(actionSearchRequestToProto(r)) \in SearchRequests
           /\ actionSearchRequestFromProto(actionSearchRequestToProto(r)).page
                = pageFromProto(pageToProto(r.page))
<1>1. /\ r.subject \in Nullable(Entities) /\ r.action \in Nullable(Actions)
      /\ r.resource \in Nullable(Entities) /\ r.context \in Nullable(Maps)
      /\ r.page \in Nullable(Pages)
  BY DEF SearchRequests
<1> DEFINE q == subjectSearchRequestFromProto(subjectSearchRequestToProto(r))
           p == subjectSearchRequestToProto(r)
           a == [p EXCEPT !.action = None]
           s == [subject |-> subjectFromProto(subjectToProto(r.subject)),
                 action |-> actionFromProto(actionToProto(r.action)),
                 resource |-> subjectFromProto(subjectToProto(r.resource)),
                 context |-> structToMap(mapToStruct(r.context)),
                 page |-> pageFromProto(pageToProto(r.page))]
           t == [s EXCEPT !.action = None]
<1>2. JsonSearch(r) \in SearchRequests /\ JsonSearch(r).page = JsonPage(r.page)
  BY <1>1, EntityCrosses, MapCrosses, PageCrosses DEF JsonSearch, SearchRequests
<1>3. /\ p = [subject |-> subjectToProto(r.subject), action |-> actionToProto(r.action),
              resource |-> subjectToProto(r.resource), context |-> mapToStruct(r.context),
              page |-> pageToProto(r.page)]
  BY DEF subjectSearchRequestToProto, resourceToProto
<1>4. q = s
  BY <1>3 DEF subjectSearchRequestFromProto, resourceFromProto, subjectSearchRequestToProto, resourceToProto
<1>5. s \in SearchRequests /\ t \in SearchRequests /\ t.page = s.page
  BY <1>1, EntityCrosses, MapCrosses, PageCrosses DEF SearchRequests, Nullable
<1>6. actionSearchRequestToProto(r) = [subject |-> subjectToProto(r.subject), action |-> None,
              resource |-> subjectToProto(r.resource), context |-> mapToStruct(r.context),
              page |-> pageToProto(r.page)]
  BY DEF actionSearchRequestToProto, subjectSearchRequestToProto, resourceToProto
<1>7. actionSearchRequestFromProto(actionSearchRequestToProto(r)) =
        [subject |-> s.subject, action |-> None, resource |-> s.resource, context |-> s.context,
         page |-> s.page]
  BY <1>6 DEF actionSearchRequestFromProto, subjectSearchRequestFromProto, resourceFromProto
<1>8. t = [subject |-> s.subject, action |-> None, resource |-> s.resource, context |-> s.context,
           page |-> s.page]
  OBVIOUS
<1>9. s.page = pageFromProto(pageToProto(r.page))
  OBVIOUS
<1> HIDE DEF q, p, a, s, t
<1> QED
  BY <1>2, <1>4, <1>5, <1>7, <1>8, <1>9 DEF q

Ops == {"evaluate", "batch", "metadata"} \cup Searches

(* What a server receives is a request of the operation's type, that names  *)
(* what the PEP named.                                                      *)
LEMMA ReceivedTyped ==
    ASSUME NEW c \in Calls
    PROVE  Received(c) \in Bodies(c.op)
<1>1. c.op \in Ops /\ c.body \in Bodies(c.op)
  BY ServiceAssumption DEF Ops
<1>2. CASE c.op = "evaluate"
  BY <1>1, <1>2, EvaluationCrosses DEF Bodies, Searches, Received, Encoded, ProtoRequest, FromProto, JsonRequest
<1>3. CASE c.op = "batch"
  BY <1>1, <1>3, BatchCrosses DEF Bodies, Searches, Received, Encoded, ProtoRequest, FromProto, JsonRequest
<1>4. CASE c.op = "metadata"
  BY <1>1, <1>4 DEF Bodies, Searches, Received, Encoded, ProtoRequest, FromProto, JsonRequest
<1>5. CASE c.op \in Searches
  BY <1>1, <1>5, SearchCrosses
     DEF Bodies, Searches, Received, Encoded, ProtoRequest, FromProto, JsonRequest,
         resourceSearchRequestToProto, resourceSearchRequestFromProto
<1> QED
  BY <1>1, <1>2, <1>3, <1>4, <1>5 DEF Ops

(* What the server receives names what the PEP named.                       *)
LEMMA ReceivedNames ==
    ASSUME NEW c \in Calls
    PROVE  /\ c.op = "evaluate" => SameNames(Received(c), c.body)
           /\ c.op = "batch" => SameBatch(Received(c), c.body)
<1>1. c.body \in Bodies(c.op)
  BY ServiceAssumption
<1>2. CASE c.op = "evaluate"
  BY <1>1, <1>2, EvaluationCrosses
     DEF Bodies, Searches, Received, Encoded, ProtoRequest, FromProto, JsonRequest, SameNames
<1>3. CASE c.op = "batch"
  <2>1. SameBatch(c.body, c.body)
    BY DEF SameBatch, SameNames
  <2> QED
    BY <1>1, <1>3, <2>1, BatchCrosses DEF Bodies, Searches, Received, Encoded, ProtoRequest, FromProto, JsonRequest
<1> QED
  BY <1>2, <1>3

(* The limit a server receives is the one the PEP set, or is cut.           *)
LEMMA ReceivedLimits ==
    ASSUME NEW c \in Calls, c.op \in Searches, c.pep # "raw", c.body.page # None
    PROVE  LimitKept(c.body.page.limit, LimitOf(Received(c).page))
<1>1. c.body \in SearchRequests
  BY ServiceAssumption DEF Bodies, Searches
<1>2. c.body.page \in Nullable(Pages)
  BY <1>1 DEF SearchRequests
<1>3. Received(c).page \in {JsonPage(c.body.page), pageFromProto(pageToProto(c.body.page))}
  BY <1>1, SearchCrosses
     DEF Searches, Received, Encoded, ProtoRequest, FromProto, JsonRequest,
         resourceSearchRequestToProto, resourceSearchRequestFromProto
<1> QED
  BY <1>2, <1>3, PageCrosses

(* What is taken out of a search leaves it valid.                           *)
LEMMA StrippedStaysValid ==
    ASSUME NEW op \in Ops, NEW r \in Bodies(op), Valid(op, r)
    PROVE  /\ Stripped(op, r) \in Bodies(op) /\ Valid(op, Stripped(op, r))
           /\ op = "subjects" => Stripped(op, r).subject.id = ""
           /\ op = "resources" => Stripped(op, r).resource.id = ""
           /\ op \in Searches => Stripped(op, r).page = r.page
           /\ op \in {"evaluate", "batch", "metadata"} => Stripped(op, r) = r
<1>1. CASE op = "subjects"
  <2>1. r \in SearchRequests /\ r.subject # None
    BY <1>1 DEF Bodies, Searches, Valid, ValidSubjectSearch
  <2>2. r.subject \in Entities
    BY <2>1 DEF SearchRequests, Nullable
  <2> DEFINE s == [r.subject EXCEPT !.id = ""]
             q == [r EXCEPT !.subject = s]
  <2>3. s \in Entities /\ s.id = "" /\ s.type = r.subject.type
    BY <2>2 DEF Entities, Strings
  <2> HIDE DEF s
  <2>4. q \in SearchRequests /\ q.subject = s /\ q.action = r.action /\ q.resource = r.resource
        /\ q.page = r.page
    BY <2>1, <2>3 DEF SearchRequests, Nullable
  <2>5. Stripped(op, r) = q
    BY <1>1 DEF Stripped, s
  <2> HIDE DEF q
  <2>6. s # None
    BY <2>3, NilAssumption
  <2> QED
    BY <1>1, <2>3, <2>4, <2>5, <2>6 DEF Valid, ValidSubjectSearch, Bodies, Searches
<1>2. CASE op = "resources"
  <2>1. r \in SearchRequests /\ r.resource # None
    BY <1>2 DEF Bodies, Searches, Valid, ValidResourceSearch
  <2>2. r.resource \in Entities
    BY <2>1 DEF SearchRequests, Nullable
  <2> DEFINE s == [r.resource EXCEPT !.id = ""]
             q == [r EXCEPT !.resource = s]
  <2>3. s \in Entities /\ s.id = "" /\ s.type = r.resource.type
    BY <2>2 DEF Entities, Strings
  <2> HIDE DEF s
  <2>4. q \in SearchRequests /\ q.resource = s /\ q.action = r.action /\ q.subject = r.subject
        /\ q.page = r.page
    BY <2>1, <2>3 DEF SearchRequests, Nullable
  <2>5. Stripped(op, r) = q
    BY <1>2 DEF Stripped, s
  <2> HIDE DEF q
  <2>6. s # None
    BY <2>3, NilAssumption
  <2> QED
    BY <1>2, <2>3, <2>4, <2>5, <2>6 DEF Valid, ValidResourceSearch, Bodies, Searches
<1>3. CASE op \notin {"subjects", "resources"}
  BY <1>3 DEF Stripped
<1> QED
  BY <1>1, <1>2, <1>3

(***************************************************************************)
(* What responses become on their way over a binding.                       *)
(***************************************************************************)

(* A decision keeps what it decides, and its error, over either binding.    *)
LEMMA DecisionCrosses ==
    ASSUME NEW d \in EvaluationResponses
    PROVE  /\ JsonDecision(d) \in EvaluationResponses
           /\ JsonDecision(d).decision = d.decision
           /\ JsonDecision(d).error = d.error
           /\ evaluationResponseFromProto(evaluationResponseToProto(d)) \in EvaluationResponses
           /\ evaluationResponseFromProto(evaluationResponseToProto(d)).decision = d.decision
<1>1. /\ d.decision \in BOOLEAN /\ d.context \in Nullable(Maps) /\ d.error \in Nullable(MemberErrors)
      /\ d = [decision |-> d.decision, context |-> d.context, error |-> d.error]
  BY DEF EvaluationResponses
<1>2. JsonDecision(d) = [decision |-> d.decision, context |-> JsonMap(d.context), error |-> d.error]
  BY <1>1 DEF JsonDecision
<1>3. evaluationResponseFromProto(evaluationResponseToProto(d)) =
        [decision |-> d.decision, context |-> structToMap(mapToStruct(d.context)), error |-> d.error]
  <2> DEFINE m == evaluationResponseToProto(d)
  <2>1. m = [decision |-> d.decision, context |-> mapToStruct(d.context), error |-> d.error]
    BY <1>1 DEF evaluationResponseToProto
  <2>2. evaluationResponseFromProto(m) = [m EXCEPT !.context = structToMap(m.context)]
    BY DEF evaluationResponseFromProto
  <2> HIDE DEF m
  <2>3. evaluationResponseFromProto(m) =
            [decision |-> m.decision, context |-> structToMap(m.context), error |-> m.error]
    BY <2>1, <2>2
  <2>4. m.decision = d.decision /\ m.context = mapToStruct(d.context) /\ m.error = d.error
    BY <2>1
  <2> QED
    BY <2>3, <2>4 DEF m
<1> QED
  BY <1>1, <1>2, <1>3, MapCrosses DEF EvaluationResponses

(* Two lists of decisions that say the same.                                *)
SameDecisions(s, t) ==
    /\ s \in Seq(EvaluationResponses) /\ t \in Seq(EvaluationResponses) /\ Len(s) = Len(t)
    /\ \A k \in 1 .. Len(t) : s[k].decision = t[k].decision

JsonList(s) == [k \in DOMAIN s |-> JsonDecision(s[k])]

ProtoList(s) == [k \in DOMAIN s |-> evaluationResponseToProto(s[k])]

ListFromProto(m) == [k \in DOMAIN m |-> evaluationResponseFromProto(m[k])]

(* A list of decisions keeps them, over either binding.                     *)
LEMMA ListCrosses ==
    ASSUME NEW s \in Seq(EvaluationResponses)
    PROVE  SameDecisions(JsonList(s), s) /\ SameDecisions(ListFromProto(ProtoList(s)), s)
<1>1. /\ DOMAIN s = 1 .. Len(s) /\ Len(s) \in Nat
      /\ \A k \in 1 .. Len(s) : s[k] \in EvaluationResponses
  BY LenProperties, ElementOfSeq
<1> DEFINE j == JsonList(s)
           p == ListFromProto(ProtoList(s))
<1>2. /\ j \in [1 .. Len(s) -> EvaluationResponses]
      /\ \A k \in 1 .. Len(s) : j[k].decision = s[k].decision
  BY <1>1, DecisionCrosses DEF JsonList
<1>3. /\ p \in [1 .. Len(s) -> EvaluationResponses]
      /\ \A k \in 1 .. Len(s) : p[k].decision = s[k].decision
  <2> DEFINE m == ProtoList(s)
  <2>1. DOMAIN m = 1 .. Len(s) /\ \A k \in 1 .. Len(s) : m[k] = evaluationResponseToProto(s[k])
    BY <1>1 DEF ProtoList
  <2> HIDE DEF m
  <2>2. p = [k \in 1 .. Len(s) |-> evaluationResponseFromProto(m[k])]
    BY <2>1 DEF ListFromProto, m
  <2>3. \A k \in 1 .. Len(s) :
            evaluationResponseFromProto(m[k]) \in EvaluationResponses
            /\ evaluationResponseFromProto(m[k]).decision = s[k].decision
    BY <1>1, <2>1, DecisionCrosses
  <2> HIDE DEF p
  <2> QED
    BY <2>2, <2>3
<1> HIDE DEF j, p
<1>4. /\ j \in Seq(EvaluationResponses) /\ Len(j) = Len(s)
      /\ p \in Seq(EvaluationResponses) /\ Len(p) = Len(s)
  BY <1>1, <1>2, <1>3, Sliced
<1> QED
  BY <1>1, <1>2, <1>3, <1>4 DEF SameDecisions, j, p

(* A batch response keeps its decisions, whichever shape it has.            *)
LEMMA BatchResponseCrosses ==
    ASSUME NEW v \in EvaluationsResponses, v.single # None => v.list \in {None, <<>>},
           NEW g \in {JsonBatchResponse(v),
                      evaluationsResponseFromProto(evaluationsResponseToProto(v))}
    PROVE  /\ g \in EvaluationsResponses
           /\ SameDecisions(DecisionsIn([kind |-> "batch", value |-> g]),
                            DecisionsIn([kind |-> "batch", value |-> v]))
           /\ g.single # None => g.list = None
           /\ DecisionsIn([kind |-> "batch", value |-> v])
                = IF v.single # None THEN <<v.single>> ELSE IF v.list # None THEN v.list ELSE <<>>
           /\ DecisionsIn([kind |-> "batch", value |-> g])
                = IF g.single # None THEN <<g.single>> ELSE IF g.list # None THEN g.list ELSE <<>>
<1> DEFINE Shown(r) == IF r.single # None THEN <<r.single>> ELSE IF r.list # None THEN r.list ELSE <<>>
<1>1. ASSUME NEW r PROVE DecisionsIn([kind |-> "batch", value |-> r]) = Shown(r)
  BY DEF DecisionsIn
<1>2. /\ v.single \in Nullable(EvaluationResponses)
      /\ v.list \in Nullable(Seq(EvaluationResponses))
  BY DEF EvaluationsResponses
<1>3. <<>> \in Seq(EvaluationResponses) /\ <<>> # None
  <2>1. <<>> \in Seq(EvaluationResponses)
    OBVIOUS
  <2>2. None \notin Seq(EvaluationResponses)
    BY NilAssumption
  <2> QED
    BY <2>1, <2>2, Zenon
<1>4. ASSUME NEW d \in EvaluationResponses, NEW e \in EvaluationResponses, e.decision = d.decision
      PROVE  SameDecisions(<<e>>, <<d>>)
  <2> DEFINE s == <<e>>
             t == <<d>>
  <2>0. s \in Seq(EvaluationResponses) /\ t \in Seq(EvaluationResponses)
    OBVIOUS
  <2>1. Len(s) = 1 /\ Len(t) = 1 /\ s[1] = e /\ t[1] = d
    OBVIOUS
  <2> HIDE DEF s, t
  <2>2. \A k \in 1 .. Len(t) : k = 1
    BY <2>1
  <2>3. \A k \in 1 .. Len(t) : s[k].decision = t[k].decision
    BY <1>4, <2>1, <2>2, Zenon
  <2>4. SameDecisions(s, t)
    BY <2>0, <2>1, <2>3 DEF SameDecisions
  <2> QED
    BY <2>4 DEF s, t
<1>5. SameDecisions(<<>>, <<>>)
  BY DEF SameDecisions
<1>6. CASE g = JsonBatchResponse(v)
  <2>1. CASE v.single # None
    <3>1. v.single \in EvaluationResponses
      BY <1>2, <2>1 DEF Nullable
    <3>2. g = [single |-> JsonDecision(v.single), list |-> None]
      BY <1>6, <2>1 DEF JsonBatchResponse
    <3>3. JsonDecision(v.single) \in EvaluationResponses /\ JsonDecision(v.single) # None
      BY <3>1, DecisionCrosses, NilAssumption
    <3>4. SameDecisions(<<JsonDecision(v.single)>>, <<v.single>>)
      BY <1>4, <3>1, <3>3, DecisionCrosses
    <3>5. g.single = JsonDecision(v.single) /\ g.list = None /\ g \in EvaluationsResponses
      BY <3>2, <3>3 DEF EvaluationsResponses, Nullable
    <3> QED
      BY <1>1, <2>1, <3>3, <3>4, <3>5
  <2>2. CASE v.single = None /\ v.list # None
    <3>1. v.list \in Seq(EvaluationResponses)
      BY <1>2, <2>2 DEF Nullable
    <3>2. g = [single |-> None, list |-> JsonList(v.list)]
      BY <1>6, <2>2 DEF JsonBatchResponse, JsonList
    <3>3. SameDecisions(JsonList(v.list), v.list)
      BY <3>1, ListCrosses
    <3>4. JsonList(v.list) \in Seq(EvaluationResponses) /\ JsonList(v.list) # None
      BY <3>3, NilAssumption DEF SameDecisions
    <3>5. g.single = None /\ g.list = JsonList(v.list) /\ g \in EvaluationsResponses
      BY <3>2, <3>4 DEF EvaluationsResponses, Nullable
    <3> QED
      BY <1>1, <2>2, <3>3, <3>4, <3>5
  <2>3. CASE v.single = None /\ v.list = None
    <3>1. g = [single |-> None, list |-> <<>>]
      BY <1>6, <2>3 DEF JsonBatchResponse
    <3>2. g.single = None /\ g.list = <<>> /\ g \in EvaluationsResponses
      BY <1>3, <3>1 DEF EvaluationsResponses, Nullable
    <3> QED
      BY <1>1, <1>3, <1>5, <2>3, <3>2
  <2> QED
    BY <2>1, <2>2, <2>3
<1>7. CASE g = evaluationsResponseFromProto(evaluationsResponseToProto(v))
  <2> DEFINE m == evaluationsResponseToProto(v)
  <2>1. g = [single |-> None, list |-> ListFromProto(m)]
    BY <1>7 DEF evaluationsResponseFromProto, ListFromProto
  <2>2. SameDecisions(ListFromProto(m), Shown(v))
    <3>1. CASE v.single # None
      <4>1. v.single \in EvaluationResponses /\ v.list \in {None, <<>>}
        BY <1>2, <3>1 DEF Nullable
      <4>2. m = <<evaluationResponseToProto(v.single)>>
        BY <3>1, <4>1 DEF evaluationsResponseToProto
      <4>3. <<v.single>> \in Seq(EvaluationResponses) /\ DOMAIN <<v.single>> = {1} /\ <<v.single>>[1] = v.single
        BY <4>1
      <4> DEFINE one == <<v.single>>
      <4>4. ProtoList(one) = [k \in {1} |-> evaluationResponseToProto(one[k])]
        BY <4>3 DEF ProtoList
      <4>5. m = [k \in {1} |-> evaluationResponseToProto(one[k])]
        BY <4>2, <4>3
      <4> QED
        BY <3>1, <4>3, <4>4, <4>5, ListCrosses
    <3>2. CASE v.single = None /\ v.list # None
      <4>1. v.list \in Seq(EvaluationResponses) /\ m = ProtoList(v.list)
        BY <1>2, <3>2 DEF Nullable, evaluationsResponseToProto, ProtoList
      <4> QED
        BY <3>2, <4>1, ListCrosses
    <3>3. CASE v.single = None /\ v.list = None
      <4>1. m = <<>>
        BY <3>3 DEF evaluationsResponseToProto
      <4>2. DOMAIN <<>> = {}
        OBVIOUS
      <4>3. ListFromProto(<<>>) = ProtoList(<<>>) /\ ProtoList(<<>>) = <<>>
        BY DEF ListFromProto, ProtoList
      <4> QED
        BY <1>3, <1>5, <3>3, <4>1, <4>3
    <3> QED
      BY <3>1, <3>2, <3>3
  <2> HIDE DEF m
  <2>3. ListFromProto(m) \in Seq(EvaluationResponses) /\ ListFromProto(m) # None
    BY <2>2, NilAssumption DEF SameDecisions
  <2>4. g.single = None /\ g.list = ListFromProto(m) /\ g \in EvaluationsResponses
    BY <2>1, <2>3 DEF EvaluationsResponses, Nullable
  <2> QED
    BY <1>1, <2>2, <2>3, <2>4
<1> QED
  BY <1>6, <1>7

(* What crosses a binding keeps its type.                                   *)
LEMMA FoundCrosses ==
    ASSUME NEW T \in {Entities, Actions}, NEW e \in T
    PROVE  JsonEntity(e) \in T /\ subjectFromProto(subjectToProto(e)) \in T
<1>1. e # None /\ e \in Nullable(Entities) \cup Nullable(Actions)
  BY NilAssumption DEF Nullable
<1>3. subjectFromProto(subjectToProto(e)) = actionFromProto(actionToProto(e))
  BY DEF subjectFromProto, subjectToProto, actionFromProto, actionToProto
<1>4. /\ JsonEntity(e) \in Nullable(T) /\ Named(JsonEntity(e)) = Named(e)
      /\ subjectFromProto(subjectToProto(e)) \in Nullable(T)
      /\ Named(subjectFromProto(subjectToProto(e))) = Named(e)
  BY <1>1, <1>3, EntityCrosses DEF Nullable
<1> QED
  BY <1>1, <1>4, NamedNil DEF Nullable

(* The page of a search response keeps its type.                            *)
LEMMA PageResponseCrosses ==
    ASSUME NEW p \in Nullable(PageResponses)
    PROVE  /\ JsonPage(p) \in Nullable(PageResponses)
           /\ pageResponseFromProto(pageResponseToProto(p)) \in Nullable(PageResponses)
<1>1. CASE p = None
  BY <1>1 DEF JsonPage, pageResponseFromProto, pageResponseToProto, Nullable
<1>2. CASE p \in PageResponses
  <2> DEFINE m == pageResponseToProto(p)
             n == clampInt32(p.count)
  <2>1. /\ p # None /\ p.next \in Strings /\ p.count \in Int /\ p.props \in Nullable(Maps)
        /\ p = [next |-> p.next, count |-> p.count, props |-> p.props]
    BY <1>2, NilAssumption DEF PageResponses
  <2>2. JsonPage(p) = [next |-> p.next, count |-> p.count, props |-> JsonMap(p.props)]
    BY <2>1 DEF JsonPage
  <2>3. m = [next |-> p.next, count |-> n, props |-> mapToStruct(p.props)] /\ n \in Int
    BY <2>1, ClampKeepsSign DEF pageResponseToProto
  <2>4. pageResponseFromProto(m) = IF m = None THEN None ELSE [m EXCEPT !.props = structToMap(m.props)]
    BY DEF pageResponseFromProto
  <2> HIDE DEF m, n
  <2>5. pageResponseFromProto(m) = None
        \/ pageResponseFromProto(m) = [next |-> p.next, count |-> n,
                                       props |-> structToMap(mapToStruct(p.props))]
    BY <2>3, <2>4
  <2>6. /\ [next |-> p.next, count |-> n, props |-> structToMap(mapToStruct(p.props))] \in PageResponses
        /\ JsonPage(p) \in PageResponses
    BY <2>1, <2>2, <2>3, MapCrosses DEF PageResponses
  <2> QED
    BY <2>5, <2>6 DEF Nullable, m
<1> QED
  BY <1>1, <1>2 DEF Nullable

JsonFound(s) == [k \in DOMAIN s |-> JsonEntity(s[k])]

ProtoFound(s) == [k \in DOMAIN s |-> subjectToProto(s[k])]

FoundFromProto(m) == [k \in DOMAIN m |-> subjectFromProto(m[k])]

(* Lists of found entities keep their type.                                 *)
LEMMA ListOfFoundCrosses ==
    ASSUME NEW T \in {Entities, Actions}, NEW s \in Seq(T)
    PROVE  JsonFound(s) \in Seq(T) /\ FoundFromProto(ProtoFound(s)) \in Seq(T)
<1>1. DOMAIN s = 1 .. Len(s) /\ Len(s) \in Nat /\ \A k \in 1 .. Len(s) : s[k] \in T
  BY LenProperties, ElementOfSeq
<1> DEFINE j == JsonFound(s)
           m == ProtoFound(s)
           p == FoundFromProto(m)
<1>2. j \in [1 .. Len(s) -> T]
  BY <1>1, FoundCrosses DEF JsonFound
<1>3. DOMAIN m = 1 .. Len(s) /\ \A k \in 1 .. Len(s) : m[k] = subjectToProto(s[k])
  BY <1>1 DEF ProtoFound
<1> HIDE DEF m
<1>4. p = [k \in 1 .. Len(s) |-> subjectFromProto(m[k])]
  BY <1>3 DEF FoundFromProto
<1>5. \A k \in 1 .. Len(s) : subjectFromProto(m[k]) \in T
  BY <1>1, <1>3, FoundCrosses
<1> HIDE DEF j, p
<1>6. p \in [1 .. Len(s) -> T]
  BY <1>4, <1>5
<1>7. j \in Seq(T) /\ p \in Seq(T)
  BY <1>1, <1>2, <1>6, Sliced
<1> QED
  BY <1>7 DEF j, p, m

(* What a list of found entities, or none, becomes over gRPC.               *)
LEMMA FoundOverGrpc ==
    ASSUME NEW v \in SearchResponses
    PROVE  FoundFromProto(Listed(ProtoFound(Listed(v.results)))) \in Seq(Entities) \cup Seq(Actions)
<1>1. v.results \in Nullable(Seq(Entities) \cup Seq(Actions))
  BY DEF SearchResponses
<1>2. <<>> \in Seq(Entities)
  OBVIOUS
<1>3. Listed(v.results) \in Seq(Entities) \cup Seq(Actions)
  BY <1>1, <1>2 DEF Listed, Nullable
<1> DEFINE m == ProtoFound(Listed(v.results))
<1>4. FoundFromProto(m) \in Seq(Entities) \cup Seq(Actions)
  BY <1>3, ListOfFoundCrosses
<1>5. Listed(m) \in {m, <<>>}
  BY DEF Listed
<1>6. FoundFromProto(<<>>) = <<>>
  BY DEF FoundFromProto
<1> HIDE DEF m
<1>7. FoundFromProto(Listed(m)) \in Seq(Entities) \cup Seq(Actions)
  BY <1>2, <1>4, <1>5, <1>6
<1> QED
  BY <1>7 DEF m

(* A search response keeps its type, over either binding.                   *)
LEMMA SearchResponseCrosses ==
    ASSUME NEW v \in SearchResponses
    PROVE  /\ JsonSearchResponse(v) \in SearchResponses
           /\ subjectSearchResponseFromProto(subjectSearchResponseToProto(v)) \in SearchResponses
           /\ resourceSearchResponseFromProto(resourceSearchResponseToProto(v)) \in SearchResponses
           /\ actionSearchResponseFromProto(actionSearchResponseToProto(v)) \in SearchResponses
<1>1. /\ v.results \in Nullable(Seq(Entities) \cup Seq(Actions))
      /\ v.page \in Nullable(PageResponses) /\ v.context \in Nullable(Maps)
  BY DEF SearchResponses
<1> DEFINE m == subjectSearchResponseToProto(v)
           found == IF v.results = None THEN <<>> ELSE JsonFound(v.results)
<1>2. JsonSearchResponse(v) \in SearchResponses
  <2>1. JsonSearchResponse(v) = [results |-> found, page |-> JsonPage(v.page), context |-> JsonMap(v.context)]
    BY DEF JsonSearchResponse, JsonFound
  <2>2. <<>> \in Seq(Entities)
    OBVIOUS
  <2>3. found \in Seq(Entities) \cup Seq(Actions)
    BY <1>1, <2>2, ListOfFoundCrosses DEF Nullable
  <2>4. JsonPage(v.page) \in Nullable(PageResponses) /\ JsonMap(v.context) \in Nullable(Maps)
    BY <1>1, PageResponseCrosses, MapCrosses
  <2> HIDE DEF found
  <2> QED
    BY <2>1, <2>3, <2>4 DEF SearchResponses, Nullable
<1>3. subjectSearchResponseFromProto(m) \in SearchResponses
  <2>1. /\ m.results = ProtoFound(Listed(v.results))
        /\ m.page = pageResponseToProto(v.page) /\ m.context = mapToStruct(v.context)
    BY DEF subjectSearchResponseToProto, ProtoFound
  <2>2. subjectSearchResponseFromProto(m) =
            [results |-> FoundFromProto(Listed(m.results)), page |-> pageResponseFromProto(m.page),
             context |-> structToMap(m.context)]
    BY DEF subjectSearchResponseFromProto, FoundFromProto
  <2>3. FoundFromProto(Listed(ProtoFound(Listed(v.results)))) \in Seq(Entities) \cup Seq(Actions)
    BY FoundOverGrpc
  <2> HIDE DEF m
  <2>4. FoundFromProto(Listed(m.results)) \in Seq(Entities) \cup Seq(Actions)
    BY <2>1, <2>3
  <2>5. /\ pageResponseFromProto(m.page) \in Nullable(PageResponses)
        /\ structToMap(m.context) \in Nullable(Maps)
    BY <1>1, <2>1, PageResponseCrosses, MapCrosses
  <2> QED
    BY <2>2, <2>4, <2>5 DEF SearchResponses, Nullable
<1>4. /\ resourceSearchResponseFromProto(resourceSearchResponseToProto(v)) = subjectSearchResponseFromProto(m)
      /\ actionSearchResponseFromProto(actionSearchResponseToProto(v)) = subjectSearchResponseFromProto(m)
  <2>1. resourceSearchResponseToProto(v) = m /\ actionSearchResponseToProto(v) = m
    BY DEF resourceSearchResponseToProto, actionSearchResponseToProto, subjectSearchResponseToProto,
           resourceToProto, subjectToProto, actionToProto
  <2>2. /\ resourceSearchResponseFromProto(m) = subjectSearchResponseFromProto(m)
        /\ actionSearchResponseFromProto(m) = subjectSearchResponseFromProto(m)
    BY DEF resourceSearchResponseFromProto, actionSearchResponseFromProto, subjectSearchResponseFromProto,
           resourceFromProto, subjectFromProto, actionFromProto
  <2> QED
    BY <2>1, <2>2
<1> QED
  BY <1>2, <1>3, <1>4

(* The zero values a client may be left with are results.                   *)
LEMMA ZeroValueTyped ==
    ASSUME NEW op \in Ops
    PROVE  ZeroValue(op) \in Results /\ Failed \in Results
<1>1. [decision |-> FALSE, context |-> None, error |-> None] \in EvaluationResponses
  BY DEF EvaluationResponses, Nullable
<1>2. [single |-> None, list |-> None] \in EvaluationsResponses
  BY DEF EvaluationsResponses, Nullable
<1>3. [results |-> None, page |-> None, context |-> None] \in SearchResponses
  BY DEF SearchResponses, Nullable
<1> QED
  BY <1>1, <1>2, <1>3 DEF ZeroValue, Failed, Results, ResponseValues, Ops, Searches

(* sameIssuer accepts only the same PDP (client.go:414-470).                *)
LEMMA SameIssuerSamePdp ==
    ASSUME NEW a, NEW b, sameIssuer(a, b)
    PROVE  SamePdp(a, b)
<1>1. /\ a # NoURL /\ ~Rejected(a) /\ b # NoURL /\ ~Rejected(b)
      /\ normalizeIssuer(a) = normalizeIssuer(b)
  BY Zenon DEF sameIssuer, normalizeIssuer
<1>2. ~a.user /\ ~b.user
  BY <1>1, Zenon DEF Rejected
<1>3. /\ a.scheme = "https" \/ (a.scheme = "http" /\ a.host \in Loopback)
      /\ b.scheme \in {"http", "https"}
  BY <1>1 DEF Rejected
<1> DEFINE port(u) == IF u.port = DefaultPort(u.scheme) THEN "" ELSE u.port
<1>4. ASSUME NEW u, u # NoURL, ~Rejected(u)
      PROVE  normalizeIssuer(u) = [scheme |-> u.scheme, host |-> u.host, path |-> u.path, port |-> port(u)]
  BY <1>4, Zenon DEF normalizeIssuer
<1> HIDE DEF port
<1>5. a.scheme = b.scheme /\ a.host = b.host /\ a.path = b.path /\ port(a) = port(b)
  BY <1>1, <1>4
<1>6. EffectivePort(a) = EffectivePort(b)
  BY <1>3, <1>5 DEF EffectivePort, DefaultPort, port
<1> QED
  BY <1>1, <1>2, <1>3, <1>5, <1>6, Zenon DEF SamePdp

(***************************************************************************)
(* What a client makes of a response is a result.                           *)
(***************************************************************************)
BodyResults == [kind : {"decision", "batch", "search", "metadata"}, value : ResponseValues]

(* What a PDP may answer with has the type of the operation.                *)
LEMMA ValuesTyped ==
    ASSUME NEW op \in Ops, NEW v \in Values(op)
    PROVE  /\ op = "evaluate" => v \in EvaluationResponses
           /\ op = "batch" => v \in EvaluationsResponses /\ (v.single # None => v.list \in {None, <<>>})
           /\ op \in Searches => v \in SearchResponses
           /\ op = "metadata" => v \in Documents \ {None} /\ v = [issuer |-> v.issuer]
<1>1. CASE op = "evaluate"
  BY <1>1, BatchAssumption DEF Values, Searches
<1>2. CASE op = "batch"
  BY <1>2, ServiceAssumption DEF Values, Searches
<1>3. CASE op \in Searches
  BY <1>3, ServiceAssumption DEF Values, Searches
<1>4. CASE op = "metadata"
  BY <1>4, ServiceAssumption DEF Values, Searches
<1> QED
  BY <1>1, <1>2, <1>3, <1>4 DEF Ops, Searches

(* The body of a JSON answer is a result.                                   *)
LEMMA JsonBodyTyped ==
    ASSUME NEW op \in Ops \ {"metadata"}, NEW v,
           op = "evaluate" => v \in EvaluationResponses,
           op = "batch" => v \in EvaluationsResponses /\ (v.single # None => v.list \in {None, <<>>}),
           op \in Searches => v \in SearchResponses
    PROVE  JsonBody(op, v) \in BodyResults
<1>1. CASE op = "evaluate"
  <2>1. JsonDecision(v) \in EvaluationResponses
    BY <1>1, DecisionCrosses
  <2> QED
    BY <1>1, <2>1 DEF JsonBody, BodyResults, ResponseValues, Searches
<1>2. CASE op = "batch"
  <2>1. JsonBatchResponse(v) \in EvaluationsResponses
    BY <1>2, BatchResponseCrosses
  <2> QED
    BY <1>2, <2>1 DEF JsonBody, BodyResults, ResponseValues, Searches
<1>3. CASE op \in Searches
  <2>1. JsonSearchResponse(v) \in SearchResponses
    BY <1>3, SearchResponseCrosses
  <2> QED
    BY <1>3, <2>1 DEF JsonBody, BodyResults, ResponseValues, Searches
<1> QED
  BY <1>1, <1>2, <1>3 DEF Ops

(* So is what the client decodes of an HTTP response,                       *)
LEMMA HttpDecodedTyped ==
    ASSUME NEW op \in Ops, NEW rep,
           \/ rep.statuses[1] \notin 200 .. 299
           \/ rep.body = Nothing
           \/ rep.body.kind = "null"
           \/ rep.body \in BodyResults
    PROVE  HttpDecoded(op, rep) \in Results
<1>1. rep.body = Nothing => rep.body.kind = "nothing"
  BY DEF Nothing
<1>2. BodyResults \subseteq Results
  BY DEF BodyResults, Results
<1>3. HttpDecoded(op, rep) \in {Failed, ZeroValue(op), rep.body}
  BY DEF HttpDecoded
<1>4. rep.statuses[1] \notin 200 .. 299 \/ rep.body.kind = "nothing" => HttpDecoded(op, rep) = Failed
  BY DEF HttpDecoded
<1>5. rep.body.kind = "null" => HttpDecoded(op, rep) \in {Failed, ZeroValue(op)}
  BY DEF HttpDecoded
<1>6. Failed \in Results /\ ZeroValue(op) \in Results
  BY ZeroValueTyped
<1> QED
  BY <1>1, <1>2, <1>3, <1>4, <1>5, <1>6

(* and of a gRPC one.                                                       *)
LEMMA GrpcDecodedTyped ==
    ASSUME NEW op \in Ops, NEW v \in Values(op), NEW rep,
           rep.statuses[1] = 0 => rep.body = ProtoBody(op, v)
    PROVE  /\ GrpcDecoded(op, rep) \in Results
           /\ op = "evaluate" /\ rep.statuses[1] = 0 =>
                GrpcDecoded(op, rep) =
                    [kind |-> "decision",
                     value |-> evaluationResponseFromProto(evaluationResponseToProto(v))]
           /\ op = "batch" /\ rep.statuses[1] = 0 =>
                GrpcDecoded(op, rep) =
                    [kind |-> "batch",
                     value |-> evaluationsResponseFromProto(evaluationsResponseToProto(v))]
           /\ rep.statuses[1] # 0 => GrpcDecoded(op, rep) = Failed
<1>1. CASE rep.statuses[1] # 0
  <2>1. GrpcDecoded(op, rep) = Failed
    BY <1>1 DEF GrpcDecoded
  <2> QED
    BY <1>1, <2>1, ZeroValueTyped
<1> DEFINE g(x) == [kind |-> rep.body.kind, value |-> x]
<1>2. CASE rep.statuses[1] = 0
  <2>1. CASE op = "evaluate"
    <3>1. rep.body.kind = "decision" /\ rep.body.value = evaluationResponseToProto(v)
      BY <1>2, <2>1 DEF ProtoBody
    <3>2. GrpcDecoded(op, rep) = g(evaluationResponseFromProto(rep.body.value))
      BY <1>2, <2>1 DEF GrpcDecoded
    <3>3. evaluationResponseFromProto(evaluationResponseToProto(v)) \in EvaluationResponses
      BY <2>1, ValuesTyped, DecisionCrosses
    <3> QED
      BY <1>2, <2>1, <3>1, <3>2, <3>3 DEF Results, ResponseValues
  <2>2. CASE op = "batch"
    <3>1. rep.body.kind = "batch" /\ rep.body.value = evaluationsResponseToProto(v)
      BY <1>2, <2>2 DEF ProtoBody
    <3>2. GrpcDecoded(op, rep) = g(evaluationsResponseFromProto(rep.body.value))
      BY <1>2, <2>2 DEF GrpcDecoded
    <3>3. evaluationsResponseFromProto(evaluationsResponseToProto(v)) \in EvaluationsResponses
      BY <2>2, ValuesTyped, BatchResponseCrosses
    <3> QED
      BY <1>2, <2>2, <3>1, <3>2, <3>3 DEF Results, ResponseValues
  <2>3. CASE op \in Searches
    <3>1. /\ rep.body.kind = "search"
          /\ op = "subjects" => rep.body.value = subjectSearchResponseToProto(v)
          /\ op = "resources" => rep.body.value = resourceSearchResponseToProto(v)
          /\ op = "actions" => rep.body.value = actionSearchResponseToProto(v)
      BY <1>2, <2>3 DEF ProtoBody, Searches
    <3>2. /\ op = "subjects" => GrpcDecoded(op, rep) = g(subjectSearchResponseFromProto(rep.body.value))
          /\ op = "resources" => GrpcDecoded(op, rep) = g(resourceSearchResponseFromProto(rep.body.value))
          /\ op = "actions" => GrpcDecoded(op, rep) = g(actionSearchResponseFromProto(rep.body.value))
      BY <1>2, <2>3 DEF GrpcDecoded, Searches
    <3>3. v \in SearchResponses
      BY <2>3, ValuesTyped
    <3>4. ASSUME NEW x \in SearchResponses PROVE g(x) \in Results
      BY <3>1, <3>4 DEF Results, ResponseValues
    <3> HIDE DEF g
    <3> QED
      BY <1>2, <2>3, <3>1, <3>2, <3>3, <3>4, SearchResponseCrosses DEF Searches
  <2>4. CASE op = "metadata"
    <3>1. rep.body.kind = "metadata" /\ rep.body.value = metadataToProto(v)
      BY <1>2, <2>4 DEF ProtoBody, Searches
    <3>2. GrpcDecoded(op, rep) = g(metadataFromProto(rep.body.value))
      BY <1>2, <2>4 DEF GrpcDecoded
    <3>3. v \in Documents /\ metadataFromProto(metadataToProto(v)) = v
      BY <2>4, ValuesTyped DEF metadataFromProto, metadataToProto
    <3> QED
      BY <1>2, <2>4, <3>1, <3>2, <3>3 DEF Results, ResponseValues
  <2> QED
    BY <2>1, <2>2, <2>3, <2>4 DEF Ops
<1> QED
  BY <1>1, <1>2

(***************************************************************************)
(* The status line of a response, and the batch loop behind the handler.    *)
(***************************************************************************)

(* A request on the wire is the one the call encodes.                       *)
OnTheWire == wire # None => call \in Calls /\ wire = [message |-> Encoded(call)]

(* Between calls there is nothing of a call left.                           *)
BetweenCalls == client = "idle" => wire = None /\ server = "idle" /\ reply = None

(* Only operations with a request body reach the PDP over HTTP.             *)
PdpOverHttp ==
    server = "pdp" /\ call.binding = "http" => call.op \in {"evaluate", "batch"} \cup Searches

Answered(rep) ==
    Len(rep.statuses) = 1 /\ (rep.body.kind = "error" <=> rep.statuses[1] # 200)

AnsweredOrLost == reply # None /\ call.binding = "http" => Answered(reply)

ServiceInv == OnTheWire /\ BetweenCalls /\ PdpOverHttp /\ AnsweredOrLost

(***************************************************************************)
(* The responses the HTTP server can write.                                 *)
(***************************************************************************)
LEMMA ErrorAnswered ==
    /\ \A c : /\ Answered(writeServerError(c)) /\ Answered(Recovered(c, Unwritten))
    /\ \A n : n # 200 => Answered(writeError(n))
  BY DEF Answered, writeServerError, Recovered, Unwritten, writeError, writeJSON, ErrorBody

(* An answer that is written as a body is an answer.                        *)
LEMMA BodyAnswered ==
    ASSUME NEW body, body.kind # "error", NEW maps, NEW c
    PROVE  /\ Answered(writeJSON(200, body, maps))
           /\ Answered(Recovered(c, writeJSON(200, body, maps)))
<1>1. Answered(writeJSON(200, body, maps)) /\ writeJSON(200, body, maps).statuses # <<>>
  BY DEF Answered, writeJSON, Nothing
<1> QED
  BY <1>1 DEF Recovered

(* Whether or not the encoder gets through, one status was written.         *)
LEMMA WritesBodyAnswered ==
    ASSUME NEW body, body.kind # "error", NEW maps, NEW c, WritesBody(c, body, maps)
    PROVE  server' = "done" /\ Answered(reply')
  BY BodyAnswered DEF WritesBody, Ends

(* A refusal is never a success.                                            *)
LEMMA RefusalIsError == \A c, r : Refusal(c, r) # 200
  BY DEF Refusal

(* No body of an answer is an error body.                                   *)
LEMMA BodiesAreAnswers ==
    ASSUME NEW op \in {"evaluate", "batch"} \cup Searches, NEW v
    PROVE  JsonBody(op, v).kind # "error"
  BY DEF JsonBody, Searches

(* What recovery writes is an error, or nothing was left to write.          *)
LEMMA PanicAnswered ==
    ASSUME NEW c, Panics(c)
    PROVE  server' = "done" /\ Answered(reply')
  BY ErrorAnswered DEF Panics, Ends

(***************************************************************************)
(* The steps of the HTTP server.                                            *)
(***************************************************************************)
LEMMA ReceivesKeepsInv ==
    ASSUME ServiceInv, HttpReceives
    PROVE  ServiceInv'
<1> DEFINE r == wire.message
<1>1. /\ call \in Calls /\ call.binding = "http" /\ wire # None /\ server = "idle"
      /\ client # "idle"
      /\ UNCHANGED <<call, client, wire>>
  BY DEF HttpReceives, ServiceInv, OnTheWire, BetweenCalls
<1>2. OnTheWire' /\ BetweenCalls'
  BY <1>1 DEF ServiceInv, OnTheWire, BetweenCalls
<1>3. CASE Refusal(call, r) # 0 /\ Ends(writeError(Refusal(call, r)), {})
  <2>1. server' = "done" /\ Answered(reply')
    BY <1>3, RefusalIsError, ErrorAnswered DEF Ends
  <2> QED
    BY <1>2, <2>1 DEF ServiceInv, PdpOverHttp, AnsweredOrLost
<1>4. CASE ServesMetadata
  <2>1. PICK d : Ends(IF d = None THEN writeError(404)
                      ELSE writeJSON(200, [kind |-> "metadata", value |-> d], {}), {})
    BY <1>4 DEF ServesMetadata
  <2>2. Answered(writeError(404))
    BY ErrorAnswered
  <2>3. Answered(writeJSON(200, [kind |-> "metadata", value |-> d], {}))
    <3>1. [kind |-> "metadata", value |-> d].kind # "error"
      OBVIOUS
    <3> QED
      BY <3>1, BodyAnswered
  <2>4. server' = "done" /\ Answered(reply')
    BY <2>1, <2>2, <2>3 DEF Ends
  <2> QED
    BY <1>2, <2>4 DEF ServiceInv, PdpOverHttp, AnsweredOrLost
<1>5. CASE server' = "batch" /\ reply' = reply
  BY <1>1, <1>2, <1>5 DEF ServiceInv, PdpOverHttp, AnsweredOrLost
<1>6. CASE call.op # "metadata" /\ server' = "pdp" /\ reply' = reply
  <2>1. call.op \in {"evaluate", "batch"} \cup Searches
    BY <1>1, <1>6, ServiceAssumption
  <2> QED
    BY <1>1, <1>2, <1>6, <2>1 DEF ServiceInv, PdpOverHttp, AnsweredOrLost
<1> QED
  BY <1>3, <1>4, <1>5, <1>6 DEF HttpReceives

LEMMA AnsweredKeepsInv ==
    ASSUME ServiceInv, HttpAnswered
    PROVE  ServiceInv'
<1>1. /\ server = "pdp" /\ call.binding = "http" /\ client # "idle"
      /\ call.op \in {"evaluate", "batch"} \cup Searches
      /\ UNCHANGED <<call, client, wire>>
  BY DEF HttpAnswered, ServiceInv, BetweenCalls, PdpOverHttp
<1>2. server' = "done" /\ (reply' = None \/ Answered(reply'))
  <2>1. ASSUME NEW v, WritesBody(call, JsonBody(call.op, v), ValueMaps(call.op, v))
        PROVE  server' = "done" /\ Answered(reply')
    BY <1>1, <2>1, BodiesAreAnswers, WritesBodyAnswered
  <2>2. CASE Ends(writeServerError(call), {correlationID(call)})
    BY <2>2, ErrorAnswered DEF Ends
  <2>3. CASE Ends(writeJSON(200, [kind |-> "null", value |-> None], {}), {})
    <3>1. [kind |-> "null", value |-> None].kind # "error"
      OBVIOUS
    <3>2. Answered(writeJSON(200, [kind |-> "null", value |-> None], {}))
      BY <3>1, BodyAnswered
    <3> QED
      BY <2>3, <3>2 DEF Ends
  <2>4. CASE Panics(call)
    BY <2>4, PanicAnswered
  <2>5. CASE Ends(None, {})
    BY <2>5 DEF Ends
  <2> QED
    BY <2>1, <2>2, <2>3, <2>4, <2>5 DEF HttpAnswered
<1>3. OnTheWire' /\ BetweenCalls'
  BY <1>1 DEF ServiceInv, OnTheWire, BetweenCalls
<1> QED
  BY <1>2, <1>3 DEF ServiceInv, PdpOverHttp, AnsweredOrLost

LEMMA LoopEndedKeepsInv ==
    ASSUME ServiceInv, LoopEnded
    PROVE  ServiceInv'
<1>1. server = "batch" /\ client # "idle" /\ UNCHANGED <<call, client, wire>>
  BY DEF LoopEnded, ServiceInv, BetweenCalls
<1>2. server' = "done" /\ (reply' = None \/ Answered(reply'))
  <2> DEFINE resp == [single |-> None, list |-> out]
  <2>1. stage \in {"returned", "failed", "panicked", "aborted"}
    BY DEF LoopEnded, Outcomes
  <2>2. CASE stage = "returned"
    <3>1. WritesBody(call, JsonBody("batch", resp), MapsOfBatchResponse(resp))
      BY <2>2 DEF LoopEnded
    <3> QED
      BY <3>1, BodiesAreAnswers, WritesBodyAnswered
  <2>3. CASE stage = "failed"
    BY <2>3, ErrorAnswered DEF LoopEnded, Ends
  <2>4. CASE stage = "panicked"
    BY <2>4, PanicAnswered DEF LoopEnded
  <2>5. CASE stage = "aborted"
    BY <2>5 DEF LoopEnded, Ends
  <2> QED
    BY <2>1, <2>2, <2>3, <2>4, <2>5
<1>3. OnTheWire' /\ BetweenCalls'
  BY <1>1 DEF ServiceInv, OnTheWire, BetweenCalls
<1> QED
  BY <1>2, <1>3 DEF ServiceInv, PdpOverHttp, AnsweredOrLost

(***************************************************************************)
(* The other steps.                                                         *)
(***************************************************************************)
LEMMA MakeCallKeepsInv ==
    ASSUME ServiceInv, MakeCall
    PROVE  ServiceInv'
<1>1. PICK c \in Calls :
        /\ client = "idle" /\ call' = c /\ reply' = reply
        /\ CommandLineStops(c) \/ ClientRefuses(c) \/ Sends(c)
  BY DEF MakeCall
<1>2. wire = None /\ server = "idle" /\ reply = None
  BY <1>1 DEF ServiceInv, BetweenCalls
<1>3. CASE CommandLineStops(c)
  BY <1>1, <1>2, <1>3 DEF CommandLineStops, ServiceInv, OnTheWire, BetweenCalls, PdpOverHttp,
                          AnsweredOrLost
<1>4. CASE ClientRefuses(c)
  BY <1>1, <1>2, <1>4 DEF ClientRefuses, Returns, ServiceInv, OnTheWire, BetweenCalls,
                          PdpOverHttp, AnsweredOrLost
<1>5. CASE Sends(c)
  BY <1>1, <1>2, <1>5 DEF Sends, ServiceInv, OnTheWire, BetweenCalls, PdpOverHttp, AnsweredOrLost
<1> QED
  BY <1>1, <1>3, <1>4, <1>5

LEMMA GrpcKeepsInv ==
    ASSUME ServiceInv, GrpcReceives \/ GrpcAnswered
    PROVE  ServiceInv'
<1>1. call.binding = "grpc" /\ client # "idle" /\ UNCHANGED <<call, client, wire>>
  BY DEF GrpcReceives, GrpcAnswered, ServiceInv, BetweenCalls
<1> QED
  BY <1>1 DEF ServiceInv, OnTheWire, BetweenCalls, PdpOverHttp, AnsweredOrLost

LEMMA ServiceInvHolds == ServiceSpec => []ServiceInv
<1>1. ServiceInit => ServiceInv
  BY DEF ServiceInit, ServiceInv, OnTheWire, BetweenCalls, PdpOverHttp, AnsweredOrLost
<1>2. ServiceInv /\ [ServiceNext]_allVars => ServiceInv'
  <2> SUFFICES ASSUME ServiceInv, [ServiceNext]_allVars
               PROVE  ServiceInv'
    OBVIOUS
  <2> USE DEF OnTheWire, BetweenCalls, PdpOverHttp, AnsweredOrLost
  <2>1. CASE MakeCall
    BY <2>1, MakeCallKeepsInv
  <2>2. CASE HttpReceives
    BY <2>2, ReceivesKeepsInv
  <2>3. CASE HttpAnswered
    BY <2>3, AnsweredKeepsInv
  <2>4. CASE InLoop \/ Disconnected \/ UNCHANGED allVars
    BY <2>4 DEF InLoop, Disconnected, allVars, serviceVars, ServiceInv
  <2>5. CASE LoopEnded
    BY <2>5, LoopEndedKeepsInv
  <2>6. CASE GrpcReceives \/ GrpcAnswered
    BY <2>6, GrpcKeepsInv
  <2>7. CASE Receives \/ GivesUp
    BY <2>7 DEF Receives, GivesUp, Returns, ServiceInv
  <2>8. CASE RequestLost
    BY <2>8 DEF RequestLost, ServiceInv
  <2>9. CASE NextCall
    BY <2>9 DEF NextCall, ServiceInv
  <2> QED
    BY <2>1, <2>2, <2>3, <2>4, <2>5, <2>6, <2>7, <2>8, <2>9 DEF ServiceNext
<1> QED
  BY <1>1, <1>2, PTL DEF ServiceSpec

(* The handler calls EvaluateBatch with a request that was decoded from the *)
(* wire, and so with a batch the PEP asked about.                           *)
LEMMA LoopBeginsWithABatch ==
    ASSUME ServiceInv, HttpReceives, call.op = "batch"
    PROVE  wire.message \in Batches
<1>1. call \in Calls /\ call.binding = "http" /\ wire.message = Encoded(call)
  BY DEF HttpReceives, ServiceInv, OnTheWire
<1>2. call.body \in Batches /\ JsonBatch(call.body) \in Batches
  BY <1>1, ServiceAssumption
<1>3. JsonRequest("batch", call.body) = JsonBatch(call.body)
  BY DEF JsonRequest, Searches
<1> QED
  BY <1>1, <1>2, <1>3 DEF Encoded

(* Every HTTP response has one status line, and an error body exactly if    *)
(* that says so, whatever the handler, the PDP and the encoder did          *)
(* (server.go:408-451, 802-811).                                            *)
THEOREM StatusesTellOutcomes == ServiceSpec => []StatusTellsOutcome
<1>1. ServiceInv => StatusTellsOutcome
  BY DEF ServiceInv, AnsweredOrLost, Answered, StatusTellsOutcome
<1> QED
  BY <1>1, ServiceInvHolds, PTL

(* What the service does with a batch, EvaluateBatch does: a batch behind   *)
(* the HTTP handler, with a PEP that may go away, is a behaviour of         *)
(* BatchEvaluation (server.go:127-177, 477-524).                            *)
THEOREM ServiceRunsBatches == ServiceSpec => BatchSpec
<1>1. ServiceInit => BatchInit
  BY DEF ServiceInit
<1>2. ServiceInv /\ [ServiceNext]_allVars => [BatchNext]_batchVars
  <2> SUFFICES ASSUME ServiceInv, [ServiceNext]_allVars
               PROVE  BatchNext \/ UNCHANGED batchVars
    OBVIOUS
  <2>1. CASE HttpReceives
    <3>1. UNCHANGED batchVars \/ (call.op = "batch" /\ Begin(wire.message))
      BY <2>1 DEF HttpReceives
    <3> QED
      BY <2>1, <3>1, LoopBeginsWithABatch DEF BatchNext
  <2>2. CASE InLoop
    BY <2>2 DEF InLoop, BatchNext
  <2>3. CASE Disconnected
    BY <2>3 DEF Disconnected, BatchNext
  <2>4. CASE NextCall
    BY <2>4 DEF NextCall, BatchNext
  <2>5. CASE MakeCall \/ HttpAnswered \/ LoopEnded \/ GrpcReceives \/ GrpcAnswered
    BY <2>5 DEF MakeCall, HttpAnswered, LoopEnded, GrpcReceives, GrpcAnswered
  <2>6. CASE Receives \/ GivesUp \/ RequestLost \/ UNCHANGED allVars
    BY <2>6 DEF Receives, GivesUp, RequestLost, allVars
  <2> QED
    BY <2>1, <2>2, <2>3, <2>4, <2>5, <2>6 DEF ServiceNext
<1> QED
  BY <1>1, <1>2, ServiceInvHolds, PTL DEF ServiceSpec, BatchSpec

(* What is proved of EvaluateBatch holds of every batch a PEP sends to the  *)
(* HTTP server (server.go:127-177, 217-232, 477-524).                       *)
THEOREM ServedBatchesAreExact ==
    ServiceSpec => [](ExactPrefix /\ MembersIsolated /\ FailedMembersDeny)
  BY ServiceRunsBatches, BatchesAreExact, BatchMembersAreIsolated, BatchFailuresDeny, PTL

(***************************************************************************)
(* The life of a call, from the request to what the tool prints.  Every part *)
(* relates what one side has to what the other one had: the request handed  *)
(* to the PDP is the received one, the reply encodes the PDP's verdict, the *)
(* result decodes the reply, and the lines and the exit code tell the result. *)
(***************************************************************************)

(* Where a call is, at the client and at the server.                        *)
Phases ==
    /\ call \in Calls \cup {None}
    /\ client \in {"idle", "waiting", "done"} /\ server \in {"idle", "pdp", "batch", "done"}
    /\ client = "idle" <=> call = None
    /\ client = "done" <=> result # None
    /\ client = "idle" => server = "idle" /\ wire = None /\ exit = None /\ printed = None
    /\ server = "idle" => handed = None /\ verdict = None /\ reply = None /\ stage = "idle"

(* What validation lets through.                                            *)
WellAsked(r) ==
    /\ Valid(call.op, r)
    /\ call.op = "batch" /\ call.binding = "http" => Len(r.evaluations) <= MaxBatchSize

(* What a PDP is handed is what the binding made of the call.               *)
AskedAsReceived ==
    /\ handed # None =>
          /\ server \in {"pdp", "done"} /\ stage = "idle"
          /\ handed = [request |-> Stripped(call.op, Received(call))]
          /\ WellAsked(Received(call))
          /\ call.binding = "http" => call.op # "metadata"
    /\ server = "pdp" => handed # None /\ verdict = None /\ reply = None

(* The batch loop runs on the request that was received, and on no other.   *)
LoopAsReceived ==
    /\ stage # "idle" =>
          /\ call # None /\ call.op = "batch" /\ call.binding = "http"
          /\ server \in {"batch", "done"} /\ handed = None /\ verdict = None
          /\ request = Received(call) /\ WellAsked(request)
    /\ server = "batch" => stage # "idle" /\ reply = None

(* The verdicts that are no answer.                                         *)
Unanswered == [how : {"error", "nil", "panic", "abort"}, value : {None}]

WasDecided ==
    /\ verdict # None /\ verdict = [how |-> "decided", value |-> verdict.value]
    /\ verdict.value \in Values(call.op)

(* A verdict is one on the request that was handed.                         *)
VerdictGiven ==
    verdict # None =>
        /\ handed # None /\ server = "done"
        /\ verdict \in Unanswered \/ WasDecided

(* The bodies a 200 can have.                                               *)
HttpBody(body) ==
    \/ body = Nothing
    \/ body.kind = "null" /\ verdict = [how |-> "nil", value |-> None]
    \/ WasDecided /\ body = JsonBody(call.op, verdict.value)
    \/ stage = "returned" /\ body = JsonBody("batch", [single |-> None, list |-> out])
    \/ /\ call.op = "metadata" /\ verdict = None
       /\ \E d \in Documents \ {None} : body = [kind |-> "metadata", value |-> d]

(* A reply is the encoding of a verdict or of what the loop collected, an   *)
(* error whose id was logged, or nothing.                                   *)
HttpReply ==
    IF reply.statuses[1] = 200 THEN HttpBody(reply.body)
    ELSE /\ reply.statuses[1] \notin 200 .. 299 /\ reply.body.kind = "error"
         /\ reply.statuses[1] = 500 => Traceable(reply.body.value, log)

GrpcReply ==
    reply.statuses[1] = 0 => WasDecided /\ reply.body = ProtoBody(call.op, verdict.value)

Replied ==
    reply # None =>
        /\ server = "done" /\ call # None
        /\ call.binding = "http" => HttpReply
        /\ call.binding = "grpc" => GrpcReply

(* What the client reads from a reply.                                      *)
Decoded(c, rep) ==
    IF c.binding = "http" THEN HttpDecoded(c.op, rep) ELSE GrpcDecoded(c.op, rep)

(* A call returns what the client reads from the reply that was sent, or    *)
(* fails.                                                                   *)
Resulted ==
    result # None =>
        result = Failed \/ (server = "done" /\ reply # None /\ result = Decoded(call, reply))

(* The command line tells what its call returned, or stopped before it.     *)
ToolTold ==
    \/ exit = None /\ printed = None
    \/ /\ result # None /\ printed = None
       /\ exit # 0 \/ call.form = "help" \/ exit = Command(call, result).code
    \/ /\ result # None
       /\ exit = Command(call, result).code /\ printed = Command(call, result).lines

(* A call, from what the PEP asks to what it is told.                       *)
CallInv ==
    Phases /\ AskedAsReceived /\ LoopAsReceived /\ VerdictGiven /\ Replied /\ Resulted /\ ToolTold

(***************************************************************************)
(* What the decisions collected by the loop are.                            *)
(***************************************************************************)
LEMMA CollectedTyped ==
    ASSUME BatchInv
    PROVE  /\ out \in Seq(EvaluationResponses) /\ Len(out) \in Nat
           /\ \A k \in 1 .. Len(out) :
                 out[k] \in EvaluationResponses
                 /\ (out[k].error # None => out[k].error.detail = VerboseErrors)
<1>1. out \in Seq(OutSet) /\ Len(out) \in Nat /\ DOMAIN out = 1 .. Len(out)
  BY LenProperties DEF BatchInv, BatchTypes
<1>2. ASSUME NEW k \in Nat
      PROVE  FailedMember(k) \in EvaluationResponses /\ FailedMember(k).error.detail = VerboseErrors
  <2> DEFINE e == [id |-> k, detail |-> VerboseErrors]
  <2>1. e \in MemberErrors /\ e.detail = VerboseErrors
    BY BatchAssumption DEF MemberErrors
  <2>2. FailedMember(k) = [decision |-> FALSE, context |-> None, error |-> e]
    BY DEF FailedMember
  <2> HIDE DEF e
  <2> QED
    BY <2>1, <2>2 DEF EvaluationResponses, Nullable
<1>3. \A d \in Decisions : d \in EvaluationResponses /\ d.error = None
  BY BatchAssumption
<1>4. ASSUME NEW k \in 1 .. Len(out)
      PROVE  out[k] \in EvaluationResponses
             /\ (out[k].error # None => out[k].error.detail = VerboseErrors)
  <2>1. out[k] \in OutSet
    BY <1>1, ElementOfSeq
  <2> QED
    BY <1>2, <1>3, <2>1 DEF OutSet
<1>5. out \in [1 .. Len(out) -> EvaluationResponses]
  <2>1. out = [k \in 1 .. Len(out) |-> out[k]]
    BY <1>1
  <2> QED
    BY <1>4, <2>1
<1>6. out \in Seq(EvaluationResponses)
  BY <1>1, <1>5, Sliced
<1> QED
  BY <1>1, <1>4, <1>6

(* A call is one of the calls a PEP makes.                                  *)
LEMMA CallTyped ==
    ASSUME CallInv, call # None
    PROVE  call \in Calls /\ call.op \in Ops /\ call.binding \in {"http", "grpc"}
  BY ServiceAssumption DEF CallInv, Phases, Ops

(* A failure is a result, and not the absence of one.                       *)
LEMMA FailedIsResult == Failed \in Results /\ Failed # None
  BY ZeroValueTyped, ServiceAssumption DEF Ops

(* As long as the verdict and the reply stay, so does what is known of them.*)
LEMMA ReplyStays ==
    ASSUME Replied, UNCHANGED <<call, handed, verdict, reply, log, stage, out>>,
           server = "done" => server' = "done"
    PROVE  Replied'
  BY DEF Replied, HttpReply, GrpcReply, HttpBody, WasDecided, Values

LEMMA VerdictStays ==
    ASSUME VerdictGiven, UNCHANGED <<call, handed, verdict>>, server = "done" => server' = "done"
    PROVE  VerdictGiven'
  BY DEF VerdictGiven, WasDecided, Values

LEMMA ToolStays ==
    ASSUME ToolTold, UNCHANGED <<call, result, exit, printed>>
    PROVE  ToolTold'
  BY DEF ToolTold

(* What is known of the request the PDP was handed.                         *)
LEMMA AcceptedIsWellAsked ==
    ASSUME CallInv, call # None, Valid(call.op, Received(call)),
           call.binding = "http" => Refusal(call, Received(call)) = 0 /\ call.op # "metadata"
    PROVE  WellAsked(Received(call))
<1>1. CASE call.op = "batch" /\ call.binding = "http"
  <2>1. ~ (Len(Received(call).evaluations) > MaxBatchSize)
    BY <1>1 DEF Refusal
  <2>2. Received(call) \in EvaluationsRequests
    BY <1>1, CallTyped, ReceivedTyped DEF Bodies, Searches
  <2>3. Len(Received(call).evaluations) \in Nat
    BY <2>2, ResolvedTyped
  <2> QED
    BY <1>1, <2>1, <2>3, ServiceAssumption DEF WellAsked
<1>2. CASE ~ (call.op = "batch" /\ call.binding = "http")
  BY <1>2 DEF WellAsked
<1> QED
  BY <1>1, <1>2

(* The request handed to the PDP has its type.                              *)
LEMMA HandedTyped ==
    ASSUME NEW op \in Ops, NEW r \in Bodies(op)
    PROVE  [request |-> r] \in HandedRequests /\ [request |-> r] # None
<1>1. r \in RequestValues
  BY DEF Bodies, RequestValues, Ops, Searches
<1>2. [request |-> r] \in HandedRequests
  BY <1>1 DEF HandedRequests
<1> QED
  BY <1>2, ServiceAssumption

(* Every step keeps the invariant.                                          *)
LEMMA MakeCallKeepsCall ==
    ASSUME CallInv, MakeCall
    PROVE  CallInv'
<1>1. PICK c \in Calls :
        /\ client = "idle" /\ call' = c
        /\ CommandLineStops(c) \/ ClientRefuses(c) \/ Sends(c)
        /\ UNCHANGED <<handed, verdict, reply, log, batchVars>>
  BY DEF MakeCall
<1>2. /\ call = None /\ server = "idle" /\ wire = None /\ result = None
      /\ exit = None /\ printed = None
      /\ handed = None /\ verdict = None /\ reply = None /\ stage = "idle"
  BY <1>1 DEF CallInv, Phases
<1>3. c # None
  BY ServiceAssumption
<1>4. handed' = None /\ verdict' = None /\ reply' = None /\ stage' = "idle"
  BY <1>1, <1>2 DEF batchVars
<1>5. \/ /\ client' = "done" /\ result' = Failed /\ server' = "done"
      \/ /\ client' = "waiting" /\ result' = None /\ server' = "idle"
  BY <1>1, <1>2 DEF CommandLineStops, ClientRefuses, Sends, Returns
<1>6. Phases'
  BY <1>1, <1>3, <1>4, <1>5, FailedIsResult DEF Phases
<1>7. AskedAsReceived' /\ LoopAsReceived' /\ VerdictGiven' /\ Replied' /\ Resulted'
  BY <1>4, <1>5 DEF AskedAsReceived, LoopAsReceived, VerdictGiven, Replied, Resulted
<1>8. ToolTold'
  <2>1. CASE CommandLineStops(c)
    BY <1>1, <2>1, FailedIsResult DEF CommandLineStops, ToolTold
  <2>2. CASE ClientRefuses(c)
    BY <1>1, <2>2, FailedIsResult DEF ClientRefuses, Returns, Prints, ToolTold
  <2>3. CASE Sends(c)
    BY <1>2, <2>3 DEF Sends, ToolTold
  <2> QED
    BY <1>1, <2>1, <2>2, <2>3
<1> QED
  BY <1>6, <1>7, <1>8 DEF CallInv

(* The forms of what the HTTP server writes.                                *)
LEMMA WrittenForms ==
    ASSUME NEW c, NEW body, NEW maps, WritesBody(c, body, maps)
    PROVE  /\ server' = "done" /\ reply'.statuses[1] = 200
           /\ reply'.body = body \/ reply'.body = Nothing
<1>1. writeJSON(200, body, maps).statuses # <<>>
  BY DEF writeJSON
<1>2. reply' = writeJSON(200, body, maps) /\ server' = "done"
  BY <1>1 DEF WritesBody, Ends, Recovered
<1> QED
  BY <1>2 DEF writeJSON

(* A failure is written as a traceable error.                               *)
LEMMA FailureWritten ==
    ASSUME NEW c, Panics(c) \/ Ends(writeServerError(c), {correlationID(c)})
    PROVE  /\ server' = "done" /\ reply'.statuses[1] = 500 /\ reply'.body.kind = "error"
           /\ Traceable(reply'.body.value, log')
<1>1. PICK detail \in {FALSE, VerboseErrors} :
          reply' = writeJSON(500, ErrorBody(correlationID(c), detail), {})
  BY DEF Panics, Ends, Recovered, Unwritten, writeServerError
<1>2. server' = "done" /\ log' = log \cup {correlationID(c)}
  BY DEF Panics, Ends
<1>3. reply' = [statuses |-> <<500>>, body |-> ErrorBody(correlationID(c), detail)]
  BY <1>1 DEF writeJSON
<1>4. reply'.statuses[1] = 500 /\ reply'.body = ErrorBody(correlationID(c), detail)
  BY <1>3
<1> DEFINE e == [id |-> correlationID(c), detail |-> detail]
<1>5. reply'.body.kind = "error" /\ reply'.body.value = e
  BY <1>4 DEF ErrorBody
<1>6. e.id = correlationID(c) /\ e.detail = detail
  OBVIOUS
<1>7. detail => VerboseErrors
  BY <1>1, Zenon
<1> HIDE DEF e
<1>8. Traceable(e, log')
  BY <1>2, <1>6, <1>7, Zenon DEF Traceable
<1> QED
  BY <1>2, <1>4, <1>5, <1>8

(* A refusal is written with its status.                                    *)
LEMMA RefusalWritten ==
    ASSUME NEW n, Ends(writeError(n), {})
    PROVE  server' = "done" /\ reply'.statuses[1] = n /\ reply'.body.kind = "error"
  BY DEF Ends, writeError, writeJSON, ErrorBody

LEMMA RefusalCodes ==
    ASSUME NEW c, NEW r
    PROVE  Refusal(c, r) \in {0, 400, 404, 405, 413, 415}
  BY DEF Refusal

(* A request that is not refused is valid, and within the size.             *)
LEMMA AcceptedIsValid ==
    ASSUME NEW c, NEW r, Refusal(c, r) = 0, c.op # "metadata"
    PROVE  Valid(c.op, r)
  BY DEF Refusal

(* What an HTTP answer keeps, given what it writes.                         *)
LEMMA HttpReceivesKeepsCall ==
    ASSUME CallInv, ServiceInv, HttpReceives
    PROVE  CallInv'
<1> DEFINE r == Received(call)
<1>1. /\ call # None /\ call.binding = "http" /\ wire # None /\ server = "idle"
      /\ UNCHANGED <<call, client, wire, verdict, result, exit, printed>>
  BY DEF HttpReceives
<1>2. call \in Calls /\ call.op \in Ops /\ wire.message = r
  <2>1. wire.message = Encoded(call)
    BY <1>1 DEF ServiceInv, OnTheWire
  <2> QED
    BY <1>1, <2>1, CallTyped DEF Received
<1>3. /\ handed = None /\ verdict = None /\ reply = None /\ stage = "idle"
      /\ client # "idle" /\ (client = "done" <=> result # None)
      /\ client \in {"idle", "waiting", "done"}
  BY <1>1 DEF CallInv, Phases
<1>4. result # None => result = Failed
  BY <1>1 DEF CallInv, Resulted
<1>5. ASSUME server' \in {"pdp", "batch", "done"} PROVE Phases'
  BY <1>1, <1>2, <1>3, <1>5 DEF Phases
<1>6. Resulted' /\ ToolTold' /\ VerdictGiven'
  BY <1>1, <1>3, <1>4, ToolStays DEF Resulted, VerdictGiven, CallInv
<1>7. CASE /\ Refusal(call, r) # 0
           /\ Ends(writeError(Refusal(call, r)), {})
           /\ UNCHANGED <<handed, batchVars>>
  <2>1. /\ server' = "done" /\ reply'.statuses[1] = Refusal(call, r)
        /\ reply'.body.kind = "error"
    BY <1>7, RefusalWritten
  <2>2. Refusal(call, r) \in {400, 404, 405, 413, 415}
    BY <1>7, RefusalCodes
  <2>3. Replied'
    BY <1>1, <2>1, <2>2 DEF Replied, HttpReply
  <2>4. AskedAsReceived' /\ LoopAsReceived'
    BY <1>3, <1>7, <2>1 DEF AskedAsReceived, LoopAsReceived, batchVars
  <2> QED
    BY <1>5, <1>6, <2>1, <2>3, <2>4 DEF CallInv
<1>8. CASE call.op = "metadata" /\ ServesMetadata /\ UNCHANGED <<handed, batchVars>>
  <2>1. PICK d \in Documents :
            Ends(IF d = None THEN writeError(404)
                 ELSE writeJSON(200, [kind |-> "metadata", value |-> d], {}), {})
    BY <1>8 DEF ServesMetadata
  <2>2. server' = "done"
    BY <2>1 DEF Ends
  <2>3. Replied'
    <3>1. CASE d = None
      <4>1. reply'.statuses[1] = 404 /\ reply'.body.kind = "error"
        BY <2>1, <3>1, RefusalWritten
      <4> QED
        BY <1>1, <2>2, <4>1 DEF Replied, HttpReply
    <3>2. CASE d # None
      <4> DEFINE body == [kind |-> "metadata", value |-> d]
      <4>1. reply' = writeJSON(200, body, {})
        BY <2>1, <3>2 DEF Ends
      <4>2. writeJSON(200, body, {}) = [statuses |-> <<200>>, body |-> body]
        BY DEF writeJSON
      <4>3. reply'.statuses[1] = 200 /\ reply'.body = body
        BY <4>1, <4>2
      <4>4. HttpBody(body)'
        BY <1>1, <1>3, <1>8, <3>2 DEF HttpBody
      <4> HIDE DEF body
      <4> QED
        BY <1>1, <2>2, <4>3, <4>4 DEF Replied, HttpReply, HttpBody
    <3> QED
      BY <3>1, <3>2
  <2>4. AskedAsReceived' /\ LoopAsReceived'
    BY <1>3, <1>8, <2>2 DEF AskedAsReceived, LoopAsReceived, batchVars
  <2> QED
    BY <1>5, <1>6, <2>2, <2>3, <2>4 DEF CallInv
<1>9. CASE /\ Refusal(call, r) = 0 /\ call.op = "batch"
           /\ server' = "batch" /\ Begin(r) /\ UNCHANGED <<handed, reply, log>>
  <2>1. request' = r /\ stage' = "loop" /\ WellAsked(r)
    BY <1>1, <1>9, AcceptedIsValid, AcceptedIsWellAsked DEF Begin
  <2>2. WellAsked(request)'
    BY <1>1, <2>1 DEF WellAsked
  <2>3. AskedAsReceived' /\ LoopAsReceived' /\ Replied'
    BY <1>1, <1>3, <1>9, <2>1, <2>2 DEF AskedAsReceived, LoopAsReceived, Replied
  <2> QED
    BY <1>5, <1>6, <1>9, <2>3 DEF CallInv
<1>10. CASE /\ Refusal(call, r) = 0 /\ call.op # "metadata"
            /\ server' = "pdp" /\ handed' = [request |-> Stripped(call.op, r)]
            /\ UNCHANGED <<reply, log, batchVars>>
  <2>1. WellAsked(r)
    BY <1>1, <1>10, AcceptedIsValid, AcceptedIsWellAsked
  <2>2. WellAsked(Received(call))'
    BY <1>1, <2>1 DEF WellAsked
  <2>3. handed' # None
    <3>1. Valid(call.op, r) /\ r \in Bodies(call.op)
      BY <1>2, <2>1, ReceivedTyped DEF WellAsked
    <3>2. Stripped(call.op, r) \in Bodies(call.op)
      BY <1>2, <3>1, StrippedStaysValid
    <3> QED
      BY <1>2, <1>10, <3>2, HandedTyped
  <2>4. AskedAsReceived' /\ LoopAsReceived' /\ Replied'
    BY <1>1, <1>3, <1>10, <2>2, <2>3 DEF AskedAsReceived, LoopAsReceived, Replied, batchVars
  <2> QED
    BY <1>5, <1>6, <1>10, <2>4 DEF CallInv
<1> QED
  BY <1>2, <1>7, <1>8, <1>9, <1>10 DEF HttpReceives

(* A decision of the PDP is a verdict.                                      *)
LEMMA VerdictTyped ==
    ASSUME NEW op \in Ops, NEW v \in Values(op) \cup {None},
           NEW how \in {"decided", "error", "nil", "panic", "abort"}
    PROVE  /\ [how |-> how, value |-> v] \in Verdicts
           /\ [how |-> how, value |-> v] # None
<1>1. v \in ResponseValues
  BY ValuesTyped DEF ResponseValues, Ops
<1>2. [how |-> how, value |-> v] \in Verdicts
  BY <1>1 DEF Verdicts
<1> QED
  BY <1>2, ServiceAssumption

(* What the PDP's answer to the request it was handed leaves of the         *)
(* invariant to show: what is replied.                                      *)
LEMMA PdpAnswers ==
    ASSUME CallInv, server = "pdp", server' = "done",
           UNCHANGED <<call, client, wire, handed, result, exit, printed, batchVars>>,
           \/ \E v \in Values(call.op) : verdict' = [how |-> "decided", value |-> v]
           \/ verdict' \in Unanswered,
           call.binding = "http" => HttpReply' \/ reply' = None,
           call.binding = "grpc" => GrpcReply' \/ reply' = None
    PROVE  CallInv'
<1>1. /\ handed # None /\ reply = None /\ verdict = None /\ stage = "idle"
      /\ call # None /\ client # "idle"
  BY DEF CallInv, Phases, AskedAsReceived, LoopAsReceived
<1>2. call.op \in Ops
  BY <1>1, CallTyped
<1>3. Phases'
  BY <1>1 DEF CallInv, Phases
<1>4. WellAsked(Received(call))' <=> WellAsked(Received(call))
  BY DEF WellAsked
<1>5. AskedAsReceived' /\ LoopAsReceived'
  BY <1>1, <1>4 DEF CallInv, AskedAsReceived, LoopAsReceived, batchVars
<1>6. VerdictGiven'
  <2>1. CASE verdict' \in Unanswered
    BY <1>1, <2>1 DEF VerdictGiven, Unanswered
  <2>2. ASSUME NEW v \in Values(call.op), verdict' = [how |-> "decided", value |-> v]
        PROVE  VerdictGiven'
    <3>1. verdict' # None /\ verdict'.value = v
      BY <1>2, <2>2, VerdictTyped
    <3>2. Values(call.op)' = Values(call.op)
      BY DEF Values
    <3>3. WasDecided'
      BY <2>2, <3>1, <3>2 DEF WasDecided
    <3> QED
      BY <1>1, <3>3 DEF VerdictGiven
  <2> QED
    BY <2>1, <2>2
<1>7. Replied'
  BY <1>1 DEF Replied
<1>8. Resulted' /\ ToolTold'
  <2>1. result # None => result = Failed
    BY <1>1 DEF CallInv, Resulted
  <2> QED
    BY <2>1, ToolStays DEF CallInv, Resulted
<1> QED
  BY <1>3, <1>5, <1>6, <1>7, <1>8 DEF CallInv

LEMMA HttpAnsweredKeepsCall ==
    ASSUME CallInv, HttpAnswered
    PROVE  CallInv'
<1>1. /\ server = "pdp" /\ call.binding = "http"
      /\ UNCHANGED <<call, client, wire, handed, result, exit, printed, batchVars>>
  BY DEF HttpAnswered
<1>2. call # None
  BY <1>1 DEF CallInv, Phases, AskedAsReceived
<1>3. call.op \in Ops
  BY <1>2, CallTyped
<1>4. ASSUME NEW v \in Values(call.op), verdict' = [how |-> "decided", value |-> v],
             WritesBody(call, JsonBody(call.op, v), ValueMaps(call.op, v))
      PROVE  CallInv'
  <2>1. /\ server' = "done" /\ reply'.statuses[1] = 200
        /\ reply'.body = JsonBody(call.op, v) \/ reply'.body = Nothing
    BY <1>4, WrittenForms
  <2>2. verdict' # None /\ verdict'.value = v
    BY <1>3, <1>4, VerdictTyped
  <2>3. Values(call.op)' = Values(call.op)
    BY <1>1 DEF Values
  <2>4. WasDecided'
    BY <1>1, <1>4, <2>2, <2>3 DEF WasDecided
  <2>5. (JsonBody(call.op, verdict.value))' = JsonBody(call.op, v)
    BY <1>1, <2>2
  <2>6. HttpReply'
    BY <2>1, <2>4, <2>5 DEF HttpReply, HttpBody
  <2> QED
    BY <1>1, <1>4, <2>1, <2>6, PdpAnswers
<1>5. ASSUME verdict' \in Unanswered,
             Panics(call) \/ Ends(writeServerError(call), {correlationID(call)})
      PROVE  CallInv'
  <2>1. /\ server' = "done" /\ reply'.statuses[1] = 500 /\ reply'.body.kind = "error"
        /\ Traceable(reply'.body.value, log')
    BY <1>5, FailureWritten
  <2>2. HttpReply'
    BY <2>1 DEF HttpReply, Traceable
  <2> QED
    BY <1>1, <1>5, <2>1, <2>2, PdpAnswers
<1>6. ASSUME verdict' = [how |-> "nil", value |-> None],
             Ends(writeJSON(200, [kind |-> "null", value |-> None], {}), {})
      PROVE  CallInv'
  <2> DEFINE body == [kind |-> "null", value |-> None]
  <2>1. writeJSON(200, body, {}) = [statuses |-> <<200>>, body |-> body]
    BY DEF writeJSON
  <2>2. server' = "done" /\ reply'.statuses[1] = 200 /\ reply'.body = body
    BY <1>6, <2>1 DEF Ends
  <2>3. body.kind = "null"
    OBVIOUS
  <2>4. verdict' \in Unanswered
    BY <1>6 DEF Unanswered
  <2> HIDE DEF body
  <2>5. HttpReply'
    BY <1>6, <2>2, <2>3 DEF HttpReply, HttpBody
  <2> QED
    BY <1>1, <2>2, <2>4, <2>5, PdpAnswers
<1>7. ASSUME verdict' \in Unanswered, Ends(None, {}) PROVE CallInv'
  BY <1>1, <1>7, PdpAnswers DEF Ends
<1>8. ASSUME NEW how \in {"error", "panic", "abort"}
      PROVE  [how |-> how, value |-> None] \in Unanswered
  BY DEF Unanswered
<1> QED
  BY <1>4, <1>5, <1>6, <1>7, <1>8 DEF HttpAnswered

LEMMA GrpcAnsweredKeepsCall ==
    ASSUME CallInv, GrpcAnswered
    PROVE  CallInv'
<1>1. /\ server = "pdp" /\ call.binding = "grpc"
      /\ UNCHANGED <<call, client, wire, handed, result, exit, printed, batchVars>>
  BY DEF GrpcAnswered
<1>2. call # None
  BY <1>1 DEF CallInv, Phases, AskedAsReceived
<1>3. call.op \in Ops
  BY <1>2, CallTyped
<1>4. ASSUME NEW v \in Values(call.op), verdict' = [how |-> "decided", value |-> v],
             NEW rep, Ends(rep, {}),
             \/ rep = None
             \/ rep = [statuses |-> << 0 >>, body |-> ProtoBody(call.op, v)]
             \/ rep = GrpcStatus(2)
      PROVE  CallInv'
  <2>1. server' = "done" /\ reply' = rep
    BY <1>4 DEF Ends
  <2>2. verdict' # None /\ verdict'.value = v
    BY <1>3, <1>4, VerdictTyped
  <2>3. Values(call.op)' = Values(call.op)
    BY <1>1 DEF Values
  <2>4. WasDecided'
    BY <1>1, <1>4, <2>2, <2>3 DEF WasDecided
  <2>5. (ProtoBody(call.op, verdict.value))' = ProtoBody(call.op, v)
    BY <1>1, <2>2
  <2>6. CASE rep = [statuses |-> << 0 >>, body |-> ProtoBody(call.op, v)]
    <3>1. GrpcReply'
      BY <2>1, <2>4, <2>5, <2>6 DEF GrpcReply
    <3> QED
      BY <1>1, <1>4, <2>1, <3>1, PdpAnswers
  <2>7. CASE rep = GrpcStatus(2)
    <3>1. reply'.statuses[1] = 2
      BY <2>1, <2>7 DEF GrpcStatus
    <3>2. GrpcReply'
      BY <3>1 DEF GrpcReply
    <3> QED
      BY <1>1, <1>4, <2>1, <3>2, PdpAnswers
  <2>8. CASE rep = None
    BY <1>1, <1>4, <2>1, <2>8, PdpAnswers
  <2> QED
    BY <1>4, <2>6, <2>7, <2>8
<1>5. ASSUME NEW isStatus \in BOOLEAN, verdict' = [how |-> "error", value |-> None],
             Ends(pdpError(isStatus), {})
      PROVE  CallInv'
  <2>1. server' = "done" /\ reply'.statuses[1] # 0
    BY <1>5 DEF Ends, pdpError, GrpcStatus
  <2>2. verdict' \in Unanswered /\ GrpcReply'
    BY <1>5, <2>1 DEF Unanswered, GrpcReply
  <2> QED
    BY <1>1, <2>1, <2>2, PdpAnswers
<1>6. ASSUME verdict' = [how |-> "panic", value |-> None], Ends(None, {})
      PROVE  CallInv'
  <2>1. verdict' \in Unanswered /\ server' = "done" /\ reply' = None
    BY <1>6 DEF Unanswered, Ends
  <2> QED
    BY <1>1, <2>1, PdpAnswers
<1>7. ASSUME NEW v \in Values(call.op), verdict' = [how |-> "decided", value |-> v],
             LET maps == ValueMaps(call.op, v) IN
               Ends(IF "bomb" \in maps THEN None
                    ELSE IF Normalizable(maps)
                    THEN [statuses |-> << 0 >>, body |-> ProtoBody(call.op, v)]
                    ELSE GrpcStatus(2), {})
      PROVE  CallInv'
  BY <1>4, <1>7
<1> QED
  BY <1>5, <1>6, <1>7 DEF GrpcAnswered

LEMMA LoopStepsKeepCall ==
    ASSUME CallInv, InLoop \/ Disconnected
    PROVE  CallInv'
<1>1. server = "batch" /\ UNCHANGED serviceVars /\ (BatchStep \/ Cancel)
  BY DEF InLoop, Disconnected
<1>2. stage # "idle" /\ reply = None /\ verdict = None /\ handed = None
  BY <1>1 DEF CallInv, LoopAsReceived
<1>3. request' = request /\ stage' # "idle"
  <2>1. CASE Cancel
    BY <1>2, <2>1 DEF Cancel
  <2>2. ASSUME NEW how, NEW d, Ask(how, d) PROVE request' = request /\ stage = "loop"
    BY <2>2 DEF Ask
  <2>3. CASE \E d \in Decisions : MemberDecided(d)
    BY <2>2, <2>3 DEF MemberDecided, Collect
  <2>4. CASE MemberErred
    BY <2>2, <2>4 DEF MemberErred, PdpFails, Collect
  <2>5. CASE MemberPanicked
    BY <2>2, <2>5 DEF MemberPanicked
  <2>6. CASE \E k \in 1 .. Len(seen), f \in Fields : PdpWrites(k, f)
    BY <1>2, <2>6 DEF PdpWrites
  <2> QED
    BY <1>1, <2>1, <2>3, <2>4, <2>5, <2>6 DEF BatchStep
<1>4. /\ call' = call /\ client' = client /\ wire' = wire /\ server' = server /\ handed' = handed
      /\ verdict' = verdict /\ reply' = reply /\ result' = result /\ exit' = exit /\ printed' = printed
  BY <1>1 DEF serviceVars
<1>5. Phases'
  BY <1>1, <1>4 DEF CallInv, Phases
<1>6. WellAsked(request)' <=> WellAsked(request)
  BY <1>3, <1>4 DEF WellAsked
<1>7. AskedAsReceived' /\ LoopAsReceived'
  BY <1>1, <1>2, <1>3, <1>4, <1>6 DEF CallInv, AskedAsReceived, LoopAsReceived
<1>8. VerdictGiven' /\ Replied'
  BY <1>2, <1>4 DEF VerdictGiven, Replied
<1>9. Resulted' /\ ToolTold'
  BY <1>4, ToolStays DEF CallInv, Resulted
<1> QED
  BY <1>5, <1>7, <1>8, <1>9 DEF CallInv

LEMMA LoopEndedKeepsCall ==
    ASSUME CallInv, LoopEnded
    PROVE  CallInv'
<1>1. /\ server = "batch" /\ stage \in {"returned", "failed", "panicked", "aborted"}
      /\ UNCHANGED <<call, client, wire, handed, verdict, result, exit, printed, batchVars>>
  BY DEF LoopEnded, Outcomes
<1>2. /\ call # None /\ call.binding = "http" /\ verdict = None /\ handed = None /\ reply = None
  BY <1>1 DEF CallInv, LoopAsReceived
<1>3. server' = "done" /\ (reply' = None \/ HttpReply')
  <2> DEFINE resp == [single |-> None, list |-> out]
             body == JsonBody("batch", resp)
  <2>1. CASE stage = "returned"
    <3>1. WritesBody(call, body, MapsOfBatchResponse(resp))
      BY <2>1 DEF LoopEnded
    <3>2. /\ server' = "done" /\ reply'.statuses[1] = 200
          /\ reply'.body = body \/ reply'.body = Nothing
      BY <3>1, WrittenForms
    <3>3. (JsonBody("batch", [single |-> None, list |-> out]))' = body /\ stage' = "returned"
      BY <1>1, <2>1 DEF batchVars
    <3> HIDE DEF body
    <3> QED
      BY <3>2, <3>3 DEF HttpReply, HttpBody
  <2>2. CASE stage \in {"failed", "panicked"}
    <3>1. Panics(call) \/ Ends(writeServerError(call), {correlationID(call)})
      BY <2>2 DEF LoopEnded
    <3>2. /\ server' = "done" /\ reply'.statuses[1] = 500 /\ reply'.body.kind = "error"
          /\ Traceable(reply'.body.value, log')
      BY <3>1, FailureWritten
    <3> QED
      BY <3>2 DEF HttpReply, Traceable
  <2>3. CASE stage = "aborted"
    BY <2>3 DEF LoopEnded, Ends
  <2> QED
    BY <1>1, <2>1, <2>2, <2>3
<1>4. stage' = stage /\ request' = request
  BY <1>1 DEF batchVars
<1>5. Phases'
  BY <1>1, <1>2, <1>3 DEF CallInv, Phases
<1>6. WellAsked(request)' <=> WellAsked(request)
  BY <1>1, <1>4 DEF WellAsked
<1>7. AskedAsReceived' /\ LoopAsReceived'
  BY <1>1, <1>2, <1>3, <1>4, <1>6 DEF CallInv, AskedAsReceived, LoopAsReceived
<1>8. VerdictGiven' /\ Replied'
  BY <1>1, <1>2, <1>3 DEF VerdictGiven, Replied
<1>9. Resulted' /\ ToolTold'
  <2>1. result # None => result = Failed
    BY <1>1, <1>2 DEF CallInv, Resulted
  <2> QED
    BY <1>1, <2>1, ToolStays DEF CallInv, Resulted
<1> QED
  BY <1>5, <1>7, <1>8, <1>9 DEF CallInv

LEMMA GrpcReceivesKeepsCall ==
    ASSUME CallInv, ServiceInv, GrpcReceives
    PROVE  CallInv'
<1> DEFINE r == Received(call)
<1>1. /\ call # None /\ call.binding = "grpc" /\ wire # None /\ server = "idle"
      /\ UNCHANGED <<call, client, wire, verdict, result, exit, printed, batchVars>>
  BY DEF GrpcReceives
<1>2. call \in Calls /\ call.op \in Ops /\ FromProto(call.op, wire.message) = r
  <2>1. wire.message = Encoded(call)
    BY <1>1 DEF ServiceInv, OnTheWire
  <2> QED
    BY <1>1, <2>1, CallTyped DEF Received
<1>3. /\ handed = None /\ verdict = None /\ reply = None /\ stage = "idle"
      /\ client # "idle" /\ (client = "done" <=> result # None)
      /\ client \in {"idle", "waiting", "done"}
  BY <1>1 DEF CallInv, Phases
<1>4. result # None => result = Failed
  BY <1>1 DEF CallInv, Resulted
<1>5. ASSUME server' \in {"pdp", "batch", "done"} PROVE Phases'
  BY <1>1, <1>2, <1>3, <1>5 DEF Phases
<1>6. Resulted' /\ ToolTold' /\ VerdictGiven'
  BY <1>1, <1>3, <1>4, ToolStays DEF Resulted, VerdictGiven, CallInv
<1>7. CASE Ends(GrpcStatus(3), {}) /\ UNCHANGED handed
  <2>1. server' = "done" /\ reply'.statuses[1] = 3
    BY <1>7 DEF Ends, GrpcStatus
  <2>2. Replied'
    BY <1>1, <2>1 DEF Replied, GrpcReply
  <2>3. AskedAsReceived' /\ LoopAsReceived'
    BY <1>1, <1>3, <1>7, <2>1 DEF AskedAsReceived, LoopAsReceived, batchVars
  <2> QED
    BY <1>5, <1>6, <2>1, <2>2, <2>3 DEF CallInv
<1>8. CASE /\ Valid(call.op, r) /\ server' = "pdp"
           /\ handed' = [request |-> Stripped(call.op, r)] /\ UNCHANGED <<reply, log>>
  <2>1. WellAsked(r)
    BY <1>1, <1>8, AcceptedIsWellAsked
  <2>2. WellAsked(Received(call))'
    BY <1>1, <2>1 DEF WellAsked
  <2>3. handed' # None
    <3>1. r \in Bodies(call.op)
      BY <1>2, ReceivedTyped
    <3>2. Stripped(call.op, r) \in Bodies(call.op)
      BY <1>2, <1>8, <3>1, StrippedStaysValid
    <3> QED
      BY <1>2, <1>8, <3>2, HandedTyped
  <2>4. AskedAsReceived' /\ LoopAsReceived' /\ Replied'
    BY <1>1, <1>3, <1>8, <2>2, <2>3 DEF AskedAsReceived, LoopAsReceived, Replied, batchVars
  <2> QED
    BY <1>5, <1>6, <1>8, <2>4 DEF CallInv
<1> QED
  BY <1>2, <1>7, <1>8 DEF GrpcReceives

(* What a client makes of a reply is one of its results.                    *)
LEMMA DecodedTyped ==
    ASSUME CallInv, BatchInv, reply # None
    PROVE  Decoded(call, reply) \in Results
<1>1. call # None /\ (call.binding = "http" => HttpReply) /\ (call.binding = "grpc" => GrpcReply)
  BY DEF CallInv, Replied
<1>2. call.op \in Ops /\ call.binding \in {"http", "grpc"}
  BY <1>1, CallTyped
<1>3. CASE call.binding = "http"
  <2>1. CASE reply.statuses[1] # 200
    <3>1. reply.statuses[1] \notin 200 .. 299
      BY <1>1, <1>3, <2>1 DEF HttpReply
    <3> QED
      BY <1>2, <1>3, <3>1, HttpDecodedTyped DEF Decoded
  <2>2. CASE reply.statuses[1] = 200
    <3>1. HttpBody(reply.body)
      BY <1>1, <1>3, <2>2 DEF HttpReply
    <3>2. CASE reply.body = Nothing \/ reply.body.kind = "null"
      BY <1>2, <1>3, <3>2, HttpDecodedTyped DEF Decoded
    <3>3. CASE WasDecided /\ reply.body = JsonBody(call.op, verdict.value)
      <4>1. verdict.value \in Values(call.op) /\ verdict # None
        BY <3>3 DEF WasDecided
      <4>2. call.op # "metadata"
        BY <1>3, <4>1 DEF CallInv, VerdictGiven, AskedAsReceived
      <4>3. reply.body \in BodyResults
        BY <1>2, <3>3, <4>1, <4>2, ValuesTyped, JsonBodyTyped
      <4> QED
        BY <1>2, <1>3, <4>3, HttpDecodedTyped DEF Decoded
    <3>4. CASE reply.body = JsonBody("batch", [single |-> None, list |-> out])
      <4> DEFINE v == [single |-> None, list |-> out]
      <4>1. v \in EvaluationsResponses /\ v.single = None
        BY CollectedTyped DEF EvaluationsResponses, Nullable
      <4> HIDE DEF v
      <4>2. JsonBody("batch", v) \in BodyResults
        BY <4>1, JsonBodyTyped DEF Ops, Searches
      <4> QED
        BY <1>2, <1>3, <3>4, <4>2, HttpDecodedTyped DEF Decoded, v
    <3>5. ASSUME NEW d \in Documents, reply.body = [kind |-> "metadata", value |-> d]
          PROVE  Decoded(call, reply) \in Results
      <4>1. reply.body \in BodyResults
        BY <3>5 DEF BodyResults, ResponseValues
      <4> QED
        BY <1>2, <1>3, <4>1, HttpDecodedTyped DEF Decoded
    <3> QED
      BY <3>1, <3>2, <3>3, <3>4, <3>5 DEF HttpBody
  <2> QED
    BY <2>1, <2>2
<1>4. CASE call.binding = "grpc"
  <2>1. CASE reply.statuses[1] # 0
    <3>1. GrpcDecoded(call.op, reply) = Failed
      BY <2>1 DEF GrpcDecoded
    <3> QED
      BY <1>4, <3>1, FailedIsResult DEF Decoded
  <2>2. CASE reply.statuses[1] = 0
    <3>1. WasDecided /\ reply.body = ProtoBody(call.op, verdict.value)
      BY <1>1, <1>4, <2>2 DEF GrpcReply
    <3>2. verdict.value \in Values(call.op)
      BY <3>1 DEF WasDecided
    <3>3. GrpcDecoded(call.op, reply) \in Results
      BY <1>2, <3>1, <3>2, GrpcDecodedTyped
    <3> QED
      BY <1>4, <3>3 DEF Decoded
  <2> QED
    BY <2>1, <2>2
<1> QED
  BY <1>2, <1>3, <1>4

LEMMA ReturnsKeepsCall ==
    ASSUME CallInv, BatchInv, Receives \/ GivesUp
    PROVE  CallInv'
<1>1. /\ client = "waiting"
      /\ UNCHANGED <<call, wire, server, handed, verdict, reply, log, batchVars>>
  BY DEF Receives, GivesUp
<1>2. PICK r : /\ Returns(call, r) /\ r \in Results /\ r # None
               /\ r = Failed \/ (server = "done" /\ reply # None /\ r = Decoded(call, reply))
  <2>1. CASE Receives
    <3>1. Returns(call, Decoded(call, reply)) /\ reply # None /\ server = "done"
      BY <2>1 DEF Receives, Decoded
    <3> QED
      BY <3>1, DecodedTyped, ServiceAssumption
  <2>2. CASE GivesUp
    BY <2>2, FailedIsResult DEF GivesUp
  <2> QED
    BY <2>1, <2>2
<1>3. client' = "done" /\ result' = r /\ Prints(call, r)
  BY <1>2 DEF Returns
<1>4. /\ stage' = stage /\ request' = request /\ out' = out
  BY <1>1 DEF batchVars
<1>5. Phases'
  BY <1>1, <1>2, <1>3, <1>4 DEF CallInv, Phases
<1>6. (WellAsked(request)' <=> WellAsked(request))
      /\ (WellAsked(Received(call))' <=> WellAsked(Received(call)))
  BY <1>1, <1>4 DEF WellAsked
<1>7. AskedAsReceived' /\ LoopAsReceived'
  BY <1>1, <1>4, <1>6 DEF CallInv, AskedAsReceived, LoopAsReceived
<1>8. VerdictGiven' /\ Replied'
  BY <1>1, <1>4, VerdictStays, ReplyStays DEF CallInv
<1>9. Resulted'
  BY <1>1, <1>2, <1>3 DEF Resulted
<1>10. ToolTold'
  BY <1>1, <1>2, <1>3 DEF ToolTold, Prints
<1> QED
  BY <1>5, <1>7, <1>8, <1>9, <1>10 DEF CallInv

LEMMA RequestLostKeepsCall ==
    ASSUME CallInv, RequestLost
    PROVE  CallInv'
<1>1. /\ client = "done" /\ server = "idle" /\ server' = "done"
      /\ UNCHANGED <<call, client, wire, handed, verdict, reply, log, result, exit, printed, batchVars>>
  BY DEF RequestLost
<1>2. handed = None /\ verdict = None /\ reply = None /\ stage = "idle" /\ stage' = "idle"
  BY <1>1 DEF CallInv, Phases, batchVars
<1>3. Phases' /\ AskedAsReceived' /\ LoopAsReceived' /\ VerdictGiven' /\ Replied'
  BY <1>1, <1>2 DEF CallInv, Phases, AskedAsReceived, LoopAsReceived, VerdictGiven, Replied
<1>4. Resulted' /\ ToolTold'
  BY <1>1, <1>2, ToolStays DEF CallInv, Resulted
<1> QED
  BY <1>3, <1>4 DEF CallInv

LEMMA EmptyKeepsCall ==
    ASSUME call' = None, client' = "idle", wire' = None, server' = "idle", handed' = None,
           verdict' = None, reply' = None, result' = None, exit' = None, printed' = None,
           stage' = "idle"
    PROVE  CallInv'
  BY DEF CallInv, Phases, AskedAsReceived, LoopAsReceived, VerdictGiven, Replied, Resulted, ToolTold

LEMMA StutterKeepsCall ==
    ASSUME CallInv, UNCHANGED allVars
    PROVE  CallInv'
<1>1. /\ call' = call /\ client' = client /\ wire' = wire /\ server' = server /\ handed' = handed
      /\ verdict' = verdict /\ reply' = reply /\ log' = log /\ result' = result /\ exit' = exit
      /\ printed' = printed
  BY DEF allVars, serviceVars
<1>2. stage' = stage /\ request' = request /\ out' = out
  BY DEF allVars, batchVars
<1>3. (WellAsked(request)' <=> WellAsked(request))
      /\ (WellAsked(Received(call))' <=> WellAsked(Received(call)))
  BY <1>1, <1>2 DEF WellAsked
<1>4. Phases' /\ AskedAsReceived' /\ LoopAsReceived' /\ Resulted'
  BY <1>1, <1>2, <1>3 DEF CallInv, Phases, AskedAsReceived, LoopAsReceived, Resulted
<1>5. VerdictGiven' /\ Replied' /\ ToolTold'
  BY <1>1, <1>2, VerdictStays, ReplyStays, ToolStays DEF CallInv
<1> QED
  BY <1>4, <1>5 DEF CallInv

(* Every step of every process keeps the call's invariant.                  *)
LEMMA CallInvHolds == ServiceSpec => []CallInv
<1>1. ServiceInit => CallInv
  BY DEF ServiceInit, BatchInit, CallInv, Phases, AskedAsReceived, LoopAsReceived, VerdictGiven,
         Replied, Resulted, ToolTold
<1>2. ServiceSpec => [](ServiceInv /\ BatchInv)
  BY ServiceInvHolds, ServiceRunsBatches, BatchInvHolds, PTL
<1>3. CallInv /\ ServiceInv /\ BatchInv /\ [ServiceNext]_allVars => CallInv'
  <2> SUFFICES ASSUME CallInv, ServiceInv, BatchInv, [ServiceNext]_allVars
               PROVE  CallInv'
    OBVIOUS
  <2>1. CASE MakeCall
    BY <2>1, MakeCallKeepsCall
  <2>2. CASE HttpReceives
    BY <2>2, HttpReceivesKeepsCall
  <2>3. CASE HttpAnswered
    BY <2>3, HttpAnsweredKeepsCall
  <2>4. CASE InLoop \/ Disconnected
    BY <2>4, LoopStepsKeepCall
  <2>5. CASE LoopEnded
    BY <2>5, LoopEndedKeepsCall
  <2>6. CASE GrpcReceives
    BY <2>6, GrpcReceivesKeepsCall
  <2>7. CASE GrpcAnswered
    BY <2>7, GrpcAnsweredKeepsCall
  <2>8. CASE Receives \/ GivesUp
    BY <2>8, ReturnsKeepsCall
  <2>9. CASE RequestLost
    BY <2>9, RequestLostKeepsCall
  <2>10. CASE NextCall
    BY <2>10, EmptyKeepsCall DEF NextCall, batchVars, Return
  <2>11. CASE UNCHANGED allVars
    BY <2>11, StutterKeepsCall
  <2> QED
    BY <2>1, <2>2, <2>3, <2>4, <2>5, <2>6, <2>7, <2>8, <2>9, <2>10, <2>11 DEF ServiceNext
<1> QED
  BY <1>1, <1>2, <1>3, PTL DEF ServiceSpec

(***************************************************************************)
(* What the invariant says of the request handed to the PDP.                *)
(***************************************************************************)
LEMMA HandedAsReceived ==
    ASSUME CallInv, handed # None
    PROVE  /\ call \in Calls /\ call.op \in Ops /\ call.binding \in {"http", "grpc"}
           /\ stage = "idle" /\ server \in {"pdp", "done"}
           /\ handed \in HandedRequests
           /\ handed.request = Stripped(call.op, Received(call))
           /\ handed.request \in Bodies(call.op) /\ Valid(call.op, handed.request)
           /\ call.op = "subjects" => handed.request.subject.id = ""
           /\ call.op = "resources" => handed.request.resource.id = ""
           /\ call.op \in Searches => handed.request.page = Received(call).page
           /\ call.op \in {"evaluate", "batch"} => handed.request = Received(call)
           /\ call.op = "batch" /\ call.binding = "http" =>
                    Len(handed.request.evaluations) <= MaxBatchSize
<1> DEFINE r == Received(call)
<1>1. /\ stage = "idle" /\ server \in {"pdp", "done"} /\ call # None
      /\ handed = [request |-> Stripped(call.op, r)] /\ WellAsked(r)
  BY DEF CallInv, Phases, AskedAsReceived
<1>2. call \in Calls /\ call.op \in Ops /\ call.binding \in {"http", "grpc"}
  BY <1>1, CallTyped
<1>3. r \in Bodies(call.op)
  BY <1>2, ReceivedTyped
<1>4. handed.request = Stripped(call.op, r)
  BY <1>1
<1> HIDE DEF r
<1>5. Valid(call.op, r)
  BY <1>1 DEF WellAsked
<1>6. /\ Stripped(call.op, r) \in Bodies(call.op) /\ Valid(call.op, Stripped(call.op, r))
      /\ call.op = "subjects" => Stripped(call.op, r).subject.id = ""
      /\ call.op = "resources" => Stripped(call.op, r).resource.id = ""
      /\ call.op \in Searches => Stripped(call.op, r).page = r.page
      /\ call.op \in {"evaluate", "batch", "metadata"} => Stripped(call.op, r) = r
  BY <1>2, <1>3, <1>5, StrippedStaysValid
<1>7. handed \in HandedRequests
  BY <1>1, <1>2, <1>6, HandedTyped
<1> QED
  BY <1>1, <1>2, <1>4, <1>6, <1>7 DEF WellAsked, r

(* What it says of the request of the loop.                                 *)
LEMMA LoopRequest ==
    ASSUME CallInv, stage # "idle"
    PROVE  /\ call \in Calls /\ call.op = "batch" /\ call.binding = "http"
           /\ request = Received(call) /\ request \in EvaluationsRequests
           /\ ValidBatch(request) /\ Len(request.evaluations) <= MaxBatchSize
           /\ handed = None /\ verdict = None /\ server \in {"batch", "done"}
<1>1. /\ call # None /\ call.op = "batch" /\ call.binding = "http"
      /\ request = Received(call) /\ WellAsked(request)
      /\ handed = None /\ verdict = None /\ server \in {"batch", "done"}
  BY DEF CallInv, LoopAsReceived
<1>2. call \in Calls
  BY <1>1, CallTyped
<1>3. request \in EvaluationsRequests
  BY <1>1, <1>2, ReceivedTyped DEF Bodies, Searches
<1>4. Valid("batch", request) <=> ValidBatch(request)
  BY DEF Valid
<1> QED
  BY <1>1, <1>2, <1>3, <1>4 DEF WellAsked

(* The members the loop has asked about and collected.                      *)
LEMMA LoopMembers ==
    ASSUME BatchInv, CallInv, stage # "idle"
    PROVE  /\ Len(seen) \in Nat /\ Len(out) \in Nat /\ Len(answers) \in Nat
           /\ Len(out) <= Len(seen) /\ Len(seen) <= Len(Resolved(request))
           /\ Len(seen) = Len(answers) /\ Len(out) <= Len(answers)
           /\ Len(Resolved(request)) \in Nat
<1>1. /\ Len(seen) \in Nat /\ Len(out) \in Nat /\ Len(answers) \in Nat
  BY LenProperties DEF BatchInv, BatchTypes
<1>2. request \in EvaluationsRequests
  BY LoopRequest
<1>3. Len(Resolved(request)) \in Nat
  BY <1>2, ResolvedTyped, LenProperties
<1> QED
  BY <1>1, <1>3 DEF BatchInv, InStep

(***************************************************************************)
(* What a result is made of.                                                *)
(***************************************************************************)
GrpcBatch(v) == evaluationsResponseFromProto(evaluationsResponseToProto(v))

OwnDecision ==
    /\ call.op = "evaluate" /\ WasDecided /\ result.kind = "decision"
    /\ result.value \in EvaluationResponses /\ result.value.decision = verdict.value.decision

OwnBatch ==
    /\ call.op = "batch" /\ WasDecided
    /\ \E g \in {JsonBatchResponse(verdict.value), GrpcBatch(verdict.value)} :
            result = [kind |-> "batch", value |-> g]

LoopBatch ==
    /\ call.op = "batch" /\ stage = "returned"
    /\ result = [kind |-> "batch", value |-> JsonBatchResponse([single |-> None, list |-> out])]

Undecided ==
    result = Failed \/ (verdict = [how |-> "nil", value |-> None] /\ result = ZeroValue(call.op))

(* The body of an answer, by operation.                                     *)
LEMMA JsonBodyForms ==
    ASSUME NEW v
    PROVE  /\ JsonBody("evaluate", v) = [kind |-> "decision", value |-> JsonDecision(v)]
           /\ JsonBody("batch", v) = [kind |-> "batch", value |-> JsonBatchResponse(v)]
           /\ \A op \in Searches : JsonBody(op, v) = [kind |-> "search", value |-> JsonSearchResponse(v)]
  BY DEF JsonBody, Searches

(* The client returns the body of a 200 as it is, but for a document that   *)
(* names another issuer.                                                    *)
LEMMA HttpDecodes ==
    ASSUME NEW op, NEW rep, rep.statuses[1] = 200
    PROVE  /\ rep.body.kind = "nothing" => HttpDecoded(op, rep) = Failed
           /\ rep.body.kind = "null" => HttpDecoded(op, rep) = ZeroValue(op)
           /\ rep.body.kind \in {"decision", "batch", "search"} /\ op # "metadata" =>
                    HttpDecoded(op, rep) = rep.body
           /\ rep.body.kind = "metadata" /\ op = "metadata" =>
                    \/ HttpDecoded(op, rep) = Failed
                    \/ /\ sameIssuer(Issuer, rep.body.value.issuer)
                       /\ HttpDecoded(op, rep) = rep.body
  BY DEF HttpDecoded

LEMMA ResultForms ==
    ASSUME CallInv, BatchInv, result # None, call.op \in {"evaluate", "batch"}
    PROVE  Undecided \/ OwnDecision \/ OwnBatch \/ LoopBatch
<1>1. result = Failed \/ (reply # None /\ result = Decoded(call, reply))
  BY DEF CallInv, Resulted
<1>2. SUFFICES ASSUME reply # None, result = Decoded(call, reply)
               PROVE  Undecided \/ OwnDecision \/ OwnBatch \/ LoopBatch
  BY <1>1 DEF Undecided
<1>3. call # None /\ (call.binding = "http" => HttpReply) /\ (call.binding = "grpc" => GrpcReply)
  BY <1>2 DEF CallInv, Replied
<1>4. call.op \in Ops /\ call.binding \in {"http", "grpc"}
  BY <1>3, CallTyped
<1>5. ASSUME WasDecided
      PROVE  /\ verdict.value \in Values(call.op)
             /\ call.op = "evaluate" => verdict.value \in EvaluationResponses
  BY <1>4, <1>5, ValuesTyped DEF WasDecided
<1>6. CASE call.binding = "http"
  <2>1. result = HttpDecoded(call.op, reply)
    BY <1>2, <1>6 DEF Decoded
  <2>2. CASE reply.statuses[1] # 200
    <3>1. reply.statuses[1] \notin 200 .. 299
      BY <1>3, <1>6, <2>2 DEF HttpReply
    <3> QED
      BY <2>1, <3>1 DEF HttpDecoded, Undecided
  <2>3. CASE reply.statuses[1] = 200
    <3>1. HttpBody(reply.body)
      BY <1>3, <1>6, <2>3 DEF HttpReply
    <3>2. CASE reply.body = Nothing
      <4>1. reply.body.kind = "nothing"
        BY <3>2 DEF Nothing
      <4> QED
        BY <2>1, <2>3, <4>1, HttpDecodes DEF Undecided
    <3>3. CASE reply.body.kind = "null" /\ verdict = [how |-> "nil", value |-> None]
      BY <2>1, <2>3, <3>3, HttpDecodes DEF Undecided
    <3>4. CASE WasDecided /\ reply.body = JsonBody(call.op, verdict.value)
      <4>1. CASE call.op = "evaluate"
        <5>1. reply.body = [kind |-> "decision", value |-> JsonDecision(verdict.value)]
          BY <3>4, <4>1, JsonBodyForms
        <5>2. result = reply.body
          BY <2>1, <2>3, <4>1, <5>1, HttpDecodes
        <5>3. result.kind = "decision" /\ result.value = JsonDecision(verdict.value)
          BY <5>1, <5>2
        <5>4. verdict.value \in EvaluationResponses
          BY <1>5, <3>4, <4>1
        <5> QED
          BY <3>4, <4>1, <5>3, <5>4, DecisionCrosses DEF OwnDecision
      <4>2. CASE call.op = "batch"
        <5>1. reply.body = [kind |-> "batch", value |-> JsonBatchResponse(verdict.value)]
          BY <3>4, <4>2, JsonBodyForms
        <5>2. result = reply.body
          BY <2>1, <2>3, <4>2, <5>1, HttpDecodes
        <5> QED
          BY <3>4, <4>2, <5>1, <5>2 DEF OwnBatch
      <4> QED
        BY <4>1, <4>2
    <3>5. CASE /\ stage = "returned"
               /\ reply.body = JsonBody("batch", [single |-> None, list |-> out])
      <4> DEFINE v == [single |-> None, list |-> out]
      <4>1. reply.body = [kind |-> "batch", value |-> JsonBatchResponse(v)]
        BY <3>5, JsonBodyForms
      <4>2. call.op = "batch"
        BY <3>5, LoopRequest
      <4> HIDE DEF v
      <4>3. result = reply.body
        BY <2>1, <2>3, <4>1, <4>2, HttpDecodes
      <4> QED
        BY <3>5, <4>1, <4>2, <4>3 DEF LoopBatch, v
    <3> QED
      BY <3>1, <3>2, <3>3, <3>4, <3>5 DEF HttpBody
  <2> QED
    BY <2>2, <2>3
<1>7. CASE call.binding = "grpc"
  <2>1. result = GrpcDecoded(call.op, reply)
    BY <1>2, <1>7 DEF Decoded
  <2>2. CASE reply.statuses[1] # 0
    BY <2>1, <2>2 DEF GrpcDecoded, Undecided
  <2>3. CASE reply.statuses[1] = 0
    <3>1. WasDecided /\ reply.body = ProtoBody(call.op, verdict.value)
      BY <1>3, <1>7, <2>3 DEF GrpcReply
    <3>2. verdict.value \in Values(call.op)
      BY <1>5, <3>1
    <3>3. CASE call.op = "evaluate"
      <4> DEFINE e == evaluationResponseFromProto(evaluationResponseToProto(verdict.value))
      <4>1. result = [kind |-> "decision", value |-> e]
        BY <1>4, <2>1, <2>3, <3>1, <3>2, <3>3, GrpcDecodedTyped
      <4>2. e \in EvaluationResponses /\ e.decision = verdict.value.decision
        BY <1>5, <3>1, <3>3, DecisionCrosses
      <4> HIDE DEF e
      <4>3. result.kind = "decision" /\ result.value = e
        BY <4>1
      <4> QED
        BY <3>1, <3>3, <4>2, <4>3 DEF OwnDecision
    <3>4. CASE call.op = "batch"
      <4>1. result = [kind |-> "batch", value |-> GrpcBatch(verdict.value)]
        BY <1>4, <2>1, <2>3, <3>1, <3>2, <3>4, GrpcDecodedTyped DEF GrpcBatch
      <4> QED
        BY <3>1, <3>4, <4>1 DEF OwnBatch
    <3> QED
      BY <3>3, <3>4
  <2> QED
    BY <2>2, <2>3
<1> QED
  BY <1>4, <1>6, <1>7

SameVerdicts(s, t) ==
    /\ Len(s) = Len(t) /\ Len(t) \in Nat
    /\ \A k \in 1 .. Len(t) : s[k].decision = t[k].decision

(* A result with decisions holds what was decided, member by member.        *)
LEMMA OwnDecisionDelivered ==
    ASSUME CallInv, OwnDecision
    PROVE  /\ DecisionsIn(result) = <<result.value>>
           /\ SameVerdicts(DecisionsIn(result), DecisionsMade)
           /\ Len(DecisionsMade) <= Len(MembersAsked)
           /\ verdict # None /\ verdict.how = "decided" /\ handed # None
<1>1. /\ verdict # None /\ verdict = [how |-> "decided", value |-> verdict.value]
      /\ verdict.value \in Values(call.op) /\ call.op = "evaluate"
      /\ result.kind = "decision" /\ result.value.decision = verdict.value.decision
  BY DEF OwnDecision, WasDecided
<1>2. handed # None /\ verdict.how = "decided"
  <2>1. handed # None
    BY <1>1 DEF CallInv, VerdictGiven
  <2>2. verdict.how = "decided"
    BY <1>1
  <2> QED
    BY <2>1, <2>2
<1>3. stage = "idle"
  BY <1>2, HandedAsReceived
<1> DEFINE v == verdict.value
<1>4. v \in EvaluationResponses /\ v # None
  <2>1. v \in EvaluationResponses
    BY <1>1, ValuesTyped DEF Ops
  <2> QED
    BY <2>1, NilAssumption
<1>5. DecisionsIn(result) = <<result.value>>
  BY <1>1 DEF DecisionsIn
<1>6. DecisionsMade = <<v>>
  <2>1. DecisionsMade = DecisionsIn([kind |-> "decision", value |-> v])
    BY <1>1, <1>3, <1>4 DEF DecisionsMade
  <2> QED
    BY <2>1 DEF DecisionsIn
<1>7. MembersAsked = <<handed.request>>
  BY <1>1, <1>2, <1>3 DEF MembersAsked
<1> DEFINE s == <<result.value>>
           t == <<v>>
<1>8. Len(s) = 1 /\ Len(t) = 1 /\ s[1] = result.value /\ t[1] = v
  OBVIOUS
<1>9. Len(MembersAsked) = 1
  BY <1>7
<1>10. s[1].decision = t[1].decision
  BY <1>1, <1>8
<1> HIDE DEF s, t, v
<1>11. \A k \in 1 .. Len(t) : k = 1
  BY <1>8
<1>12. Len(s) = Len(t) /\ Len(t) \in Nat
  BY <1>8
<1>13. SameVerdicts(s, t)
  BY <1>10, <1>11, <1>12, Zenon DEF SameVerdicts
<1>14. Len(DecisionsMade) <= Len(MembersAsked)
  BY <1>6, <1>8, <1>9 DEF t
<1> QED
  BY <1>1, <1>2, <1>5, <1>6, <1>13, <1>14 DEF s, t

LEMMA OwnBatchDelivered ==
    ASSUME CallInv, OwnBatch
    PROVE  /\ result.kind = "batch"
           /\ SameVerdicts(DecisionsIn(result), DecisionsMade)
           /\ Len(DecisionsMade) <= Len(MembersAsked)
           /\ result.value.list # None => DecisionsIn(result) = result.value.list
<1>1. /\ verdict # None /\ verdict = [how |-> "decided", value |-> verdict.value]
      /\ verdict.value \in Values(call.op) /\ call.op = "batch"
  BY DEF OwnBatch, WasDecided
<1>2. PICK g \in {JsonBatchResponse(verdict.value), GrpcBatch(verdict.value)} :
            result = [kind |-> "batch", value |-> g]
  BY DEF OwnBatch
<1>3. handed # None
  BY <1>1 DEF CallInv, VerdictGiven
<1>4. stage = "idle" /\ handed.request \in EvaluationsRequests
  BY <1>1, <1>3, HandedAsReceived DEF Bodies, Searches
<1> DEFINE v == verdict.value
           made == DecisionsIn([kind |-> "batch", value |-> v])
           got == DecisionsIn([kind |-> "batch", value |-> g])
<1>5. v \in EvaluationsResponses /\ (v.single # None => v.list \in {None, <<>>})
  BY <1>1, ValuesTyped DEF Ops
<1>6. v # None
  BY <1>5, NilAssumption
<1>7. DecisionsMade = made
  BY <1>1, <1>4, <1>6 DEF DecisionsMade
<1>8. MembersAsked = Resolved(handed.request)
  BY <1>1, <1>3, <1>4 DEF MembersAsked
<1>9. /\ SameDecisions(got, made)
      /\ g.single # None => g.list = None
      /\ made = IF v.single # None THEN <<v.single>> ELSE IF v.list # None THEN v.list ELSE <<>>
      /\ got = IF g.single # None THEN <<g.single>> ELSE IF g.list # None THEN g.list ELSE <<>>
  BY <1>2, <1>5, BatchResponseCrosses DEF GrpcBatch
<1>10. /\ Len(Resolved(handed.request)) \in Nat /\ Len(Resolved(handed.request)) >= 1
       /\ v.list # None => Len(v.list) <= Len(Resolved(handed.request))
  <2>1. v.list # None => Len(v.list) <= Len(Resolved(handed.request))
    BY <1>1 DEF Values, Searches
  <2>2. Len(Resolved(handed.request)) \in Nat /\ Len(Resolved(handed.request)) >= 1
    BY <1>4, ResolvedTyped
  <2> QED
    BY <2>1, <2>2
<1> HIDE DEF v, got
<1>11. Len(made) <= Len(Resolved(handed.request))
  <2> DEFINE one == <<v.single>>
             none == <<>>
  <2>1. Len(one) = 1 /\ Len(none) = 0
    OBVIOUS
  <2>2. made = IF v.single # None THEN one ELSE IF v.list # None THEN v.list ELSE none
    BY <1>9, Zenon
  <2> HIDE DEF one, none, made
  <2>3. Len(made) = 1 \/ Len(made) = 0 \/ (v.list # None /\ Len(made) = Len(v.list))
    BY <2>1, <2>2
  <2> DEFINE n == Len(Resolved(handed.request))
  <2>4. n \in Nat /\ n >= 1 /\ (v.list # None => Len(v.list) <= n)
    BY <1>10
  <2> HIDE DEF n
  <2>5. Len(made) <= n
    BY <2>3, <2>4
  <2> QED
    BY <2>5 DEF n
<1> HIDE DEF made
<1>12. SameVerdicts(got, made)
  <2>1. Len(made) \in Nat
    BY <1>9, LenProperties DEF SameDecisions
  <2> QED
    BY <1>9, <2>1 DEF SameDecisions, SameVerdicts
<1>13. result.kind = "batch" /\ result.value = g /\ DecisionsIn(result) = got
  BY <1>2 DEF got
<1>14. g.list # None => got = g.list
  BY <1>9
<1> QED
  BY <1>7, <1>8, <1>11, <1>12, <1>13, <1>14

LEMMA LoopBatchDelivered ==
    ASSUME CallInv, BatchInv, LoopBatch
    PROVE  /\ result.kind = "batch"
           /\ SameVerdicts(DecisionsIn(result), DecisionsMade)
           /\ Len(DecisionsMade) <= Len(MembersAsked)
           /\ DecisionsIn(result) = result.value.list
<1> DEFINE v == [single |-> None, list |-> out]
           g == JsonBatchResponse(v)
<1>1. /\ stage = "returned" /\ stage # "idle"
      /\ result = [kind |-> "batch", value |-> g]
  BY DEF LoopBatch
<1>2. out \in Seq(EvaluationResponses) /\ out # None
  BY CollectedTyped, NilAssumption
<1>3. v \in EvaluationsResponses /\ v.single = None /\ v.list = out
  BY <1>2 DEF EvaluationsResponses, Nullable
<1>4. g = [single |-> None, list |-> JsonList(out)]
  <2> HIDE DEF v
  <2> QED
    BY <1>2, <1>3 DEF JsonBatchResponse, JsonList
<1>5. SameDecisions(JsonList(out), out)
  BY <1>2, ListCrosses
<1>6. JsonList(out) # None
  BY <1>5, NilAssumption DEF SameDecisions
<1> HIDE DEF g
<1>7. DecisionsIn(result) = JsonList(out) /\ result.kind = "batch" /\ result.value.list = JsonList(out)
  BY <1>1, <1>4, <1>6 DEF DecisionsIn
<1>8. /\ Len(out) \in Nat /\ Len(answers) \in Nat /\ Len(out) = Len(answers) /\ Len(seen) = Len(answers)
  BY <1>1, LoopMembers DEF BatchInv, ExactPrefix
<1> DEFINE made == [k \in 1 .. Len(answers) |-> IF answers[k].how = "decided" THEN answers[k].decision
                                                ELSE [decision |-> FALSE]]
<1>9. DecisionsMade = made
  BY <1>1 DEF DecisionsMade
<1>10. Len(made) = Len(answers)
  BY <1>8
<1>11. MembersAsked = seen
  BY <1>1 DEF MembersAsked
<1>12. ASSUME NEW k \in 1 .. Len(out)
       PROVE  made[k].decision = out[k].decision
  <2>1. out[k] \in EvaluationResponses /\ out[k] # None /\ out[k].decision \in BOOLEAN
    <3>1. out[k] \in EvaluationResponses
      BY <1>2, ElementOfSeq
    <3> QED
      BY <3>1, NilAssumption DEF EvaluationResponses
  <2>2. answers[k].how \in {"decided", "error"} \/ answers[k].decision = None
    <3>1. answers \in Seq(AnswerSet)
      BY DEF BatchInv, BatchTypes
    <3>2. answers[k] \in AnswerSet
      BY <1>8, <3>1, ElementOfSeq
    <3> QED
      BY <3>2 DEF AnswerSet
  <2>3. IF answers[k].how = "error"
        THEN ~out[k].decision /\ out[k].error # None /\ out[k].error.id \in logged
        ELSE out[k] = answers[k].decision
    BY DEF BatchInv, FailuresAreDenies
  <2> QED
    BY <1>8, <2>1, <2>2, <2>3
<1> HIDE DEF made
<1>13. Len(JsonList(out)) = Len(made) /\ Len(made) \in Nat /\ Len(made) <= Len(seen)
       /\ Len(made) = Len(out)
  BY <1>5, <1>8, <1>10 DEF SameDecisions
<1>14. \A k \in 1 .. Len(made) : JsonList(out)[k].decision = made[k].decision
  <2>1. \A k \in 1 .. Len(out) : JsonList(out)[k].decision = out[k].decision
    BY <1>5, Zenon DEF SameDecisions
  <2>2. \A k \in 1 .. Len(out) : made[k].decision = out[k].decision
    BY <1>12, Zenon
  <2> QED
    BY <1>13, <2>1, <2>2, Zenon
<1>15. SameVerdicts(JsonList(out), made)
  BY <1>13, <1>14, Zenon DEF SameVerdicts
<1> QED
  BY <1>7, <1>9, <1>11, <1>13, <1>15

(* What the PDP was asked about names what the PEP named.                   *)
LEMMA MembersNamed ==
    ASSUME CallInv, BatchInv, call # None, call.op \in {"evaluate", "batch"},
           NEW k \in 1 .. Len(MembersAsked)
    PROVE  SameNames(MembersAsked[k], MembersOf(call)[k])
<1>1. call \in Calls /\ call.body \in Bodies(call.op)
  BY CallTyped, ServiceAssumption
<1>2. /\ call.op = "evaluate" => SameNames(Received(call), call.body)
      /\ call.op = "batch" => SameBatch(Received(call), call.body)
  BY <1>1, ReceivedNames
<1>3. call.op = "batch" =>
        /\ call.body \in EvaluationsRequests /\ Received(call) \in EvaluationsRequests
        /\ MembersOf(call) = Resolved(call.body)
  BY <1>1, ReceivedTyped DEF Bodies, Searches, MembersOf
<1>4. ASSUME call.op = "batch", NEW j \in 1 .. Len(Resolved(Received(call)))
      PROVE  SameNames(Resolved(Received(call))[j], MembersOf(call)[j])
  BY <1>2, <1>3, <1>4, SameBatchResolved
<1>5. CASE stage # "idle"
  <2>1. /\ call.op = "batch" /\ request = Received(call)
        /\ Len(seen) \in Nat /\ Len(Resolved(request)) \in Nat
        /\ Len(seen) <= Len(Resolved(request))
    BY <1>5, LoopRequest, LoopMembers
  <2>2. MembersAsked = seen
    BY <1>5 DEF MembersAsked
  <2>3. seen[k] = Resolved(request)[k] /\ k \in 1 .. Len(Resolved(request))
    BY <2>1, <2>2 DEF BatchInv, SeenAsAsked
  <2> QED
    BY <1>4, <2>1, <2>2, <2>3
<1>6. CASE stage = "idle"
  <2>1. CASE handed = None
    <3>1. MembersAsked = <<>>
      BY <1>6, <2>1 DEF MembersAsked
    <3> QED
      BY <3>1
  <2>2. CASE handed # None
    <3>1. handed.request = Received(call)
      BY <2>2, HandedAsReceived
    <3>2. CASE call.op = "batch"
      <4>1. MembersAsked = Resolved(Received(call))
        BY <1>6, <2>2, <3>1, <3>2 DEF MembersAsked
      <4> QED
        BY <1>4, <3>2, <4>1
    <3>3. CASE call.op = "evaluate"
      <4>1. MembersAsked = <<Received(call)>> /\ MembersOf(call) = <<call.body>>
        BY <1>6, <2>2, <3>1, <3>3 DEF MembersAsked, MembersOf
      <4>2. k = 1
        BY <4>1
      <4> QED
        BY <1>2, <3>3, <4>1, <4>2
    <3> QED
      BY <3>2, <3>3
  <2> QED
    BY <2>1, <2>2
<1> QED
  BY <1>5, <1>6

(* A result with decisions: what was decided, or nothing that permits.      *)
LEMMA Delivered ==
    ASSUME CallInv, BatchInv, result # None, call.op \in {"evaluate", "batch"}
    PROVE  \/ result = Failed
           \/ verdict = [how |-> "nil", value |-> None] /\ result = ZeroValue(call.op)
           \/ /\ result.kind \in {"decision", "batch"}
              /\ SameVerdicts(DecisionsIn(result), DecisionsMade)
              /\ Len(DecisionsMade) <= Len(MembersAsked)
<1>1. Undecided \/ OwnDecision \/ OwnBatch \/ LoopBatch
  BY ResultForms
<1>2. CASE Undecided
  BY <1>2 DEF Undecided
<1>3. CASE OwnDecision
  BY <1>3, OwnDecisionDelivered DEF OwnDecision
<1>4. CASE OwnBatch
  BY <1>4, OwnBatchDelivered
<1>5. CASE LoopBatch
  BY <1>5, LoopBatchDelivered
<1> QED
  BY <1>1, <1>2, <1>3, <1>4, <1>5

(* Failures and zero values hold no permit.                                 *)
LEMMA NobodyDecided ==
    /\ Failed.kind = "error" /\ DecisionsIn(Failed) = <<>>
    /\ ZeroValue("batch").kind = "batch" /\ DecisionsIn(ZeroValue("batch")) = <<>>
    /\ ZeroValue("batch").value.list = None
    /\ ZeroValue("evaluate").kind = "decision" /\ ~ZeroValue("evaluate").value.decision
    /\ DecisionsIn(ZeroValue("evaluate")) = <<ZeroValue("evaluate").value>>
<1>1. Failed.kind = "error" /\ DecisionsIn(Failed) = <<>>
  BY DEF Failed, DecisionsIn
<1> DEFINE z == [single |-> None, list |-> None]
<1>2. ZeroValue("batch") = [kind |-> "batch", value |-> z] /\ z.single = None /\ z.list = None
  BY DEF ZeroValue, Searches
<1> HIDE DEF z
<1>3. ZeroValue("batch").kind = "batch" /\ ZeroValue("batch").value = z
  BY <1>2
<1>4. DecisionsIn(ZeroValue("batch")) = <<>>
  BY <1>2, <1>3 DEF DecisionsIn
<1> DEFINE y == [decision |-> FALSE, context |-> None, error |-> None]
<1>5. ZeroValue("evaluate") = [kind |-> "decision", value |-> y] /\ y.decision = FALSE
  BY DEF ZeroValue, Searches
<1> HIDE DEF y
<1>6. ZeroValue("evaluate").kind = "decision" /\ ZeroValue("evaluate").value = y
  BY <1>5
<1>7. DecisionsIn(ZeroValue("evaluate")) = <<ZeroValue("evaluate").value>>
  BY <1>6 DEF DecisionsIn
<1>8. ~ZeroValue("evaluate").value.decision
  BY <1>5, <1>6, Zenon
<1> QED
  BY <1>1, <1>2, <1>3, <1>4, <1>6, <1>7, <1>8

(* Only evaluations and batches are answered with decisions.                *)
LEMMA KindOfResult ==
    ASSUME CallInv, BatchInv, result # None, result # Failed
    PROVE  /\ call \in Calls /\ call.op \in Ops
           /\ result.kind \in {"decision", "batch"} => call.op \in {"evaluate", "batch"}
           /\ result.kind = "metadata" /\ call.binding = "http" =>
                    sameIssuer(Issuer, result.value.issuer)
<1>1. reply # None /\ result = Decoded(call, reply)
  BY DEF CallInv, Resulted
<1>2. call # None /\ (call.binding = "http" => HttpReply) /\ (call.binding = "grpc" => GrpcReply)
  BY <1>1 DEF CallInv, Replied
<1>3. call \in Calls /\ call.op \in Ops /\ call.binding \in {"http", "grpc"}
  BY <1>2, CallTyped
<1>4. CASE call.binding = "grpc"
  <2>1. result = GrpcDecoded(call.op, reply) /\ reply.statuses[1] = 0
    BY <1>1, <1>4 DEF Decoded, GrpcDecoded
  <2>2. result.kind = reply.body.kind
    BY <2>1 DEF GrpcDecoded
  <2>3. reply.body = ProtoBody(call.op, verdict.value)
    BY <1>2, <1>4, <2>1 DEF GrpcReply
  <2>4. ASSUME NEW v PROVE ProtoBody(call.op, v).kind \in {"decision", "batch"} => call.op \in {"evaluate", "batch"}
    BY <1>3 DEF ProtoBody, Ops, Searches
  <2> QED
    BY <1>3, <1>4, <2>2, <2>3, <2>4
<1>5. CASE call.binding = "http"
  <2>1. result = HttpDecoded(call.op, reply)
    BY <1>1, <1>5 DEF Decoded
  <2>2. reply.statuses[1] = 200
    BY <1>2, <1>5, <2>1 DEF HttpReply, HttpDecoded
  <2>3. HttpBody(reply.body)
    BY <1>2, <1>5, <2>2 DEF HttpReply
  <2>4. CASE reply.body = Nothing
    <3>1. reply.body.kind = "nothing"
      BY <2>4 DEF Nothing
    <3> QED
      BY <2>1, <2>2, <3>1, HttpDecodes
  <2>5. CASE reply.body.kind = "null"
    <3>1. result = ZeroValue(call.op)
      BY <2>1, <2>2, <2>5, HttpDecodes
    <3>2. /\ ZeroValue(call.op).kind \in {"decision", "batch"} => call.op \in {"evaluate", "batch"}
          /\ ZeroValue(call.op).kind # "metadata"
      BY <1>3 DEF ZeroValue, Failed, Ops, Searches
    <3> QED
      BY <1>3, <3>1, <3>2
  <2>6. CASE WasDecided /\ reply.body = JsonBody(call.op, verdict.value)
    <3>1. verdict # None
      BY <2>6 DEF WasDecided
    <3>2. call.op # "metadata"
      BY <1>5, <3>1 DEF CallInv, VerdictGiven, AskedAsReceived
    <3>3. CASE call.op \in Searches
      <4>1. reply.body = [kind |-> "search", value |-> JsonSearchResponse(verdict.value)]
        BY <2>6, <3>3, JsonBodyForms
      <4>2. reply.body.kind = "search"
        BY <4>1
      <4> QED
        BY <1>3, <2>1, <2>2, <3>2, <4>2, HttpDecodes
    <3>4. CASE call.op \in {"evaluate", "batch"}
      <4>1. reply.body.kind \in {"decision", "batch"}
        BY <2>6, <3>4, JsonBodyForms
      <4> QED
        BY <1>3, <2>1, <2>2, <3>2, <3>4, <4>1, HttpDecodes
    <3> QED
      BY <1>3, <3>2, <3>3, <3>4 DEF Ops
  <2>7. CASE stage = "returned" /\ reply.body = JsonBody("batch", [single |-> None, list |-> out])
    <3>1. reply.body.kind = "batch" /\ call.op = "batch"
      BY <2>7, JsonBodyForms, LoopRequest
    <3> QED
      BY <1>3, <2>1, <2>2, <3>1, HttpDecodes
  <2>8. ASSUME call.op = "metadata", NEW d, reply.body = [kind |-> "metadata", value |-> d]
        PROVE  result.kind = "metadata" /\ sameIssuer(Issuer, result.value.issuer)
    <3>1. reply.body.kind = "metadata"
      BY <2>8
    <3> QED
      BY <2>1, <2>2, <2>8, <3>1, HttpDecodes
  <2> QED
    BY <1>3, <2>3, <2>4, <2>5, <2>6, <2>7, <2>8 DEF HttpBody
<1> QED
  BY <1>3, <1>4, <1>5

LEMMA MembersCounted ==
    ASSUME CallInv, BatchInv, call # None, call.op \in {"evaluate", "batch"}
    PROVE  Len(MembersAsked) \in Nat
<1>1. CASE stage # "idle"
  BY <1>1, LoopMembers DEF MembersAsked
<1>2. CASE stage = "idle" /\ handed = None
  <2>1. MembersAsked = <<>>
    BY <1>2 DEF MembersAsked
  <2> QED
    BY <2>1
<1>3. CASE stage = "idle" /\ handed # None /\ call.op = "evaluate"
  <2>1. MembersAsked = <<handed.request>>
    BY <1>3 DEF MembersAsked
  <2> QED
    BY <2>1
<1>4. CASE stage = "idle" /\ handed # None /\ call.op = "batch"
  <2>1. handed.request \in EvaluationsRequests
    BY <1>4, HandedAsReceived DEF Bodies, Searches
  <2>2. Len(Resolved(handed.request)) \in Nat
    BY <2>1, ResolvedTyped
  <2>3. MembersAsked = Resolved(handed.request)
    BY <1>4 DEF MembersAsked
  <2> QED
    BY <2>2, <2>3
<1> QED
  BY <1>1, <1>2, <1>3, <1>4

(* The invariants of the call and of the loop, together.                    *)
LEMMA InvsHold == ServiceSpec => [](CallInv /\ BatchInv)
  BY CallInvHolds, ServiceRunsBatches, BatchInvHolds, PTL

(* Every permit a result holds was given, for what the PEP named.           *)
LEMMA PermitsTraced ==
    ASSUME CallInv, BatchInv
    PROVE  PermitsAreDecided
<1> SUFFICES ASSUME CallInv, BatchInv, result # None, call.op \in {"evaluate", "batch"},
                    NEW k \in 1 .. Len(DecisionsIn(result)), DecisionsIn(result)[k].decision
             PROVE  /\ k <= Len(DecisionsMade) /\ DecisionsMade[k].decision
                    /\ k <= Len(MembersAsked)
                    /\ \A f \in {"subject", "action", "resource"} :
                          Named(MembersAsked[k][f]) = Named(MembersOf(call)[k][f])
  BY DEF PermitsAreDecided
<1>0. DecisionsIn(result)[k].decision
  OBVIOUS
<1>1. call # None
  BY DEF CallInv, Phases
<1>2. ~ (result = Failed)
  <2>1. Len(<<>>) = 0
    OBVIOUS
  <2> QED
    BY <2>1, NobodyDecided
<1>3. ~ (result = ZeroValue(call.op))
  <2>1. Len(<<>>) = 0
    OBVIOUS
  <2>2. CASE result = ZeroValue(call.op) /\ call.op = "batch"
    BY <2>1, <2>2, NobodyDecided
  <2>3. CASE result = ZeroValue(call.op) /\ call.op = "evaluate"
    <3> DEFINE z == ZeroValue("evaluate").value
               s == <<z>>
    <3>1. Len(s) = 1
      OBVIOUS
    <3>2. s[1] = z
      OBVIOUS
    <3>3. DecisionsIn(result) = s
      BY <2>3, NobodyDecided
    <3>4. ~z.decision
      BY NobodyDecided
    <3> HIDE DEF z, s
    <3>5. k \in 1 .. Len(s)
      BY <3>3, Zenon
    <3>6. k = 1
      BY <3>1, <3>5
    <3>7. z.decision
      BY <1>0, <3>2, <3>3, <3>6, Zenon
    <3> QED
      BY <3>4, <3>7, Zenon
  <2> QED
    BY <2>2, <2>3
<1>4. SameVerdicts(DecisionsIn(result), DecisionsMade) /\ Len(DecisionsMade) <= Len(MembersAsked)
  BY <1>2, <1>3, Delivered
<1>5. k \in 1 .. Len(DecisionsMade) /\ Len(DecisionsMade) \in Nat
  BY <1>4 DEF SameVerdicts
<1>6. DecisionsMade[k].decision
  BY <1>4, <1>5, Zenon DEF SameVerdicts
<1>7. Len(MembersAsked) \in Nat
  BY <1>1, MembersCounted
<1>8. k \in 1 .. Len(MembersAsked)
  BY <1>4, <1>5, <1>7
<1>9. SameNames(MembersAsked[k], MembersOf(call)[k])
  BY <1>1, <1>8, MembersNamed
<1> QED
  BY <1>5, <1>6, <1>8, <1>9 DEF SameNames, EntityFields

(* A batch that returned holds a list, or a single decision.                *)
LEMMA ListRead ==
    ASSUME CallInv, BatchInv, result # None, call.op = "batch", result.kind # "error",
           result.value.list # None
    PROVE  /\ result.value.list \in Seq(EvaluationResponses)
           /\ DecisionsIn(result) = result.value.list
<1>1. OwnBatch \/ LoopBatch
  <2>1. result # Failed /\ ~ (result = ZeroValue(call.op))
    BY NobodyDecided
  <2> QED
    BY <2>1, ResultForms DEF Undecided, OwnDecision
<1>2. CASE OwnBatch
  <2>1. /\ verdict.value \in EvaluationsResponses
        /\ verdict.value.single # None => verdict.value.list \in {None, <<>>}
    BY <1>2, ValuesTyped DEF Ops, OwnBatch, WasDecided
  <2>2. PICK g \in {JsonBatchResponse(verdict.value), GrpcBatch(verdict.value)} :
            result = [kind |-> "batch", value |-> g]
    BY <1>2 DEF OwnBatch
  <2>3. g \in EvaluationsResponses
    BY <2>1, <2>2, BatchResponseCrosses DEF GrpcBatch
  <2>4. result.value = g
    BY <2>2
  <2>5. result.value.list \in Nullable(Seq(EvaluationResponses))
    BY <2>3, <2>4 DEF EvaluationsResponses
  <2> QED
    BY <1>2, <2>5, OwnBatchDelivered DEF Nullable
<1>3. CASE LoopBatch
  <2> DEFINE v == [single |-> None, list |-> out]
  <2>1. result.value = JsonBatchResponse(v)
    BY <1>3 DEF LoopBatch
  <2>2. out \in Seq(EvaluationResponses) /\ out # None
    BY CollectedTyped, NilAssumption
  <2>3. v.single = None /\ v.list = out
    OBVIOUS
  <2> HIDE DEF v
  <2>4. result.value.list = JsonList(out)
    BY <2>1, <2>2, <2>3 DEF JsonBatchResponse, JsonList
  <2>5. JsonList(out) \in Seq(EvaluationResponses)
    BY <2>2, ListCrosses DEF SameDecisions
  <2> QED
    BY <1>3, <2>4, <2>5, LoopBatchDelivered
<1> QED
  BY <1>1, <1>2, <1>3

(* A decision the client returned for one evaluation.                       *)
LEMMA DecisionRead ==
    ASSUME CallInv, BatchInv, result # None, call.op = "evaluate", result.kind # "error"
    PROVE  /\ DecisionsIn(result) = <<result.value>>
           /\ result.value.decision =>
                 verdict # None /\ verdict.how = "decided" /\ verdict.value.decision
<1>1. result # Failed
  BY NobodyDecided
<1>2. OwnDecision \/ result = ZeroValue("evaluate")
  BY <1>1, ResultForms DEF Undecided, OwnBatch, LoopBatch
<1>3. CASE result = ZeroValue("evaluate")
  <2>1. DecisionsIn(result) = <<result.value>>
    BY <1>3, NobodyDecided
  <2>2. ~result.value.decision
    BY <1>3, NobodyDecided, Zenon
  <2> QED
    BY <2>1, <2>2
<1>4. CASE OwnDecision
  <2>1. DecisionsIn(result) = <<result.value>> /\ verdict # None /\ verdict.how = "decided"
    BY <1>4, OwnDecisionDelivered
  <2>2. result.value.decision = verdict.value.decision
    BY <1>4 DEF OwnDecision
  <2> QED
    BY <2>1, <2>2
<1> QED
  BY <1>2, <1>3, <1>4

(***************************************************************************)
(* Theorems on whole calls.                                                 *)
(***************************************************************************)

(* The service keeps its types: every call, request, verdict and result is  *)
(* one of the Go types, and the phases of the two sides go together         *)
(* (server.go:454-524, client.go:515-551).                                  *)
THEOREM ServiceTypesHold == ServiceSpec => []ServiceTypeOK
<1>1. CallInv /\ BatchInv => ServiceTypeOK
  <2> SUFFICES ASSUME CallInv, BatchInv
               PROVE  ServiceTypeOK
    OBVIOUS
  <2>1. /\ call \in Calls \cup {None}
        /\ client \in {"idle", "waiting", "done"} /\ server \in {"idle", "pdp", "batch", "done"}
        /\ client = "done" <=> result # None
    BY DEF CallInv, Phases
  <2>2. stage \in {"idle", "loop"} \cup Outcomes
    BY DEF BatchInv, BatchTypes
  <2>3. handed # None => /\ handed \in HandedRequests /\ call # None
                         /\ server \in {"pdp", "done"}
    BY HandedAsReceived, ServiceAssumption
  <2>4. ASSUME verdict # None PROVE verdict \in Verdicts
    <3>1. handed # None /\ (verdict \in Unanswered \/ WasDecided)
      BY <2>4 DEF CallInv, VerdictGiven
    <3>2. call.op \in Ops
      BY <3>1, HandedAsReceived
    <3>3. CASE verdict \in Unanswered
      BY <3>3 DEF Unanswered, Verdicts, ResponseValues
    <3>4. CASE WasDecided
      BY <3>2, <3>4, VerdictTyped DEF WasDecided
    <3> QED
      BY <3>1, <3>3, <3>4
  <2>5. result # None => result \in Results
    BY DecodedTyped, FailedIsResult DEF CallInv, Resulted
  <2>6. stage # "idle" => call # None /\ server \in {"batch", "done"}
    BY DEF CallInv, LoopAsReceived
  <2> QED
    BY <2>1, <2>2, <2>3, <2>4, <2>5, <2>6 DEF ServiceTypeOK
<1> QED
  BY <1>1, InvsHold, PTL

(* Fail closed, from one end to the other: no PEP reads a permit that the   *)
(* PDP did not give for what that PEP named - over either binding, whatever *)
(* was lost, cancelled, refused by an encoder or panicked on the way        *)
(* (server.go:125-126, 454-524; client.go:515-551; conv.go).                *)
THEOREM PermitsWereDecided == ServiceSpec => []PermitsAreDecided
<1>1. CallInv /\ BatchInv => PermitsAreDecided
  BY PermitsTraced
<1> QED
  BY <1>1, InvsHold, PTL

(* No decision is lost, added or moved between the PDP and the PEP          *)
(* (evaluations.go:323-374; conv.go:402-441).                               *)
THEOREM DecisionsDelivered == ServiceSpec => []DecisionsArrive
<1>1. CallInv /\ BatchInv => DecisionsArrive
  <2> SUFFICES ASSUME CallInv, BatchInv, result # None, result.kind \in {"decision", "batch"},
                      verdict # [how |-> "nil", value |-> None]
               PROVE  /\ Len(DecisionsIn(result)) = Len(DecisionsMade)
                      /\ \A k \in 1 .. Len(DecisionsMade) :
                            DecisionsIn(result)[k].decision = DecisionsMade[k].decision
    BY DEF DecisionsArrive
  <2>1. result # Failed
    BY NobodyDecided
  <2>2. call.op \in {"evaluate", "batch"}
    BY <2>1, KindOfResult
  <2>3. SameVerdicts(DecisionsIn(result), DecisionsMade)
    BY <2>1, <2>2, Delivered
  <2> QED
    BY <2>3 DEF SameVerdicts
<1> QED
  BY <1>1, InvsHold, PTL

(* A PDP sees only requests that passed validation, batches within the      *)
(* configured size, and searches without the id searched for                *)
(* (server.go:58-61, 485-500, 536-541; grpc/server.go:121-156).             *)
THEOREM PdpSeesValidRequests == ServiceSpec => []OnlyValidRequestsReachPdp
<1>1. CallInv /\ BatchInv => OnlyValidRequestsReachPdp
  <2> SUFFICES ASSUME CallInv, BatchInv
               PROVE  OnlyValidRequestsReachPdp
    OBVIOUS
  <2>1. ASSUME NEW k \in 1 .. Len(seen) PROVE ValidEvaluation(seen[k]) /\ k <= MaxBatchSize
    <3>1. stage # "idle"
      BY <2>1 DEF BatchInv, BatchTypes
    <3>2. /\ request \in EvaluationsRequests /\ ValidBatch(request)
          /\ Len(request.evaluations) <= MaxBatchSize
      BY <3>1, LoopRequest
    <3>3. /\ Len(seen) \in Nat /\ Len(Resolved(request)) \in Nat
          /\ Len(seen) <= Len(Resolved(request))
      BY <3>1, LoopMembers
    <3>4. seen[k] = Resolved(request)[k] /\ k \in 1 .. Len(Resolved(request))
      BY <3>3 DEF BatchInv, SeenAsAsked
    <3>5. ValidEvaluation(seen[k])
      BY <3>2, <3>4 DEF ValidBatch
    <3>6. /\ Len(Resolved(request)) = IF Len(request.evaluations) = 0 THEN 1 ELSE Len(request.evaluations)
          /\ Len(request.evaluations) \in Nat
      BY <3>2, ResolvedTyped
    <3>7. MaxBatchSize \in Nat \ {0}
      BY ServiceAssumption
    <3> HIDE DEF Resolved
    <3>8. Len(Resolved(request)) <= MaxBatchSize
      BY <3>2, <3>6, <3>7
    <3> QED
      BY <3>3, <3>4, <3>5, <3>7, <3>8
  <2>2. handed # None =>
          /\ Valid(call.op, handed.request)
          /\ call.op = "subjects" => handed.request.subject.id = ""
          /\ call.op = "resources" => handed.request.resource.id = ""
          /\ call.op = "batch" /\ call.binding = "http" =>
                  Len(handed.request.evaluations) <= MaxBatchSize
    BY HandedAsReceived
  <2> QED
    BY <2>1, <2>2 DEF OnlyValidRequestsReachPdp
<1> QED
  BY <1>1, InvsHold, PTL

(* Every error a response carries was logged under the id it carries, and   *)
(* shows its detail only with verbose errors on (server.go:217-232,         *)
(* 408-434, 712-745).                                                       *)
THEOREM ErrorsAreLogged == ServiceSpec => []ErrorsTraceable
<1>1. CallInv /\ BatchInv => ErrorsTraceable
  <2> SUFFICES ASSUME CallInv, BatchInv, reply # None, call.binding = "http"
               PROVE  /\ reply.body.kind = "error" /\ reply.statuses[1] = 500 =>
                            Traceable(reply.body.value, log)
                      /\ stage # "idle" /\ reply.body.kind = "batch" =>
                            \A k \in 1 .. Len(reply.body.value.list) :
                               LET error == reply.body.value.list[k].error IN
                               error # None => Traceable(error, logged)
    BY DEF ErrorsTraceable
  <2>1. HttpReply
    BY DEF CallInv, Replied
  <2>2. reply.statuses[1] = 500 => Traceable(reply.body.value, log)
    BY <2>1 DEF HttpReply
  <2>3. ASSUME stage # "idle", reply.body.kind = "batch"
        PROVE  \A k \in 1 .. Len(reply.body.value.list) :
                  reply.body.value.list[k].error # None =>
                        Traceable(reply.body.value.list[k].error, logged)
    <3> DEFINE v == [single |-> None, list |-> out]
    <3>1. verdict = None /\ call.op = "batch"
      BY <2>3, LoopRequest
    <3>2. reply.statuses[1] = 200
      BY <2>1, <2>3 DEF HttpReply
    <3>3. HttpBody(reply.body)
      BY <2>1, <3>2 DEF HttpReply
    <3>4. reply.body = JsonBody("batch", v)
      BY <2>3, <3>1, <3>3 DEF HttpBody, WasDecided, Nothing
    <3>5. reply.body.value = JsonBatchResponse(v)
      BY <3>4, JsonBodyForms
    <3>6. out \in Seq(EvaluationResponses) /\ out # None
      BY CollectedTyped, NilAssumption
    <3>7. v.single = None /\ v.list = out
      OBVIOUS
    <3> HIDE DEF v
    <3>8. reply.body.value.list = JsonList(out)
      BY <3>5, <3>6, <3>7 DEF JsonBatchResponse, JsonList
    <3>9. Len(JsonList(out)) = Len(out) /\ DOMAIN out = 1 .. Len(out) /\ Len(out) \in Nat
      BY <3>6, ListCrosses, LenProperties DEF SameDecisions
    <3> SUFFICES ASSUME NEW k \in 1 .. Len(out), JsonList(out)[k].error # None
                 PROVE  Traceable(JsonList(out)[k].error, logged)
      BY <3>8, <3>9
    <3>10. JsonList(out)[k] = JsonDecision(out[k])
      BY <3>9 DEF JsonList
    <3>11. out[k] \in EvaluationResponses
      BY <3>6, ElementOfSeq
    <3>12. JsonList(out)[k].error = out[k].error
      BY <3>10, <3>11, DecisionCrosses
    <3>13. out[k].error.detail = VerboseErrors
      BY <3>12, CollectedTyped
    <3>14. /\ Len(answers) \in Nat /\ k \in 1 .. Len(answers)
      BY <2>3, <3>9, LoopMembers
    <3>15. answers[k] \in AnswerSet
      <4>1. answers \in Seq(AnswerSet)
        BY DEF BatchInv, BatchTypes
      <4> QED
        BY <3>14, <4>1, ElementOfSeq
    <3>16. IF answers[k].how = "error"
             THEN ~out[k].decision /\ out[k].error # None /\ out[k].error.id \in logged
             ELSE out[k] = answers[k].decision
      BY DEF BatchInv, FailuresAreDenies
    <3>17. answers[k].how = "error"
      <4>1. answers[k].how = "error" \/ answers[k].decision = None \/ answers[k].decision \in Decisions
        BY <3>15 DEF AnswerSet
      <4>2. \A d \in Decisions : d.error = None
        BY BatchAssumption
      <4>3. out[k] # None
        BY <3>11, NilAssumption
      <4> QED
        BY <3>12, <3>16, <4>1, <4>2, <4>3
    <3> QED
      BY <3>12, <3>13, <3>16, <3>17 DEF Traceable
  <2> QED
    BY <2>2, <2>3
<1> QED
  BY <1>1, InvsHold, PTL

(* Over either binding the PDP is asked for a page exactly when the PEP     *)
(* asked for one, of no more results (conv.go:115-123, 456-486).            *)
THEOREM PageLimitsCross == ServiceSpec => []PageLimitKeepsSign
<1>1. CallInv => PageLimitKeepsSign
  <2> SUFFICES ASSUME CallInv, handed # None, call.op \in Searches, call.pep # "raw",
                      call.body.page # None
               PROVE  LimitKept(call.body.page.limit, LimitOf(handed.request.page))
    BY DEF PageLimitKeepsSign, LimitKept, LimitOf
  <2>1. call \in Calls /\ handed.request.page = Received(call).page
    BY HandedAsReceived
  <2> QED
    BY <2>1, ReceivedLimits
<1> QED
  BY <1>1, CallInvHolds, PTL

(* A metadata document that names another PDP is not returned over HTTP     *)
(* (client.go:372-470).                                                     *)
THEOREM DocumentsNameTheIssuer == ServiceSpec => []MetadataNamesIssuer
<1>1. CallInv /\ BatchInv => MetadataNamesIssuer
  <2> SUFFICES ASSUME CallInv, BatchInv, result # None, result.kind = "metadata",
                      call.binding = "http"
               PROVE  SamePdp(Issuer, result.value.issuer)
    BY DEF MetadataNamesIssuer
  <2>1. result # Failed
    BY NobodyDecided
  <2>2. sameIssuer(Issuer, result.value.issuer)
    BY <2>1, KindOfResult
  <2> QED
    BY <2>2, SameIssuerSamePdp
<1> QED
  BY <1>1, InvsHold, PTL

(* The command line tool can be scripted: exit 0 of a gated evaluation and  *)
(* each line that says "allow" stand for a permit of the PDP                *)
(* (main.go:18-25, evaluate.go:84-110, evaluations.go:70-87).               *)
THEOREM ToolIsScriptable == ServiceSpec => []ToolTellsDecisions
<1>1. CallInv /\ BatchInv => ToolTellsDecisions
  <2> SUFFICES ASSUME CallInv, BatchInv
               PROVE  ToolTellsDecisions
    OBVIOUS
  <2>1. ToolTold
    BY DEF CallInv
  <2>2. ASSUME exit = 0, call.op = "evaluate", call.gate # 0, call.form # "help"
        PROVE  verdict # None /\ verdict.how = "decided" /\ verdict.value.decision
    <3>1. exit # None
      BY <2>2, NilAssumption
    <3>2. result # None /\ exit = Command(call, result).code
      BY <2>1, <2>2, <3>1 DEF ToolTold
    <3>3. Command(call, result) = runEvaluate(call, result)
      BY <2>2 DEF Command, Searches
    <3>4. result.kind # "error" /\ result.value.decision
      BY <2>2, <3>2, <3>3 DEF runEvaluate, Leaves
    <3> QED
      BY <2>2, <3>2, <3>4, DecisionRead
  <2>3. ASSUME printed # None, call.op \in {"evaluate", "batch"},
               NEW k \in 1 .. Len(printed), printed[k]
        PROVE  k <= Len(DecisionsMade) /\ DecisionsMade[k].decision
    <3>1. result # None /\ printed = Command(call, result).lines
      BY <2>1, <2>3 DEF ToolTold
    <3>2. k \in 1 .. Len(DecisionsIn(result)) /\ DecisionsIn(result)[k].decision
      <4>1. CASE call.op = "evaluate"
        <5> DEFINE s == <<result.value.decision>>
                   t == <<result.value>>
                   none == <<>>
        <5>1. Len(none) = 0
          OBVIOUS
        <5>2. Len(s) = 1 /\ Len(t) = 1
          OBVIOUS
        <5>3. s[1] = result.value.decision /\ t[1] = result.value
          OBVIOUS
        <5>4. printed = IF result.kind = "error" THEN none ELSE s
          <6> DEFINE x == IF result.value.decision THEN 0 ELSE call.gate
          <6>1. Command(call, result) = runEvaluate(call, result)
            BY <4>1 DEF Command, Searches
          <6>2. runEvaluate(call, result) =
                    IF result.kind = "error" THEN Leaves(1, none) ELSE Leaves(x, s)
            BY Zenon DEF runEvaluate
          <6> HIDE DEF x, s, none
          <6> QED
            BY <3>1, <6>1, <6>2 DEF Leaves
        <5>5. result.kind # "error" => DecisionsIn(result) = t
          BY <3>1, <4>1, DecisionRead
        <5> HIDE DEF s, t, none
        <5>6. result.kind # "error" /\ k = 1
          BY <2>3, <5>1, <5>2, <5>4
        <5>7. s[k]
          BY <2>3, <5>4, <5>6, Zenon
        <5>8. t[k].decision
          BY <5>3, <5>6, <5>7, Zenon
        <5> QED
          BY <5>2, <5>5, <5>6, <5>8
      <4>2. CASE call.op = "batch"
        <5> DEFINE list == result.value.list
                   lines == [j \in DOMAIN list |-> list[j].decision]
                   none == <<>>
        <5>1. Len(none) = 0
          OBVIOUS
        <5>2. printed = IF result.kind = "error" \/ list = None THEN none ELSE lines
          <6>1. Command(call, result) = runEvaluations(result)
            BY <4>2 DEF Command, Searches
          <6> QED
            BY <3>1, <6>1 DEF runEvaluations, Leaves
        <5>3. result.kind # "error" /\ list # None
          <6> HIDE DEF none, list, lines
          <6> QED
            BY <2>3, <5>1, <5>2
        <5>4. list \in Seq(EvaluationResponses) /\ DecisionsIn(result) = list
          BY <3>1, <4>2, <5>3, ListRead
        <5>5. printed = lines
          BY <5>2, <5>3, Zenon
        <5> HIDE DEF list
        <5>6. DOMAIN list = 1 .. Len(list) /\ Len(list) \in Nat
          BY <5>4, LenProperties
        <5>7. \A j \in 1 .. Len(list) : list[j].decision \in BOOLEAN
          <6>1. \A d \in EvaluationResponses : d.decision \in BOOLEAN
            BY DEF EvaluationResponses
          <6> QED
            BY <5>4, <6>1, ElementOfSeq
        <5>8. lines \in [1 .. Len(list) -> BOOLEAN]
          BY <5>6, <5>7
        <5>9. \A j \in 1 .. Len(list) : lines[j] = list[j].decision
          BY <5>6
        <5> HIDE DEF lines
        <5>10. Len(lines) = Len(list)
          BY <5>6, <5>8, Sliced
        <5>11. k \in 1 .. Len(list)
          BY <5>5, <5>10, Zenon
        <5>12. lines[k]
          BY <2>3, <5>5, Zenon
        <5>13. list[k].decision
          BY <5>9, <5>11, <5>12, Zenon
        <5> QED
          BY <5>4, <5>11, <5>13
      <4> QED
        BY <2>3, <4>1, <4>2
    <3> QED
      BY <2>3, <3>1, <3>2, PermitsTraced DEF PermitsAreDecided
  <2> QED
    BY <2>2, <2>3 DEF ToolTellsDecisions
<1> QED
  BY <1>1, InvsHold, PTL
=============================================================================
