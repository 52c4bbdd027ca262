---------------------------- MODULE GrpcConversion ----------------------------
(***************************************************************************)
(* The gRPC binding's conversions between the core types and the messages   *)
(* of authzen.v1 (grpc/conv.go).  A message is a record like the core type  *)
(* it stands for, with a google.protobuf.Struct [fields] or None in the     *)
(* place of each map.                                                       *)
(*                                                                         *)
(* A conversion to a message fails when a map holds a value that cannot be  *)
(* normalised to JSON; Normalizable says when it does not, and the ...      *)
(* ToProto operators are what it returns then.                              *)
(***************************************************************************)
EXTENDS AuthzenCore

CONSTANT MaxInt32       \* 2^31 - 1 in the code; any positive bound shows the clamp

ASSUME Int32Assumption == MaxInt32 \in Nat \ {0}

(* The messages an entity, an action and a page become; nil is none.        *)
Structs == [fields : Maps]

ProtoEntities == [type : Strings, id : Strings, props : Nullable(Structs)]

ProtoActions == [name : Strings, props : Nullable(Structs)]

ProtoPageResponses == [next : Strings, count : Int, props : Nullable(Structs)]

ASSUME NilMessageAssumption ==
    /\ None \notin Structs /\ None \notin ProtoEntities /\ None \notin ProtoActions
    /\ None \notin ProtoPageResponses

(* Two's complement truncation, as int32(n) does it.                        *)
Truncated(n) == ((n + MaxInt32 + 1) % (2 * MaxInt32 + 2)) - MaxInt32 - 1

(* Mutant of clampInt32: a plain conversion.                                *)
convertInt32(n) == Truncated(n)

clampInt32(n) ==
    IF n > MaxInt32 THEN MaxInt32
    ELSE IF n < -MaxInt32 - 1 THEN -MaxInt32 - 1 ELSE n

Normalizable(maps) == "opaque" \notin maps

(* An empty map, like a nil one, is an absent Struct.                       *)
mapToStruct(m) == IF m \in {None, "empty"} THEN None ELSE [fields |-> m]

structToMap(s) == IF s = None THEN None ELSE s.fields

(***************************************************************************)
(* Entities.                                                                *)
(***************************************************************************)
subjectToProto(s) == IF s = None THEN None ELSE [s EXCEPT !.props = mapToStruct(@)]

subjectFromProto(s) == IF s = None THEN None ELSE [s EXCEPT !.props = structToMap(@)]

resourceToProto(r) == subjectToProto(r)

resourceFromProto(r) == subjectFromProto(r)

actionToProto(a) == IF a = None THEN None ELSE [a EXCEPT !.props = mapToStruct(@)]

actionFromProto(a) == IF a = None THEN None ELSE [a EXCEPT !.props = structToMap(@)]

(***************************************************************************)
(* Evaluation and batch.                                                    *)
(***************************************************************************)
evaluationRequestToProto(r) ==
    [subject |-> subjectToProto(r.subject), action |-> actionToProto(r.action),
     resource |-> resourceToProto(r.resource), context |-> mapToStruct(r.context)]

evaluationRequestFromProto(r) ==
    [subject |-> subjectFromProto(r.subject), action |-> actionFromProto(r.action),
     resource |-> resourceFromProto(r.resource), context |-> structToMap(r.context)]

evaluationResponseToProto(d) == [d EXCEPT !.context = mapToStruct(@)]

evaluationResponseFromProto(d) == [d EXCEPT !.context = structToMap(@)]

semanticToProto(s) == IF s \in Semantics THEN s ELSE "UNSPECIFIED"

semanticFromProto(e) == IF e = "UNSPECIFIED" THEN "" ELSE e

optionsToProto(o) == IF o = None THEN None ELSE semanticToProto(o)

optionsFromProto(o) == IF o = None THEN None ELSE semanticFromProto(o)

evaluationsRequestToProto(r) ==
    [subject |-> subjectToProto(r.subject), action |-> actionToProto(r.action),
     resource |-> resourceToProto(r.resource), context |-> mapToStruct(r.context),
     evaluations |-> [k \in DOMAIN r.evaluations |->
                        evaluationRequestToProto(r.evaluations[k])],
     options |-> optionsToProto(r.options)]

evaluationsRequestFromProto(r) ==
    [subject |-> subjectFromProto(r.subject), action |-> actionFromProto(r.action),
     resource |-> resourceFromProto(r.resource), context |-> structToMap(r.context),
     evaluations |-> [k \in DOMAIN r.evaluations |->
                        evaluationRequestFromProto(r.evaluations[k])],
     options |-> optionsFromProto(r.options)]

(* Mutant of evaluationsResponseToProto: the single decision is forgotten.  *)
evaluationsListToProto(r) ==
    IF r.list = None THEN <<>>
    ELSE [k \in DOMAIN r.list |-> evaluationResponseToProto(r.list[k])]

(* The message has no single-decision shape: one becomes a list of one.     *)
evaluationsResponseToProto(r) ==
    IF r.single # None /\ r.list \in {None, <<>>}
    THEN <<evaluationResponseToProto(r.single)>>
    ELSE IF r.list = None THEN <<>>
    ELSE [k \in DOMAIN r.list |-> evaluationResponseToProto(r.list[k])]

evaluationsResponseFromProto(m) ==
    [single |-> None, list |-> [k \in DOMAIN m |-> evaluationResponseFromProto(m[k])]]

(***************************************************************************)
(* Searches.  A page request is three fields of the message, not a message: *)
(* all of them zero means no page.                                          *)
(***************************************************************************)
pageToProto(p) ==
    IF p = None THEN [size |-> 0, token |-> "", props |-> None]
    ELSE [size |-> clampInt32(p.limit), token |-> p.token, props |-> mapToStruct(p.props)]

pageFromProto(m) ==
    IF m = [size |-> 0, token |-> "", props |-> None] THEN None
    ELSE [limit |-> m.size, token |-> m.token, props |-> structToMap(m.props)]

pageResponseToProto(p) ==
    IF p = None THEN None
    ELSE [next |-> p.next, count |-> clampInt32(p.count), props |-> mapToStruct(p.props)]

pageResponseFromProto(p) ==
    IF p = None THEN None ELSE [p EXCEPT !.props = structToMap(@)]

subjectSearchRequestToProto(r) ==
    [subject |-> subjectToProto(r.subject), action |-> actionToProto(r.action),
     resource |-> resourceToProto(r.resource), context |-> mapToStruct(r.context),
     page |-> pageToProto(r.page)]

subjectSearchRequestFromProto(r) ==
    [subject |-> subjectFromProto(r.subject), action |-> actionFromProto(r.action),
     resource |-> resourceFromProto(r.resource), context |-> structToMap(r.context),
     page |-> pageFromProto(r.page)]

resourceSearchRequestToProto(r) == subjectSearchRequestToProto(r)

resourceSearchRequestFromProto(r) == subjectSearchRequestFromProto(r)

actionSearchRequestToProto(r) == [subjectSearchRequestToProto(r) EXCEPT !.action = None]

actionSearchRequestFromProto(r) == [subjectSearchRequestFromProto(r) EXCEPT !.action = None]

(* A response [results, page, context]; nil results become an empty list.   *)
Listed(results) == IF results = None THEN <<>> ELSE results

subjectSearchResponseToProto(r) ==
    [results |-> [k \in DOMAIN Listed(r.results) |-> subjectToProto(Listed(r.results)[k])],
     page |-> pageResponseToProto(r.page), context |-> mapToStruct(r.context)]

subjectSearchResponseFromProto(m) ==
    [results |-> [k \in DOMAIN Listed(m.results) |-> subjectFromProto(Listed(m.results)[k])],
     page |-> pageResponseFromProto(m.page), context |-> structToMap(m.context)]

resourceSearchResponseToProto(r) ==
    [results |-> [k \in DOMAIN Listed(r.results) |-> resourceToProto(Listed(r.results)[k])],
     page |-> pageResponseToProto(r.page), context |-> mapToStruct(r.context)]

resourceSearchResponseFromProto(m) ==
    [results |-> [k \in DOMAIN Listed(m.results) |-> resourceFromProto(Listed(m.results)[k])],
     page |-> pageResponseFromProto(m.page), context |-> structToMap(m.context)]

actionSearchResponseToProto(r) ==
    [results |-> [k \in DOMAIN Listed(r.results) |-> actionToProto(Listed(r.results)[k])],
     page |-> pageResponseToProto(r.page), context |-> mapToStruct(r.context)]

actionSearchResponseFromProto(m) ==
    [results |-> [k \in DOMAIN Listed(m.results) |-> actionFromProto(Listed(m.results)[k])],
     page |-> pageResponseFromProto(m.page), context |-> structToMap(m.context)]

(***************************************************************************)
(* Metadata: a document is the issuer it names, policy_decision_point.      *)
(***************************************************************************)
metadataToProto(m) == [policy_decision_point |-> m.issuer]

metadataFromProto(c) == [issuer |-> c.policy_decision_point]
=============================================================================
