------------------------------ MODULE AuthzenCore ------------------------------
(***************************************************************************)
(* The information model of the Authorization API and the pure functions    *)
(* on it: validation (evaluation.go, evaluations.go, search.go), the        *)
(* defaulting of batch members (EvaluationsRequest.Resolved) and what a     *)
(* value has become once it has crossed the JSON binding.                   *)
(*                                                                         *)
(* A map[string]any is one of Maps: the code only ever asks whether it is   *)
(* nil (None), empty, or holds something, and whether the encoder accepts   *)
(* what it holds.  "opaque" is a map encoding/json refuses (a channel, a    *)
(* NaN), "bomb" one whose MarshalJSON panics, "written" one that was        *)
(* written to after it was handed out.  A string is "" or a name.           *)
(***************************************************************************)
EXTENDS Integers, Sequences

CONSTANT None       \* a nil pointer, a nil map, an absent key

Maps == {"empty", "plain", "opaque", "bomb", "written"}

(* The keys of an evaluation request; the first three carry a properties    *)
(* map, the context is a map itself.                                        *)
Fields == {"subject", "action", "resource", "context"}

(***************************************************************************)
(* The Go types: what the fields of a request or a response hold, valid or  *)
(* not.  A pointer, a map or a slice may be nil, which is no value of its   *)
(* type.  (The provers do not know that a literal is in STRING: the empty   *)
(* string, the one that is written, is named.)                              *)
(***************************************************************************)
Strings == STRING \cup {""}

Nullable(S) == S \cup {None}

Entities == [type : Strings, id : Strings, props : Nullable(Maps)]

Actions == [name : Strings, props : Nullable(Maps)]

EvaluationRequests ==
    [subject : Nullable(Entities), action : Nullable(Actions),
     resource : Nullable(Entities), context : Nullable(Maps)]

EvaluationsRequests ==
    [subject : Nullable(Entities), action : Nullable(Actions),
     resource : Nullable(Entities), context : Nullable(Maps),
     evaluations : Seq(EvaluationRequests), options : Nullable(Strings)]

Pages == [limit : Int, token : Strings, props : Nullable(Maps)]

SearchRequests ==
    [subject : Nullable(Entities), action : Nullable(Actions),
     resource : Nullable(Entities), context : Nullable(Maps), page : Nullable(Pages)]

(* The error of a decision is the one its context carries: server.go's      *)
(* memberError, by correlation id.                                          *)
MemberErrors == [id : Nat, detail : BOOLEAN]

EvaluationResponses ==
    [decision : BOOLEAN, context : Nullable(Maps), error : Nullable(MemberErrors)]

EvaluationsResponses ==
    [single : Nullable(EvaluationResponses), list : Nullable(Seq(EvaluationResponses))]

PageResponses == [next : Strings, count : Int, props : Nullable(Maps)]

SearchResponses ==
    [results : Nullable(Seq(Entities) \cup Seq(Actions)), page : Nullable(PageResponses),
     context : Nullable(Maps)]

ASSUME NilAssumption ==
    /\ None \notin Strings /\ None \notin Int
    /\ None \notin Entities /\ None \notin Actions
    /\ None \notin Pages /\ None \notin PageResponses
    /\ None \notin MemberErrors /\ None \notin EvaluationResponses
    /\ None \notin Seq(EvaluationResponses) /\ None \notin EvaluationsResponses
    /\ None \notin Seq(Entities) /\ None \notin Seq(Actions)

(***************************************************************************)
(* Validation.                                                              *)
(***************************************************************************)
ValidSubject(s) == s # None /\ s.type # "" /\ s.id # ""

ValidResource(r) == r # None /\ r.type # "" /\ r.id # ""

ValidAction(a) == a # None /\ a.name # ""

ValidEvaluation(e) ==
    ValidSubject(e.subject) /\ ValidAction(e.action) /\ ValidResource(e.resource)

(* The searched entity carries a type only, and an action search no action. *)
ValidSubjectSearch(r) ==
    /\ r.subject # None /\ r.subject.type # ""
    /\ ValidAction(r.action) /\ ValidResource(r.resource)

ValidResourceSearch(r) ==
    /\ ValidSubject(r.subject) /\ ValidAction(r.action)
    /\ r.resource # None /\ r.resource.type # ""

ValidActionSearch(r) == ValidSubject(r.subject) /\ ValidResource(r.resource)

(***************************************************************************)
(* A batch: [subject, action, resource, context, evaluations, options].     *)
(* options is None or the evaluations_semantic string ("" when unset).      *)
(***************************************************************************)
Semantics == {"execute_all", "deny_on_first_deny", "permit_on_first_permit"}

SemanticOf(r) ==
    IF r.options \in {None, ""} THEN "execute_all" ELSE r.options

(* The fully specified members: a member's own value, else the default; one *)
(* member made of the defaults when there is none.                          *)
Resolved(r) ==
    IF r.evaluations = <<>>
    THEN <<[f \in Fields |-> r[f]]>>
    ELSE [k \in 1 .. Len(r.evaluations) |->
            [f \in Fields |-> IF r.evaluations[k][f] # None
                              THEN r.evaluations[k][f] ELSE r[f]]]

ValidBatch(r) ==
    /\ r.options \in {None, ""} \cup Semantics
    /\ \A k \in 1 .. Len(Resolved(r)) : ValidEvaluation(Resolved(r)[k])

(* The evaluation at which a short-circuit semantic stops.                  *)
Stops(semantic, decision) ==
    \/ semantic = "deny_on_first_deny" /\ ~decision
    \/ semantic = "permit_on_first_permit" /\ decision

(***************************************************************************)
(* The JSON binding: encoding/json driven by the struct tags and by the     *)
(* MarshalJSON / UnmarshalJSON methods.                                     *)
(***************************************************************************)
JsonMap(m) == IF m = "empty" THEN None ELSE m                \* omitempty

JsonEntity(e) == IF e = None THEN None ELSE [e EXCEPT !.props = JsonMap(@)]

JsonEvaluation(e) ==
    [f \in Fields |-> IF f = "context" THEN JsonMap(e[f]) ELSE JsonEntity(e[f])]

JsonBatch(r) ==
    [subject |-> JsonEntity(r.subject), action |-> JsonEntity(r.action),
     resource |-> JsonEntity(r.resource), context |-> JsonMap(r.context),
     evaluations |-> [k \in DOMAIN r.evaluations |-> JsonEvaluation(r.evaluations[k])],
     options |-> r.options]

JsonPage(p) == IF p = None THEN None ELSE [p EXCEPT !.props = JsonMap(@)]

JsonSearch(r) ==
    [subject |-> JsonEntity(r.subject), action |-> JsonEntity(r.action),
     resource |-> JsonEntity(r.resource), context |-> JsonMap(r.context),
     page |-> JsonPage(r.page)]

(* Options.UnmarshalJSON: a semantic that is not a string is refused, an    *)
(* unknown string is left to Validate.                                      *)
JsonOptionsDecode(o) == o # "number"

JsonDecision(d) == [d EXCEPT !.context = JsonMap(@)]

(* A batch response [single, list]: the single shape wins on the way out,   *)
(* the evaluations array wins on the way in, and nil is an empty array.     *)
JsonBatchResponse(r) ==
    IF r.single # None
    THEN [single |-> JsonDecision(r.single), list |-> None]
    ELSE [single |-> None,
          list |-> IF r.list = None THEN <<>>
                   ELSE [k \in DOMAIN r.list |-> JsonDecision(r.list[k])]]

(* A search response [results, page, context]: nil results are an empty     *)
(* array.                                                                   *)
JsonSearchResponse(r) ==
    [results |-> IF r.results = None THEN <<>>
                 ELSE [k \in DOMAIN r.results |-> JsonEntity(r.results[k])],
     page |-> JsonPage(r.page), context |-> JsonMap(r.context)]

(***************************************************************************)
(* What the encoder makes of a value: it refuses an opaque map, and a bomb  *)
(* panics inside it.                                                        *)
(***************************************************************************)
PropsOf(e) == IF e = None THEN {} ELSE {e.props}

MapsOf(r) ==
    {r.context} \cup PropsOf(r.subject) \cup PropsOf(r.action) \cup PropsOf(r.resource)

MapsOfBatch(r) ==
    MapsOf(r) \cup UNION {MapsOf(r.evaluations[k]) : k \in DOMAIN r.evaluations}

MapsOfSearch(r) == MapsOf(r) \cup PropsOf(r.page)

(* A response of any kind, as the maps in it.                               *)
MapsOfBatchResponse(r) ==
    (IF r.single = None THEN {} ELSE {r.single.context})
        \cup (IF r.list = None THEN {} ELSE {r.list[k].context : k \in DOMAIN r.list})

MapsOfSearchResponse(r) ==
    {r.context} \cup PropsOf(r.page)
        \cup (IF r.results = None THEN {} ELSE {r.results[k].props : k \in DOMAIN r.results})
=============================================================================
