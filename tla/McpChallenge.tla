------------------------------ MODULE McpChallenge ------------------------------
(***************************************************************************)
(* The WWW-Authenticate challenge of package mcp: rendering and parsing the *)
(* header (challenge.go), and handing a challenge from the PDP to the PEP   *)
(* in the context of a deny.                                                *)
(*                                                                         *)
(* A string is a sequence of characters, of which only the special ones are *)
(* told apart: "quote", "backslash", "comma", "space", "equals", "control"  *)
(* (one that is not white space).  Any other element is a word: a key, a    *)
(* scheme, or text.  Lower-casing a key is left out: keys are lower case.   *)
(***************************************************************************)
EXTENDS Integers, SequencesExt

CONSTANT Absent     \* a JSON object that is not there

(* What a header's parameters are called.                                   *)
Keys == {"realm", "error", "error_description", "scope", "resource_metadata"}

(* (The provers do not know that a literal is in STRING.)                   *)
Characters ==
    STRING \cup Keys \cup {"quote", "backslash", "comma", "space", "equals", "control"}
        \cup {"Bearer", "insufficient_scope", "invalid_token"}

Texts == Seq(Characters)

AnyChallenge ==
    [scheme : Texts, error : Texts, description : Texts, scope : Texts, metadata : Texts,
     realm : Texts, status : Int]

(* Challenge.status is an int; 0 is unset.                                  *)
NoChallenge ==
    [scheme |-> <<>>, error |-> <<>>, description |-> <<>>, scope |-> <<>>,
     metadata |-> <<>>, realm |-> <<>>, status |-> 0]

InsufficientScope(scope, metadata) ==
    [NoChallenge EXCEPT !.scheme = <<"Bearer">>, !.error = <<"insufficient_scope">>,
                        !.scope = scope, !.metadata = metadata, !.status = 403]

Unauthorized(metadata) ==
    [NoChallenge EXCEPT !.scheme = <<"Bearer">>, !.metadata = metadata, !.status = 401]

(***************************************************************************)
(* Rendering.                                                               *)
(***************************************************************************)
(* The elements of s that are not in S, in their order.                     *)
Dropped(s, S) == FlattenSeq([i \in DOMAIN s |-> IF s[i] \in S THEN <<>> ELSE <<s[i]>>])

stripControl(s) == Dropped(s, {"control"})

sanitizeScheme(s) == Dropped(s, {"control", "space"})

Escaped(ch) == IF ch \in {"quote", "backslash"} THEN <<"backslash", ch>> ELSE <<ch>>

(* Mutant of quoteString: only the quotes are escaped.                      *)
quoteStringQuotes(s) ==
    LET Escape(ch) == IF ch = "quote" THEN <<"backslash", ch>> ELSE <<ch>>
        t == stripControl(s)
    IN <<"quote">> \o FlattenSeq([i \in DOMAIN t |-> Escape(t[i])]) \o <<"quote">>

quoteString(s) ==
    LET t == stripControl(s)
    IN <<"quote">> \o FlattenSeq([i \in DOMAIN t |-> Escaped(t[i])]) \o <<"quote">>

(* A parameter that has something to show.                                  *)
Added(key, val) == IF stripControl(val) = <<>> THEN <<>> ELSE << <<key, val>> >>

Parameters(c) ==
    Added("realm", c.realm) \o Added("error", c.error)
        \o Added("error_description", c.description) \o Added("scope", c.scope)
        \o Added("resource_metadata", c.metadata)

(* Challenge.String.                                                        *)
Rendered(c) ==
    LET scheme == sanitizeScheme(c.scheme)
        set == Parameters(c)
        Shown(i) == (IF i = 1 THEN <<"space">> ELSE <<"comma", "space">>)
                        \o <<set[i][1], "equals">> \o quoteString(set[i][2])
    IN (IF scheme = <<>> THEN <<"Bearer">> ELSE scheme)
            \o FlattenSeq([i \in DOMAIN set |-> Shown(i)])

(***************************************************************************)
(* Parsing.                                                                 *)
(***************************************************************************)
(* The first position from i on whose character is in C, or one past s.     *)
FirstIn(s, i, C) == Min({j \in i .. Len(s) : s[j] \in C} \cup {Len(s) + 1})

FirstNotIn(s, i, C) == Min({j \in i .. Len(s) : s[j] \notin C} \cup {Len(s) + 1})

TrimSpace(s) ==
    LET inner == {j \in DOMAIN s : s[j] # "space"}
    IN IF inner = {} THEN <<>> ELSE SubSeq(s, Min(inner), Max(inner))

(* The quoted-string that opens before position i: its value, and where the *)
(* scan goes on.  A backslash takes the next character as it is; the last   *)
(* character of s escapes nothing.                                          *)
Unquoted(s, i) ==
    LET Then(ch, rest) == [value |-> <<ch>> \o rest.value, next |-> rest.next]
        scan[j \in 1 .. Len(s) + 1] ==
            IF j > Len(s) THEN [value |-> <<>>, next |-> j]
            ELSE IF s[j] = "backslash" /\ j < Len(s) THEN Then(s[j + 1], scan[j + 2])
            ELSE IF s[j] = "quote" THEN [value |-> <<>>, next |-> j + 1]
            ELSE Then(s[j], scan[j + 1])
    IN scan[i]

(* The value of a parameter whose "=" is at position eq.                    *)
ValueAfter(s, eq) ==
    IF eq < Len(s) /\ s[eq + 1] = "quote" THEN Unquoted(s, eq + 2)
    ELSE LET stop == FirstIn(s, eq + 1, {"comma"})
         IN [value |-> TrimSpace(SubSeq(s, eq + 1, stop - 1)), next |-> stop]

(* The parameters that follow, with one before them: a later key wins.      *)
Param(key, val, later) ==
    IF key = <<>> THEN later
    ELSE [k \in DOMAIN later \cup {key} |-> IF k \in DOMAIN later THEN later[k] ELSE val]

(* parseAuthParams: keys to values.                                         *)
ParamsFrom(s) ==
    LET from[i \in 1 .. Len(s) + 1] ==
        LET start == FirstNotIn(s, i, {"space", "comma"})
            eq == FirstIn(s, start, {"equals"})
            val == ValueAfter(s, eq)
        IN IF eq > Len(s) THEN [k \in {} |-> <<>>]
           ELSE Param(TrimSpace(SubSeq(s, start, eq - 1)), val.value, from[val.next])
    IN from[1]

Lookup(params, key) == IF <<key>> \in DOMAIN params THEN params[<<key>>] ELSE <<>>

(* ParseChallenge of a header that is not empty.                            *)
Parsed(header) ==
    LET s == TrimSpace(header)
        sp == FirstIn(s, 1, {"space"})
        params == ParamsFrom(SubSeq(s, sp + 1, Len(s)))
    IN [scheme |-> SubSeq(s, 1, sp - 1), error |-> Lookup(params, "error"),
        description |-> Lookup(params, "error_description"), scope |-> Lookup(params, "scope"),
        metadata |-> Lookup(params, "resource_metadata"), realm |-> Lookup(params, "realm"),
        status |-> 0]

(***************************************************************************)
(* The "mcp" object of a deny's context: [auth, error, status].  auth, the  *)
(* www_authenticate object, is Absent or [header, scope, metadata, realm];  *)
(* a string field that is missing, no string, or empty is <<>>; a status is *)
(* [type, n], of which the code reads ints and JSON's floats.               *)
(***************************************************************************)
DenyContext(c) ==
    [auth |-> [header |-> Rendered(c), scope |-> c.scope, metadata |-> c.metadata,
               realm |-> c.realm],
     error |-> c.error,
     status |-> [type |-> IF c.status = 0 THEN "absent" ELSE "int", n |-> c.status]]

(* The context once it has crossed the JSON or the gRPC binding.            *)
OverTheWire(m) ==
    [m EXCEPT !.status.type = IF m.status.type = "int" THEN "float64" ELSE m.status.type]

Or(s, otherwise) == IF s # <<>> THEN s ELSE otherwise

IntField(v) == v.type \in {"int", "int64", "float64"}

(* ChallengeFromDenyContext: the header first, then what is structured.     *)
ChallengeFromDenyContext(m) ==
    LET w == m.auth
        header == IF w = Absent \/ TrimSpace(w.header) = <<>> THEN NoChallenge ELSE Parsed(w.header)
        fields == IF w = Absent THEN header
                  ELSE [header EXCEPT !.scope = Or(w.scope, @), !.metadata = Or(w.metadata, @),
                                      !.realm = Or(w.realm, @)]
    IN [fields EXCEPT !.error = Or(m.error, @),
                      !.status = IF IntField(m.status) THEN m.status.n ELSE @]

(* and its ok: whether it found anything.                                   *)
CarriesChallenge(m) ==
    m # Absent /\ (m.auth # Absent \/ m.error # <<>> \/ IntField(m.status))
=============================================================================
