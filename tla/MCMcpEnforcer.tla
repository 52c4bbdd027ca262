----------------------------- MODULE MCMcpEnforcer -----------------------------
(***************************************************************************)
(* A small instance of McpEnforcer.                                         *)
(***************************************************************************)
EXTENDS McpEnforcer

Token(subject, client, actor) ==
    [subject |-> subject, client |-> client, actor |-> actor, scopes |-> "s", audience |-> ""]

MCTokens ==
    {Token("ann", "", ""), Token("ann", "app", ""), Token("", "app", ""), Token("", "", ""),
     Token("ann", "", "bot"), Token("bob", "", "bot"), Token("", "app", "bot"),
     Token("app", "", "")}

Call(method, tool, uri, prompt, server, token, context) ==
    [method |-> method, tool |-> tool, uri |-> uri, prompt |-> prompt, server |-> server,
     token |-> token, context |-> context]

MCRequests ==
    {Call("tools/call", "x", "y", "", "srv", t, {"mcp", "trace"}) : t \in MCTokens}
    \cup {Call(m, tool, "x", prompt, server, Token("ann", "", ""), {}) :
        m \in {"tools/call", "resources/read", "prompts/get"},
        tool \in {"", "x"}, prompt \in {"", "x"}, server \in {"", "srv"}}
    \cup {Call(m, "", "", "", server, Token("ann", "", ""), {}) :
        m \in {"tools/list", "resources/read", "prompts/list", "ping"}, server \in {"", "x"}}
    \cup {Call(m, tool, tool, tool, "srv", t, {}) :
        m \in {"tools/call", "tools/list", "resources/read", "prompts/get", "ping"}, tool \in {"", "x"},
        t \in {Token("", "", ""), Token("", "app", "bot")}}

(* Values with every special character, in the places they bite.            *)
MCTexts ==
    {<<>>, <<"text">>, <<"control">>, <<"a", "quote", "comma", "space", "scope", "equals">>,
     <<"backslash">>, <<"a", "backslash", "quote">>, <<"quote", "backslash", "control">>,
     <<"space", "a">>}

Filled(scheme, error, description, scope, metadata, realm, status) ==
    [scheme |-> scheme, error |-> error, description |-> description, scope |-> scope,
     metadata |-> metadata, realm |-> realm, status |-> status]

MCChallenges ==
    {Filled(<<"Bearer">>, <<"insufficient_scope">>, d, s, <<>>, <<>>, 403) :
        d \in MCTexts, s \in MCTexts}
    \cup {Filled(scheme, <<"a", "quote">>, <<>>, <<"b">>, m, r, 401) :
        scheme \in {<<>>, <<"DPoP", "space">>, <<"control">>}, m \in {<<"url">>, <<"control">>},
        r \in {<<>>, <<"space", "a">>}}
    \cup {Filled(<<>>, <<>>, <<>>, <<>>, <<>>, <<>>, n) : n \in {-1, 0, 200, 302, 399, 400, 599, 600}}

Status(type, n) == [type |-> type, n |-> n]

MCOtherContexts ==
    {Absent}
    \cup {[auth |-> Absent, error |-> e, status |-> s] :
            e \in {<<>>, <<"invalid_token">>},
            s \in {Status("absent", 0), Status("int64", 429), Status("json.Number", 503)}}
    \cup {[auth |-> [header |-> h, scope |-> <<>>, metadata |-> <<>>, realm |-> <<>>],
           error |-> <<>>, status |-> Status("absent", 0)] :
            h \in {<<>>, <<"space">>, <<"Bearer">>, <<"Bearer", "space", "scope">>,
                   <<"Bearer", "space", "scope", "equals", "a", "space", "comma", "realm", "equals">>,
                   <<"Bearer", "space", "scope", "equals", "quote", "a", "backslash">>,
                   <<"space", "scope", "equals", "quote", "a", "quote", "b", "comma", "error", "equals", "c">>}}

MCScope == <<"mcp">>
MCResourceMetadata == <<"prm">>
MCRealm == <<>>
=============================================================================
