-------------------------------- MODULE Router --------------------------------
(***************************************************************************)
(* restful_router: init_plugin() declares routes and the handlers of their *)
(* methods, in any order and from several places; afterwards requests are  *)
(* matched against the table, and the session of the first route that      *)
(* matches is made from what the URL captured and from the query string.   *)
(*                                                                         *)
(* A text is a sequence of short strings.  "/", "?", "&", "=", "+" and "%" *)
(* are the characters they show, "{id}" and "{no}" are captures, any other *)
(* string of two characters or more is a name and of one a character.      *)
(***************************************************************************)
EXTENDS Integers, Sequences, SequencesExt, FiniteSetsExt, TLC

CONSTANTS
    base_url,          \* what restful_router was constructed with
    Declarations,      \* [route, method, handler]: create_route(route)->add_method_handler(...)
    Requests,          \* [url, method, queries]: queries is what the peer encoded
    MaxDeclarations

CaptureNames == {"{id}", "{no}"}

ASSUME RouterAssumption ==
    /\ MaxDeclarations \in Nat /\ base_url \in Seq(STRING)
    /\ \A d \in Declarations : d.route \in Seq(STRING)
    /\ \A r \in Requests : r.url \in Seq(STRING)

VARIABLES
    m_routes,   \* the table: [parts, methods, all_methods]
    serving,    \* init_plugin() has returned
    request,    \* the last request
    answer,     \* what create_handler() made of it
    log         \* what was declared, in order
vars == <<m_routes, serving, request, answer, log>>

-----------------------------------------------------------------------------
(* utils.h *)

\* The pieces, empty ones dropped, when the separator splits count times: each
\* starts where the one before was cut off, and ends before the next cut.
Split(str, ch, count) ==
    LET found == {i \in DOMAIN str : str[i] = ch}
        cuts == {i \in found : Cardinality({j \in found : j <= i}) <= count}
        starts == {i \in DOMAIN str \ cuts : i = 1 \/ i - 1 \in cuts}
        nth(k) == CHOOSE i \in starts : Cardinality({j \in starts : j <= i}) = k
        end(i) == Max({j \in i .. Len(str) : (i .. j) \cap cuts = {}})
    IN  [k \in 1 .. Cardinality(starts) |-> SubSeq(str, nth(k), end(nth(k)))]

\* Mutant: once too often.
splitMore(str, ch, count) == Split(str, ch, count + 1)

\* At most count times.
split(str, ch, count) == Split(str, ch, count)
splitAll(str, ch) == split(str, ch, Len(str))

\* Characters, and the byte each of them is.
Code == ("4" :> 52) @@ ("1" :> 49) @@ ("B" :> 66) @@ ("g" :> 103) @@ ("k" :> 107) @@ ("v" :> 118)
        @@ ("=" :> 61) @@ ("&" :> 38) @@ ("+" :> 43) @@ ("%" :> 37) @@ ("2" :> 50) @@ ("5" :> 53)
HexValue == ("4" :> 4) @@ ("1" :> 1) @@ ("B" :> 11) @@ ("2" :> 2) @@ ("5" :> 5)
Space == 32

\* One character at a time: an escape collects its two digits, and from_hex
\* throws for what is not one.
Unescape(in) ==
    LET step(t, c) ==
            CASE t.escape # <<>> ->
                    IF c \notin DOMAIN HexValue THEN [t EXCEPT !.valid = FALSE, !.escape = <<>>]
                    ELSE IF Len(t.escape) = 1 THEN [t EXCEPT !.escape = Append(@, HexValue[c])]
                    ELSE [t EXCEPT !.out = Append(@, 16 * t.escape[2] + HexValue[c]), !.escape = <<>>]
              [] t.escape = <<>> /\ c = "%" -> [t EXCEPT !.escape = <<0>>]
              [] OTHER -> [t EXCEPT !.out = Append(@, IF c = "+" THEN Space ELSE Code[c])]
    IN  FoldLeft(step, [out |-> <<>>, escape |-> <<>>, valid |-> TRUE], in)

\* An escape that is cut off throws too.
unescape_url(in) ==
    [text |-> Unescape(in).out, valid |-> Unescape(in).valid /\ Unescape(in).escape = <<>>]

-----------------------------------------------------------------------------
(* The table *)

IsCapture(piece) == Len(piece) = 1 /\ piece[1] \in CaptureNames
OneCharacter(piece) == Len(piece) = 1 /\ piece[1] \in DOMAIN Code

\* parse_route_parts, which throws for a part of one character
ValidRoute(route) == \A i \in DOMAIN splitAll(route, "/") : ~OneCharacter(splitAll(route, "/")[i])
parse_route_parts(route) ==
    [i \in DOMAIN splitAll(route, "/") |->
        [capture |-> IsCapture(splitAll(route, "/")[i]), text |-> splitAll(route, "/")[i]]]

\* restful_route::operator ==
SameRoute(parts, other) ==
    /\ Len(parts) = Len(other)
    /\ \A i \in DOMAIN parts : parts[i].capture = other[i].capture /\ parts[i].text = other[i].text

NewRoute(parts) == [parts |-> parts, methods |-> <<>>, all_methods |-> <<>>]

\* Mutant: a route that is declared again shadows the first one.
create_route_shadows(routes, parts) ==
    [routes |-> Append(routes, NewRoute(parts)), at |-> Len(routes) + 1]

\* The table with the route in it, and where it is.
create_route(routes, parts) ==
    LET same == {i \in DOMAIN routes : SameRoute(routes[i].parts, parts)}
    IN  IF same # {} THEN [routes |-> routes, at |-> Min(same)]
        ELSE [routes |-> Append(routes, NewRoute(parts)), at |-> Len(routes) + 1]

Handling(methods, method, handler) ==
    [m \in DOMAIN methods \cup {method} |-> IF m = method THEN handler ELSE methods[m]]

\* Mutant: OPTIONS is listed too.
set_method_handler_lists_options(route, method, handler) ==
    [route EXCEPT !.methods = Handling(@, method, handler),
                  !.all_methods = IF method \in DOMAIN route.methods THEN @ ELSE Append(@, method)]

set_method_handler(route, method, handler) ==
    [route EXCEPT !.methods = Handling(@, method, handler),
                  !.all_methods = IF method \in DOMAIN route.methods \/ method = "OPTIONS" THEN @
                                  ELSE Append(@, method)]

-----------------------------------------------------------------------------
(* The session a handler is bound into *)

max_handler_captures == 8

\* A handler takes a parsed_route, or captures of which the last few have
\* defaults: [name, parsed, params, defaults].
is_capture_invocable(h, kind, n) ==
    /\ n \in Len(h.params) - h.defaults .. Len(h.params)
    /\ kind = "optional" => \A i \in 1 .. n : h.params[i] = "optional"

\* The sizes capture_arity() may settle for; it takes the widest.
Arities(h, kind, min) == {n \in min .. max_handler_captures : is_capture_invocable(h, kind, n)}

\* What a handler gets for a capture: string_capture and optional_capture.
Capture(kind, captures, i) ==
    [absent |-> kind = "optional" /\ i > Len(captures),
     text |-> IF i <= Len(captures) THEN captures[i] ELSE <<>>]
bind_captures(h, kind, n, route) ==
    [handler |-> h.name, route |-> <<>>, args |-> [i \in 1 .. n |-> Capture(kind, route.captures, i)]]
make_session(h, route) ==
    IF h.parsed THEN [handler |-> h.name, route |-> <<route>>, args |-> <<>>]
    ELSE IF Arities(h, "optional", 1) # {}
    THEN bind_captures(h, "optional", Max(Arities(h, "optional", 1)), route)
    ELSE bind_captures(h, "string", Max(Arities(h, "string", 0)), route)

-----------------------------------------------------------------------------
(* Requests *)

\* Whether restful_route::create_handler() gets past the parts of the URL, and
\* what it has captured by then.
PathMatched(route, pieces) ==
    /\ Len(pieces) = Len(route.parts)
    /\ \A i \in DOMAIN pieces : route.parts[i].capture \/ route.parts[i].text = pieces[i]
Captured(route, pieces) ==
    LET at == SelectSeq([i \in DOMAIN pieces |-> i], LAMBDA i : route.parts[i].capture)
    IN  [k \in DOMAIN at |-> pieces[at[k]]]

\* The query string, one pair at a time.
Pair(kv) ==
    CASE Len(kv) = 0 -> [status |-> "400", pair |-> <<>>]
      [] Len(kv) = 1 -> [status |-> IF unescape_url(kv[1]).valid THEN "" ELSE "500",
                         pair |-> <<unescape_url(kv[1]).text, <<>>>>]
      [] OTHER -> [status |-> IF unescape_url(kv[1]).valid /\ unescape_url(kv[2]).valid THEN "" ELSE "500",
                   pair |-> <<unescape_url(kv[1]).text, unescape_url(kv[2]).text>>]
Queries(query) ==
    LET pieces == splitAll(query, "&")
    IN  [i \in DOMAIN pieces |-> Pair(split(pieces[i], "=", 1))]

\* What create_session() gets: a session, nothing, or an exception.
Nothing == [kind |-> "nothing", session |-> <<>>, allow |-> <<>>]
Thrown(status) == [kind |-> status, session |-> <<>>, allow |-> <<>>]
Session(s) == [kind |-> "session", session |-> s, allow |-> <<>>]

\* Only the first '?' starts the query.
PathOf(url) == SubSeq(url, 1, Min({i \in DOMAIN url : url[i] = "?"} \cup {Len(url) + 1}) - 1)
QueryOf(url) == SubSeq(url, Len(PathOf(url)) + 2, Len(url))

\* Whether a URL starts with the base, and what it has after that.
UnderBase(url) ==
    LET all == splitAll(PathOf(url), "/")
        base == splitAll(base_url, "/")
    IN  Len(all) > Len(base) /\ IsPrefix(base, all)
PiecesOf(url) ==
    LET all == splitAll(PathOf(url), "/")
    IN  SubSeq(all, Len(splitAll(base_url, "/")) + 1, Len(all))

\* The route that answers, 0 when none does.
Answering(routes, pieces, method) ==
    LET able == {i \in DOMAIN routes : PathMatched(routes[i], pieces) /\ method \in DOMAIN routes[i].methods}
    IN  IF able = {} THEN 0 ELSE Min(able)

create_handler(routes, url, method) ==
    LET pieces == PiecesOf(url)
        at == Answering(routes, pieces, method)
        matched == {i \in DOMAIN routes : PathMatched(routes[i], pieces)}
        queries == Queries(QueryOf(url))
        bad == {i \in DOMAIN queries : queries[i].status # ""}
        first(status) == \E i \in bad : queries[i].status = status /\ \A j \in bad : i <= j
    IN  IF ~UnderBase(url) THEN Nothing
        ELSE IF at # 0
        THEN IF bad # {} THEN Thrown(IF first("400") THEN "400" ELSE "500")
             ELSE Session(make_session(routes[at].methods[method],
                            [captures |-> Captured(routes[at], pieces),
                             queries |-> [i \in DOMAIN queries |-> queries[i].pair],
                             all_but_options_node_methods |-> routes[at].all_methods]))
        ELSE IF matched # {} THEN [Thrown("405") EXCEPT !.allow = routes[Min(matched)].all_methods]
        ELSE Nothing

-----------------------------------------------------------------------------
Init ==
    /\ m_routes = <<>> /\ serving = FALSE /\ log = <<>>
    /\ request = <<>> /\ answer = Nothing

\* create_route(route)->add_method_handler(method, handler); a route with a
\* part of one character throws before the table changes.
Declare(d) ==
    LET parts == parse_route_parts(d.route)
        table == create_route(m_routes, parts)
    IN  /\ ~serving /\ Len(log) < MaxDeclarations
        /\ ValidRoute(d.route)
        /\ m_routes' = [table.routes EXCEPT ![table.at] = set_method_handler(@, d.method, d.handler)]
        /\ log' = Append(log, [parts |-> parts, method |-> d.method, handler |-> d.handler])
        /\ UNCHANGED <<serving, request, answer>>

StartServing == ~serving /\ serving' = TRUE /\ UNCHANGED <<m_routes, request, answer, log>>

\* create_session(req).  The table is only read from here on, so the first
\* request of a behaviour stands for any.
CreateSession(r) ==
    /\ serving /\ request = <<>>
    /\ request' = <<r>> /\ answer' = create_handler(m_routes, r.url, r.method)
    /\ UNCHANGED <<m_routes, serving, log>>

Next ==
    \/ \E d \in Declarations : Declare(d)
    \/ StartServing
    \/ \E r \in Requests : CreateSession(r)

Spec == Init /\ [][Next]_vars

-----------------------------------------------------------------------------
(* Properties *)

Parts == {parse_route_parts(d.route) : d \in Declarations}
Methods == {d.method : d \in Declarations}
Handlers == {d.handler : d \in Declarations}

TypeOK ==
    /\ m_routes \in Seq([parts : Parts, methods : UNION {[S -> Handlers] : S \in SUBSET Methods},
                         all_methods : Seq(Methods)])
    /\ log \in Seq([parts : Parts, method : Methods, handler : Handlers])
    /\ serving \in BOOLEAN /\ request \in {<<>>} \cup {<<r>> : r \in Requests}

\* Every declared route is in the table once, and what a 405 or an OPTIONS
\* lists for it (m_all_methods) is each of its other methods, once: whatever
\* the order of the declarations, and however often a method is declared.
TableWellFormed ==
    /\ \A i, j \in DOMAIN m_routes : i # j => ~SameRoute(m_routes[i].parts, m_routes[j].parts)
    /\ \A i \in DOMAIN m_routes :
          LET r == m_routes[i]
          IN  /\ Range(r.all_methods) = DOMAIN r.methods \ {"OPTIONS"}
              /\ \A j, k \in DOMAIN r.all_methods : r.all_methods[j] = r.all_methods[k] => j = k

Pieces == PiecesOf(request[1].url)
Ours == UnderBase(request[1].url)

\* The declaration that has to answer, by the declarations alone, 0 for none:
\* of the routes that match and have the method, the one that was declared
\* first, and of its handlers for the method the one that was declared last.
Responsible(same(_, _)) ==
    LET hits == {i \in DOMAIN log : PathMatched(log[i], Pieces) /\ log[i].method = request[1].method}
        declared(i) == Min({j \in DOMAIN log : same(log[j].parts, log[i].parts)})
        first == Min({declared(i) : i \in hits})
    IN  IF ~Ours \/ hits = {} THEN 0 ELSE Max({i \in hits : declared(i) = first})
AnsweredBy(same(_, _)) ==
    (request # <<>> /\ answer.kind \notin {"400", "500"}) =>
        LET at == Responsible(same)
        IN  CASE at # 0 -> answer.kind = "session" /\ answer.session.handler = log[at].handler.name
              [] at = 0 /\ Ours /\ (\E i \in DOMAIN log : PathMatched(log[i], Pieces)) -> answer.kind = "405"
              [] OTHER -> answer = Nothing

\* "items/{id}" and "items/{no}" are one route, as docs/routing.md and the
\* comment on operator == have it.
SameShape(parts, other) ==
    /\ Len(parts) = Len(other)
    /\ \A i \in DOMAIN parts : /\ parts[i].capture = other[i].capture
                              /\ (parts[i].capture \/ parts[i].text = other[i].text)

\* No route was declared under two names of a capture: operator == and its
\* comment mean the same.
NamedAlike ==
    \A i, j \in DOMAIN log : SameShape(log[i].parts, log[j].parts) => SameRoute(log[i].parts, log[j].parts)

\* A request is answered by the handler declared for it, whatever else was
\* declared in between: create_route() neither shadows nor forgets.  A route
\* declared under two names of a capture is left out: the documentation makes
\* it one route, operator == two (CaptureNamesDoNotMatter).
AnsweredAsDeclared == NamedAlike => AnsweredBy(SameRoute)

\* What the documentation says of every declaration, and operator ==, which
\* compares the names of captures, does not do.
CaptureNamesDoNotMatter == AnsweredBy(SameShape)

\* The Allow of a 405 is true: each method it lists would have been served on
\* this URL, and where one route matches it lists all of them but OPTIONS.
AllowIsRight ==
    answer.kind = "405" =>
        LET served(m) == create_handler(m_routes, PathOf(request[1].url), m).kind = "session"
        IN  /\ \A m \in Range(answer.allow) : served(m)
            /\ request[1].method \notin Range(answer.allow)
            /\ Cardinality({i \in DOMAIN m_routes : PathMatched(m_routes[i], Pieces)}) = 1 =>
                  {m \in {d.method : d \in Declarations} : served(m)} \ {"OPTIONS"} = Range(answer.allow)

\* A handler gets what the URL has in the places its route captures, in that
\* order, or the pairs the peer encoded: each decoded once, split at its
\* first '=' only, in the order they were written.  A handler whose captures
\* are all strings, or all optionals, gets every one it declares.
HandedWhatWasSent ==
    answer.kind = "session" =>
        LET by == log[Responsible(SameRoute)]
            places == {i \in DOMAIN by.parts : by.parts[i].capture}
            place(k) == CHOOSE i \in places : Cardinality({j \in places : j <= i}) = k
            captured == [k \in 1 .. Cardinality(places) |-> Pieces[place(k)]]
        IN  IF by.handler.parsed
            THEN /\ answer.session.route[1].captures = captured
                 /\ answer.session.route[1].queries = request[1].queries
            ELSE /\ \A k \in DOMAIN answer.session.args :
                       answer.session.args[k] = [absent |-> k > Len(captured) /\ by.handler.params[1] = "optional",
                                                 text |-> IF k <= Len(captured) THEN captured[k] ELSE <<>>]
                 /\ Cardinality(Range(by.handler.params)) <= 1 =>
                       Len(answer.session.args) = Len(by.handler.params)

\* The declarations of a route of the table.
Declared(i) == {k \in DOMAIN log : SameRoute(m_routes[i].parts, log[k].parts)}

\* A route has the methods that were declared for it, each with the handler
\* that was declared last.
MethodsAsDeclared(i) ==
    /\ \A k \in Declared(i) : log[k].method \in DOMAIN m_routes[i].methods
    /\ \A m \in DOMAIN m_routes[i].methods : \E k \in Declared(i) :
          /\ log[k].method = m /\ log[k].handler = m_routes[i].methods[m]
          /\ \A l \in Declared(i) : log[l].method = m => l <= k

\* The table is what was declared: every declaration has its route, every
\* route its declarations, and the routes are in the order of their first ones.
\* What is answered comes from the table and the request alone.
Inv ==
    /\ TypeOK /\ TableWellFormed
    /\ \A k \in DOMAIN log : \E i \in DOMAIN m_routes : k \in Declared(i)
    /\ \A i \in DOMAIN m_routes : Declared(i) # {} /\ MethodsAsDeclared(i)
    /\ \A i, j \in DOMAIN m_routes : i < j => \E k \in Declared(i) : \A l \in Declared(j) : k < l
    /\ answer = IF request = <<>> THEN Nothing
                ELSE create_handler(m_routes, request[1].url, request[1].method)
    /\ request # <<>> => serving

\* A query string is refused when, and only when, it cannot be decoded.
BadQueryIsRefused ==
    request # <<>> => (answer.kind \in {"400", "500"}) = (request[1].queries = <<"bad">> /\ Responsible(SameRoute) # 0)
=============================================================================
