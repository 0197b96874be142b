---------------------------- MODULE MCRestPlugin ----------------------------
(* Plugin directories and requests for RestPlugin. *)
EXTENDS RestPlugin, TLC

CONSTANTS s1, s2, s3, l1, l2

TwoLoops == (s1 :> l1) @@ (s2 :> l1) @@ (s3 :> l2)

RestLibrary ==
    [opens |-> TRUE, init |-> "true", create |-> TRUE, order |-> 0, destory |-> TRUE, restful |-> TRUE,
     serves |-> Routes]
StaticLibrary ==
    [RestLibrary EXCEPT !.order = 2, !.restful = FALSE,
                        !.serves = [devices |-> {"GET", "HEAD"}, files |-> {"GET", "HEAD"}]]

\* The two plugins alone; one that takes what the first one also takes, with
\* the same order; and ones whose loading fails at each place.
MCLibraries ==
    {[rest |-> RestLibrary, static |-> StaticLibrary],
     [rest |-> RestLibrary, static |-> StaticLibrary, twin |-> [StaticLibrary EXCEPT !.order = 0, !.destory = FALSE]],
     [rest |-> [RestLibrary EXCEPT !.init = "false"], static |-> [StaticLibrary EXCEPT !.init = "absent"],
      text |-> [StaticLibrary EXCEPT !.opens = FALSE], none |-> [StaticLibrary EXCEPT !.create = FALSE]],
     [rest |-> RestLibrary, static |-> [StaticLibrary EXCEPT !.init = "throws", !.destory = FALSE],
      none |-> [StaticLibrary EXCEPT !.order = -1]]}

Req(url, m, id, kind, content) == [url |-> url, method |-> m, id |-> id, body |-> <<kind, content>>]

List == Req("devices", "GET", 0, "none", <<>>)
GetOne == Req("device", "GET", 1, "none", <<>>)
Post == Req("devices", "POST", 0, "names", <<"a", "b">>)
Patch == Req("device", "PATCH", 1, "name", "c")
Delete == Req("device", "DELETE", 0, "none", <<>>)
Useful == {List, GetOne, Post, Patch, Delete}

Refused ==
    {Req("device", "GET", -1, "none", <<>>), Req("devices", "GET", 0, "names", <<"a">>),
     Req("devices", "POST", 0, "huge", <<>>), Req("devices", "POST", 0, "broken", <<>>),
     Req("device", "PATCH", -1, "name", "c"), Req("device", "PATCH", 0, "none", <<>>)}
Elsewhere ==
    {Req("device", "POST", 0, "none", <<>>), Req("/server_status", "GET", 0, "none", <<>>),
     Req("files", "GET", 0, "none", <<>>), Req("files", "POST", 0, "none", <<>>)}
MCRequests == Useful \cup Refused \cup Elsewhere

Give(a, b, c) == (s1 :> a) @@ (s2 :> b) @@ (s3 :> c)
MCWorkloads ==
    {Give(Post, List, Delete), Give(Post, Patch, Delete), Give(Post, Delete, GetOne), Give(Post, GetOne, Patch)}
    \cup {Give(q, List, NoRequest) : q \in Refused \cup Elsewhere}
=============================================================================
