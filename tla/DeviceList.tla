----------------------------- MODULE DeviceList -----------------------------
(***************************************************************************)
(* What the REST plugin of the project template promises its clients: a    *)
(* list of device names on which every request takes effect at one         *)
(* instant, between its arrival and its answer, or not at all.             *)
(***************************************************************************)
EXTENDS Integers, Sequences

CONSTANTS Sessions, Requests, NoRequest, NoAnswer, Dropped

VARIABLES
    list,       \* the names of the devices; the id of a device is its position, from 0
    asked,      \* the request of each session
    replied     \* the answer that was decided for it

vars == <<list, asked, replied>>

Entry(l, n) == <<n, l[n + 1]>>
Listing(l) == [i \in 1 .. Len(l) |-> Entry(l, i - 1)]
Without(l, n) == SubSeq(l, 1, n) \o SubSeq(l, n + 2, Len(l))

\* A body is <<kind, content>>: names and name are what the plugin can use.
NoBody == <<"none", <<>>>>
Status(s) == [status |-> s, devices |-> <<>>]
Found(l, q) == q.id < Len(l)

\* The status of a request that is not well-formed.
BadId(q) == q.url = "device" /\ q.id = -1
TooBig(q) == q.method \in {"POST", "PATCH"} /\ q.body[1] = "huge"
Unusable(q) ==
    \/ q.method = "POST" /\ q.body[1] # "names"
    \/ q.method = "PATCH" /\ q.body[1] # "name"
    \/ q.method \in {"GET", "DELETE"} /\ q.body # NoBody
Refusal(q) ==
    IF TooBig(q) /\ ~BadId(q) THEN {413} ELSE IF BadId(q) \/ Unusable(q) THEN {400} ELSE {}

Reply(q, l) ==
    IF q.url = "device" /\ ~Found(l, q) THEN Status(404)
    ELSE IF q.method # "GET" THEN Status(200)
    ELSE [status |-> 200, devices |-> IF q.url = "devices" THEN Listing(l) ELSE <<Entry(l, q.id)>>]

Effect(q, l) ==
    CASE q.method = "GET" -> l
      [] q.method = "POST" -> q.body[2]
      [] q.method = "PATCH" -> IF Found(l, q) THEN [l EXCEPT ![q.id + 1] = q.body[2]] ELSE l
      [] q.method = "DELETE" -> IF Found(l, q) THEN Without(l, q.id) ELSE l

-----------------------------------------------------------------------------
Init ==
    /\ list = <<>>
    /\ asked = [s \in Sessions |-> NoRequest]
    /\ replied = [s \in Sessions |-> NoAnswer]

Ask(s, q) ==
    /\ asked[s] = NoRequest
    /\ asked' = [asked EXCEPT ![s] = q]
    /\ UNCHANGED <<list, replied>>

Open(s) == asked[s] # NoRequest /\ replied[s] = NoAnswer

Refuse(s) ==
    /\ Open(s)
    /\ \E status \in Refusal(asked[s]) : replied' = [replied EXCEPT ![s] = Status(status)]
    /\ UNCHANGED <<list, asked>>

Serve(s) ==
    /\ Open(s) /\ Refusal(asked[s]) = {}
    /\ replied' = [replied EXCEPT ![s] = Reply(asked[s], list)]
    /\ list' = Effect(asked[s], list)
    /\ UNCHANGED asked

\* The connection fails before the request is complete.
Abandon(s) ==
    /\ Open(s)
    /\ replied' = [replied EXCEPT ![s] = Dropped]
    /\ UNCHANGED <<list, asked>>

Next == \E s \in Sessions : (\E q \in Requests : Ask(s, q)) \/ Refuse(s) \/ Serve(s) \/ Abandon(s)

Spec == Init /\ [][Next]_vars

=============================================================================
