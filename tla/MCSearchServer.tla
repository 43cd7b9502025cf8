--------------------------- MODULE MCSearchServer ---------------------------
(* Instances of SearchServer for TLC. *)
EXTENDS SearchServer

CONSTANTS search, lookup, command, a, b, mine, theirs, x, y, lesson, memo, unknown,
          a0, a1, a2, a3, b0

Point(u, chunk, area, type) ==
    [uid |-> u, chunk |-> chunk, tenant |-> mine, flags |-> {},
     facet |-> [f \in Facets |-> IF f = "area" THEN area ELSE type]]

Flagged(p, flag) == [p EXCEPT !.flags = {flag}]

(* Note a has up to four chunks in area x; note b has one in area y, in every condition. *)
A(i) == Point(a, i, x, lesson)
B    == Point(b, 0, y, memo)

MCStored ==
    [k \in Keys |->
        CASE k = a0 -> {A(0)}
          [] k = a1 -> {A(1), Flagged(A(1), "private")}
          [] k = a2 -> {A(2), NoPoint, Flagged(A(2), "malformed")}
          [] k = a3 -> {NoPoint, A(3)}
          [] k = b0 -> {B, NoPoint, Flagged(B, "archived"), Flagged(B, "escaping"),
                        [B EXCEPT !.tenant = theirs]}]

(* Chunk 2 of a is there or not; b is plain, gone, archived or another tenant's. *)
MCIndexes ==
    {i \in [Keys -> UNION {MCStored[k] : k \in Keys}] :
        /\ i[a0] = A(0) /\ i[a1] = A(1) /\ i[a3] = NoPoint
        /\ i[a2] \in {A(2), NoPoint}
        /\ i[b0] \in MCStored[b0] \ {Flagged(B, "escaping")}}

Asking(area, type, topK) == [blank |-> FALSE, topK |-> topK, area |-> area, type |-> type]

Telling(tenant, topK, area, all) ==
    [tenant |-> tenant, blank |-> FALSE, topK |-> topK, area |-> area,
     archived |-> all, private |-> all]

MCAsked ==
    [r \in Requests |->
        CASE r = search ->
                {Asking(NoValue, NoValue, 0), Asking(NoValue, NoValue, 9), Asking(y, lesson, 1),
                 Asking(y, NoValue, 2), Asking(unknown, NoValue, 1),
                 [Asking(NoValue, NoValue, 1) EXCEPT !.blank = TRUE]}
          [] r = lookup -> {a, b, NoValue}
          [] r = command ->
                {Telling(mine, 2, NoValue, TRUE), Telling(mine, 2, x, FALSE),
                 Telling(theirs, 3, NoValue, TRUE), Telling(NoValue, 1, NoValue, FALSE),
                 Telling(mine, 0, NoValue, FALSE)}]
=============================================================================
