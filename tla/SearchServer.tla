---------------------------- MODULE SearchServer ----------------------------
(***************************************************************************)
(* Everything that answers a question: the MCP server (cmd/mcp-server) with*)
(* its two tools, and `knowrag search` (internal/clicmd).  Requests run    *)
(* concurrently with each other, with an ingestion that changes the index, *)
(* and with an embedding service that stops and comes back, possibly with  *)
(* another model.  The embedding client enters by its contract             *)
(* (AtomicEmbedding): one answer or one error, nothing before a report     *)
(* that matched the pins.                                                  *)
(***************************************************************************)
EXTENDS Retrieval

CONSTANTS
    Searches, Lookups, CliSearches,  \* requests: search_knowledge, get_note, knowrag search
    Asked,          \* [requests -> SUBSET inputs]
    ServerTenant,   \* Config.TenantID of the server
    Areas,          \* MCP_AREAS: the advertised areas
    NoteTypes,      \* the values of schema.ParseNoteType
    DefaultTopK, ClampTo,  \* defaultTopK and maxTopK of the handler
    Keys, NoPoint,
    Stored,         \* [Keys -> SUBSET payloads]: what an ingestion may put there
    Indexes,        \* the collections a server may start on
    MaxCalls, MaxWrites, MaxFaults, MaxChanges, MaxLaunches  \* bounds

Requests == Searches \union Lookups \union CliSearches

(* Whose embedding client a request uses: the server has one, each command its own. *)
Owner(r) == IF r \in CliSearches THEN r ELSE "server"
Owners   == CliSearches \union {"server"}

(* What a request may carry: the arguments of search_knowledge, of get_note, the flags of
   knowrag search. *)
ToolArguments == [blank : BOOLEAN, topK : Nat,
                  area : Values \union {NoValue}, type : Values \union {NoValue}]
Flags == [tenant : Tenants \union {NoValue}, blank : BOOLEAN, topK : Nat,
          area : Values \union {NoValue}, archived : BOOLEAN, private : BOOLEAN]

ASSUME ServerAssumption ==
    /\ DefaultTopK \in 1 .. ClampTo /\ ClampTo <= TopKLimit /\ ClampTo \in Nat
    /\ MaxCalls \in Nat /\ MaxWrites \in Nat /\ MaxFaults \in Nat /\ MaxChanges \in Nat /\ MaxLaunches \in Nat
    /\ ServerTenant \in Tenants /\ "area" \in Facets

ASSUME RequestAssumption ==
    /\ Searches \intersect Lookups = {} /\ (Searches \union Lookups) \intersect CliSearches = {}
    /\ "server" \notin CliSearches
    /\ \A r \in Searches : Asked[r] \subseteq ToolArguments
    /\ \A r \in Lookups : Asked[r] \subseteq Uids \union {NoValue}
    /\ \A r \in CliSearches : Asked[r] \subseteq Flags

(* Two points with one tenant, uid and chunk are one point: its key is computed from these
   (schema.PointID). *)
Holds(k) == Stored[k] \union {i[k] : i \in Indexes}

ASSUME IndexAssumption ==
    /\ IsFiniteSet(Keys)
    /\ NoPoint \notin Payloads
    /\ Indexes \subseteq [Keys -> Payloads \union {NoPoint}]
    /\ \A k \in Keys : Stored[k] \subseteq Payloads \union {NoPoint}
    /\ \A k, l \in Keys : \A p \in Holds(k), q \in Holds(l) :
          k # l /\ p # NoPoint /\ q # NoPoint =>
             <<p.tenant, p.uid, p.chunk>> # <<q.tenant, q.uid, q.chunk>>

VARIABLES
    index,      \* the collection
    service,    \* the model of the embedding service that listens, or "down"
    server,     \* the server process
    latch,      \* owners whose client saw the pinned configuration
    swapped,    \* history: owners whose confirmed service was replaced since
    pc, query, answer,
    space,      \* history: the model the query was embedded with, or why another was accepted
    seen,       \* history: the index when the request was answered from it
    probed,     \* history: the index when an empty answer was explained
    writes, faults, changes, launches

owners == <<service, latch, swapped, changes>>
reads  == <<seen, probed>>
vars   == <<index, owners, server, pc, query, space, answer, reads, writes, faults, launches>>

NoQuery  == [tenant |-> NoValue, blank |-> TRUE, topK |-> 0, offset |-> 0,
             facet |-> [f \in Facets |-> NoValue], archived |-> FALSE, private |-> FALSE,
             uid |-> NoValue]
Unread   == {NoPoint}      \* what no read of the collection sees
Pending  == [kind |-> "pending", component |-> "none", hits |-> <<>>]
Text(kind) == [Pending EXCEPT !.kind = kind]
Results(hits) == [Pending EXCEPT !.kind = "results", !.hits = hits]

TypeOK ==
    /\ index \in [Keys -> Payloads \union {NoPoint}]
    /\ service \in {"down", "pinned", "other"}
    /\ server \in {"booting", "up", "refused"}
    /\ latch \subseteq Owners /\ swapped \subseteq latch
    /\ pc \in [Requests -> {"new", "embedding", "querying", "probing", "looking", "over"}]
    /\ query \in [Requests -> Queries]
    /\ space \in [Requests -> {"none", "pinned", "replaced", "wrong"}]
    /\ \A r \in Requests :
        /\ answer[r].kind \in {"pending", "results", "none", "deadArea", "unavailable",
                               "error", "usage", "backend", "lost"}
        /\ answer[r].component \in {"none", "embedder", "qdrant"}
        /\ pc[r] = "over" <=> answer[r].kind # "pending"
        /\ answer[r].kind \in {"usage", "backend"} => r \in CliSearches
        /\ r \in Searches => query[r].topK \in 0 .. ClampTo
    /\ writes \in 0 .. MaxWrites /\ faults \in 0 .. MaxFaults
    /\ changes \in 0 .. MaxChanges /\ launches \in 0 .. MaxLaunches

Init ==
    /\ index \in Indexes
    /\ service \in {"down", "pinned", "other"}
    /\ server = "booting"
    /\ latch = {} /\ swapped = {}
    /\ pc = [r \in Requests |-> "new"]
    /\ query = [r \in Requests |-> NoQuery]
    /\ space = [r \in Requests |-> "none"]
    /\ answer = [r \in Requests |-> Pending]
    /\ seen = [r \in Requests |-> Unread] /\ probed = [r \in Requests |-> Unread]
    /\ writes = 0 /\ faults = 0 /\ changes = 0 /\ launches = 0

-----------------------------------------------------------------------------
(* The errors a request meets: what the embedding client returns, and gRPC codes. *)
EmbedErrors == {"backend", "handshake", "invalid", "cancelled"}
QueryErrors == {"Unavailable", "DeadlineExceeded", "Canceled", "NotFound"}

(* An outage of a component, as opposed to a component that answered and said no. *)
ClassifyUnavailable(e) ==
    CASE e = "backend" -> "embedder"
      [] e \in {"Unavailable", "DeadlineExceeded"} -> "qdrant"
      [] OTHER -> "none"

(* logAndWrapTool for the tools; the command has its own categories. *)
Failure(r, e) ==
    LET c == ClassifyUnavailable(e)
    IN  IF r \in CliSearches THEN Text("backend")
        ELSE IF c = "none" THEN Text("error")
        ELSE [Text("unavailable") EXCEPT !.component = c]

Reply(r, a) ==
    /\ pc' = [pc EXCEPT ![r] = "over"]
    /\ answer' = [answer EXCEPT ![r] = a]

Goto(r, label) == pc' = [pc EXCEPT ![r] = label] /\ UNCHANGED answer

Fault == faults < MaxFaults /\ faults' = faults + 1

-----------------------------------------------------------------------------
(* The boot check: only a backend that answers with another configuration stops the
   server; one that cannot be reached does not, and nothing of it is remembered. *)
VerifyEmbedder ==
    /\ server = "booting"
    /\ server' = IF service = "other" THEN "refused" ELSE "up"
    /\ UNCHANGED <<index, owners, pc, query, space, answer, reads, writes, faults, launches>>

(* The process ends, with the calls it was answering, and is started again. *)
Relaunch ==
    /\ server # "booting"
    /\ launches < MaxLaunches /\ launches' = launches + 1
    /\ server' = "booting"
    /\ latch' = latch \ {"server"} /\ swapped' = swapped \ {"server"}
    /\ LET lost == {r \in Requests \ CliSearches : pc[r] \notin {"new", "over"}}
       IN  /\ pc' = [r \in Requests |-> IF r \in lost THEN "over" ELSE pc[r]]
           /\ answer' = [r \in Requests |-> IF r \in lost THEN Text("lost") ELSE answer[r]]
    /\ UNCHANGED <<index, service, changes, query, space, reads, writes, faults>>

ClampTopK(k) == IF k = 0 THEN DefaultTopK ELSE IF k > ClampTo THEN ClampTo ELSE k

(* A filter of the tool is empty, or one of the values it advertises. *)
ValidateFilters(in) ==
    /\ in.area \in Areas \union {NoValue}
    /\ in.type \in NoteTypes \union {NoValue}

FacetOf(in) == [f \in Facets |-> CASE f = "area" -> in.area [] f = "type" -> in.type
                                   [] OTHER -> NoValue]

(* search_knowledge: the tenant is the server's, nothing can ask for the archived or the private. *)
SearchKnowledge(r) ==
    /\ r \in Searches /\ pc[r] = "new" /\ server = "up"
    /\ \E in \in Asked[r] :
        LET q == [NoQuery EXCEPT !.tenant = ServerTenant, !.blank = in.blank,
                                 !.topK = ClampTopK(in.topK), !.facet = FacetOf(in)]
        IN  /\ query' = [query EXCEPT ![r] = q]
            /\ IF ValidateFilters(in) /\ Validate(q)
               THEN Goto(r, "embedding") ELSE Reply(r, Text("error"))
    /\ UNCHANGED <<index, owners, server, space, reads, writes, faults, launches>>

(* knowrag search: the tenant is the caller's and required, topK is not clamped;
   what the query's validation refuses is a usage error. *)
RunSearch(r) ==
    /\ r \in CliSearches /\ pc[r] = "new"
    /\ \E in \in Asked[r] :
        LET q == [NoQuery EXCEPT !.tenant = in.tenant, !.blank = in.blank, !.topK = in.topK,
                                 !.facet = [f \in Facets |-> IF f = "area" THEN in.area ELSE NoValue],
                                 !.archived = in.archived, !.private = in.private]
        IN  /\ query' = [query EXCEPT ![r] = q]
            /\ IF Validate(q) THEN Goto(r, "embedding") ELSE Reply(r, Text("usage"))
    /\ UNCHANGED <<index, owners, server, space, reads, writes, faults, launches>>

(* get_note: no embedding.  A uid that is not one is refused. *)
GetNote(r) ==
    /\ r \in Lookups /\ pc[r] = "new" /\ server = "up"
    /\ \E u \in Asked[r] :
        /\ query' = [query EXCEPT ![r] = [NoQuery EXCEPT !.tenant = ServerTenant, !.uid = u]]
        /\ IF u \in Uids THEN Goto(r, "looking") ELSE Reply(r, Text("error"))
    /\ UNCHANGED <<index, owners, server, space, reads, writes, faults, launches>>

-----------------------------------------------------------------------------
(* A client that takes the boot check of its process for its own. *)
TrustsBootCheck(o) == o \in latch \/ o = "server" \/ service = "pinned"

(* The client confirms its backend itself, once, before it embeds anything. *)
Confirmed(o) == o \in latch \/ service = "pinned"

EmbedQuery(r) ==
    /\ pc[r] = "embedding"
    /\ service # "down" /\ Confirmed(Owner(r))
    /\ latch' = latch \union {Owner(r)}
    /\ space' = [space EXCEPT ![r] = IF service = "pinned" THEN "pinned"
                                    ELSE IF Owner(r) \in swapped THEN "replaced" ELSE "wrong"]
    /\ Goto(r, "querying")
    /\ UNCHANGED <<index, service, swapped, changes, server, query, reads, writes, faults, launches>>

EmbedFails(r) ==
    /\ pc[r] = "embedding"
    /\ \/ /\ service = "down"
          /\ Reply(r, Failure(r, "backend")) /\ UNCHANGED faults
       \/ /\ service = "other" /\ ~Confirmed(Owner(r))
          /\ Reply(r, Failure(r, "handshake")) /\ UNCHANGED faults
       \/ /\ Fault
          /\ \E e \in EmbedErrors \ {"handshake"} : Reply(r, Failure(r, e))
    /\ UNCHANGED <<index, owners, server, query, space, reads, writes, launches>>

Points == {index[k] : k \in Keys} \ {NoPoint}

Matching(filter) == {p \in Points : Matches(p, filter)}

Observe(history, r) == history' = [history EXCEPT ![r] = Points]

(* The query and everything done with its hits.  An empty answer that carries an area is explained. *)
ExecuteQuery(r) ==
    /\ pc[r] = "querying"
    /\ Observe(seen, r)
    /\ \E hits \in RankedPoints(Matching(BuildFilter(query[r])), FetchWindow(query[r].topK)) :
        LET kept == CapPerUid(hits, query[r].topK)
        IN  IF ~FormatResults(hits) THEN Reply(r, Failure(r, "payload"))
            ELSE IF r \in Searches /\ ~ValidateRelativePath(kept) THEN Reply(r, Failure(r, "path"))
            ELSE IF kept # <<>> THEN Reply(r, Results(kept))
            ELSE IF r \in Searches /\ query[r].facet["area"] # NoValue THEN Goto(r, "probing")
            ELSE Reply(r, Text("none"))
    /\ UNCHANGED <<index, owners, server, query, space, probed, writes, faults, launches>>

QueryFails(r) ==
    /\ pc[r] \in {"querying", "looking"}
    /\ Fault
    /\ \E e \in QueryErrors : Reply(r, Failure(r, e))
    /\ UNCHANGED <<index, owners, server, query, space, reads, writes, launches>>

(* The probe carries the filter of the search. *)
ProbeOfTheSearch(q) == q

(* The probe asks about the area alone, under the scope and the guards of the search. *)
Probe(q) == [q EXCEPT !.facet = [f \in Facets |-> IF f = "area" THEN q.facet[f] ELSE NoValue]]

ExplainEmptyArea(r) ==
    /\ pc[r] = "probing"
    /\ Observe(probed, r)
    /\ Reply(r, Text(IF Matching(BuildFilter(Probe(query[r]))) = {} THEN "deadArea" ELSE "none"))
    /\ UNCHANGED <<index, owners, server, query, space, seen, writes, faults, launches>>

(* The search itself succeeded: its plain answer stands. *)
ProbeFails(r) ==
    /\ pc[r] = "probing"
    /\ Fault
    /\ Reply(r, Text("none"))
    /\ UNCHANGED <<index, owners, server, query, space, reads, writes, launches>>

(* The limit itself taken for a whole note. *)
TooLargeBeyond(hits) == Len(hits) > LookupLimit

(* As many chunks as the limit may be a truncated note: refused. *)
TooLarge(hits) == Len(hits) >= LookupLimit

GetByUID(r) ==
    /\ pc[r] = "looking"
    /\ Observe(seen, r)
    /\ \E hits \in RankedPoints(Matching(LookupFilter(query[r])), LookupLimit) :
        IF TooLarge(hits) \/ ~FormatResults(hits) \/ ~ValidateRelativePath(hits)
        THEN Reply(r, Failure(r, "note"))
        ELSE IF hits = <<>> THEN Reply(r, Text("none"))
        ELSE \E note \in SortByChunkIndex({hits[i] : i \in DOMAIN hits}) : Reply(r, Results(note))
    /\ UNCHANGED <<index, owners, server, query, space, probed, writes, faults, launches>>

-----------------------------------------------------------------------------
ServiceChanges ==
    /\ changes < MaxChanges /\ changes' = changes + 1
    /\ service' \in {"down", "pinned", "other"} \ {service}
    /\ swapped' = IF service' = "down" THEN swapped ELSE swapped \union latch
    /\ UNCHANGED <<index, latch, server, pc, query, space, answer, reads, writes, faults, launches>>

IngestWrites ==
    /\ writes < MaxWrites /\ writes' = writes + 1
    /\ \E k \in Keys : \E p \in Stored[k] \ {index[k]} : index' = [index EXCEPT ![k] = p]
    /\ UNCHANGED <<owners, server, pc, query, space, answer, reads, faults, launches>>

Receive(r) ==
    /\ Cardinality({s \in Requests : pc[s] # "new"}) < MaxCalls
    /\ SearchKnowledge(r) \/ RunSearch(r) \/ GetNote(r)

Serve(r) ==
    \/ EmbedQuery(r) \/ EmbedFails(r)
    \/ ExecuteQuery(r) \/ QueryFails(r)
    \/ ExplainEmptyArea(r) \/ ProbeFails(r)
    \/ GetByUID(r)

Next ==
    \/ VerifyEmbedder \/ Relaunch
    \/ \E r \in Requests : Receive(r) \/ Serve(r)
    \/ ServiceChanges \/ IngestWrites

Spec == Init /\ [][Next]_vars

-----------------------------------------------------------------------------
(* The scope in the words of the contract, with no filter in them. *)
InScope(q, p) ==
    /\ p.tenant = q.tenant
    /\ q.archived \/ "archived" \notin p.flags
    /\ q.private \/ "private" \notin p.flags

Asks(q, p) == InScope(q, p) /\ \A f \in Facets : q.facet[f] \in {NoValue, p.facet[f]}

Hits(r) == {answer[r].hits[i] : i \in DOMAIN answer[r].hits}

(* No answer of the server leaves its tenant or shows what is archived or private, and no
   other answer leaves what its caller named, while the index changes under every read. *)
ScopeIsKept ==
    \A r \in Requests : \A p \in Hits(r) :
        /\ InScope(query[r], p)
        /\ r \notin CliSearches => /\ p.tenant = ServerTenant
                                   /\ p.flags \intersect {"archived", "private"} = {}
        /\ r \in Lookups => p.uid = query[r].uid
        /\ r \notin Lookups => Asks(query[r], p)

(* The places of an answer that points of these could take if there were no limit: as
   many of each note as its share. *)
Places(points) ==
    {place \in Uids \X (1 .. MaxPerUid) :
        place[2] <= Cardinality({p \in points : p.uid = place[1]})}

Least(a, b) == IF a < b THEN a ELSE b

(* No note exceeds its share, and while what matches fits in the window, the answer is as
   long as the shares allow. *)
Diverse(q, hits, points) ==
    LET all == {p \in points : Asks(q, p)}
    IN  /\ Len(hits) <= q.topK
        /\ MaxPerUid > 0 => \A u \in Uids : FromUid(hits, u) <= MaxPerUid
        /\ MaxPerUid > 0 /\ Cardinality(all) <= q.topK * MaxPerUid =>
             Len(hits) = Least(q.topK, Cardinality(Places(all)))

(* The cap per note costs no result it need not cost. *)
TopKIsDiverse ==
    \A r \in Searches \union CliSearches : answer[r].kind = "results" =>
        Diverse(query[r], answer[r].hits, seen[r])

(* Every chunk of the note that these points show, in document order. *)
Whole(q, hits, points) ==
    /\ {hits[i] : i \in DOMAIN hits} = {p \in points : InScope(q, p) /\ p.uid = q.uid}
    /\ \A i, j \in DOMAIN hits : i < j => hits[i].chunk < hits[j].chunk

(* get_note returns every visible chunk of the note in document order, or an error:
   never a part of the note that reads like a short one. *)
NoteIsWhole ==
    \A r \in Lookups : answer[r].kind = "results" =>
        Whole(query[r], answer[r].hits, seen[r])

(* What an empty answer claims is true.  It means that the index was read and held nothing
   of what was asked; it blames the area only if nothing visible was in it; and a
   request that reports an outage has read nothing at all. *)
EmptyMeansAbsent ==
    \A r \in Requests :
        /\ answer[r].kind \in {"none", "deadArea"} =>
            /\ seen[r] # Unread
            /\ r \notin Lookups => ~\E p \in seen[r] : Asks(query[r], p)
        /\ answer[r].kind = "deadArea" =>
            ~\E p \in probed[r] : InScope(query[r], p) /\ p.facet["area"] = query[r].facet["area"]
        /\ answer[r].kind = "unavailable" => seen[r] = Unread

(* No search is answered from another vector space than the index's, unless the service was
   replaced after this very client confirmed it: what the boot check saw, or could not
   reach, changes nothing. *)
AnswersFromPinnedSpace ==
    \A r \in Searches \union CliSearches :
        answer[r].kind \in {"results", "none", "deadArea"} =>
            space[r] \in {"pinned", "replaced"}
=============================================================================
