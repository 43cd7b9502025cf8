----------------------------- MODULE Isolation ------------------------------
(***************************************************************************)
(* The isolation suite (internal/eval/isolation): the cases that ask a     *)
(* build of the search, over a store which applies no condition but those  *)
(* it is sent, and a build of the ingestion, over a store which scopes     *)
(* nothing itself.  A build is the search of Retrieval with parts of its   *)
(* filter gone: what a change of the code could do to it, some of which    *)
(* cases_nonvacuity_test.go plants, one at a time.                         *)
(***************************************************************************)
EXTENDS Naturals, Sequences, FiniteSets

CONSTANTS Nobodies     \* tenant ids that name no tenant: blanks, globs, another case

NoTenant == ""
Tenants == {"alfa", "beta", "gama"}
Collections == {"clientes", "interno", "base_paga"}

Point(uid, collection, tenant, flags) ==
    [uid |-> uid, collection |-> collection, tenant |-> tenant, flags |-> flags]

(* One of the notes each tenant has, with the same words in all of them. *)
Fixture == {Point("a", "clientes", "alfa", {}), Point("b", "clientes", "beta", {}),
            Point("c", "clientes", "gama", {}), Point("d1", "clientes", "alfa", {"private"}),
            Point("d2", "interno", "alfa", {"private"}), Point("d3", "base_paga", "gama", {"private"}),
            Point("e", "clientes", "beta", {"archived"})}

R == INSTANCE Retrieval WITH
        Uids <- {p.uid : p \in Fixture}, Tenants <- Tenants, Facets <- {}, Values <- {},
        NoValue <- NoTenant, TopKLimit <- 10, OffsetLimit <- 0, Multiplier <- 1,
        MaxPerUid <- 0, LookupLimit <- 1

Query(collection, tenant) ==
    [collection |-> collection, tenant |-> tenant, blank |-> FALSE, topK |-> 10, offset |-> 0,
     facet |-> <<>>, archived |-> FALSE, private |-> FALSE, uid |-> NoTenant, injects |-> FALSE]

-----------------------------------------------------------------------------
(* When a build leaves a condition out; whether its legs, the flags that lift
   an exclusion, the check of the query and the tenant as written hold. *)
Builds == [tenantGone  : {"never", "always", "privileged", "injected", "interno"},
           privateGone : {"never", "always", "outside interno"}, archivedGone : {"never", "always"},
           legs : BOOLEAN, lifts : SUBSET {"private", "archived"}, validates : BOOLEAN,
           literal : BOOLEAN, finds : BOOLEAN]
Faithful == [tenantGone |-> "never", privateGone |-> "never", archivedGone |-> "never", legs |-> TRUE,
             lifts |-> {"private", "archived"}, validates |-> TRUE, literal |-> TRUE, finds |-> TRUE]

Gone(when, q) == \/ when = "always"
                 \/ when = "privileged" /\ q.private
                 \/ when = "injected" /\ q.injects
                 \/ when = "interno" /\ q.collection = "interno"
                 \/ when = "outside interno" /\ q.collection # "interno"

Sent(b, q) ==
    LET read == [q EXCEPT !.tenant   = IF ~b.literal /\ q.tenant \in Nobodies THEN "alfa" ELSE @,
                          !.private  = @ /\ "private" \in b.lifts,
                          !.archived = @ /\ "archived" \in b.lifts]
        f    == R!BuildFilter(read)
        gone == (IF Gone(b.privateGone, q) THEN {"private"} ELSE {})
                  \union (IF Gone(b.archivedGone, q) THEN {"archived"} ELSE {})
    IN  [must    |-> {m \in f.must : m.field = "tenant" => ~Gone(b.tenantGone, q)},
         mustNot |-> f.mustNot \ gone]

(* The search of a build over the probe store: what it sent, and what came back. *)
Search(b, q) ==
    LET f == Sent(b, q)
    IN  IF b.validates /\ ~R!Validate(q) THEN [refused |-> TRUE, requests |-> {}, results |-> {}]
        ELSE [refused  |-> FALSE,
              requests |-> {[filter |-> f, leg |-> IF b.legs THEN f ELSE [f EXCEPT !.must = {}]]},
              results  |-> {p \in Fixture : b.finds /\ p.collection = q.collection /\ R!Matches(p, f)}]

-----------------------------------------------------------------------------
ForeignResults(tenant, a) == {p \in a.results : p.tenant # tenant}

(* The request as a whole and not its legs. *)
InspectsTheFilterOnly(tenant, a) ==
    a.requests # {} /\ \A r \in a.requests : R!Must("tenant", tenant) \in r.filter.must

RequestsCarryTenant(tenant, a) ==
    /\ a.requests # {}
    /\ \A r \in a.requests :
          /\ R!Must("tenant", tenant) \in r.filter.must \intersect r.leg.must
          /\ \A m \in r.filter.must : m.field = "tenant" => m.value = tenant

Excludes(flag, a) == a.requests # {} /\ \A r \in a.requests : flag \in r.filter.mustNot

(* A search that was answered, within its scope, and with something. *)
Scoped(tenant, a) == ~a.refused /\ ForeignResults(tenant, a) = {} /\ RequestsCarryTenant(tenant, a)

CrossTenantCase(b) ==
    \A t \in Tenants : LET a == Search(b, Query("clientes", t)) IN Scoped(t, a) /\ a.results # {}

AdversarialTenantEmptyCase(b) ==
    LET a == Search(b, Query("clientes", NoTenant))
    IN  a.refused /\ a.results = {} /\ a.requests = {}

AdversarialTenantPayloadCase(b) ==
    /\ LET control == Search(b, Query("clientes", "alfa"))
       IN  ~control.refused /\ control.results # {}
    /\ \A n \in Nobodies :
          LET a == Search(b, Query("clientes", n))
          IN  ~a.refused /\ a.results = {} /\ RequestsCarryTenant(n, a)

QueryTextInjectionCase(b) ==
    LET a == Search(b, [Query("clientes", "alfa") EXCEPT !.injects = TRUE])
    IN  Scoped("alfa", a) /\ a.results # {}

(* What is excluded stays away, and comes back when the exclusion is lifted. *)
ExclusionCase(b, flag, lifted) ==
    \A p \in {p \in Fixture : flag \in p.flags} :
        LET a == Search(b, Query(p.collection, p.tenant))
        IN  /\ ~a.refused /\ p \notin a.results /\ Excludes(flag, a)
            /\ RequestsCarryTenant(p.tenant, a)
            /\ p \in Search(b, [lifted EXCEPT !.collection = p.collection, !.tenant = p.tenant]).results

PrivateVisibilityCase(b) == ExclusionCase(b, "private", [Query("", "") EXCEPT !.private = TRUE])
ArchivedExclusionCase(b) ==
    /\ \E p \in Fixture : "archived" \in p.flags
    /\ ExclusionCase(b, "archived", [Query("", "") EXCEPT !.archived = TRUE])

PrivilegedPathCase(b) ==
    LET a == Search(b, [Query("clientes", "alfa") EXCEPT !.private = TRUE, !.archived = TRUE])
    IN  Scoped("alfa", a) /\ \E p \in a.results : "private" \in p.flags

-----------------------------------------------------------------------------
(* An ingestion of one note, the same uid for each tenant: what it names in
   the scope of its calls and in its payload, how much it trims. *)
WriteBuilds == [scope : {"own", "alfa"}, payload : {"own", "alfa"}, trim : {"own", "alfa"},
                trims : {"tail", "note"}, writes : BOOLEAN, validates : BOOLEAN]
FaithfulWrites == [scope |-> "own", payload |-> "own", trim |-> "own", trims |-> "tail",
                   writes |-> TRUE, validates |-> TRUE]

TenantOf(which, tenant) == IF which = "own" THEN tenant ELSE which

(* The calls of a run; the store keeps a point [at, of] under the scope of the
   call, whatever tenant its payload is of. *)
Ingest(w, tenant) ==
    IF w.validates /\ tenant = NoTenant THEN <<>>
    ELSE <<[method |-> "scroll", tenant |-> TenantOf(w.scope, tenant), points |-> {}]>>
           \o (IF w.writes THEN <<[method |-> "upsert", tenant |-> TenantOf(w.scope, tenant),
                                   points |-> {[at |-> 0, of |-> TenantOf(w.payload, tenant)]}]>>
               ELSE <<>>)
           \o <<[method |-> "delete", tenant |-> TenantOf(w.trim, tenant), points |-> {}]>>

Apply(w, call, store) ==
    LET from == IF w.trims = "tail" THEN 1 ELSE 0
    IN  CASE call.method = "scroll" -> store
          [] call.method = "upsert" ->
               [store EXCEPT ![call.tenant] = {p \in @ : p.at # 0} \union call.points]
          [] call.method = "delete" -> [store EXCEPT ![call.tenant] = {p \in @ : p.at < from}]

After(w, tenant, store) ==
    LET calls == Ingest(w, tenant)
        run[i \in 0 .. Len(calls)] == IF i = 0 THEN store ELSE Apply(w, calls[i], run[i - 1])
    IN  run[Len(calls)]

CallsCarryTenant(calls, tenant) ==
    \A i \in DOMAIN calls : /\ calls[i].tenant = tenant
                               /\ \A p \in calls[i].points : p.of = tenant

WritePathTenantCase(w) ==
    LET held == After(w, "gama", After(w, "beta", After(w, "alfa", [t \in Tenants |-> {}])))
    IN  /\ \A t \in Tenants : /\ CallsCarryTenant(Ingest(w, t), t)
                              /\ held[t] # {} /\ \A p \in held[t] : p.of = t
        /\ Ingest(w, NoTenant) = <<>>

-----------------------------------------------------------------------------
SearchSuite(b) ==
    /\ CrossTenantCase(b) /\ AdversarialTenantEmptyCase(b) /\ AdversarialTenantPayloadCase(b)
    /\ QueryTextInjectionCase(b) /\ PrivateVisibilityCase(b) /\ ArchivedExclusionCase(b)
    /\ PrivilegedPathCase(b)
=============================================================================
