----------------------------- MODULE MCOffline ------------------------------
(* The tools beside the protocols, one per behaviour: the chunker, the
   configuration and the scan applied to every small input, sessions over a golden set, and
   the drills over a deployed index. *)
EXTENDS Chunker, Configuration, VaultScan, Scroll, GoldenSession, EvalGate, Operations, TLC

I == INSTANCE Isolation WITH Nobodies <- {"ALFA"}

CONSTANTS n1, c1, c2, d1

VARIABLES tool, input, output

offlineVars == <<tool, input, output>>
vars == <<offlineVars, chunkerVars, configVars, vaultVars, scrollVars, evalVars, goldenVars, opsVars>>

(* The notes c1 and c2 are of area "a", d1 of area "b". *)
MCAreaOf == [c \in Cards |-> IF c = d1 THEN "b" ELSE "a"]
MCMinOf  == [a \in Areas |-> IF a = "a" THEN 2 ELSE 0]
MCMaxOf  == [a \in Areas |-> IF a = "a" THEN 2 ELSE 1]


MCFolded == "Research" :> "research" @@ "Drafts" :> "drafts" @@ "README.md" :> "readme.md"
MCMinima == {<<0, 1>>, <<2, 3>>}

-----------------------------------------------------------------------------
Line(kind, tokens) == [kind |-> kind, level |-> 0, name |-> NoName, char |-> "none",
                       run |-> 0, info |-> FALSE, tokens |-> tokens]
Heading(level, name)   == [Line("heading", 1) EXCEPT !.level = level, !.name = name]
Fence(char, run, info) == [Line("fence", 1) EXCEPT !.char = char, !.run = run, !.info = info]

Structure == {Heading(1, "doc"), Heading(1, "memo"), Heading(2, "a"), Heading(2, "b"), Heading(3, "c"),
              Line("text", 3), Line("blank", 0)}
Markup    == {Fence("tick", 3, FALSE), Fence("tick", 4, TRUE), Fence("tilde", 3, FALSE),
              Line("row", 2), Line("separator", 1), Heading(2, "a"), Heading(3, "c"), Line("text", 3)}
Upto(n, lines) == UNION {[1 .. k -> lines] : k \in 0 .. n}

MCLines   == Structure \union Markup
MCBodies  == Upto(5, Structure) \union Upto(4, Markup)
MCConfigs == {[floor |-> 3, ceiling |-> 6], [floor |-> 7, ceiling |-> 6]}

-----------------------------------------------------------------------------
Name(words, glue, upper) == [words |-> words, glue |-> glue, upper |-> upper]
MCNames == {Name(<<"a">>, "-", FALSE), Name(<<"a">>, "-", TRUE), Name(<<"b">>, "-", FALSE),
            Name(<<"a", "b">>, "-", FALSE), Name(<<"a", "b">>, "_", FALSE)}

Variables == {<<"a", "path">>, <<"a", "areas">>, <<"a", "exclude", "folders">>,
              <<"a", "b", "path">>, <<"a", "b", "areas">>}
MCInstallations ==
    [roster : {NotGiven} \union {<<R>> : R \in {R \in SUBSET MCNames : Cardinality(R) <= 2}},
     env    : UNION {[V -> {Empty, "env"}] : V \in SUBSET Variables},
     file   : {[n \in R |-> [f \in VaultFields |-> "file"]] :
                  R \in {R \in SUBSET MCNames : Cardinality(R) <= 1}}]

-----------------------------------------------------------------------------
Good(uid)         == [head |-> "block", faults |-> <<>>, uid |-> uid]
Bad(field, fault) == [Good("u1") EXCEPT !.faults = (field :> fault)]
Texts == {Good("u1"), Good("u2"), [Good("u1") EXCEPT !.head = "empty"],
          [Good("u1") EXCEPT !.head = "open"], [Good("u1") EXCEPT !.head = "unreadable"],
          Bad("tags", "shapeless"), [Bad("visibility", "shapeless") EXCEPT !.faults = @ @@ ("uid" :> "absent")]}

File(folders, name) == [folders |-> folders, name |-> name, link |-> FALSE, text |-> Good("u1")]
Link(folders, name) == [File(folders, name) EXCEPT !.link = TRUE]
(* In the order of the walk. *)
Tree == <<File(<<".trash">>, "n.md"), Link(<<".trash">>, "link"), File(<<>>, "README.md"),
          File(<<"Research", "deep">>, "n.md"), File(<<"Research", "drafts">>, "n.md"),
          Link(<<"Research">>, "link"), File(<<"Research">>, "n.md"),
          File(<<"drafts">>, "n.md"), File(<<>>, "n.md"), File(<<>>, "picture.png")>>
Logs == {<<>>, <<[date |-> NoDate, paths |-> {<<"Research", "n.md">>}],
                 [date |-> 2, paths |-> {<<"Research", "n.md">>}],
                 [date |-> 1, paths |-> {<<"Research", "n.md">>, <<"Research", "deep", "n.md">>}]>>}
Trees == UNION {{[k \in DOMAIN ix |-> [Tree[ix[k]] EXCEPT !.text = t[k]]] : t \in [DOMAIN ix -> Texts]} :
                   ix \in {<<>>} \union {<<i>> : i \in DOMAIN Tree}
                            \union {ij \in (DOMAIN Tree) \X (DOMAIN Tree) : ij[1] < ij[2]}}

(* "drafts" is excluded as an area's folder, and a folder of the root by another path. *)
Vault(entries, log, fails) ==
    [entries |-> entries, log |-> log, fails |-> fails, areas |-> {"research"},
     folders |-> {<<"research", "Drafts">>, <<>>}, rootFiles |-> {"readme.md"}]
Other(fails) == Vault(<<File(<<"Research">>, "other.md")>>, <<>>, fails)

MCSelected == <<{Other("none"), Other("walk")},
                {Vault(entries, log, "none") : entries \in Trees, log \in Logs} \union {Other("git")}>>

-----------------------------------------------------------------------------
Isolate ==
    /\ tool = "isolation" /\ output = <<>>
    /\ \/ \E b \in I!Builds : input' = [search |-> b] /\ output' = <<I!SearchSuite(b)>>
       \/ \E w \in I!WriteBuilds : input' = [write |-> w] /\ output' = <<I!WritePathTenantCase(w)>>

(* What a build must do of any query, and a run of any tenant after any others. *)
Isolates(b) ==
    \A c \in I!Collections, t \in I!Tenants \union {"ALFA", I!NoTenant}, private, archived, injects \in BOOLEAN :
        LET a == I!Search(b, [I!Query(c, t) EXCEPT !.private = private, !.archived = archived,
                                                   !.injects = injects])
        IN  /\ a.refused <=> t = I!NoTenant
            /\ a.results = IF a.refused THEN {}
                           ELSE {p \in I!Fixture : /\ p.collection = c /\ p.tenant = t
                                                   /\ "private" \in p.flags => private
                                                   /\ "archived" \in p.flags => archived}
            /\ \A r \in a.requests : [field |-> "tenant", value |-> t] \in r.filter.must \intersect r.leg.must
WritesApart(w) ==
    /\ I!Ingest(w, I!NoTenant) = <<>>
    /\ \A n \in [I!Tenants -> 0 .. 2], t \in I!Tenants :
          LET store == [u \in I!Tenants |-> [at : 0 .. n[u] - 1, of : {u}]]
          IN  I!After(w, t, store) = [store EXCEPT ![t] = [at : {0}, of : {t}]]

(* The suite passes a build only if no query of it, and no run, crosses a tenant
   or an exclusion, and it fails no build that keeps them: a case that holds
   over an answer that is empty, or looks at one end of a request, would. *)
SuiteIsSharp ==
    tool = "isolation" /\ output # <<>> =>
        /\ output[1] <=> IF "search" \in DOMAIN input THEN Isolates(input.search)
                         ELSE WritesApart(input.write)
        /\ input \in {[search |-> I!Faithful], [write |-> I!FaithfulWrites]} => output[1]

-----------------------------------------------------------------------------
Init ==
    /\ tool \in {"chunker", "configuration", "vault", "isolation", "scroll", "eval", "golden", "operations"}
    /\ input = <<>> /\ output = <<>>
    /\ GoldenInit /\ file.entries \subseteq {Entry(c1, Owner)}
    /\ tool # "golden" => file.keys = 0
    /\ ChunkerInit /\ (tool # "chunker" => Validate(sizes))
    /\ ConfigInit /\ VaultInit
    /\ EvalInit
    /\ ScrollInit
    /\ tool # "scroll" => held = {} /\ server = "honest"
    /\ OpsInit
    /\ tool # "operations" => ~drifted /\ Points(disk) = Cardinality(Notes)

(* Another input. *)
Again == output # <<>> /\ input' = <<>> /\ output' = <<>>

Next ==
    \/ (Isolate \/ Again)
         /\ UNCHANGED <<tool, chunkerVars, configVars, vaultVars, scrollVars, evalVars, goldenVars, opsVars>>
    \/ tool = "chunker" /\ ChunkerNext
         /\ UNCHANGED <<offlineVars, configVars, vaultVars, scrollVars, evalVars, goldenVars, opsVars>>
    \/ tool = "configuration" /\ ConfigNext
         /\ UNCHANGED <<offlineVars, chunkerVars, vaultVars, scrollVars, evalVars, goldenVars, opsVars>>
    \/ tool = "vault" /\ VaultNext
         /\ UNCHANGED <<offlineVars, chunkerVars, configVars, scrollVars, evalVars, goldenVars, opsVars>>
    \/ tool = "scroll" /\ ScrollNext
         /\ UNCHANGED <<offlineVars, chunkerVars, configVars, vaultVars, evalVars, goldenVars, opsVars>>
    \/ tool = "eval" /\ EvalNext
         /\ UNCHANGED <<offlineVars, chunkerVars, configVars, vaultVars, scrollVars, goldenVars, opsVars>>
    \/ tool = "golden" /\ GoldenNext
         /\ UNCHANGED <<offlineVars, chunkerVars, configVars, vaultVars, scrollVars, evalVars, opsVars>>
    \/ tool = "operations" /\ OpsNext
         /\ UNCHANGED <<offlineVars, chunkerVars, configVars, vaultVars, scrollVars, evalVars, goldenVars>>

Spec == Init /\ [][Next]_vars /\ (tool = "operations" => OpsFairness)
=============================================================================
