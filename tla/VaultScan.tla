----------------------------- MODULE VaultScan ------------------------------
(***************************************************************************)
(* Reading the vaults of a run (internal/vault), one after another, and    *)
(* joining their scans (Orchestrate in internal/ingest/batch.go): the walk *)
(* over a tree with its exclusions, the frontmatter, the area, the date    *)
(* git knows.  A scan is all of a vault or an error that names every file  *)
(* that offends.                                                           *)
(*                                                                         *)
(* A vault is [entries, log, fails, areas, folders, rootFiles]: its files  *)
(* in the order of WalkDir, each [folders, name, link, text]; its commits  *)
(* from the newest, each [date, paths], and none outside of a repository;  *)
(* what fails as a whole, "walk", "git" or "none"; and its settings.       *)
(***************************************************************************)
EXTENDS Naturals, Sequences, FiniteSets

CONSTANTS Selected,             \* per vault of the run, in their order, what a scan may find
          Folded,               \* foldName, on the names that are not folded
          Dotted, Markdown      \* names that start with a dot, that end in .md

NoDate == 0                     \* of a header that does not parse, or the file's own
NoSub  == ""

(* parseFrontmatter, of a text [head, faults, uid]: the checks in their order,
   each of a field and of what is the matter with it. *)
Each(fields, fault) == [k \in DOMAIN fields |-> <<fields[k], fault>>]
Checks == Each(<<"uid", "type", "status", "created", "tags", "title", "lang", "visibility">>, "shapeless")
            \o Each(<<"uid", "type", "status", "created", "tags">>, "absent")
            \o Each(<<"uid", "created", "type", "status", "visibility">>, "wrong")

ASSUME VaultAssumption ==
    /\ Len(Selected) \in Nat /\ DOMAIN Selected = 1 .. Len(Selected)
    /\ \A name \in DOMAIN Folded : Folded[name] \in STRING
    /\ \A k \in DOMAIN Selected : \A v \in Selected[k] :
        /\ v.entries \in Seq([folders : Seq(STRING), name : STRING, link : BOOLEAN,
                              text : {v.entries[i].text : i \in DOMAIN v.entries}])
        /\ \A i \in DOMAIN v.entries : \A f \in DOMAIN v.entries[i].text.faults :
              \E c \in DOMAIN Checks : Checks[c] = <<f, v.entries[i].text.faults[f]>>
        /\ v.log \in Seq([date : Nat, paths : SUBSET Seq(STRING)])
        /\ v.areas \subseteq STRING /\ v.folders \subseteq Seq(STRING)

-----------------------------------------------------------------------------
(* walkVault.  The dot rule is for folders; a link is refused whatever it is named. *)
FoldName(name) == IF name \in DOMAIN Folded THEN Folded[name] ELSE name
FoldPath(path) == [k \in DOMAIN path |-> FoldName(path[k])]
FolderSet(paths) == {FoldPath(p) : p \in paths \ {<<>>}}

SkipDir(v, e) == \E k \in DOMAIN e.folders :
                    \/ e.folders[k] \in Dotted
                    \/ FoldPath(SubSeq(e.folders, 1, k)) \in FolderSet(v.folders)
IsFirstLevel(e) == e.folders = <<>>
PassedOver(v, e) ==
    \/ e.name \notin Markdown
    \/ IsFirstLevel(e) /\ FoldName(e.name) \in {FoldName(name) : name \in v.rootFiles}

(* The checks that find something, and the field of the first of them. *)
Findings(text) == {c \in DOMAIN Checks : /\ Checks[c][1] \in DOMAIN text.faults
                                       /\ Checks[c][2] = text.faults[Checks[c][1]]}
ParseFrontmatter(text) ==
    CASE text.head # "block" -> <<"---">>
      [] text.head = "block" /\ Findings(text) # {} ->
            <<Checks[CHOOSE c \in Findings(text) : \A d \in Findings(text) : c <= d][1]>>
      [] text.head = "block" /\ Findings(text) = {} -> <<>>

(* The folder as the file system spells it, in lower case, among the areas. *)
DeriveArea(v, e) == IF e.folders # <<>> /\ FoldName(e.folders[1]) \in v.areas
                    THEN <<FoldName(e.folders[1])>> ELSE <<>>
DeriveSub(e) == IF Len(e.folders) > 1 THEN e.folders[2] ELSE NoSub

(* The first date seen for a path is the one that counts. *)
AddCommit(dates, c) ==
    IF c.date = NoDate THEN dates
    ELSE [p \in DOMAIN dates \union c.paths |-> IF p \in DOMAIN dates THEN dates[p] ELSE c.date]

GitUpdatedMap(log) ==
    LET dates[k \in 0 .. Len(log)] == IF k = 0 THEN <<>> ELSE AddCommit(dates[k - 1], log[k])
    IN  dates[Len(log)]

ResolveUpdated(path, dates) == IF path \in DOMAIN dates THEN dates[path] ELSE NoDate

-----------------------------------------------------------------------------
PathOf(e) == e.folders \o <<e.name>>
Nothing == [notes |-> <<>>, skipped |-> <<>>, failures |-> <<>>]

Fail(r, path, why) == [r EXCEPT !.failures = Append(@, [path |-> path, why |-> why])]
SeenUID(r, uid) == \E k \in DOMAIN r.notes : r.notes[k].uid = uid

(* One entry, after those before it. *)
ReadEntry(v, dates, r, e) ==
    CASE SkipDir(v, e) -> r
      [] ~SkipDir(v, e) /\ e.link -> Fail(r, PathOf(e), <<"link">>)
      [] ~SkipDir(v, e) /\ ~e.link /\ PassedOver(v, e) -> r
      [] ~SkipDir(v, e) /\ ~e.link /\ ~PassedOver(v, e) ->
           IF e.text.head = "unreadable" THEN Fail(r, PathOf(e), <<"reading">>)
           ELSE IF e.text.head = "empty" THEN [r EXCEPT !.skipped = Append(@, PathOf(e))]
           ELSE IF ParseFrontmatter(e.text) # <<>> THEN Fail(r, PathOf(e), ParseFrontmatter(e.text))
           ELSE IF DeriveArea(v, e) = <<>> THEN Fail(r, PathOf(e), <<"area">>)
           ELSE IF SeenUID(r, e.text.uid) THEN Fail(r, PathOf(e), <<"duplicate">>)
           ELSE [r EXCEPT !.notes =
                    Append(@, [path |-> PathOf(e), uid |-> e.text.uid,
                               area |-> DeriveArea(v, e)[1], sub |-> DeriveSub(e),
                               updated |-> ResolveUpdated(PathOf(e), dates)])]

(* Reads no further than the first file that fails. *)
ReadsToTheFirst(v, dates, r, e) == IF r.failures # <<>> THEN r ELSE ReadEntry(v, dates, r, e)
Read(v, dates, r, e) == ReadEntry(v, dates, r, e)

ScanVault(v) ==
    LET dates == GitUpdatedMap(v.log)
        read[k \in 0 .. Len(v.entries)] ==
            IF k = 0 THEN Nothing ELSE Read(v, dates, read[k - 1], v.entries[k])
        all == read[Len(v.entries)]
    IN  IF v.fails # "none" THEN Fail(Nothing, <<>>, <<v.fails>>)
        ELSE IF all.failures # <<>> THEN [Nothing EXCEPT !.failures = all.failures]
        ELSE all

CheckCrossVaultDuplicateUIDs(a, b) == \E k \in DOMAIN b.notes : SeenUID(a, b.notes[k].uid)

Flatten(scans) ==
    LET flat[k \in 0 .. Len(scans)] == IF k = 0 THEN <<>> ELSE flat[k - 1] \o scans[k].notes
    IN  flat[Len(scans)]

-----------------------------------------------------------------------------
VARIABLES found,        \* the vaults the run has read, each as it was
          scans,        \* what their scans gave, the error of the last among them
          stage,
          batch         \* the notes the run goes on with

vaultVars == <<found, scans, stage, batch>>

VaultInit == found = <<>> /\ scans = <<>> /\ stage = "scanning" /\ batch = <<>>

(* scanVaults: no vault is read after one that fails. *)
ScanNext ==
    /\ stage = "scanning" /\ Len(scans) < Len(Selected)
    /\ \E v \in Selected[Len(scans) + 1] :
        /\ found' = Append(found, v)
        /\ scans' = Append(scans, ScanVault(v))
        /\ stage' = IF ScanVault(v).failures = <<>> THEN "scanning" ELSE "failed"
    /\ UNCHANGED batch

(* A run stops before it writes on a uid that two of its vaults hold. *)
Orchestrate ==
    /\ stage = "scanning" /\ Len(scans) = Len(Selected)
    /\ IF \E i, j \in DOMAIN scans : i < j /\ CheckCrossVaultDuplicateUIDs(scans[i], scans[j])
       THEN stage' = "refused" /\ UNCHANGED batch
       ELSE stage' = "running" /\ batch' = Flatten(scans)
    /\ UNCHANGED <<found, scans>>

(* The next run begins anew. *)
NextRun ==
    /\ stage # "scanning"
    /\ found' = <<>> /\ scans' = <<>> /\ stage' = "scanning" /\ batch' = <<>>

VaultNext == ScanNext \/ Orchestrate \/ NextRun

VaultSpec == VaultInit /\ [][VaultNext]_vaultVars

-----------------------------------------------------------------------------
(* Whether a scan has anything to do with a file, and what its fate should be:
   no folder over it is hidden or spelled like an excluded one. *)
SpelledLike(p, q) == \A k \in DOMAIN p : FoldName(p[k]) = FoldName(q[k])

Walked(v, e) ==
    /\ \A k \in DOMAIN e.folders : e.folders[k] \notin Dotted
    /\ \A p \in v.folders : p # <<>> /\ Len(p) <= Len(e.folders) => ~SpelledLike(p, e.folders)
    /\ ~e.link => /\ e.name \in Markdown
                  /\ e.folders = <<>> => \A name \in v.rootFiles : FoldName(name) # FoldName(e.name)

Formed(v, e) == /\ ~e.link /\ e.text.head = "block" /\ DOMAIN e.text.faults = {}
                /\ e.folders # <<>> /\ FoldName(e.folders[1]) \in v.areas

Repeats(v, i) ==
    /\ Formed(v, v.entries[i])
    /\ \E j \in 1 .. i - 1 : /\ Walked(v, v.entries[j]) /\ Formed(v, v.entries[j])
                             /\ v.entries[j].text.uid = v.entries[i].text.uid
Offend(v) == {i \in DOMAIN v.entries :
                 LET e == v.entries[i]
                 IN  /\ Walked(v, e) /\ (e.link \/ e.text.head # "empty")
                     /\ ~Formed(v, e) \/ Repeats(v, i)}

(* The newest commit whose date can be read and which names the path dates it. *)
IsDated(path, date, log) ==
    LET naming == {c \in DOMAIN log : log[c].date # NoDate /\ path \in log[c].paths}
    IN  IF naming = {} THEN date = NoDate
        ELSE \E c \in naming : date = log[c].date /\ \A d \in naming : c <= d

PathsIn(seq) == {seq[k].path : k \in DOMAIN seq}

IsWholeOrNamesEvery(v, r) ==
    /\ v.fails # "none" => r.failures # <<>>
    /\ r.failures # <<>> => r.notes = <<>> /\ r.skipped = <<>>
    /\ v.fails = "none" =>
        /\ PathsIn(r.failures) = {PathOf(v.entries[i]) : i \in Offend(v)}
        /\ Len(r.failures) = Cardinality(Offend(v))
        /\ Offend(v) = {} =>
            /\ PathsIn(r.notes) \union {r.skipped[k] : k \in DOMAIN r.skipped}
                 = {PathOf(v.entries[i]) : i \in {i \in DOMAIN v.entries : Walked(v, v.entries[i])}}
            /\ \A k \in DOMAIN r.notes : IsDated(r.notes[k].path, r.notes[k].updated, v.log)

(* A scan answers with a whole vault or with every file that offends: each file
   the walk is for is a note, a skipped empty file, or is named once in the
   error; of two notes with one uid the first in the walk is the one kept; an
   accepted note has the date of the newest commit that names it.  A run goes
   on with all the notes of all its vaults, each under a uid of its own, or
   with none, and then a vault has failed or a uid is in two of them. *)
EveryFileHasOneFate ==
    /\ \A k \in DOMAIN scans : IsWholeOrNamesEvery(found[k], scans[k])
    /\ \A j, k \in DOMAIN batch : batch[j].uid = batch[k].uid => j = k
    /\ stage = "running" =>
        /\ Len(scans) = Len(Selected) /\ \A k \in DOMAIN scans : scans[k].failures = <<>>
        /\ {batch[k] : k \in DOMAIN batch}
             = UNION {{scans[s].notes[k] : k \in DOMAIN scans[s].notes} : s \in DOMAIN scans}
    /\ stage # "running" => batch = <<>>
    /\ stage = "failed" => scans[Len(scans)].failures # <<>>
    /\ stage = "refused" =>
        \E i, j \in DOMAIN scans : i # j /\ \E a \in DOMAIN scans[i].notes, b \in DOMAIN scans[j].notes :
                                                scans[i].notes[a].uid = scans[j].notes[b].uid
=============================================================================
