------------------------------ MODULE Chunker -------------------------------
(***************************************************************************)
(* How a note becomes chunks (internal/chunk).  A body is a sequence of    *)
(* lines and offsets are line numbers: fences and tables are found first,  *)
(* then the headings outside of them; a section per H2, cut at its H3s     *)
(* when it is over the ceiling; pieces below the floor are merged with     *)
(* what follows.  A line is                                                *)
(*   [kind, level, name, char, run, info, tokens]                          *)
(* and tokens are counted per line, one more for each heading put before a *)
(* chunk.  A piece is [crumb, from, to], its heading path and its lines.   *)
(***************************************************************************)
EXTENDS Integers, Sequences, FiniteSets

CONSTANTS HardTokenLimit, NoName,
          Lines,          \* what a line of a note may be
          Bodies,         \* the notes there are to be chunked
          Configs         \* the floors and ceilings a run may have

ASSUME ChunkerAssumption ==
    /\ HardTokenLimit \in Int
    /\ \A l \in Lines : l.tokens \in Nat
    /\ Bodies \subseteq Seq(Lines)
    /\ \A cfg \in Configs : cfg.floor \in Int /\ cfg.ceiling \in Int

NoCrumb == <<>>

InUnits(units, i) == \E u \in units : i \in u.from .. u.to

(* Any delimiter closes. *)
ClosesAnything(opening, line) == line.kind = "fence"

(* The same character, no shorter a run, and nothing after it. *)
Closes(opening, line) ==
    /\ line.kind = "fence" /\ line.char = opening.char
    /\ line.run >= opening.run /\ ~line.info

(* The fences once line i is read, with the line of the one that is open or 0. *)
ReadLine(body, s, i) ==
    IF s.open = 0
    THEN [s EXCEPT !.open = IF body[i].kind = "fence" THEN i ELSE 0]
    ELSE IF Closes(body[s.open], body[i])
    THEN [open |-> 0, spans |-> s.spans \union {[from |-> s.open, to |-> i]}]
    ELSE s

(* A fence that is never closed runs to the end. *)
ScanFences(body) ==
    LET scan[i \in 0 .. Len(body)] ==
            IF i = 0 THEN [open |-> 0, spans |-> {}] ELSE ReadLine(body, scan[i - 1], i)
        last == scan[Len(body)]
    IN  last.spans \union (IF last.open = 0 THEN {} ELSE {[from |-> last.open, to |-> Len(body)]})

IsTableRow(line) == line.kind \in {"row", "separator"}

(* The last of the rows from i on, a separator after it. *)
LastRow(body, fences, i) ==
    CHOOSE j \in i + 1 .. Len(body) :
        /\ \A k \in i + 2 .. j : IsTableRow(body[k]) /\ ~InUnits(fences, k)
        /\ j < Len(body) => ~IsTableRow(body[j + 1]) \/ InUnits(fences, j + 1)

(* A row and a separator, and the rows that follow, outside of the fences. *)
ReadRow(body, fences, tables, i) ==
    IF /\ i < Len(body) /\ IsTableRow(body[i]) /\ body[i + 1].kind = "separator"
       /\ ~InUnits(fences \union tables, i)
    THEN tables \union {[from |-> i, to |-> LastRow(body, fences, i)]}
    ELSE tables

ScanTables(body, fences) ==
    LET scan[i \in 0 .. Len(body)] ==
            IF i = 0 THEN {} ELSE ReadRow(body, fences, scan[i - 1], i)
    IN  scan[Len(body)]

(* The headings of three levels outside of the units, by their lines. *)
ScanHeadings(body, units) ==
    {i \in DOMAIN body : /\ body[i].kind = "heading" /\ body[i].level \in 1 .. 3
                         /\ ~InUnits(units, i)}

AtLevel(body, headings, level) == {h \in headings : body[h].level = level}

(* The last of a set of lines up to a line, the line before the next of them. *)
LastAt(lines, at) == CHOOSE h \in lines : h <= at /\ \A g \in lines : g <= at => g <= h
Until(lines, at, end) ==
    IF \E h \in lines : h > at
    THEN (CHOOSE h \in lines : h > at /\ \A g \in lines : g > at => h <= g) - 1 ELSE end

(* The H1, when it comes before any H2. *)
PreambleBreadcrumb(body, headings) ==
    LET first == {h \in AtLevel(body, headings, 1) :
                    \A g \in headings : body[g].level <= 2 => h <= g}
    IN  IF first = {} THEN NoCrumb ELSE <<body[CHOOSE h \in first : TRUE].name>>

NonEmpty(h1, h2) == CASE h1 = NoName /\ h2 = NoName -> NoCrumb
                      [] h1 # NoName /\ h2 = NoName -> <<h1>>
                      [] h1 = NoName /\ h2 # NoName -> <<h2>>
                      [] h1 # NoName /\ h2 # NoName -> <<h1, h2>>

BreadcrumbAt(body, headings, at) ==
    LET latest(level) ==
            LET hs == AtLevel(body, headings, level)
            IN  IF \E h \in hs : h <= at THEN body[LastAt(hs, at)].name ELSE NoName
    IN  NonEmpty(latest(1), latest(2))

(* A section per H2, and one for what comes before the first. *)
SplitSections(body, headings) ==
    LET h2s    == AtLevel(body, headings, 2)
        starts == h2s \union (IF body = <<>> THEN {} ELSE {1})
    IN  {[crumb |-> IF i \in h2s THEN BreadcrumbAt(body, headings, i)
                    ELSE PreambleBreadcrumb(body, headings),
          from |-> i, to |-> Until(starts, i, Len(body))] : i \in starts}

(* The children of a section, the lines before its first H3 among them. *)
SplitAtH3(body, headings, s) ==
    LET h3s    == {h \in AtLevel(body, headings, 3) : h \in s.from .. s.to}
        starts == IF h3s = {} THEN {} ELSE h3s \union {s.from}
    IN  {[crumb |-> IF i \in h3s THEN Append(s.crumb, body[i].name) ELSE s.crumb,
          from |-> i, to |-> Until(starts, i, s.to)] : i \in starts}

-----------------------------------------------------------------------------
Blank(body, p) == \A i \in p.from .. p.to : body[i].kind = "blank"

MeasureTokens(body, p) ==
    LET spent[i \in 0 .. Len(body)] == IF i = 0 THEN 0 ELSE spent[i - 1] + body[i].tokens
    IN  Len(p.crumb) + spent[p.to] - spent[p.from - 1]

(* A section as it is, unless it is over the ceiling and has children. *)
PiecesOf(body, headings, s, cfg) ==
    IF Blank(body, s) THEN {}
    ELSE LET children == SplitAtH3(body, headings, s)
         IN  IF MeasureTokens(body, s) <= cfg.ceiling \/ children = {}
             THEN {s} ELSE {c \in children : ~Blank(body, c)}

SplitOverCeiling(body, headings, cfg) ==
    UNION {PiecesOf(body, headings, s, cfg) : s \in SplitSections(body, headings)}

(* The breadcrumb of the first for both. *)
FirstBreadcrumb(a, b) == a

CommonBreadcrumbPrefix(a, b) ==
    LET common == {n \in 0 .. Len(a) : n <= Len(b) /\ \A k \in 1 .. n : a[k] = b[k]}
    IN  SubSeq(a, 1, CHOOSE n \in common : \A m \in common : m <= n)

Union(p, q) == [crumb |-> CommonBreadcrumbPrefix(p.crumb, q.crumb), from |-> p.from, to |-> q.to]

(* Merged whenever it is small. *)
AlwaysJoins(body, p, q, cfg) == MeasureTokens(body, p) < cfg.floor

(* Only what is below the floor takes in its successor, and never over the ceiling. *)
Joins(body, p, q, cfg) ==
    MeasureTokens(body, p) < cfg.floor /\ MeasureTokens(body, Union(p, q)) <= cfg.ceiling

(* A piece that was refused is not taken up again by an earlier one. *)
TakeUp(body, out, p, cfg) ==
    IF out # <<>> /\ Joins(body, out[Len(out)], p, cfg)
    THEN [out EXCEPT ![Len(out)] = Union(out[Len(out)], p)] ELSE Append(out, p)

(* The pieces in the order of their lines, no two of which are from the same one. *)
MergePieces(body, pieces, cfg) ==
    LET merged[i \in 0 .. Len(body)] ==
            IF i = 0 THEN <<>>
            ELSE IF \E p \in pieces : p.from = i
            THEN TakeUp(body, merged[i - 1], CHOOSE p \in pieces : p.from = i, cfg)
            ELSE merged[i - 1]
    IN  merged[Len(body)]

Validate(cfg) == 0 < cfg.floor /\ cfg.floor <= cfg.ceiling /\ cfg.ceiling <= HardTokenLimit

Failed(reason) == [error |-> reason, chunks |-> <<>>]

Units(body) == LET fences == ScanFences(body) IN fences \union ScanTables(body, fences)

(* What the merge is given: the sections and the children in their stead. *)
Parts(body, cfg) == SplitOverCeiling(body, ScanHeadings(body, Units(body)), cfg)

(* Over the ceiling is a mark on the chunk, over the model's window fails the note. *)
ChunkNote(body, cfg) ==
    LET pieces    == MergePieces(body, Parts(body, cfg), cfg)
        tokens(i) == MeasureTokens(body, pieces[i])
    IN  IF ~Validate(cfg) THEN Failed("config")
        ELSE IF \E i \in DOMAIN pieces : tokens(i) > HardTokenLimit THEN Failed("hardLimit")
        ELSE [error  |-> "none",
              chunks |-> [i \in DOMAIN pieces |->
                             [piece |-> pieces[i], oversize |-> tokens(i) > cfg.ceiling]]]

-----------------------------------------------------------------------------
VARIABLES noteBody,       \* the note at hand
          sizes,          \* the configuration of the run
          outcome         \* what it was chunked into

chunkerVars == <<noteBody, sizes, outcome>>

Unchunked == Failed("unchunked")

ChunkerInit == noteBody = <<>> /\ sizes \in Configs /\ outcome = Unchunked

(* A note of the run is chunked, and then the next one. *)
Chunk ==
    /\ outcome = Unchunked
    /\ noteBody' \in Bodies
    /\ outcome' = ChunkNote(noteBody', sizes)
    /\ UNCHANGED sizes

NextNote ==
    /\ outcome # Unchunked
    /\ noteBody' = <<>> /\ outcome' = Unchunked
    /\ UNCHANGED sizes

ChunkerNext == Chunk \/ NextNote

ChunkerSpec == ChunkerInit /\ [][ChunkerNext]_chunkerVars

-----------------------------------------------------------------------------
(* What a note's chunks are held against, line by line. *)
Pieces     == [c \in DOMAIN outcome.chunks |-> outcome.chunks[c].piece]
Chunked(i) == {c \in DOMAIN Pieces : i \in Pieces[c].from .. Pieces[c].to}

(* A fence ends at the first line that can close it, and no delimiter is outside of one. *)
AreFences(body, units) ==
    /\ \A i \in DOMAIN body : body[i].kind = "fence" => InUnits(units, i)
    /\ \A u, v \in units : u = v \/ u.to < v.from \/ v.to < u.from
    /\ \A u \in units :
        LET open     == body[u.from]
            closing  == {i \in u.from + 1 .. Len(body) :
                            /\ body[i].kind = "fence" /\ body[i].char = open.char
                            /\ body[i].run >= open.run /\ ~body[i].info}
        IN  /\ open.kind = "fence"
            /\ closing = {} => u.to = Len(body)
            /\ closing # {} => u.to \in closing /\ \A i \in closing : u.to <= i

Headings(body, levels) ==
    {i \in DOMAIN body : /\ body[i].kind = "heading" /\ body[i].level \in levels
                         /\ ~InUnits(Units(body), i)}

(* The headings a line stands under: a heading ends at the next one of its level or above. *)
HeadingsOver(body, i) ==
    {h \in Headings(body, 1 .. 3) :
        h <= i /\ \A g \in Headings(body, 1 .. body[h].level) : g <= h \/ i < g}

(* The lines between the same two H2s. *)
SectionOf(body, i) == {j \in DOMAIN body : \A h \in Headings(body, {2}) : h <= i <=> h <= j}

(* A section ends at an H2 alone, so an H1 within it ends nothing: a heading over one
   of its lines names the others too, up to the next H2 or H3 that would end it. *)
StandsOver(body, i, name) ==
    \E j \in SectionOf(body, i) : \E h \in HeadingsOver(body, j) :
        /\ body[h].name = name
        /\ \A g \in Headings(body, 2 .. body[h].level) : g \notin (i + 1 .. j) \union (j + 1 .. i)

(* Chunking loses no line and tears no fenced block and no table: every line
   that is not blank is in exactly one chunk, chunks are in order, and the
   lines of one unit are together; a fence ends where Markdown ends it. *)
NothingLostOrTorn ==
    outcome.error = "none" =>
        /\ AreFences(noteBody, ScanFences(noteBody))
        /\ \A c, d \in DOMAIN Pieces : c < d => Pieces[c].to < Pieces[d].from
        /\ \A i \in DOMAIN noteBody : noteBody[i].kind # "blank" => Cardinality(Chunked(i)) = 1
        /\ \A u \in Units(noteBody), i \in DOMAIN noteBody :
              i \in u.from .. u.to => Chunked(i) = Chunked(u.from)

(* A chunk is over the ceiling only where no heading could have cut it, and
   below the floor only where taking in the piece that follows would have put
   it over. *)
CutsAreForced ==
    outcome.error = "none" =>
        \A c \in DOMAIN Pieces :
            LET p == Pieces[c]
                n == MeasureTokens(noteBody, p)
            IN  /\ n <= HardTokenLimit
                /\ outcome.chunks[c].oversize <=> n > sizes.ceiling
                /\ n > sizes.ceiling
                     => Headings(noteBody, {2, 3}) \intersect (p.from + 1 .. p.to) = {}
                /\ c < Len(Pieces) /\ n < sizes.floor
                     => \E q \in Parts(noteBody, sizes) :
                            /\ q.from = Pieces[c + 1].from
                            /\ MeasureTokens(noteBody, Union(p, q)) > sizes.ceiling

(* Every name in the breadcrumb of a chunk stands over each of its lines: a
   merged chunk claims no heading that only some of its lines are under. An H1
   in the middle of a section does not take over there, although the comment of
   breadcrumbAt says it does. *)
BreadcrumbsAreTrue ==
    outcome.error = "none" =>
        \A c \in DOMAIN Pieces :
            LET p == Pieces[c]
            IN  \A i \in p.from .. p.to, k \in DOMAIN p.crumb :
                    noteBody[i].kind # "blank" => StandsOver(noteBody, i, p.crumb[k])
=============================================================================
