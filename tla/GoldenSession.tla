--------------------------- MODULE GoldenSession ----------------------------
(***************************************************************************)
(* Writing the golden set (internal/goldenauthor, internal/goldenset):     *)
(* sessions that draw a note of the area that needs questions most, ask    *)
(* for one, and append it to a YAML file that other sessions and the owner *)
(* write as well.  An appended entry is the file read, the bytes computed  *)
(* from what was read, and one write at the end of what is there by then.  *)
(***************************************************************************)
EXTENDS Naturals, FiniteSets

CONSTANTS Sessions, Owner,          \* who writes
          Cards, Areas, AreaOf,     \* the scanned notes and their areas
          MinOf, MaxOf,             \* the coverage table, per area; no maximum is 0
          MaxTotal,                 \* of the whole set; no maximum is 0
          MaxKills                  \* bound: sessions killed inside a write

(* CoverageTable.Validate: a table with groups that bounds the total, from below
   where it has no maximum. *)
GoldenAssumption ==
    /\ Owner \notin Sessions /\ Areas # {} /\ IsFiniteSet(Cards) /\ AreaOf \in [Cards -> Areas]
    /\ MinOf \in [Areas -> Nat] /\ MaxOf \in [Areas -> Nat]
    /\ MaxTotal \in Nat /\ MaxKills \in Nat
ASSUME GoldenAssumption

VARIABLES file,      \* [keys, last, torn, entries]: how often `questions:` stands in it, whether
                     \* it is the last key, an entry cut in its middle, and the entries
          pc,        \* where each session is
          known,     \* the questions of its set, as opened and as saved since
          opened,    \* history: that set as it was opened
          asked,     \* the notes it will not draw again
          block,     \* the bytes it is about to append
          kills

goldenVars == <<file, pc, known, opened, asked, block, kills>>

Entry(card, s) == [uid |-> card, by |-> s]
NoBlock == [card |-> Owner, key |-> FALSE]

(* yaml.v3 refuses a key that occurs twice, and an entry without all of its fields. *)
Decodes(f) == f.keys <= 1 /\ ~f.torn

GoldenInit ==
    /\ \E k \in 0 .. 1, last \in BOOLEAN, cards \in SUBSET Cards :
        /\ cards # {} => k = 1
        /\ file = [keys |-> k, last |-> last \/ k = 0, torn |-> FALSE,
                   entries |-> {Entry(c, Owner) : c \in cards}]
    /\ pc = [s \in Sessions |-> "closed"]
    /\ known = [s \in Sessions |-> {}] /\ opened = known
    /\ asked = [s \in Sessions |-> {}]
    /\ block = [s \in Sessions |-> NoBlock]
    /\ kills = 0

-----------------------------------------------------------------------------
Have(area, questions) == Cardinality({q \in questions : AreaOf[q.uid] = area})
Needs(area, questions) ==
    IF MinOf[area] > Have(area, questions) THEN MinOf[area] - Have(area, questions) ELSE 0
Full(area, questions) == MaxOf[area] > 0 /\ Have(area, questions) >= MaxOf[area]

(* By what an area has, whatever its minimum. *)
LeastFirst(a, b, questions) == Have(a, questions) <= Have(b, questions)

(* The order of the status; areas that are even are sorted by name, which is left open. *)
Before(a, b, questions) ==
    \/ Needs(a, questions) > Needs(b, questions)
    \/ Needs(a, questions) = Needs(b, questions) /\ Have(a, questions) <= Have(b, questions)

Candidates(s, area) == {c \in Cards : AreaOf[c] = area /\ c \notin asked[s]}
OpenAreas(s) == {a \in Areas : ~Full(a, known[s]) /\ Candidates(s, a) # {}}
DrawNote(s) == UNION {Candidates(s, a) : a \in {a \in OpenAreas(s) :
                        \A b \in OpenAreas(s) : Before(a, b, known[s])}}

SetIsFull(s) == MaxTotal > 0 /\ Cardinality(known[s]) >= MaxTotal

Goes(s, from, to) == pc[s] = from /\ pc' = [pc EXCEPT ![s] = to]

(* Run: a terminal, a set that reads, an author; then the scan. *)
OpenSet(s) ==
    /\ pc[s] = "closed" /\ Decodes(file)
    /\ pc' = [pc EXCEPT ![s] = "drawing"]
    /\ known' = [known EXCEPT ![s] = file.entries]
    /\ opened' = [opened EXCEPT ![s] = file.entries]
    /\ asked' = [asked EXCEPT ![s] = {q.uid : q \in file.entries}]
    /\ UNCHANGED <<file, block, kills>>

(* A note is offered once, whatever the answer. *)
Draw(s) ==
    /\ ~SetIsFull(s) /\ Goes(s, "drawing", "asking")
    /\ \E c \in DrawNote(s) :
        /\ asked' = [asked EXCEPT ![s] = @ \union {c}]
        /\ block' = [block EXCEPT ![s].card = c]
    /\ UNCHANGED <<file, known, opened, kills>>

Finish(s) ==
    /\ SetIsFull(s) \/ OpenAreas(s) = {}
    /\ Goes(s, "drawing", "done")
    /\ UNCHANGED <<file, known, opened, asked, block, kills>>

(* An empty line skips the note; "q" or the end of the input ends the session. *)
Skip(s) == Goes(s, "asking", "drawing") /\ UNCHANGED <<file, known, opened, asked, block, kills>>
Quit(s) == Goes(s, "asking", "quit") /\ UNCHANGED <<file, known, opened, asked, block, kills>>

(* AppendQuestion up to its write: the file as it is now, and the bytes that fit it. *)
Answer(s) ==
    /\ pc[s] = "asking"
    /\ IF Decodes(file) /\ (file.keys = 1 => file.last)
       THEN /\ pc' = [pc EXCEPT ![s] = "writing"]
            /\ block' = [block EXCEPT ![s].key = (file.keys = 0)]
       ELSE pc' = [pc EXCEPT ![s] = "refused"] /\ UNCHANGED block
    /\ UNCHANGED <<file, known, opened, asked, kills>>

(* The whole set as this session knows it, in the place of the file. *)
Republished(s) ==
    [file EXCEPT !.keys = 1, !.entries = known[s] \union {Entry(block[s].card, s)}]

(* The bytes at the end of whatever the file holds by now. *)
Appended(s) ==
    [file EXCEPT !.keys = @ + IF block[s].key THEN 1 ELSE 0,
                 !.entries = @ \union {Entry(block[s].card, s)}]

Write(s) ==
    /\ Goes(s, "writing", "drawing") /\ file' = Appended(s)
    /\ known' = [known EXCEPT ![s] = @ \union {Entry(block[s].card, s)}]
    /\ UNCHANGED <<opened, asked, block, kills>>

(* A kill inside the write leaves nothing, all of it, or an entry cut in its middle. *)
KilledInWrite(s) ==
    /\ kills < MaxKills /\ kills' = kills + 1 /\ Goes(s, "writing", "killed")
    /\ \/ UNCHANGED file
       \/ file' = Appended(s)
       \/ file' = [file EXCEPT !.torn = TRUE, !.keys = Appended(s).keys]
    /\ UNCHANGED <<known, opened, asked, block>>

(* The repair by hand: the cut lines deleted, the keys joined, the list moved to the end. *)
Repair ==
    /\ ~Decodes(file) \/ ~file.last
    /\ file' = [file EXCEPT !.torn = FALSE, !.keys = IF @ > 1 THEN 1 ELSE @, !.last = TRUE]
    /\ UNCHANGED <<pc, known, opened, asked, block, kills>>

(* A session that ended is followed by another. *)
Leave(s) ==
    /\ pc[s] \in {"quit", "refused", "done", "killed"} /\ pc' = [pc EXCEPT ![s] = "closed"]
    /\ known' = [known EXCEPT ![s] = {}] /\ opened' = [opened EXCEPT ![s] = {}]
    /\ asked' = [asked EXCEPT ![s] = {}]
    /\ block' = [block EXCEPT ![s] = NoBlock] /\ UNCHANGED <<file, kills>>

GoldenNext ==
    \/ \E s \in Sessions : \/ OpenSet(s) \/ Draw(s) \/ Finish(s) \/ Skip(s) \/ Quit(s)
                           \/ Answer(s) \/ Write(s) \/ KilledInWrite(s) \/ Leave(s)
    \/ Repair

GoldenSpec == GoldenInit /\ [][GoldenNext]_goldenVars

-----------------------------------------------------------------------------
(* A question a session was told is saved stays in the file, whichever other
   sessions append, are killed in their writes, or find the file broken. *)
SavedStaysSaved == [][/\ file.entries \subseteq file'.entries
                      /\ \A s \in Sessions : known'[s] \subseteq file'.entries]_goldenVars

(* While an area is below its minimum and has a note to offer, a session takes
   no other area beyond its own minimum; and none beyond its maximum. *)
NeediestFirst ==
    \A s \in Sessions, b \in Areas :
        LET own == Have(b, known[s]) - Have(b, opened[s])
        IN  /\ own > 0 /\ MaxOf[b] > 0 => Have(b, known[s]) <= MaxOf[b]
            /\ own > 0 /\ Have(b, known[s]) > MinOf[b] =>
                 \A a \in Areas : Needs(a, known[s]) > 0 /\ ~Full(a, known[s])
                                    => Candidates(s, a) = {}

(* "O_APPEND of only the new bytes is what makes concurrent appends safe by
   construction" (authoring.go): without a kill, the file always reads. *)
ConcurrentAppendsAreSafe == kills = 0 => Decodes(file)
=============================================================================
