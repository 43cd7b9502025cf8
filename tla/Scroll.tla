------------------------------- MODULE Scroll -------------------------------
(***************************************************************************)
(* The paged reads of internal/store/points.go: ScrollByUID, ScrollTenant  *)
(* and Stats ask for one page after another, from the offset the last page *)
(* named, while points are written and deleted, of a server that may not   *)
(* keep its word about the offset.                                         *)
(***************************************************************************)
EXTENDS Naturals, FiniteSets

CONSTANTS Ids,          \* point ids, in the order in which the server pages
          OfAsked,      \* the ids of the note ScrollByUID asks for
          Alien,        \* an id written by something else, with no uid
          PageSize,
          MaxWrites     \* bound: points written or deleted

ScrollAssumption ==
    /\ Ids \subseteq Nat \ {0} /\ OfAsked \subseteq Ids /\ Alien \in Ids \ OfAsked
    /\ PageSize \in Nat \ {0} /\ MaxWrites \in Nat
ASSUME ScrollAssumption

NoOffset == 0

VARIABLES held,      \* the points of the collection
          server,    \* "honest", "stuck" (names the offset it was asked from), or
                     \* "hollow" (at times an empty page that names an offset)
          scroll,    \* the read: what it asks for, how far it is, what it has
          whole,     \* history: [throughout, ever], the points held all along and at some time
          writes

scrollVars == <<held, server, scroll, whole, writes>>

Idle == [of |-> "nothing", phase |-> "idle", offset |-> NoOffset, got |-> {}, twice |-> {}]

ScrollInit ==
    /\ held \in SUBSET Ids /\ server \in {"honest", "stuck", "hollow"}
    /\ scroll = Idle /\ whole = [throughout |-> {}, ever |-> {}] /\ writes = 0

-----------------------------------------------------------------------------
(* The filter of each read; Stats of every tenant has none. *)
Filter(of) == IF of = "uid" THEN OfAsked ELSE Ids

Ahead(s)  == {i \in held \intersect Filter(s.of) : i >= s.offset}
Page(s)   == {i \in Ahead(s) : Cardinality({j \in Ahead(s) : j < i}) < PageSize}
NextId(s) == IF Ahead(s) = Page(s) THEN NoOffset
             ELSE CHOOSE i \in Ahead(s) \ Page(s) : \A j \in Ahead(s) \ Page(s) : i <= j

(* What the server may answer, by its kind. *)
Answers(s) ==
    {[page |-> Page(s), next |-> IF server = "stuck" /\ s.offset # NoOffset
                                 THEN s.offset ELSE NextId(s)]}
      \union IF server = "hollow" THEN {[page |-> {}, next |-> i] : i \in Ids} ELSE {}

(* Only an absent offset ends a read in silence. *)
EndsOnEmptyPage(s, answer) == answer.next = NoOffset \/ answer.page = {}
PageDone(s, answer) == answer.next = NoOffset

(* An empty page that names an offset, or the offset it was asked from. *)
RefusesEmptyOnly(s, answer) == ~PageDone(s, answer) /\ answer.page = {}
Refused(s, answer) ==
    /\ ~PageDone(s, answer)
    /\ \/ answer.page = {}
       \/ s.offset # NoOffset /\ answer.next = s.offset

(* A point whose uid cannot be read; the filter on a uid never returns one. *)
Unreadable(answer) == Alien \in answer.page

StartScroll ==
    /\ scroll.phase # "reading"
    /\ \E of \in {"uid", "tenant", "stats"} :
          scroll' = [Idle EXCEPT !.of = of, !.phase = "reading"]
    /\ whole' = [throughout |-> held, ever |-> held]
    /\ UNCHANGED <<held, server, writes>>

ReadPage ==
    /\ scroll.phase = "reading"
    /\ \E answer \in Answers(scroll) :
          scroll' = IF Unreadable(answer) \/ Refused(scroll, answer)
                    THEN [scroll EXCEPT !.phase = "failed"]
                    ELSE [scroll EXCEPT !.phase  = IF PageDone(scroll, answer) THEN "ended" ELSE @,
                                        !.offset = answer.next,
                                        !.got    = @ \union answer.page,
                                        !.twice  = @ \union (scroll.got \intersect answer.page)]
    /\ UNCHANGED <<held, server, whole, writes>>

(* The request fails, or its context ends. *)
ScrollFails ==
    /\ scroll.phase = "reading" /\ scroll' = [scroll EXCEPT !.phase = "failed"]
    /\ UNCHANGED <<held, server, whole, writes>>

(* Another process upserts a point, or deletes one. *)
WritePoint ==
    /\ writes < MaxWrites /\ writes' = writes + 1
    /\ \/ \E i \in Ids \ held : held' = held \union {i}
       \/ \E i \in held : held' = held \ {i}
    /\ whole' = [throughout |-> whole.throughout \intersect held', ever |-> whole.ever \union held']
    /\ UNCHANGED <<server, scroll>>

ScrollNext == StartScroll \/ ReadPage \/ ScrollFails \/ WritePoint

ScrollSpec == ScrollInit /\ [][ScrollNext]_scrollVars

-----------------------------------------------------------------------------
(* "Stopping in silence would report part of the collection as if it were all
   of it" (scrollPageDone): a read that returns has every point that was there
   all along, none that never was, and counted none twice. *)
ScrollIsWhole ==
    scroll.phase = "ended" =>
        /\ whole.throughout \intersect Filter(scroll.of) \subseteq scroll.got
        /\ scroll.got \subseteq whole.ever /\ scroll.twice = {}

(* A read that asks for another page asks from further on, so it ends: of a
   server that repeats its offset too, which would be asked "the same request
   forever" (scrollPageDone). *)
ScrollAdvances ==
    [][scroll.phase = "reading" /\ scroll'.phase = "reading"
         => scroll' = scroll \/ scroll'.offset > scroll.offset]_scrollVars
=============================================================================
