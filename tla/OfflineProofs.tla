---------------------------- MODULE OfflineProofs ---------------------------
(***************************************************************************)
(* Proofs about the tools beside the protocols, each for every value of    *)
(* its constants: the paged reads, the evaluation and its exit code, the   *)
(* sessions over a golden set, and the drills over a deployed index.       *)
(***************************************************************************)
EXTENDS Scroll, EvalGate, GoldenSession, Operations, DataLemmas

-----------------------------------------------------------------------------
(* The paged reads, for any number of writes meanwhile and any of the three
   kinds of server. *)

Reads == [of : {"nothing", "uid", "tenant", "stats"}, phase : {"idle", "reading", "ended", "failed"},
          offset : Nat, got : SUBSET Ids, twice : SUBSET Ids]

ScrollTypes ==
    /\ held \subseteq Ids /\ server \in {"honest", "stuck", "hollow"}
    /\ scroll \in Reads
    /\ whole \in [throughout : SUBSET Ids, ever : SUBSET Ids]
    /\ writes \in 0 .. MaxWrites

(* While it is under way, a read has what was there all along below its offset, nothing
   from its offset on, and nothing that never was. *)
ReadSoFar ==
    /\ scroll.phase = "reading" =>
        /\ whole.throughout \subseteq held /\ held \subseteq whole.ever
        /\ scroll.offset = NoOffset => scroll.got = {}
        /\ \A i \in whole.throughout \intersect Filter(scroll.of) :
               i < scroll.offset => i \in scroll.got
        /\ \A i \in scroll.got : i < scroll.offset
        /\ scroll.got \subseteq whole.ever /\ scroll.twice = {}

ScrollInv == ScrollTypes /\ ReadSoFar /\ ScrollIsWhole

-----------------------------------------------------------------------------
(* A set of ids has a least one. *)
LEMMA LeastId ==
    ASSUME NEW S \in SUBSET Ids, S # {}
    PROVE  \E i \in S : \A j \in S : i <= j
  <1>1. S \subseteq Nat
    BY ScrollAssumption DEF ScrollAssumption
  <1> QED
    BY <1>1, LeastNat, Zenon

BeforeId(s, i) == {j \in Ahead(s) : j < i}

(* The ids before one of a page are on the page, and the first one always is. *)
LEMMA PageIsPrefix ==
    ASSUME NEW s \in Reads
    PROVE  /\ Page(s) \subseteq Ahead(s) /\ Ahead(s) \subseteq Ids
           /\ \A i \in Page(s), j \in Ahead(s) : j < i => j \in Page(s)
           /\ \A i \in Ahead(s) : (\A j \in Ahead(s) : i <= j) => i \in Page(s)
  <1>0. Ids \subseteq Nat /\ PageSize \in Nat \ {0} /\ OfAsked \subseteq Ids
    BY ScrollAssumption DEF ScrollAssumption
  <1>1. Page(s) \subseteq Ahead(s) /\ Ahead(s) \subseteq Ids
    BY <1>0 DEF Page, Ahead, Filter
  <1>5. Ahead(s) \subseteq Nat /\ Page(s) \subseteq Nat
    BY <1>0, <1>1
  <1>2. ASSUME NEW i \in Nat PROVE IsFiniteSet(BeforeId(s, i)) /\ Cardinality(BeforeId(s, i)) \in Nat
    <2>1. \A j \in BeforeId(s, i) : j \in 0 .. i
      BY <1>5, <1>2 DEF BeforeId
    <2>2. IsFiniteSet(0 .. i)
      BY <1>2, FS_Interval
    <2>3. IsFiniteSet(BeforeId(s, i))
      BY <2>1, <2>2, FS_Subset
    <2> QED
      BY <2>3, FS_CardinalityType
  <1>3. ASSUME NEW i \in Page(s), NEW j \in Ahead(s), j < i PROVE j \in Page(s)
    <2>1. BeforeId(s, j) \in SUBSET BeforeId(s, i) /\ i \in Nat /\ j \in Nat
      BY <1>5, <1>3 DEF BeforeId
    <2>2. Cardinality(BeforeId(s, j)) <= Cardinality(BeforeId(s, i))
      BY <1>2, <2>1, FS_Subset
    <2> QED
      BY <1>0, <1>2, <2>1, <2>2 DEF Page, BeforeId
  <1>4. ASSUME NEW i \in Ahead(s), \A j \in Ahead(s) : i <= j PROVE i \in Page(s)
    <2>1. BeforeId(s, i) = {}
      BY <1>5, <1>4 DEF BeforeId
    <2> QED
      BY <1>0, <2>1, FS_EmptySet DEF Page, BeforeId
  <1> QED
    BY <1>1, <1>3, <1>4

(* The offset an honest server names is beyond the page and the next id of the read. *)
LEMMA NextIdIsNext ==
    ASSUME NEW s \in Reads, NextId(s) # NoOffset
    PROVE  /\ NextId(s) \in Ahead(s) \ Page(s) /\ NextId(s) > s.offset
           /\ \A i \in Page(s) : i < NextId(s)
           /\ \A i \in Ahead(s) : i < NextId(s) => i \in Page(s)
  <1>0. Ids \subseteq Nat /\ s.offset \in Nat
    BY ScrollAssumption DEF ScrollAssumption, Reads
  <1>1. Ahead(s) # Page(s)
    BY DEF NextId
  <1>2. Ahead(s) \ Page(s) \in SUBSET Ids /\ Ahead(s) \ Page(s) # {}
    BY <1>1, PageIsPrefix
  <1>3. \E i \in Ahead(s) \ Page(s) : \A j \in Ahead(s) \ Page(s) : i <= j
    BY <1>2, LeastId
  <1> DEFINE n == NextId(s)
  <1>4. n \in Ahead(s) \ Page(s) /\ \A j \in Ahead(s) \ Page(s) : n <= j
    BY <1>1, <1>3, Zenon DEF NextId
  <1>5. n \in Nat /\ Ahead(s) \subseteq Nat /\ Page(s) \subseteq Ahead(s)
    BY <1>0, <1>4, PageIsPrefix
  <1>6. \A i \in Page(s) : i < n
    BY <1>4, <1>5, PageIsPrefix
  <1>7. \A i \in Ahead(s) : i < n => i \in Page(s)
    BY <1>4, <1>5
  <1>8. n > s.offset
    <2>1. n >= s.offset
      BY <1>0, <1>4 DEF Ahead
    <2>2. n # s.offset
      <3>1. \A j \in Ahead(s) : s.offset <= j
        BY <1>0, <1>5 DEF Ahead
      <3> QED
        BY <1>4, <3>1, PageIsPrefix
    <2> QED
      BY <1>0, <1>5, <2>1, <2>2
  <1> QED
    BY <1>4, <1>6, <1>7, <1>8

-----------------------------------------------------------------------------
LEMMA ScrollInitInv == ScrollInit => ScrollInv
  BY ScrollAssumption DEF ScrollAssumption, ScrollInit, ScrollInv, ScrollTypes, ReadSoFar, ScrollIsWhole,
     Reads, Idle, NoOffset

(* A page that is kept: the read goes on from further on, or is over with everything. *)
LEMMA KeptPage ==
    ASSUME ScrollInv, scroll.phase = "reading", NEW answer \in Answers(scroll),
           ~Unreadable(answer), ~Refused(scroll, answer)
    PROVE  /\ answer.page = Page(scroll) /\ answer.next = NextId(scroll)
           /\ PageDone(scroll, answer) <=> NextId(scroll) = NoOffset
  <1>1. Ids \subseteq Nat \ {0}
    BY ScrollAssumption DEF ScrollAssumption
  <1>2. \/ answer = [page |-> Page(scroll), next |-> NextId(scroll)]
        \/ /\ answer.next = scroll.offset /\ scroll.offset # NoOffset
        \/ answer.page = {} /\ answer.next \in Ids
    BY DEF Answers
  <1>3. CASE answer = [page |-> Page(scroll), next |-> NextId(scroll)]
    BY <1>3 DEF PageDone
  <1>4. CASE ~(answer = [page |-> Page(scroll), next |-> NextId(scroll)])
    BY <1>1, <1>2, <1>4 DEF Refused, PageDone, NoOffset
  <1> QED
    BY <1>3, <1>4

(* A page adds what is ahead of the read up to where it goes on from, and nothing twice. *)
LEMMA KeptPageKeeps ==
    ASSUME ScrollInv, scroll.phase = "reading", UNCHANGED <<held, server, whole, writes>>,
           NEW answer \in Answers(scroll), ~Unreadable(answer), ~Refused(scroll, answer),
           scroll' = [scroll EXCEPT !.phase  = IF PageDone(scroll, answer) THEN "ended" ELSE @,
                                    !.offset = answer.next,
                                    !.got    = @ \union answer.page,
                                    !.twice  = @ \union (scroll.got \intersect answer.page)]
    PROVE  ScrollInv' /\ (scroll'.phase = "reading" => scroll'.offset > scroll.offset)
  <1>0. /\ scroll \in Reads /\ Ids \subseteq Nat \ {0} /\ held \subseteq Ids
        /\ whole \in [throughout : SUBSET Ids, ever : SUBSET Ids]
    BY ScrollAssumption DEF ScrollAssumption, ScrollInv, ScrollTypes
  <1> DEFINE page == Page(scroll)
             n    == NextId(scroll)
  <1>1. /\ answer.page = page /\ answer.next = n
        /\ PageDone(scroll, answer) <=> n = NoOffset
    BY KeptPage
  <1>2. page \subseteq Ahead(scroll) /\ Ahead(scroll) \subseteq Ids
    BY <1>0, PageIsPrefix
  <1>3. n = NoOffset => Ahead(scroll) = page
    BY <1>0, <1>2, LeastId DEF NextId, NoOffset
  <1>4. n # NoOffset => /\ n \in Ahead(scroll) /\ n > scroll.offset
                        /\ \A i \in page : i < n
                        /\ \A i \in Ahead(scroll) : i < n => i \in page
    BY <1>0, NextIdIsNext
  <1>5. /\ scroll' \in Reads /\ scroll'.of = scroll.of
        /\ scroll'.phase = (IF n = NoOffset THEN "ended" ELSE "reading")
        /\ scroll'.offset = n /\ scroll'.got = scroll.got \union page
        /\ scroll'.twice = scroll.twice \union (scroll.got \intersect page)
    <2> DEFINE phase == IF n = NoOffset THEN "ended" ELSE "reading"
               got   == scroll.got \union page
               twice == scroll.twice \union (scroll.got \intersect page)
    <2>1. n \in Nat /\ got \in SUBSET Ids /\ twice \in SUBSET Ids
      BY <1>0, <1>2, <1>4 DEF NoOffset, Reads
    <2>2. phase \in {"reading", "ended"}
      OBVIOUS
    <2>3. scroll' = [scroll EXCEPT !.phase = phase, !.offset = n, !.got = got, !.twice = twice]
      BY <1>0, <1>1 DEF Reads
    <2> HIDE DEF n, page, phase, got, twice
    <2>4. /\ scroll' \in Reads /\ scroll'.of = scroll.of /\ scroll'.phase = phase
          /\ scroll'.offset = n /\ scroll'.got = got /\ scroll'.twice = twice
      BY <1>0, <2>1, <2>2, <2>3 DEF Reads
    <2> QED
      BY <2>4 DEF phase, got, twice
  <1>6. scroll.got \intersect page = {}
    BY <1>0, <1>2 DEF ScrollInv, ReadSoFar, Reads, Ahead
  <1>7. /\ whole.throughout \subseteq held /\ held \subseteq whole.ever
        /\ scroll.got \union page \subseteq whole.ever
    BY <1>2 DEF ScrollInv, ReadSoFar, Ahead
  <1>8. ASSUME NEW i \in whole.throughout \intersect Filter(scroll.of), i \notin scroll.got
        PROVE  i \in Ahead(scroll)
    BY <1>0, <1>7, <1>8 DEF ScrollInv, ReadSoFar, Ahead, Reads
  <1>9. ScrollTypes'
    BY <1>5 DEF ScrollInv, ScrollTypes
  <1>10. ReadSoFar'
    <2> SUFFICES ASSUME n # NoOffset PROVE ReadSoFar'
      BY <1>5 DEF ReadSoFar
    <2>1. \A i \in scroll.got \union page : i < n
      <3>1. n \in Nat /\ n > scroll.offset /\ scroll.offset \in Nat /\ scroll.got \subseteq Nat
        BY <1>0, <1>2, <1>4 DEF Reads
      <3>2. \A i \in scroll.got : i < scroll.offset
        BY DEF ScrollInv, ReadSoFar
      <3> QED
        BY <1>4, <3>1, <3>2
    <2>2. \A i \in whole.throughout \intersect Filter(scroll.of) : i < n => i \in scroll.got \union page
      BY <1>4, <1>8
    <2>3. scroll.twice = {}
      BY DEF ScrollInv, ReadSoFar
    <2> QED
      BY <1>5, <1>6, <1>7, <2>1, <2>2, <2>3 DEF ReadSoFar
  <1>11. ScrollIsWhole'
    <2> SUFFICES ASSUME n = NoOffset PROVE ScrollIsWhole'
      BY <1>5 DEF ScrollIsWhole
    <2>1. scroll.twice = {}
      BY DEF ScrollInv, ReadSoFar
    <2> QED
      BY <1>3, <1>5, <1>6, <1>7, <1>8, <2>1 DEF ScrollIsWhole
  <1> QED
    BY <1>4, <1>5, <1>9, <1>10, <1>11 DEF ScrollInv

(* A read that failed promises nothing. *)
LEMMA FailureKeeps ==
    ASSUME ScrollInv, UNCHANGED <<held, server, whole, writes>>,
           scroll' = [scroll EXCEPT !.phase = "failed"]
    PROVE  ScrollInv'
  <1>1. scroll \in Reads
    BY DEF ScrollInv, ScrollTypes
  <1>2. scroll' \in Reads /\ scroll'.phase = "failed"
    BY <1>1 DEF Reads
  <1> QED
    BY <1>2 DEF ScrollInv, ScrollTypes, ReadSoFar, ScrollIsWhole

LEMMA StartKeeps ==
    ASSUME ScrollInv, StartScroll
    PROVE  ScrollInv'
  <1>0. Ids \subseteq Nat \ {0} /\ held \subseteq Ids
    BY ScrollAssumption DEF ScrollAssumption, ScrollInv, ScrollTypes
  <1>1. /\ scroll' \in Reads /\ scroll'.phase = "reading" /\ scroll'.offset = 0
        /\ scroll'.got = {} /\ scroll'.twice = {}
    <2>1. PICK of \in {"uid", "tenant", "stats"} :
              scroll' = [Idle EXCEPT !.of = of, !.phase = "reading"]
      BY DEF StartScroll
    <2>2. scroll' = [of |-> of, phase |-> "reading", offset |-> 0, got |-> {}, twice |-> {}]
      BY <2>1 DEF Idle, NoOffset
    <2> QED
      BY <2>2 DEF Reads
  <1>2. whole' = [throughout |-> held, ever |-> held] /\ UNCHANGED <<held, server, writes>>
    BY DEF StartScroll
  <1>3. ScrollTypes'
    BY <1>0, <1>1, <1>2 DEF ScrollInv, ScrollTypes
  <1>4. ReadSoFar'
    BY <1>0, <1>1, <1>2 DEF ReadSoFar, NoOffset
  <1> QED
    BY <1>1, <1>3, <1>4 DEF ScrollInv, ScrollIsWhole

(* A write shrinks what was there throughout and extends what was there ever. *)
LEMMA WriteKeeps ==
    ASSUME ScrollInv, WritePoint
    PROVE  ScrollInv'
  <1>1. held' \subseteq Ids /\ writes' \in 0 .. MaxWrites /\ UNCHANGED <<server, scroll>>
    <2>1. writes' \in 0 .. MaxWrites
      <3>1. writes \in Nat /\ MaxWrites \in Nat /\ writes < MaxWrites /\ writes' = writes + 1
        BY ScrollAssumption DEF ScrollAssumption, ScrollInv, ScrollTypes, WritePoint
      <3> QED
        BY <3>1
    <2>2. held' \subseteq Ids
      BY DEF ScrollInv, ScrollTypes, WritePoint
    <2> QED
      BY <2>1, <2>2 DEF WritePoint
  <1>2. whole' = [throughout |-> whole.throughout \intersect held', ever |-> whole.ever \union held']
    BY DEF WritePoint
  <1>3. whole \in [throughout : SUBSET Ids, ever : SUBSET Ids]
    BY DEF ScrollInv, ScrollTypes
  <1>4. ScrollTypes'
    BY <1>1, <1>2, <1>3 DEF ScrollInv, ScrollTypes
  <1>5. ReadSoFar'
    BY <1>1, <1>2 DEF ScrollInv, ReadSoFar
  <1>6. ScrollIsWhole'
    BY <1>1, <1>2 DEF ScrollInv, ScrollIsWhole
  <1> QED
    BY <1>4, <1>5, <1>6 DEF ScrollInv

Advances ==
    scroll.phase = "reading" /\ scroll'.phase = "reading"
        => scroll' = scroll \/ scroll'.offset > scroll.offset

LEMMA ScrollStep == ScrollInv /\ [ScrollNext]_scrollVars => ScrollInv' /\ Advances
  <1> SUFFICES ASSUME ScrollInv, [ScrollNext]_scrollVars PROVE ScrollInv' /\ Advances
    OBVIOUS
  <1>1. CASE StartScroll
    BY <1>1, StartKeeps DEF Advances, StartScroll
  <1>2. CASE ReadPage
    <2>1. PICK answer \in Answers(scroll) :
              scroll' = IF Unreadable(answer) \/ Refused(scroll, answer)
                        THEN [scroll EXCEPT !.phase = "failed"]
                        ELSE [scroll EXCEPT !.phase  = IF PageDone(scroll, answer) THEN "ended" ELSE @,
                                            !.offset = answer.next,
                                            !.got    = @ \union answer.page,
                                            !.twice  = @ \union (scroll.got \intersect answer.page)]
      BY <1>2 DEF ReadPage
    <2>2. scroll.phase = "reading" /\ UNCHANGED <<held, server, whole, writes>>
      BY <1>2 DEF ReadPage
    <2>3. CASE Unreadable(answer) \/ Refused(scroll, answer)
      <3>1. scroll' = [scroll EXCEPT !.phase = "failed"]
        BY <2>1, <2>3
      <3>2. scroll'.phase = "failed"
        BY <3>1 DEF ScrollInv, ScrollTypes, Reads
      <3> QED
        BY <2>2, <3>1, <3>2, FailureKeeps DEF Advances
    <2>4. CASE ~Unreadable(answer) /\ ~Refused(scroll, answer)
      BY <2>1, <2>2, <2>4, KeptPageKeeps DEF Advances
    <2> QED
      BY <2>3, <2>4
  <1>3. CASE ScrollFails
    <2>1. scroll'.phase = "failed"
      BY <1>3 DEF ScrollFails, ScrollInv, ScrollTypes, Reads
    <2> QED
      BY <1>3, <2>1, FailureKeeps DEF ScrollFails, Advances
  <1>4. CASE WritePoint
    BY <1>4, WriteKeeps DEF WritePoint, Advances
  <1>5. CASE UNCHANGED scrollVars
    BY <1>5 DEF scrollVars, ScrollInv, ScrollTypes, ReadSoFar, ScrollIsWhole, Advances
  <1> QED
    BY <1>1, <1>2, <1>3, <1>4, <1>5 DEF ScrollNext

-----------------------------------------------------------------------------
(* The inductive invariant of a paged read. *)
THEOREM ScrollInvariance == ScrollSpec => []ScrollInv
  BY ScrollInitInv, ScrollStep, PTL DEF ScrollSpec

(* A read that returns has every point that was there all along, none that never was,
   and counted none twice (ScrollByUID, ScrollTenant, Stats: store/points.go). *)
THEOREM ScrollsAreWhole == ScrollSpec => []ScrollIsWhole
  BY ScrollInvariance, PTL DEF ScrollInv

(* A read asks from further on every time, so it cannot ask for ever (scrollPageDone,
   store/points.go), of a server that repeats its offset either. *)
THEOREM ScrollsAdvance == ScrollSpec => ScrollAdvances
  BY ScrollInvariance, ScrollStep, PTL DEF ScrollSpec, ScrollAdvances, Advances

-----------------------------------------------------------------------------
(* The evaluation. *)

RankingNames == {"hybrid", "dense", "cases"}
Outcomes == Seq({"hit", "miss", "errored"})

EvalTypes ==
    /\ eval \in [mode : {"golden", "compare", "isolation"}, min : Nat \X (Nat \ {0}), set : Nat,
                 phase : {"ready", "asking", "answering", "ended"},
                 results : [hybrid : Outcomes, dense : Outcomes, cases : Outcomes],
                 exit : {"none", "ok", "assertion", "usage", "failure"}]
    /\ document \in [state : {"none", "whole", "torn"}, hybrid : Outcomes, dense : Outcomes,
                     winner : {"hybrid", "dense"}]

(* No ranking is asked more than the set, and a verdict waits for the last answer. *)
AsksTheSet ==
    /\ eval.phase # "ready" => eval.set > 0
    /\ eval.exit # "none" => eval.phase = "ended"
    /\ \A k \in DOMAIN Rankings(eval.mode) : Len(eval.results[Rankings(eval.mode)[k]]) <= eval.set
    /\ eval.phase = "answering" \/ eval.exit \in {"ok", "assertion"} => Asking(eval) = {}
    /\ eval.exit = "ok" => Passed(eval)

(* What a document that is whole was computed from. *)
DocumentRanks ==
    document.state = "whole" =>
        /\ MayBeWritten(document) /\ Len(document.hybrid) > 0
        /\ document.winner = DecisionOutcome(document.hybrid, document.dense)

EvalInv == EvalTypes /\ AsksTheSet /\ DocumentRanks

-----------------------------------------------------------------------------
(* Every answer is a hit, a miss or an error. *)
LEMMA AnswersAdd ==
    ASSUME NEW r \in Outcomes
    PROVE  /\ Hits(r) \in Nat /\ Count(r, "miss") \in Nat /\ Count(r, "errored") \in Nat
           /\ Total(r) = Hits(r) + Count(r, "miss")
           /\ Len(r) = Total(r) + Count(r, "errored")
  <1> DEFINE Of(answer) == {k \in DOMAIN r : r[k] = answer}
             H == Of("hit")
             M == Of("miss")
             E == Of("errored")
  <1>1. DOMAIN r = 1 .. Len(r) /\ Len(r) \in Nat /\ \A k \in DOMAIN r : r[k] \in {"hit", "miss", "errored"}
    BY DEF Outcomes
  <1>2. IsFiniteSet(DOMAIN r) /\ Cardinality(DOMAIN r) = Len(r)
    <2>1. IsFiniteSet(1 .. Len(r)) /\ Cardinality(1 .. Len(r)) = IF 1 > Len(r) THEN 0 ELSE Len(r) - 1 + 1
      BY <1>1, FS_Interval
    <2> QED
      BY <1>1, <2>1
  <1>3. /\ IsFiniteSet(H) /\ Cardinality(H) \in Nat
        /\ IsFiniteSet(M) /\ Cardinality(M) \in Nat
        /\ IsFiniteSet(E) /\ Cardinality(E) \in Nat
    BY <1>2, FS_Subset, FS_CardinalityType
  <1>4. H \intersect M = {} /\ (H \union M) \intersect E = {} /\ DOMAIN r = (H \union M) \union E
    BY <1>1
  <1> HIDE DEF H, M, E
  <1>5. IsFiniteSet(H \union M) /\ Cardinality(H \union M) = Cardinality(H) + Cardinality(M) - Cardinality({})
    BY <1>3, <1>4, FS_Union
  <1> DEFINE A == H \union M
  <1>6. Cardinality(A \union E) = Cardinality(A) + Cardinality(E) - Cardinality({})
    <2>1. IsFiniteSet(A) /\ A \intersect E = {}
      BY <1>4, <1>5
    <2> HIDE DEF A
    <2> QED
      BY <1>3, <2>1, FS_Union
  <1>7. Len(r) = Cardinality(H) + Cardinality(M) + Cardinality(E)
    BY <1>2, <1>3, <1>4, <1>5, <1>6, FS_EmptySet
  <1>8. Count(r, "hit") = Cardinality(H) /\ Count(r, "miss") = Cardinality(M) /\ Count(r, "errored") = Cardinality(E)
    BY DEF Count, H, M, E
  <1> QED
    BY <1>3, <1>7, <1>8 DEF Hits, Total

(* The cross products of two complete runs over the same questions compare their hits. *)
LEMMA SameTotal ==
    ASSUME NEW a \in Nat, NEW b \in Nat, NEW t \in Nat \ {0}
    PROVE  a * t > b * t <=> a > b
  <1>1. a > b => a * t > b * t
    <2> SUFFICES ASSUME a > b PROVE a * t > b * t
      OBVIOUS
    <2>1. PICK d \in Nat \ {0} : a = b + d
      <3>1. a - b \in Nat \ {0} /\ a = b + (a - b)
        OBVIOUS
      <3> QED
        BY <3>1
    <2>2. a * t = b * t + d * t /\ d * t > 0 /\ b * t \in Nat
      BY <2>1
    <2> QED
      BY <2>2
  <1>2. a <= b => a * t <= b * t
    <2> SUFFICES ASSUME a <= b PROVE a * t <= b * t
      OBVIOUS
    <2>1. PICK d \in Nat : b = a + d
      <3>1. b - a \in Nat /\ b = a + (b - a)
        OBVIOUS
      <3> QED
        BY <3>1
    <2>2. b * t = a * t + d * t /\ d * t >= 0 /\ a * t \in Nat
      BY <2>1
    <2> QED
      BY <2>2
  <1>3. a * t \in Nat /\ b * t \in Nat
    OBVIOUS
  <1> QED
    BY <1>1, <1>2, <1>3

(* The rankings of a run have names, and answers of the run's results. *)
LEMMA RankingsNamed ==
    ASSUME EvalTypes
    PROVE  /\ DOMAIN Rankings(eval.mode) \subseteq {1, 2}
           /\ \A k \in DOMAIN Rankings(eval.mode) :
                 /\ Rankings(eval.mode)[k] \in RankingNames
                 /\ eval.results[Rankings(eval.mode)[k]] \in Outcomes
           /\ eval.mode = "golden"    => Rankings(eval.mode)[1] = "hybrid" /\ DOMAIN Rankings(eval.mode) = {1}
           /\ eval.mode = "isolation" => Rankings(eval.mode)[1] = "cases"  /\ DOMAIN Rankings(eval.mode) = {1}
           /\ eval.mode = "compare"   => /\ DOMAIN Rankings(eval.mode) = {1, 2}
                                         /\ Rankings(eval.mode)[1] = "hybrid"
                                         /\ Rankings(eval.mode)[2] = "dense"
  <1>1. eval.mode \in {"golden", "compare", "isolation"}
    BY DEF EvalTypes
  <1> QED
    BY <1>1 DEF EvalTypes, Rankings, RankingNames

Left(e) == {k \in DOMAIN Rankings(e.mode) : Len(e.results[Rankings(e.mode)[k]]) < e.set}

(* The ranking that is asked next is one that has questions left; where none is, all have been. *)
LEMMA AskingLeft ==
    ASSUME EvalTypes, AsksTheSet
    PROVE  /\ \A ranking \in Asking(eval) :
                 \E k \in Left(eval) : ranking = Rankings(eval.mode)[k]
           /\ Asking(eval) = {} => \A k \in DOMAIN Rankings(eval.mode) :
                 Len(eval.results[Rankings(eval.mode)[k]]) = eval.set
  <1>1. Left(eval) \subseteq {1, 2}
    BY RankingsNamed DEF Left
  <1>2. Left(eval) # {} => \E k \in Left(eval) : \A l \in Left(eval) : k <= l
    BY <1>1
  <1>3. Asking(eval) = IF Left(eval) = {} THEN {}
                       ELSE {Rankings(eval.mode)[CHOOSE k \in Left(eval) : \A l \in Left(eval) : k <= l]}
    BY DEF Asking, Left
  <1>4. ASSUME Asking(eval) = {}, NEW k \in DOMAIN Rankings(eval.mode)
        PROVE  Len(eval.results[Rankings(eval.mode)[k]]) = eval.set
    <2>1. Left(eval) = {}
      BY <1>3, <1>4
    <2>2. Len(eval.results[Rankings(eval.mode)[k]]) \in Nat /\ eval.set \in Nat
      BY RankingsNamed DEF EvalTypes, Outcomes
    <2> QED
      BY <2>1, <2>2 DEF Left, AsksTheSet
  <1>5. ASSUME NEW ranking \in Asking(eval)
        PROVE  \E k \in Left(eval) : ranking = Rankings(eval.mode)[k]
    <2> DEFINE first == CHOOSE k \in Left(eval) : \A l \in Left(eval) : k <= l
    <2>1. Left(eval) # {}
      BY <1>3, <1>5
    <2>2. first \in Left(eval)
      BY <1>2, <2>1
    <2>3. ranking = Rankings(eval.mode)[first]
      BY <1>3, <1>5, <2>1
    <2> QED
      BY <2>2, <2>3
  <1> QED
    BY <1>4, <1>5

-----------------------------------------------------------------------------
LEMMA EvalInitInv == EvalInit => EvalInv
  <1> SUFFICES ASSUME EvalInit PROVE EvalInv
    OBVIOUS
  <1>1. EvalTypes
    BY DEF EvalInit, EvalTypes, Ready, Unasked, Outcomes
  <1>2. Rankings(eval.mode) = <<"hybrid">> /\ eval.results["hybrid"] = <<>> /\ eval.set = 0
    BY DEF EvalInit, Ready, Unasked, Rankings
  <1>3. AsksTheSet
    BY <1>2 DEF EvalInit, Ready, AsksTheSet
  <1>4. DocumentRanks
    BY DEF EvalInit, DocumentRanks
  <1> QED
    BY <1>1, <1>3, <1>4 DEF EvalInv

(* The end of a run leaves its questions and answers as they are. *)
LEMMA EndKeeps ==
    ASSUME EvalInv, NEW exit \in {"ok", "assertion", "usage", "failure"}, Ends(exit), EvalTypes',
           eval.phase # "ready",
           exit \in {"ok", "assertion"} => Asking(eval) = {}, exit = "ok" => Passed(eval)
    PROVE  AsksTheSet'
  <1>1. /\ eval'.mode = eval.mode /\ eval'.min = eval.min /\ eval'.set = eval.set
        /\ eval'.results = eval.results /\ eval'.phase = "ended" /\ eval'.exit = exit
    BY DEF Ends, EvalInv, EvalTypes
  <1>2. Asking(eval)' = Asking(eval) /\ Passed(eval)' = Passed(eval)
    BY <1>1 DEF Asking, Passed
  <1>3. Rankings(eval.mode)' = Rankings(eval.mode)
    BY <1>1
  <1> QED
    BY <1>1, <1>2, <1>3 DEF EvalInv, AsksTheSet

LEMMA EndTyped ==
    ASSUME EvalTypes, NEW exit \in {"ok", "assertion", "usage", "failure"}, Ends(exit)
    PROVE  eval' \in [mode : {"golden", "compare", "isolation"}, min : Nat \X (Nat \ {0}), set : Nat,
                      phase : {"ready", "asking", "answering", "ended"},
                      results : [hybrid : Outcomes, dense : Outcomes, cases : Outcomes],
                      exit : {"none", "ok", "assertion", "usage", "failure"}]
  BY DEF EvalTypes, Ends

LEMMA StartKeepsEval ==
    ASSUME EvalInv, StartEval
    PROVE  EvalInv'
  <1>1. PICK mode \in {"golden", "compare", "isolation"}, min \in Minima, set \in 1 .. MaxQuestions :
            LET run == [Ready EXCEPT !.mode = mode, !.min = min, !.set = set, !.phase = "asking"]
            IN  \/ eval' = run
                \/ \E exit \in Refusals(mode) : eval' = [run EXCEPT !.phase = "ended", !.exit = exit]
    BY DEF StartEval
  <1>2. PICK phase \in {"asking", "ended"}, exit \in {"none", "usage", "failure"} :
            /\ eval' = [mode |-> mode, min |-> min, set |-> set, phase |-> phase,
                        results |-> Unasked, exit |-> exit]
            /\ exit # "none" => phase = "ended"
    BY <1>1 DEF Ready, Refusals
  <1>3. min \in Nat \X (Nat \ {0}) /\ set \in Nat \ {0}
    BY EvalAssumption DEF EvalAssumption
  <1>4. EvalTypes' /\ UNCHANGED document
    <2>1. Unasked \in [hybrid : Outcomes, dense : Outcomes, cases : Outcomes]
      BY DEF Unasked, Outcomes
    <2> QED
      BY <1>2, <1>3, <2>1 DEF StartEval, EvalInv, EvalTypes
  <1>5. \A k \in DOMAIN Rankings(mode) : Len(Unasked[Rankings(mode)[k]]) <= set
    <2>1. \A r \in RankingNames : Unasked[r] = <<>>
      BY DEF RankingNames, Unasked
    <2>2. \A k \in DOMAIN Rankings(mode) : Rankings(mode)[k] \in RankingNames
      BY DEF Rankings, RankingNames
    <2> QED
      BY <1>3, <2>1, <2>2
  <1>6. AsksTheSet'
    BY <1>2, <1>3, <1>5 DEF AsksTheSet
  <1> QED
    BY <1>4, <1>6 DEF EvalInv, DocumentRanks

LEMMA AskKeeps ==
    ASSUME EvalInv, Ask
    PROVE  EvalInv'
  <1> USE DEF EvalInv
  <1>1. PICK ranking \in Asking(eval), answer \in {"hit", "miss", "errored"} :
            eval' = [eval EXCEPT !.results[ranking] = Append(@, answer)]
    BY DEF Ask
  <1>2. PICK k \in Left(eval) : ranking = Rankings(eval.mode)[k]
    BY AskingLeft
  <1>3. ranking \in RankingNames /\ eval.results[ranking] \in Outcomes /\ eval.set \in Nat
    BY <1>2, RankingsNamed DEF Left, EvalTypes
  <1> DEFINE grown == Append(eval.results[ranking], answer)
  <1>4. grown \in Outcomes /\ Len(grown) <= eval.set
    BY <1>2, <1>3 DEF Left, Outcomes
  <1> HIDE DEF grown
  <1>5. /\ EvalTypes' /\ eval'.mode = eval.mode /\ eval'.set = eval.set /\ eval'.phase = eval.phase
        /\ eval'.exit = eval.exit
        /\ \A r \in RankingNames : eval'.results[r] = IF r = ranking THEN grown ELSE eval.results[r]
    <2>1. eval.results \in [hybrid : Outcomes, dense : Outcomes, cases : Outcomes]
      BY DEF EvalTypes
    <2> DEFINE results == [eval.results EXCEPT ![ranking] = grown]
    <2>2. results \in [hybrid : Outcomes, dense : Outcomes, cases : Outcomes]
      BY <1>3, <1>4, <2>1 DEF RankingNames
    <2>3. \A r \in RankingNames : results[r] = IF r = ranking THEN grown ELSE eval.results[r]
      BY <1>3, <2>1 DEF RankingNames
    <2>4. eval' = [eval EXCEPT !.results = results]
      BY <1>1 DEF grown, EvalTypes
    <2> HIDE DEF results
    <2>5. /\ eval'.mode = eval.mode /\ eval'.set = eval.set /\ eval'.phase = eval.phase
          /\ eval'.exit = eval.exit /\ eval'.results = results /\ eval'.min = eval.min
      BY <2>4 DEF EvalTypes
    <2>6. EvalTypes'
      BY <2>2, <2>4 DEF Ask, EvalTypes
    <2> QED
      BY <2>3, <2>5, <2>6
  <1>6. eval.phase = "asking" /\ eval.exit \notin {"ok", "assertion"}
    <2>1. Asking(eval) # {}
      BY <1>1
    <2> QED
      BY <2>1 DEF Ask, AsksTheSet
  <1>7. AsksTheSet'
    BY <1>4, <1>5, <1>6, RankingsNamed DEF AsksTheSet
  <1> QED
    BY <1>5, <1>7 DEF Ask, DocumentRanks

(* The document is written of two runs that are over. *)
LEMMA ReportKeeps ==
    ASSUME EvalInv, WriteHybridVsDenseReport
    PROVE  EvalInv'
  <1> USE DEF EvalInv
  <1>1. /\ eval.phase = "asking" /\ eval.mode = "compare" /\ Asking(eval) = {}
        /\ eval.results.hybrid \in Outcomes /\ eval.results.dense \in Outcomes
    BY DEF WriteHybridVsDenseReport, EvalTypes
  <1>2. ASSUME eval' = [eval EXCEPT !.phase = "answering"], document' \in
                 [state : {"none", "whole", "torn"}, hybrid : Outcomes, dense : Outcomes,
                  winner : {"hybrid", "dense"}]
        PROVE  EvalTypes' /\ AsksTheSet'
    <2>1. /\ eval'.mode = eval.mode /\ eval'.set = eval.set /\ eval'.phase = "answering"
          /\ eval'.exit = eval.exit /\ eval'.results = eval.results /\ eval'.min = eval.min
      BY <1>2 DEF EvalTypes
    <2>2. Asking(eval)' = Asking(eval) /\ Passed(eval)' = Passed(eval)
      BY <2>1 DEF Asking, Passed
    <2>3. EvalTypes'
      BY <1>2, <2>1 DEF EvalTypes
    <2> QED
      BY <1>1, <2>1, <2>2, <2>3 DEF AsksTheSet
  <1>3. CASE UNCHANGED document /\ eval' = [eval EXCEPT !.phase = "answering"]
    BY <1>2, <1>3 DEF EvalTypes, DocumentRanks
  <1>4. CASE /\ MayBeWritten(eval.results)
             /\ document' = [state |-> "whole", hybrid |-> eval.results.hybrid,
                             dense |-> eval.results.dense,
                             winner |-> DecisionOutcome(eval.results.hybrid, eval.results.dense)]
             /\ eval' = [eval EXCEPT !.phase = "answering"]
    <2>1. DecisionOutcome(eval.results.hybrid, eval.results.dense) \in {"hybrid", "dense"}
      BY DEF DecisionOutcome
    <2>2. document' \in [state : {"none", "whole", "torn"}, hybrid : Outcomes, dense : Outcomes,
                         winner : {"hybrid", "dense"}]
      BY <1>1, <1>4, <2>1
    <2>3. Len(eval.results.hybrid) > 0
      <3>1. Len(eval.results[Rankings(eval.mode)[1]]) = eval.set
        BY <1>1, AskingLeft, RankingsNamed
      <3> QED
        BY <1>1, <3>1, RankingsNamed DEF AsksTheSet
    <2>4. /\ document'.hybrid = eval.results.hybrid /\ document'.dense = eval.results.dense
          /\ document'.winner = DecisionOutcome(eval.results.hybrid, eval.results.dense)
      BY <1>4
    <2>5. DocumentRanks'
      BY <1>4, <2>3, <2>4 DEF DocumentRanks, MayBeWritten
    <2> QED
      BY <1>2, <1>4, <2>2, <2>5
  <1>5. CASE Ends("failure") /\ (UNCHANGED document \/ document' = [document EXCEPT !.state = "torn"])
    <2>1. EvalTypes'
      BY <1>5, EndTyped DEF EvalTypes
    <2>2. AsksTheSet'
      BY <1>1, <1>5, <2>1, EndKeeps
    <2>3. DocumentRanks'
      BY <1>5 DEF DocumentRanks, EvalTypes
    <2> QED
      BY <2>1, <2>2, <2>3
  <1> QED
    BY <1>3, <1>4, <1>5 DEF WriteHybridVsDenseReport

LEMMA OutcomeKeeps ==
    ASSUME EvalInv, ReturnOutcome
    PROVE  EvalInv'
  <1> USE DEF EvalInv
  <1>1. Asking(eval) = {} /\ eval.phase # "ready" /\ UNCHANGED document
    BY DEF ReturnOutcome, AsksTheSet
  <1>2. PICK exit \in {"ok", "assertion", "usage", "failure"} :
            Ends(exit) /\ (exit = "ok" => Passed(eval))
    BY DEF ReturnOutcome
  <1>3. EvalTypes'
    BY <1>1, <1>2, EndTyped DEF EvalTypes
  <1>4. AsksTheSet'
    BY <1>1, <1>2, <1>3, EndKeeps
  <1> QED
    BY <1>1, <1>3, <1>4 DEF DocumentRanks

LEMMA EvalStepKeeps ==
    ASSUME EvalInv, [EvalNext]_evalVars
    PROVE  EvalInv'
  <1>1. CASE NextCommand
    <2>1. EvalTypes' /\ AsksTheSet'
      <3>1. /\ eval' = Ready /\ Rankings(eval'.mode) = <<"hybrid">>
            /\ eval'.results["hybrid"] = <<>> /\ eval'.set = 0
        BY <1>1 DEF NextCommand, Ready, Unasked, Rankings
      <3>2. EvalTypes'
        BY <1>1, <3>1 DEF NextCommand, EvalInv, EvalTypes, Ready, Unasked, Outcomes
      <3> QED
        BY <3>1, <3>2 DEF Ready, AsksTheSet
    <2> QED
      BY <1>1, <2>1 DEF NextCommand, EvalInv, DocumentRanks
  <1>2. CASE UNCHANGED evalVars
    <2>1. eval' = eval /\ document' = document
      BY <1>2 DEF evalVars
    <2> QED
      BY <2>1 DEF EvalInv, EvalTypes, AsksTheSet, DocumentRanks, MayBeWritten, Passed, Asking
  <1> QED
    BY <1>1, <1>2, StartKeepsEval, AskKeeps, ReportKeeps, OutcomeKeeps DEF EvalNext

(* What a run may claim: the verdict of AsksTheSet over a set that was asked whole. *)
LEMMA MeasuredByInv ==
    ASSUME EvalInv
    PROVE  PassMeansMeasured
  <1> USE DEF EvalInv
  <1> DEFINE results(k) == eval.results[Rankings(eval.mode)[k]]
  <1>1. \A k \in DOMAIN Rankings(eval.mode) : results(k) \in Outcomes
    BY RankingsNamed
  <1>2. eval.exit \in {"ok", "assertion"} =>
            \A k \in DOMAIN Rankings(eval.mode) : Len(results(k)) = eval.set
    BY AskingLeft DEF AsksTheSet
  <1>3. ASSUME eval.exit = "ok"
        PROVE  /\ eval.set > 0 /\ Passed(eval)
               /\ \A k \in DOMAIN Rankings(eval.mode) : Complete(results(k))
               /\ eval.mode = "golden" =>
                    Hits(eval.results.hybrid) * eval.min[2] >= eval.min[1] * eval.set
               /\ eval.mode = "isolation" => Hits(eval.results.cases) = eval.set
    <2>1. Passed(eval) /\ eval.set > 0
      BY <1>3 DEF AsksTheSet
    <2>2. CASE eval.mode = "golden"
      <3>1. results(1) = eval.results.hybrid /\ Len(results(1)) = eval.set /\ results(1) \in Outcomes
        BY <1>1, <1>2, <1>3, <2>2, RankingsNamed
      <3>2. Complete(results(1)) /\ Reaches(results(1), eval.min)
        BY <2>1, <2>2, <3>1 DEF Passed
      <3>3. Total(results(1)) = eval.set
        BY <3>1, <3>2, AnswersAdd DEF Complete
      <3> QED
        BY <2>1, <2>2, <3>1, <3>2, <3>3, RankingsNamed DEF Reaches
    <2>3. CASE eval.mode = "compare"
      BY <2>1, <2>3, RankingsNamed DEF Passed
    <2>4. CASE eval.mode = "isolation"
      <3>1. results(1) = eval.results.cases /\ Len(results(1)) = eval.set /\ results(1) \in Outcomes
        BY <1>1, <1>2, <1>3, <2>4, RankingsNamed
      <3>2. Hits(results(1)) = Len(results(1))
        BY <2>1, <2>4, <3>1 DEF Passed
      <3>3. Complete(results(1))
        BY <3>1, <3>2, AnswersAdd DEF Complete
      <3> QED
        BY <2>1, <2>4, <3>1, <3>2, <3>3, RankingsNamed
    <2> QED
      BY <2>2, <2>3, <2>4 DEF EvalTypes
  <1>4. ASSUME document.state = "whole"
        PROVE  /\ Len(document.hybrid) = Len(document.dense)
               /\ Complete(document.hybrid) /\ Complete(document.dense)
               /\ document.winner = "dense" <=> Hits(document.dense) > Hits(document.hybrid)
    <2> DEFINE h == document.hybrid
               d == document.dense
    <2>1. h \in Outcomes /\ d \in Outcomes
      BY DEF EvalTypes
    <2>2. Complete(h) /\ Complete(d) /\ Total(h) = Total(d) /\ Len(h) > 0
      BY <1>4 DEF DocumentRanks, MayBeWritten
    <2>3. document.winner = DecisionOutcome(h, d)
      BY <1>4 DEF DocumentRanks
    <2> HIDE DEF h, d
    <2>4. Len(h) = Total(h) /\ Len(d) = Total(d) /\ Total(h) \in Nat \ {0}
      BY <2>1, <2>2, AnswersAdd DEF Complete
    <2>5. Hits(d) * Total(h) > Hits(h) * Total(d) <=> Hits(d) > Hits(h)
      BY <2>1, <2>2, <2>4, AnswersAdd, SameTotal
    <2>6. document.winner = "dense" <=> Hits(d) > Hits(h)
      BY <2>3, <2>5 DEF DecisionOutcome
    <2> QED
      BY <2>2, <2>4, <2>6 DEF h, d
  <1> QED
    BY <1>2, <1>3, <1>4 DEF PassMeansMeasured

-----------------------------------------------------------------------------
(* The inductive invariant of the evaluation. *)
THEOREM EvalInvariance == EvalSpec => []EvalInv
  BY EvalInitInv, EvalStepKeeps, PTL DEF EvalSpec

(* Exit 0 is of a set asked whole, and a document ranks two complete runs (runEval,
   cmd/cli/eval.go; DecisionOutcome, internal/eval/golden.go). *)
THEOREM PassesAreMeasured == EvalSpec => []PassMeansMeasured
  BY EvalInvariance, MeasuredByInv, PTL

-----------------------------------------------------------------------------
(* The golden set. *)

Questions == [uid : Cards, by : Sessions \union {Owner}]

GoldenTypes ==
    /\ file \in [keys : Nat, last : BOOLEAN, torn : BOOLEAN, entries : SUBSET Questions]
    /\ IsFiniteSet(file.entries)
    /\ pc \in [Sessions -> {"closed", "drawing", "asking", "writing",
                            "quit", "refused", "done", "killed"}]
    /\ known \in [Sessions -> SUBSET Questions] /\ opened \in [Sessions -> SUBSET Questions]
    /\ asked \in [Sessions -> SUBSET Cards]
    /\ block \in [Sessions -> [card : Cards \union {Owner}, key : BOOLEAN]]

KnownIsSaved == \A s \in Sessions : known[s] \subseteq file.entries

(* From the draw to the write, what the draw saw is still so. *)
DrawStands(s) ==
    LET b == AreaOf[block[s].card]
    IN  /\ block[s].card \in Cards /\ ~Full(b, known[s])
        /\ \A a \in Areas : Needs(a, known[s]) > 0 /\ ~Full(a, known[s]) /\ Candidates(s, a) # {}
                              => Needs(b, known[s]) > 0

DrawsStand == \A s \in Sessions : pc[s] \in {"asking", "writing"} => DrawStands(s)

(* NeediestFirst of one session and one area. *)
Own(s, b) == Have(b, known[s]) - Have(b, opened[s])
InTurn(s, b) ==
    /\ Own(s, b) > 0 /\ MaxOf[b] > 0 => Have(b, known[s]) <= MaxOf[b]
    /\ Own(s, b) > 0 /\ Have(b, known[s]) > MinOf[b] =>
         \A a \in Areas : Needs(a, known[s]) > 0 /\ ~Full(a, known[s]) => Candidates(s, a) = {}

GoldenInv == /\ GoldenTypes /\ KnownIsSaved /\ DrawsStand
             /\ \A s \in Sessions, b \in Areas : InTurn(s, b)

-----------------------------------------------------------------------------
LEMMA HaveCounts ==
    ASSUME NEW Q, IsFiniteSet(Q), NEW area
    PROVE  Have(area, Q) \in Nat
  BY FS_Subset, FS_CardinalityType DEF Have

(* One question more is one more of its area and none of another. *)
LEMMA OneMore ==
    ASSUME NEW Q, IsFiniteSet(Q), NEW e, NEW area
    PROVE  /\ Have(area, Q \union {e}) \in {Have(area, Q), Have(area, Q) + 1}
           /\ area # AreaOf[e.uid] => Have(area, Q \union {e}) = Have(area, Q)
  <1> DEFINE Of(questions) == {q \in questions : AreaOf[q.uid] = area}
  <1>1. IsFiniteSet(Of(Q)) /\ Cardinality(Of(Q)) \in Nat
    BY FS_Subset, FS_CardinalityType
  <1>2. CASE area # AreaOf[e.uid]
    <2>1. Of(Q \union {e}) = Of(Q)
      BY <1>2
    <2> QED
      BY <1>1, <2>1 DEF Have
  <1>3. CASE area = AreaOf[e.uid]
    <2>1. Of(Q \union {e}) = Of(Q) \union {e}
      BY <1>3
    <2>2. Cardinality(Of(Q) \union {e}) = IF e \in Of(Q) THEN Cardinality(Of(Q)) ELSE Cardinality(Of(Q)) + 1
      BY <1>1, FS_AddElement
    <2>3. Cardinality(Of(Q \union {e})) \in {Cardinality(Of(Q)), Cardinality(Of(Q)) + 1}
      BY <2>1, <2>2, Zenon
    <2> QED
      BY <2>3 DEF Have
  <1> QED
    BY <1>2, <1>3

LEMMA KnownIsFinite ==
    ASSUME GoldenTypes, KnownIsSaved, NEW s \in Sessions
    PROVE  IsFiniteSet(known[s])
  BY FS_Subset DEF GoldenTypes, KnownIsSaved

-----------------------------------------------------------------------------
(* The notes of the owner are finitely many, and so are the entries they start with. *)
LEMMA FirstEntries ==
    ASSUME NEW cards \in SUBSET Cards
    PROVE  LET entries == {Entry(c, Owner) : c \in cards}
           IN  IsFiniteSet(entries) /\ entries \subseteq Questions
  <1> DEFINE entries == {Entry(c, Owner) : c \in cards}
             f == [c \in cards |-> Entry(c, Owner)]
  <1>1. IsFiniteSet(cards)
    BY GoldenAssumption, FS_Subset DEF GoldenAssumption
  <1>2. f \in Surjection(cards, entries)
    BY DEF Surjection
  <1>3. IsFiniteSet(entries)
    BY <1>1, <1>2, FS_Surjection
  <1> QED
    BY <1>3 DEF Entry, Questions

LEMMA GoldenInitInv == GoldenInit => GoldenInv
  <1> SUFFICES ASSUME GoldenInit PROVE GoldenInv
    OBVIOUS
  <1>1. PICK k \in 0 .. 1, last \in BOOLEAN, cards \in SUBSET Cards :
            file = [keys |-> k, last |-> last \/ k = 0, torn |-> FALSE,
                    entries |-> {Entry(c, Owner) : c \in cards}]
    BY DEF GoldenInit
  <1>2. GoldenTypes
    <2>1. /\ file \in [keys : Nat, last : BOOLEAN, torn : BOOLEAN, entries : SUBSET Questions]
          /\ IsFiniteSet(file.entries)
      <3> DEFINE entries == {Entry(c, Owner) : c \in cards}
      <3>1. IsFiniteSet(entries) /\ entries \subseteq Questions
        BY FirstEntries
      <3>2. file = [keys |-> k, last |-> last \/ k = 0, torn |-> FALSE, entries |-> entries]
        BY <1>1
      <3>3. k \in Nat /\ (last \/ k = 0) \in BOOLEAN
        OBVIOUS
      <3> HIDE DEF entries
      <3> QED
        BY <3>1, <3>2, <3>3
    <2> QED
      BY <2>1 DEF GoldenInit, GoldenTypes, NoBlock
  <1>3. KnownIsSaved
    BY DEF GoldenInit, KnownIsSaved
  <1>4. DrawsStand
    BY DEF GoldenInit, DrawsStand
  <1>5. ASSUME NEW s \in Sessions, NEW b \in Areas PROVE InTurn(s, b)
    <2>1. known[s] = {} /\ opened[s] = {}
      BY DEF GoldenInit
    <2>2. Have(b, {}) \in Nat
      BY HaveCounts, FS_EmptySet
    <2>3. Own(s, b) = 0
      BY <2>1, <2>2 DEF Own
    <2> QED
      BY <2>3 DEF InTurn
  <1> QED
    BY <1>2, <1>3, <1>4, <1>5 DEF GoldenInv

-----------------------------------------------------------------------------
(* A session another one's step leaves alone. *)
Untouched(s) == /\ pc'[s] = pc[s] /\ known'[s] = known[s] /\ opened'[s] = opened[s]
                /\ asked'[s] = asked[s] /\ block'[s] = block[s]

LEMMA UntouchedKeeps ==
    ASSUME GoldenInv, NEW s \in Sessions, Untouched(s)
    PROVE  /\ pc'[s] \in {"asking", "writing"} => DrawStands(s)'
           /\ \A b \in Areas : InTurn(s, b)'
  BY DEF GoldenInv, Untouched, DrawsStand, DrawStands, Candidates, InTurn, Own

(* What a session has found stays so while it is offered no note twice. *)
LEMMA InTurnStays ==
    ASSUME GoldenInv, NEW s \in Sessions, known'[s] = known[s], opened'[s] = opened[s],
           asked[s] \subseteq asked'[s], NEW b \in Areas
    PROVE  InTurn(s, b)'
  <1>1. InTurn(s, b) /\ Own(s, b)' = Own(s, b)
    BY DEF GoldenInv, Own
  <1>2. \A a \in Areas : Candidates(s, a)' \subseteq Candidates(s, a)
    BY DEF Candidates
  <1> QED
    BY <1>1, <1>2 DEF InTurn

(* A session whose set is as it was opened has no question of its own. *)
LEMMA NothingOfItsOwn ==
    ASSUME NEW s \in Sessions, IsFiniteSet(known'[s]), opened'[s] = known'[s], NEW b \in Areas
    PROVE  InTurn(s, b)'
  <1>1. Have(b, known'[s]) \in Nat
    BY HaveCounts
  <1>2. Own(s, b)' = 0
    BY <1>1 DEF Own
  <1> QED
    BY <1>2 DEF InTurn

(* The note drawn is of an area that needs no less than any other that is open. *)
LEMMA DrawIsNeediest ==
    ASSUME GoldenInv, NEW s \in Sessions, NEW c \in DrawNote(s)
    PROVE  /\ c \in Cards /\ AreaOf[c] \in Areas /\ ~Full(AreaOf[c], known[s])
           /\ \A a \in Areas : Needs(a, known[s]) > 0 /\ ~Full(a, known[s]) /\ Candidates(s, a) # {}
                                 => Needs(AreaOf[c], known[s]) > 0
  <1>1. PICK b \in OpenAreas(s) : /\ c \in Candidates(s, b)
                                  /\ \A a \in OpenAreas(s) : Before(b, a, known[s])
    BY DEF DrawNote
  <1>2. c \in Cards /\ AreaOf[c] = b /\ b \in Areas /\ ~Full(b, known[s])
    BY <1>1 DEF Candidates, OpenAreas
  <1>3. \A a \in Areas : Have(a, known[s]) \in Nat /\ MinOf[a] \in Nat
    BY KnownIsFinite, HaveCounts, GoldenAssumption DEF GoldenInv, GoldenAssumption
  <1>4. \A a \in Areas : Needs(a, known[s]) \in Nat
    BY <1>3 DEF Needs
  <1>5. \A a \in OpenAreas(s) : Needs(b, known[s]) >= Needs(a, known[s])
    BY <1>1, <1>2, <1>4 DEF Before, OpenAreas
  <1> QED
    BY <1>2, <1>4, <1>5 DEF OpenAreas

(* A saved question: of an area below its minimum, or where none that needs one has a note. *)
LEMMA SaveInTurn ==
    ASSUME GoldenInv, NEW s \in Sessions, DrawStands(s),
           known'[s] = known[s] \union {Entry(block[s].card, s)},
           opened'[s] = opened[s], asked'[s] = asked[s], NEW b \in Areas
    PROVE  InTurn(s, b)'
  <1> DEFINE e == Entry(block[s].card, s)
             d == AreaOf[block[s].card]
  <1>1. IsFiniteSet(known[s]) /\ e.uid = block[s].card
    BY KnownIsFinite DEF GoldenInv, Entry
  <1>2. \A a \in Areas : /\ Have(a, known[s]) \in Nat /\ MinOf[a] \in Nat /\ MaxOf[a] \in Nat
                         /\ Have(a, known'[s]) \in {Have(a, known[s]), Have(a, known[s]) + 1}
                         /\ a # d => Have(a, known'[s]) = Have(a, known[s])
    BY <1>1, HaveCounts, OneMore, GoldenAssumption DEF GoldenAssumption
  <1>3. \A a \in Areas : Candidates(s, a)' = Candidates(s, a)
    BY DEF Candidates
  <1>4. ASSUME NEW a \in Areas
        PROVE  /\ Needs(a, known'[s]) > 0 => Needs(a, known[s]) > 0
               /\ ~Full(a, known'[s]) => ~Full(a, known[s])
    <2> DEFINE had  == Have(a, known[s])
               have == Have(a, known'[s])
    <2>1. had \in Nat /\ have \in {had, had + 1} /\ MinOf[a] \in Nat /\ MaxOf[a] \in Nat
      BY <1>2
    <2> HIDE DEF had, have
    <2>2. had >= MaxOf[a] => have >= MaxOf[a]
      BY <2>1
    <2>3. MinOf[a] > have => MinOf[a] > had
      BY <2>1
    <2> QED
      BY <2>1, <2>2, <2>3 DEF Needs, Full, had, have
  <1>5. d \in Areas /\ ~Full(d, known[s])
    BY GoldenAssumption DEF GoldenAssumption, DrawStands
  <1>6. CASE b = d
    <2>1. MaxOf[b] > 0 => Have(b, known'[s]) <= MaxOf[b]
      <3> DEFINE had  == Have(b, known[s])
                 have == Have(b, known'[s])
      <3>1. had \in Nat /\ have \in {had, had + 1} /\ MaxOf[b] \in Nat
        BY <1>2
      <3>2. ~(MaxOf[b] > 0 /\ had >= MaxOf[b])
        BY <1>5, <1>6 DEF Full
      <3> HIDE DEF had, have
      <3>3. MaxOf[b] > 0 => have <= MaxOf[b]
        BY <3>1, <3>2
      <3> QED
        BY <3>3 DEF have
    <2>2. ASSUME Have(b, known'[s]) > MinOf[b], NEW a \in Areas,
                 Needs(a, known'[s]) > 0, ~Full(a, known'[s])
          PROVE  Candidates(s, a)' = {}
      <3>1. ~(Needs(b, known[s]) > 0)
        BY <1>2, <2>2 DEF Needs
      <3> QED
        BY <1>3, <1>4, <1>6, <2>2, <3>1 DEF DrawStands
    <2> QED
      BY <2>1, <2>2 DEF InTurn
  <1>7. CASE b # d
    <2>1. Have(b, known'[s]) = Have(b, known[s]) /\ Own(s, b)' = Own(s, b)
      BY <1>2, <1>7 DEF Own
    <2>2. InTurn(s, b)
      BY DEF GoldenInv
    <2> QED
      BY <1>3, <1>4, <2>1, <2>2 DEF InTurn
  <1> QED
    BY <1>6, <1>7

-----------------------------------------------------------------------------
GoldenStep(s) == \/ OpenSet(s) \/ Draw(s) \/ Finish(s) \/ Skip(s) \/ Quit(s)
                 \/ Answer(s) \/ Write(s) \/ KilledInWrite(s) \/ Leave(s)

LEMMA OthersUntouched ==
    ASSUME GoldenTypes, NEW s \in Sessions, GoldenStep(s), NEW t \in Sessions \ {s}
    PROVE  Untouched(t)
  BY DEF GoldenTypes, GoldenStep, Untouched, OpenSet, Draw, Finish, Skip, Quit, Answer, Write,
         KilledInWrite, Leave, Goes

(* The file keeps its entries, and takes those of notes. *)
LEMMA FileStaysTyped ==
    ASSUME GoldenInv, NEW s \in Sessions, pc[s] = "writing"
    PROVE  LET after == Appended(s)
           IN  /\ after \in [keys : Nat, last : BOOLEAN, torn : BOOLEAN, entries : SUBSET Questions]
               /\ after.entries = file.entries \union {Entry(block[s].card, s)}
               /\ IsFiniteSet(after.entries) /\ Entry(block[s].card, s) \in Questions
  <1> DEFINE e == Entry(block[s].card, s)
             key == IF block[s].key THEN 1 ELSE 0
  <1>1. e \in Questions
    BY DEF GoldenInv, DrawsStand, DrawStands, Entry, Questions
  <1>2. key \in Nat /\ file.keys \in Nat /\ file.keys + key \in Nat
    BY DEF GoldenInv, GoldenTypes
  <1>3. IsFiniteSet(file.entries \union {e}) /\ file.entries \union {e} \in SUBSET Questions
    BY <1>1, FS_AddElement DEF GoldenInv, GoldenTypes
  <1>4. Appended(s) = [file EXCEPT !.keys = file.keys + key, !.entries = file.entries \union {e}]
    BY DEF GoldenInv, GoldenTypes, Appended
  <1> HIDE DEF key, e
  <1>5. /\ Appended(s) \in [keys : Nat, last : BOOLEAN, torn : BOOLEAN, entries : SUBSET Questions]
        /\ Appended(s).entries = file.entries \union {e}
    BY <1>2, <1>3, <1>4 DEF GoldenInv, GoldenTypes
  <1> QED
    BY <1>1, <1>3, <1>5 DEF e

SavedStays == /\ file.entries \subseteq file'.entries
              /\ \A s \in Sessions : known'[s] \subseteq file'.entries

(* What a step of a session leaves of its own types, and of the file. *)
LEMMA GoldenStepTypes ==
    ASSUME GoldenInv, NEW s \in Sessions, GoldenStep(s)
    PROVE  GoldenTypes' /\ SavedStays
  <1> USE DEF GoldenInv
  <1>1. CASE OpenSet(s)
    <2>1. {q.uid : q \in file.entries} \subseteq Cards
      BY DEF GoldenTypes, Questions
    <2>2. GoldenTypes'
      BY <1>1, <2>1 DEF OpenSet, GoldenTypes
    <2> QED
      BY <1>1, <2>2 DEF OpenSet, GoldenTypes, KnownIsSaved, SavedStays
  <1>2. CASE Draw(s)
    <2>1. PICK c \in DrawNote(s) : /\ asked' = [asked EXCEPT ![s] = @ \union {c}]
                                   /\ block' = [block EXCEPT ![s].card = c]
      BY <1>2 DEF Draw
    <2>2. c \in Cards
      BY DrawIsNeediest
    <2>3. block' \in [Sessions -> [card : Cards \union {Owner}, key : BOOLEAN]]
      BY <2>1, <2>2 DEF GoldenTypes
    <2>4. GoldenTypes'
      BY <1>2, <2>1, <2>2, <2>3 DEF Draw, Goes, GoldenTypes
    <2> QED
      BY <1>2, <2>4 DEF Draw, KnownIsSaved, SavedStays
  <1>3. CASE Finish(s) \/ Skip(s) \/ Quit(s)
    BY <1>3 DEF Finish, Skip, Quit, Goes, GoldenTypes, KnownIsSaved, SavedStays
  <1>4. CASE Answer(s)
    <2>1. block' \in [Sessions -> [card : Cards \union {Owner}, key : BOOLEAN]]
      <3> DEFINE key == file.keys = 0
      <3>1. key \in BOOLEAN
        OBVIOUS
      <3>2. block' = [block EXCEPT ![s].key = key] \/ UNCHANGED block
        BY <1>4 DEF Answer
      <3> HIDE DEF key
      <3>3. CASE block' = [block EXCEPT ![s].key = key]
        <4>1. block'[s] = [block[s] EXCEPT !.key = key] /\ DOMAIN block' = Sessions
          BY <3>3 DEF GoldenTypes
        <4>2. [block[s] EXCEPT !.key = key] \in [card : Cards \union {Owner}, key : BOOLEAN]
          BY <3>1 DEF GoldenTypes
        <4> QED
          BY <3>3, <4>1, <4>2 DEF GoldenTypes
      <3> QED
        BY <3>2, <3>3 DEF GoldenTypes
    <2>2. GoldenTypes'
      BY <1>4, <2>1 DEF Answer, GoldenTypes
    <2> QED
      BY <1>4, <2>2 DEF Answer, KnownIsSaved, SavedStays
  <1>5. CASE Write(s)
    <2>1. pc[s] = "writing" /\ file' = Appended(s)
      BY <1>5 DEF Write, Goes
    <2>2. GoldenTypes'
      BY <1>5, <2>1, FileStaysTyped DEF Write, Goes, GoldenTypes
    <2> QED
      BY <1>5, <2>1, <2>2, FileStaysTyped DEF Write, GoldenTypes, KnownIsSaved, SavedStays
  <1>6. CASE KilledInWrite(s)
    <2>1. pc[s] = "writing" /\ UNCHANGED <<known, opened, asked, block>>
      BY <1>6 DEF KilledInWrite, Goes
    <2>2. /\ file' \in [keys : Nat, last : BOOLEAN, torn : BOOLEAN, entries : SUBSET Questions]
          /\ IsFiniteSet(file'.entries) /\ file.entries \subseteq file'.entries
      <3>1. CASE UNCHANGED file \/ file' = Appended(s)
        BY <2>1, <3>1, FileStaysTyped DEF GoldenTypes
      <3>2. CASE file' = [file EXCEPT !.torn = TRUE, !.keys = Appended(s).keys]
        <4>1. Appended(s).keys \in Nat
          BY <2>1, FileStaysTyped
        <4> QED
          BY <3>2, <4>1 DEF GoldenTypes
      <3> QED
        BY <1>6, <3>1, <3>2 DEF KilledInWrite
    <2>3. GoldenTypes'
      BY <1>6, <2>1, <2>2 DEF KilledInWrite, Goes, GoldenTypes
    <2> QED
      BY <2>1, <2>2, <2>3 DEF KnownIsSaved, SavedStays
  <1>7. CASE Leave(s)
    <2>1. GoldenTypes'
      BY <1>7 DEF Leave, GoldenTypes, NoBlock
    <2> QED
      BY <1>7, <2>1 DEF Leave, GoldenTypes, KnownIsSaved, SavedStays
  <1> QED
    BY <1>1, <1>2, <1>3, <1>4, <1>5, <1>6, <1>7 DEF GoldenStep

(* What a step of a session leaves of its draw and of its order. *)
LEMMA GoldenStepInTurn ==
    ASSUME GoldenInv, NEW s \in Sessions, GoldenStep(s)
    PROVE  /\ pc'[s] \in {"asking", "writing"} => DrawStands(s)'
           /\ \A b \in Areas : InTurn(s, b)'
  <1> USE DEF GoldenInv
  <1>1. CASE OpenSet(s) \/ Leave(s)
    <2>1. pc'[s] \in {"drawing", "closed"} /\ opened'[s] = known'[s] /\ known'[s] \in {{}, file.entries}
      <3>1. CASE OpenSet(s)
        BY <3>1 DEF OpenSet, GoldenTypes
      <3>2. CASE Leave(s)
        BY <3>2 DEF Leave, GoldenTypes
      <3> QED
        BY <1>1, <3>1, <3>2
    <2>2. IsFiniteSet(known'[s])
      BY <2>1, FS_EmptySet DEF GoldenTypes
    <2> QED
      BY <2>1, <2>2, NothingOfItsOwn
  <1>2. CASE Draw(s)
    <2>1. PICK c \in DrawNote(s) : /\ asked' = [asked EXCEPT ![s] = @ \union {c}]
                                   /\ block' = [block EXCEPT ![s].card = c]
      BY <1>2 DEF Draw
    <2>2. /\ block'[s].card = c /\ asked[s] \subseteq asked'[s] /\ known'[s] = known[s]
          /\ opened'[s] = opened[s]
      BY <1>2, <2>1 DEF Draw, GoldenTypes
    <2>3. \A a \in Areas : Candidates(s, a)' \subseteq Candidates(s, a)
      BY <2>2 DEF Candidates
    <2>4. DrawStands(s)'
      BY <2>2, <2>3, DrawIsNeediest DEF DrawStands
    <2> QED
      BY <2>2, <2>4, InTurnStays
  <1>3. CASE Finish(s) \/ Skip(s) \/ Quit(s) \/ KilledInWrite(s)
    <2>1. pc'[s] \in {"done", "drawing", "quit", "killed"} /\ UNCHANGED <<known, opened, asked>>
      BY <1>3 DEF Finish, Skip, Quit, KilledInWrite, Goes, GoldenTypes
    <2> QED
      BY <2>1, InTurnStays
  <1>4. CASE Answer(s)
    <2>1. UNCHANGED <<known, opened, asked>> /\ pc[s] = "asking" /\ block'[s].card = block[s].card
      BY <1>4 DEF Answer, GoldenTypes
    <2>2. DrawStands(s)'
      BY <2>1 DEF DrawsStand, DrawStands, Candidates
    <2> QED
      BY <2>1, <2>2, InTurnStays
  <1>5. CASE Write(s)
    <2>1. /\ pc[s] = "writing" /\ pc'[s] = "drawing" /\ UNCHANGED <<opened, asked>>
          /\ known'[s] = known[s] \union {Entry(block[s].card, s)}
      BY <1>5 DEF Write, Goes, GoldenTypes
    <2>2. DrawStands(s)
      BY <2>1 DEF DrawsStand
    <2> QED
      BY <2>1, <2>2, SaveInTurn
  <1> QED
    BY <1>1, <1>2, <1>3, <1>4, <1>5 DEF GoldenStep

LEMMA GoldenStepKeeps ==
    ASSUME GoldenInv, [GoldenNext]_goldenVars
    PROVE  GoldenInv' /\ SavedStays
  <1>1. CASE \E s \in Sessions : GoldenStep(s)
    <2>1. PICK s \in Sessions : GoldenStep(s)
      BY <1>1
    <2>2. GoldenTypes' /\ SavedStays
      BY <2>1, GoldenStepTypes
    <2>3. \A t \in Sessions : /\ pc'[t] \in {"asking", "writing"} => DrawStands(t)'
                              /\ \A b \in Areas : InTurn(t, b)'
      BY <2>1, OthersUntouched, UntouchedKeeps, GoldenStepInTurn DEF GoldenInv
    <2> QED
      BY <2>2, <2>3 DEF GoldenInv, SavedStays, KnownIsSaved, DrawsStand
  <1>2. CASE Repair \/ UNCHANGED goldenVars
    <2>1. UNCHANGED <<pc, known, opened, asked, block>>
      BY <1>2 DEF Repair, goldenVars
    <2>2. /\ file' \in [keys : Nat, last : BOOLEAN, torn : BOOLEAN, entries : SUBSET Questions]
          /\ file'.entries = file.entries
      <3>1. CASE Repair
        <4> DEFINE keys == IF file.keys > 1 THEN 1 ELSE file.keys
        <4>1. keys \in Nat /\ file' = [file EXCEPT !.torn = FALSE, !.keys = keys, !.last = TRUE]
          BY <3>1 DEF Repair, GoldenInv, GoldenTypes
        <4> HIDE DEF keys
        <4> QED
          BY <4>1 DEF GoldenInv, GoldenTypes
      <3> QED
        BY <1>2, <3>1 DEF goldenVars, GoldenInv, GoldenTypes
    <2>3. GoldenTypes' /\ KnownIsSaved' /\ SavedStays
      BY <2>1, <2>2 DEF GoldenInv, GoldenTypes, KnownIsSaved, SavedStays
    <2>4. \A s \in Sessions : Untouched(s)
      BY <2>1 DEF Untouched
    <2> QED
      BY <2>3, <2>4, UntouchedKeeps DEF GoldenInv, DrawsStand
  <1> QED
    BY <1>1, <1>2 DEF GoldenNext, GoldenStep

-----------------------------------------------------------------------------
(* The inductive invariant of the sessions. *)
THEOREM GoldenInvariance == GoldenSpec => []GoldenInv
  BY GoldenInitInv, GoldenStepKeeps, PTL DEF GoldenSpec

(* A question a session was told is saved stays in the file, whatever other sessions and
   the owner do (AppendQuestion, goldenset/authoring.go). *)
THEOREM SavedQuestionsStay == GoldenSpec => SavedStaysSaved
  BY GoldenInvariance, GoldenStepKeeps, PTL DEF GoldenSpec, SavedStaysSaved, SavedStays

(* A session takes no area beyond its maximum, and none beyond its minimum while another
   is short of its own and has a note to offer (pickArea, goldenauthor/author.go). *)
THEOREM SessionsGoInTurn == GoldenSpec => []NeediestFirst
  <1>1. GoldenInv => NeediestFirst
    BY DEF GoldenInv, NeediestFirst, InTurn, Own
  <1> QED
    BY <1>1, GoldenInvariance, PTL

-----------------------------------------------------------------------------

(* The drills. *)

PointCounts == [Notes -> 0 .. MaxPoints]
PruneSteps   == {"off", "counted", "parked", "reported", "pruned", "tallied", "restored",
                 "reingested", "confirmed", "aborted", "killed"}
RecoverSteps == {"off", "checked", "measured", "down", "wiped", "waiting", "rebuilding",
                 "rebuilt", "recovered", "aborted"}
Drills(steps) == [pc : steps, was : PointCounts, orphan : 0 .. MaxPoints,
                  calm : BOOLEAN, lost : BOOLEAN]

OpsTypes ==
    /\ disk \in PointCounts /\ index \in PointCounts /\ stash \in 0 .. MaxPoints
    /\ qdrant \in {"up", "stopped", "removed", "blank"} /\ drifted \in BOOLEAN
    /\ prune \in Drills(PruneSteps) /\ recover \in Drills(RecoverSteps)

(* The note is aside only between the move and the move back, or for good. *)
StashHeld ==
    /\ stash # 0 => prune.pc \in {"parked", "reported", "pruned", "tallied"} \/ prune.lost
    /\ prune.pc \in {"off", "counted"} => ~prune.lost

(* Steps of the prune drill from which on the points of the orphan are gone. *)
Swept == {"pruned", "tallied", "restored", "reingested"}

(* In a vault nobody edits, a note has the points that were counted or none, the drilled
   note is in one of its two places, and what was pruned is back only after its file is. *)
PruneCalm ==
    prune.calm /\ ~Ended(prune) =>
        /\ prune.was[Drilled] > 0
        /\ \A n \in Notes : index[n] \in {0, prune.was[n]}
        /\ \A n \in Notes \ {Drilled} : disk[n] = prune.was[n]
        /\ stash = 0 => disk[Drilled] = prune.was[Drilled]
        /\ stash # 0 => disk[Drilled] = 0 /\ stash = prune.was[Drilled]
        /\ prune.pc \in Swept /\ stash # 0 => index[Drilled] = 0

(* The recovery counts what the vault has, and has it back but for the drilled note. *)
Measured == {"measured", "down", "wiped", "waiting", "rebuilding", "rebuilt"}
RecoverCalm ==
    recover.calm /\ recover.pc \in Measured =>
        \A n \in Notes \ {Drilled} :
            /\ disk[n] = recover.was[n] /\ index[n] \in {0, recover.was[n]}
            /\ recover.pc = "rebuilt" => index[n] = recover.was[n]

(* When the drill has ended, the note is as it was counted. *)
BackWhole ==
    prune.calm /\ Ended(prune) /\ prune.pc # "off" /\ ~prune.lost =>
        disk[Drilled] = prune.was[Drilled]

OpsInv == OpsTypes /\ StashHeld /\ PruneCalm /\ BackWhole /\ RecoverCalm

-----------------------------------------------------------------------------
PlacesOf(ix) == {p \in Notes \X (1 .. MaxPoints) : p[2] <= ix[p[1]]}

(* An index that has no note's points beyond another's, and as many, is that other. *)
LEMMA SameCountSameIndex ==
    ASSUME NEW f \in PointCounts, NEW g \in PointCounts, \A n \in Notes : f[n] <= g[n],
           Points(f) = Points(g)
    PROVE  f = g
  <1>1. IsFiniteSet(Notes \X (1 .. MaxPoints))
    <2>1. IsFiniteSet(Notes) /\ IsFiniteSet(1 .. MaxPoints)
      BY OperationsAssumption, FS_Interval
    <2> QED
      BY <2>1, FS_Product
  <1>2. IsFiniteSet(PlacesOf(g))
    BY <1>1, FS_Subset DEF PlacesOf
  <1>3. PlacesOf(f) \in SUBSET PlacesOf(g)
    <2>1. ASSUME NEW n \in Notes, NEW k \in 1 .. MaxPoints, k <= f[n] PROVE k <= g[n]
      <3>1. f[n] \in Nat /\ g[n] \in Nat /\ k \in Nat
        BY OperationsAssumption DEF PointCounts
      <3> QED
        BY <2>1, <3>1
    <2> QED
      BY <2>1 DEF PlacesOf
  <1>4. Cardinality(PlacesOf(f)) = Cardinality(PlacesOf(g))
    BY DEF Points, PointsOf, PlacesOf
  <1>5. PlacesOf(f) = PlacesOf(g)
    BY <1>2, <1>3, <1>4, FS_Subset
  <1>6. ASSUME NEW n \in Notes PROVE f[n] = g[n]
    <2>1. f[n] \in 0 .. MaxPoints /\ g[n] \in 0 .. MaxPoints /\ f[n] <= g[n] /\ MaxPoints \in Nat
      BY OperationsAssumption DEF PointCounts
    <2>2. g[n] = 0 \/ <<n, g[n]>> \in PlacesOf(g)
      BY <2>1 DEF PlacesOf
    <2>3. g[n] = 0 \/ g[n] <= f[n]
      BY <1>5, <2>2 DEF PlacesOf
    <2> QED
      BY <2>1, <2>3
  <1> QED
    BY <1>6 DEF PointCounts

(* So is one that has the other's points but for one note. *)
LEMMA SameButOne ==
    ASSUME NEW f \in PointCounts, NEW g \in PointCounts, NEW d \in Notes,
           \A n \in Notes \ {d} : f[n] = g[n], Points(f) = Points(g)
    PROVE  f = g
  <1>1. \A n \in Notes : f[n] \in Nat /\ g[n] \in Nat
    BY OperationsAssumption DEF PointCounts
  <1>2. CASE f[d] <= g[d]
    <2>1. \A n \in Notes : f[n] <= g[n]
      BY <1>1, <1>2
    <2> QED
      BY <2>1, SameCountSameIndex
  <1>3. CASE g[d] <= f[d]
    <2>1. \A n \in Notes : g[n] <= f[n]
      BY <1>1, <1>3
    <2> QED
      BY <2>1, SameCountSameIndex
  <1> QED
    BY <1>1, <1>2, <1>3

LEMMA IngestedTyped == OpsTypes => Ingested \in PointCounts
  BY DEF OpsTypes, Ingested, PointCounts

(* What an ingestion that failed on its way leaves of each note: what was, or what it writes. *)
LEMMA PartlyTyped ==
    ASSUME OpsTypes, NEW target \in PointCounts, Partly(target)
    PROVE  index' \in PointCounts /\ \A n \in Notes : index'[n] \in {index[n], target[n]}
  <1>1. PICK S \in SUBSET Notes : index' = [n \in Notes |-> IF n \in S THEN target[n] ELSE index[n]]
    BY DEF Partly
  <1> QED
    BY <1>1 DEF OpsTypes, PointCounts

-----------------------------------------------------------------------------
LEMMA OpsInitInv == OpsInit => OpsInv
  <1> SUFFICES ASSUME OpsInit PROVE OpsInv
    OBVIOUS
  <1>1. disk \in PointCounts /\ index = disk /\ NoPoints \in PointCounts /\ 0 \in 0 .. MaxPoints
    BY OperationsAssumption DEF OpsInit, NoPoints, PointCounts
  <1>2. OpsTypes
    BY <1>1 DEF OpsInit, OpsTypes, NoDrill, Drills, PruneSteps, RecoverSteps
  <1>3. StashHeld /\ PruneCalm /\ BackWhole /\ RecoverCalm
    BY DEF OpsInit, NoDrill, StashHeld, PruneCalm, BackWhole, RecoverCalm, Ended, Measured
  <1> QED
    BY <1>2, <1>3 DEF OpsInv

-----------------------------------------------------------------------------
(* What a step does to the files: nothing, or the move back. *)
FilesKept == \/ UNCHANGED <<disk, stash>>
             \/ stash # 0 /\ disk' = [disk EXCEPT ![Drilled] = stash] /\ stash' = 0

(* And to the index: of each note it leaves the points there are or those of its file. *)
IndexKept == index' \in PointCounts /\ \A n \in Notes : index'[n] \in {index[n], disk[n]}

(* A step of the prune drill after its move of the note. *)
PruneGoesTo(step, orphan, lost) ==
    /\ prune' = [prune EXCEPT !.pc = step, !.orphan = orphan, !.lost = lost]
    /\ ~Ended(prune)
    /\ step \in Swept => prune.pc \in Swept \/ index' = disk
    /\ stash' # 0 => step \in {"parked", "reported", "pruned", "tallied"} \/ lost
    /\ step = "confirmed" => /\ prune.pc = "reingested" /\ UNCHANGED <<index, disk, stash>>
                           /\ Counts(index) = Counts(prune.was)
PruneGoesOn ==
    /\ FilesKept /\ IndexKept /\ UNCHANGED <<qdrant, drifted, recover>>
    /\ \E step \in PruneSteps \ {"off", "counted"}, orphan \in 0 .. MaxPoints, lost \in BOOLEAN :
          PruneGoesTo(step, orphan, lost)

LEMMA UnchangedIndex == OpsTypes /\ UNCHANGED index => IndexKept
  BY DEF OpsTypes, IndexKept

LEMMA WholeIngest == OpsTypes /\ index' = Ingested => IndexKept
  BY IngestedTyped DEF IndexKept, Ingested

LEMMA RestoreKeeps == Restore => FilesKept /\ stash' = 0
  BY DEF Restore, FilesKept

-----------------------------------------------------------------------------
LEMMA PruneActionsGoOn ==
    ASSUME OpsTypes, StashHeld,
           \/ ReportOrphan \/ PruneOrphan \/ CountAfter \/ PutBack \/ IngestBack \/ ConfirmPrune
           \/ PruneFails \/ PruneKilled
    PROVE  PruneGoesOn
  <1> USE DEF PruneSteps, Swept
  <1>0. prune.orphan \in 0 .. MaxPoints /\ prune.lost \in BOOLEAN /\ prune.pc \in PruneSteps
    BY DEF OpsTypes, Drills
  <1>1. CASE ReportOrphan
    <2>1. IndexKept /\ UNCHANGED <<qdrant, drifted, recover>> /\ prune.pc = "parked"
      BY <1>1, WholeIngest DEF ReportOrphan
    <2>2. CASE Orphans = {Drilled}
      <3>1. /\ UNCHANGED <<disk, stash>>
            /\ prune' = [prune EXCEPT !.pc = "reported", !.orphan = index[Drilled]]
        BY <1>1, <2>2 DEF ReportOrphan
      <3>2. index[Drilled] \in 0 .. MaxPoints
        BY OperationsAssumption DEF OpsTypes, PointCounts
      <3>3. prune' = [prune EXCEPT !.pc = "reported", !.orphan = index[Drilled], !.lost = prune.lost]
        BY <3>1 DEF OpsTypes, Drills
      <3>8. FilesKept /\ UNCHANGED <<qdrant, drifted, recover>>
        BY <1>0, <2>1, <3>1, <3>2, <3>3 DEF FilesKept
      <3>9. PruneGoesTo("reported", index[Drilled], prune.lost)
        BY <1>0, <2>1, <3>1, <3>2, <3>3 DEF PruneGoesTo, FilesKept, Ended
      <3> QED
        BY <1>0, <3>8, <3>9, <2>1, <3>1, <3>2, <3>3 DEF PruneGoesOn
    <2>3. CASE Orphans # {Drilled}
      <3>1. FilesKept /\ stash' = 0 /\ prune' = [prune EXCEPT !.pc = "aborted"]
        BY <1>1, <2>3, RestoreKeeps DEF ReportOrphan, PruneDies, OnExit
      <3>2. prune' = [prune EXCEPT !.pc = "aborted", !.orphan = prune.orphan, !.lost = prune.lost]
        BY <3>1 DEF OpsTypes, Drills
      <3>8. FilesKept /\ UNCHANGED <<qdrant, drifted, recover>>
        BY <1>0, <2>1, <3>1, <3>2 DEF FilesKept
      <3>9. PruneGoesTo("aborted", prune.orphan, prune.lost)
        BY <1>0, <2>1, <3>1, <3>2 DEF PruneGoesTo, Ended
      <3> QED
        BY <1>0, <3>8, <3>9, <2>1, <3>1, <3>2 DEF PruneGoesOn
    <2> QED
      BY <2>2, <2>3
  <1>2. CASE PruneOrphan
    <2>1. IndexKept /\ UNCHANGED <<qdrant, drifted, recover>> /\ prune.pc = "reported" /\ index' = disk
      BY <1>2 DEF PruneOrphan, IndexKept, OpsTypes
    <2>2. \/ prune' = [prune EXCEPT !.pc = "pruned"] /\ UNCHANGED <<disk, stash>>
          \/ FilesKept /\ stash' = 0 /\ prune' = [prune EXCEPT !.pc = "aborted"]
      BY <1>2, RestoreKeeps DEF PruneOrphan, PruneGoes, PruneDies, OnExit
    <2>3. CASE prune' = [prune EXCEPT !.pc = "pruned"] /\ UNCHANGED <<disk, stash>>
      <3>1. prune' = [prune EXCEPT !.pc = "pruned", !.orphan = prune.orphan, !.lost = prune.lost]
        BY <2>3 DEF OpsTypes, Drills
      <3>8. FilesKept /\ UNCHANGED <<qdrant, drifted, recover>>
        BY <1>0, <2>1, <2>3, <3>1 DEF FilesKept
      <3>9. PruneGoesTo("pruned", prune.orphan, prune.lost)
        BY <1>0, <2>1, <2>3, <3>1 DEF PruneGoesTo, FilesKept, Ended
      <3> QED
        BY <1>0, <3>8, <3>9, <2>1, <2>3, <3>1 DEF PruneGoesOn
    <2>4. CASE FilesKept /\ stash' = 0 /\ prune' = [prune EXCEPT !.pc = "aborted"]
      <3>1. prune' = [prune EXCEPT !.pc = "aborted", !.orphan = prune.orphan, !.lost = prune.lost]
        BY <2>4 DEF OpsTypes, Drills
      <3>8. FilesKept /\ UNCHANGED <<qdrant, drifted, recover>>
        BY <1>0, <2>1, <2>4, <3>1 DEF FilesKept
      <3>9. PruneGoesTo("aborted", prune.orphan, prune.lost)
        BY <1>0, <2>1, <2>4, <3>1 DEF PruneGoesTo, Ended
      <3> QED
        BY <1>0, <3>8, <3>9, <2>1, <2>4, <3>1 DEF PruneGoesOn
    <2> QED
      BY <2>2, <2>3, <2>4
  <1>3. CASE CountAfter
    <2>1. IndexKept /\ UNCHANGED <<qdrant, drifted, recover>> /\ prune.pc = "pruned"
      BY <1>3, UnchangedIndex DEF CountAfter
    <2>2. \/ prune' = [prune EXCEPT !.pc = "tallied"] /\ UNCHANGED <<disk, stash>>
          \/ FilesKept /\ stash' = 0 /\ prune' = [prune EXCEPT !.pc = "aborted"]
      BY <1>3, RestoreKeeps DEF CountAfter, PruneGoes, PruneDies, OnExit
    <2>3. CASE prune' = [prune EXCEPT !.pc = "tallied"] /\ UNCHANGED <<disk, stash>>
      <3>1. prune' = [prune EXCEPT !.pc = "tallied", !.orphan = prune.orphan, !.lost = prune.lost]
        BY <2>3 DEF OpsTypes, Drills
      <3>8. FilesKept /\ UNCHANGED <<qdrant, drifted, recover>>
        BY <1>0, <2>1, <2>3, <3>1 DEF FilesKept
      <3>9. PruneGoesTo("tallied", prune.orphan, prune.lost)
        BY <1>0, <2>1, <2>3, <3>1 DEF PruneGoesTo, FilesKept, Ended
      <3> QED
        BY <1>0, <3>8, <3>9, <2>1, <2>3, <3>1 DEF PruneGoesOn
    <2>4. CASE FilesKept /\ stash' = 0 /\ prune' = [prune EXCEPT !.pc = "aborted"]
      <3>1. prune' = [prune EXCEPT !.pc = "aborted", !.orphan = prune.orphan, !.lost = prune.lost]
        BY <2>4 DEF OpsTypes, Drills
      <3>8. FilesKept /\ UNCHANGED <<qdrant, drifted, recover>>
        BY <1>0, <2>1, <2>4, <3>1 DEF FilesKept
      <3>9. PruneGoesTo("aborted", prune.orphan, prune.lost)
        BY <1>0, <2>1, <2>4, <3>1 DEF PruneGoesTo, Ended
      <3> QED
        BY <1>0, <3>8, <3>9, <2>1, <2>4, <3>1 DEF PruneGoesOn
    <2> QED
      BY <2>2, <2>3, <2>4
  <1>4. CASE PutBack
    <2>1. IndexKept /\ UNCHANGED <<qdrant, drifted, recover>> /\ prune.pc = "tallied"
      BY <1>4, UnchangedIndex DEF PutBack, PruneGoes
    <2>2. \/ FilesKept /\ stash' = 0 /\ prune' = [prune EXCEPT !.pc = "restored"]
          \/ UNCHANGED <<disk, stash>> /\ prune' = [prune EXCEPT !.pc = "restored", !.lost = TRUE]
      BY <1>4, RestoreKeeps DEF PutBack, PruneGoes
    <2>3. CASE FilesKept /\ stash' = 0 /\ prune' = [prune EXCEPT !.pc = "restored"]
      <3>1. prune' = [prune EXCEPT !.pc = "restored", !.orphan = prune.orphan, !.lost = prune.lost]
        BY <2>3 DEF OpsTypes, Drills
      <3>8. FilesKept /\ UNCHANGED <<qdrant, drifted, recover>>
        BY <1>0, <2>1, <2>3, <3>1 DEF FilesKept
      <3>9. PruneGoesTo("restored", prune.orphan, prune.lost)
        BY <1>0, <2>1, <2>3, <3>1 DEF PruneGoesTo, Ended
      <3> QED
        BY <1>0, <3>8, <3>9, <2>1, <2>3, <3>1 DEF PruneGoesOn
    <2>4. CASE UNCHANGED <<disk, stash>> /\ prune' = [prune EXCEPT !.pc = "restored", !.lost = TRUE]
      <3>1. prune' = [prune EXCEPT !.pc = "restored", !.orphan = prune.orphan, !.lost = TRUE]
        BY <2>4 DEF OpsTypes, Drills
      <3>8. FilesKept /\ UNCHANGED <<qdrant, drifted, recover>>
        BY <1>0, <2>1, <2>4, <3>1 DEF FilesKept
      <3>9. PruneGoesTo("restored", prune.orphan, TRUE)
        BY <1>0, <2>1, <2>4, <3>1 DEF PruneGoesTo, FilesKept, Ended
      <3> QED
        BY <1>0, <3>8, <3>9, <2>1, <2>4, <3>1 DEF PruneGoesOn
    <2> QED
      BY <2>2, <2>3, <2>4
  <1>5. CASE IngestBack
    <2>1. /\ IndexKept /\ UNCHANGED <<disk, stash, qdrant, drifted, recover>> /\ prune.pc = "restored"
          /\ prune' = [prune EXCEPT !.pc = "reingested"]
      BY <1>5, WholeIngest DEF IngestBack, PruneGoes
    <2>2. prune' = [prune EXCEPT !.pc = "reingested", !.orphan = prune.orphan, !.lost = prune.lost]
      BY <2>1 DEF OpsTypes, Drills
    <2>3. stash' # 0 => prune.lost
      BY <2>1 DEF StashHeld
    <2>8. FilesKept /\ UNCHANGED <<qdrant, drifted, recover>>
      BY <1>0, <2>1, <2>2, <2>3 DEF FilesKept
    <2>9. PruneGoesTo("reingested", prune.orphan, prune.lost)
      BY <1>0, <2>1, <2>2, <2>3 DEF PruneGoesTo, FilesKept, Ended
    <2> QED
      BY <1>0, <2>8, <2>9, <2>1, <2>2, <2>3 DEF PruneGoesOn
  <1>6. CASE ConfirmPrune
    <2> DEFINE step == IF Counts(index) = Counts(prune.was) THEN "confirmed" ELSE "aborted"
    <2>1. /\ IndexKept /\ UNCHANGED <<disk, stash, index, qdrant, drifted, recover>>
          /\ prune.pc = "reingested" /\ prune' = [prune EXCEPT !.pc = step]
      BY <1>6, UnchangedIndex DEF ConfirmPrune, Compare
    <2>2. step \in {"confirmed", "aborted"} /\ (step = "confirmed" => Counts(index) = Counts(prune.was))
      OBVIOUS
    <2> HIDE DEF step
    <2>3. prune' = [prune EXCEPT !.pc = step, !.orphan = prune.orphan, !.lost = prune.lost]
      BY <2>1 DEF OpsTypes, Drills
    <2>4. stash' # 0 => prune.lost
      BY <2>1 DEF StashHeld
    <2>8. FilesKept /\ UNCHANGED <<qdrant, drifted, recover>>
      BY <1>0, <2>1, <2>2, <2>3, <2>4 DEF FilesKept
    <2>9. PruneGoesTo(step, prune.orphan, prune.lost)
      BY <1>0, <2>1, <2>2, <2>3, <2>4 DEF PruneGoesTo, FilesKept, Ended
    <2> QED
      BY <1>0, <2>8, <2>9, <2>1, <2>2, <2>3, <2>4 DEF PruneGoesOn
  <1>7. CASE PruneFails
    <2>1. ~Ended(prune) /\ UNCHANGED <<qdrant, drifted, recover>>
      BY <1>7 DEF PruneFails
    <2>2. IndexKept
      <3>1. Partly(disk) \/ Partly(Ingested) \/ UNCHANGED index
        BY <1>7 DEF PruneFails
      <3>2. CASE Partly(disk)
        BY <3>2, PartlyTyped DEF OpsTypes, IndexKept
      <3>3. CASE Partly(Ingested)
        BY <3>3, PartlyTyped, IngestedTyped DEF IndexKept, Ingested
      <3> QED
        BY <3>1, <3>2, <3>3, UnchangedIndex
    <2>3. FilesKept /\ prune' = [prune EXCEPT !.pc = "aborted"] /\ (stash' # 0 => prune.lost)
      BY <1>7, RestoreKeeps DEF PruneFails, Exits, PruneDies, OnExit, FilesKept, StashHeld
    <2>4. prune' = [prune EXCEPT !.pc = "aborted", !.orphan = prune.orphan, !.lost = prune.lost]
      BY <2>3 DEF OpsTypes, Drills
    <2>8. FilesKept /\ UNCHANGED <<qdrant, drifted, recover>>
      BY <1>0, <2>1, <2>2, <2>3, <2>4 DEF FilesKept
    <2>9. PruneGoesTo("aborted", prune.orphan, prune.lost)
      BY <1>0, <2>1, <2>2, <2>3, <2>4 DEF PruneGoesTo
    <2> QED
      BY <1>0, <2>8, <2>9, <2>1, <2>2, <2>3, <2>4 DEF PruneGoesOn
  <1>8. CASE PruneKilled
    <2>1. /\ ~Ended(prune) /\ UNCHANGED <<disk, stash, index, qdrant, drifted, recover>>
          /\ prune' = [prune EXCEPT !.pc = "killed", !.lost = TRUE]
      BY <1>8 DEF PruneKilled
    <2>2. prune' = [prune EXCEPT !.pc = "killed", !.orphan = prune.orphan, !.lost = TRUE]
      BY <2>1 DEF OpsTypes, Drills
    <2>3. IndexKept
      BY <2>1, UnchangedIndex
    <2>8. FilesKept /\ UNCHANGED <<qdrant, drifted, recover>>
      BY <1>0, <2>1, <2>2, <2>3 DEF FilesKept
    <2>9. PruneGoesTo("killed", prune.orphan, TRUE)
      BY <1>0, <2>1, <2>2, <2>3 DEF PruneGoesTo, FilesKept
    <2> QED
      BY <1>0, <2>8, <2>9, <2>1, <2>2, <2>3 DEF PruneGoesOn
  <1> QED
    BY <1>1, <1>2, <1>3, <1>4, <1>5, <1>6, <1>7, <1>8

-----------------------------------------------------------------------------
LEMMA FilesTyped ==
    ASSUME OpsTypes, FilesKept
    PROVE  /\ disk' \in PointCounts /\ stash' \in 0 .. MaxPoints
           /\ \A n \in Notes \ {Drilled} : disk'[n] = disk[n]
  BY OperationsAssumption DEF OpsTypes, FilesKept, PointCounts

(* The recovery's count outlasts a step that it takes no part in. *)
LEMMA RecoverCalmStays ==
    ASSUME OpsTypes, RecoverCalm, UNCHANGED recover, IndexKept,
           \A n \in Notes \ {Drilled} : disk'[n] = disk[n]
    PROVE  RecoverCalm'
  BY DEF RecoverCalm, IndexKept

(* So does the prune's, also where the index is wiped. *)
LEMMA PruneCalmStays ==
    ASSUME OpsTypes, PruneCalm, StashHeld, BackWhole, UNCHANGED <<prune, disk, stash>>,
           \A n \in Notes : index'[n] \in {index[n], disk[n], 0}
    PROVE  PruneCalm' /\ StashHeld' /\ BackWhole'
  <1>1. Ended(prune)' = Ended(prune) /\ Drilled \in Notes
    BY OperationsAssumption DEF Ended
  <1>2. StashHeld'
    BY DEF StashHeld
  <1>3. ASSUME prune.calm, ~Ended(prune), NEW n \in Notes
        PROVE  disk[n] \in {0, prune.was[n]}
    BY <1>3 DEF PruneCalm
  <1>4. PruneCalm'
    BY <1>1, <1>3 DEF PruneCalm
  <1>5. BackWhole'
    BY <1>1 DEF BackWhole
  <1> QED
    BY <1>2, <1>4, <1>5

LEMMA CountBeforeKeeps ==
    ASSUME OpsInv, CountBefore
    PROVE  OpsInv'
  <1> USE DEF OpsInv
  <1>1. /\ prune.pc = "off" /\ disk[Drilled] > 0
        /\ prune' = [prune EXCEPT !.pc = "counted", !.was = index, !.calm = (index = disk)]
        /\ UNCHANGED <<disk, stash, index, qdrant, drifted, recover, edits, faults>>
    BY DEF CountBefore
  <1> DEFINE calm == index = disk
  <1>2. /\ prune' = [prune EXCEPT !.pc = "counted", !.was = index, !.calm = calm]
        /\ calm \in BOOLEAN /\ (calm => index = disk)
    BY <1>1
  <1> HIDE DEF calm
  <1>3. /\ prune' \in Drills(PruneSteps) /\ prune'.pc = "counted" /\ prune'.was = index
        /\ prune'.calm = calm /\ prune'.lost = prune.lost
    BY <1>2 DEF OpsTypes, Drills, PruneSteps
  <1>4. OpsTypes'
    BY <1>1, <1>3 DEF OpsTypes
  <1>5. stash = 0 /\ ~prune.lost
    BY <1>1 DEF StashHeld
  <1>6. StashHeld'
    BY <1>1, <1>3, <1>5 DEF StashHeld
  <1>7. PruneCalm'
    BY <1>1, <1>2, <1>3, <1>5 DEF PruneCalm, Swept
  <1>8. RecoverCalm' /\ BackWhole'
    BY <1>1, <1>3 DEF RecoverCalm, BackWhole, Ended
  <1> QED
    BY <1>4, <1>6, <1>7, <1>8

LEMMA ParkKeeps ==
    ASSUME OpsInv, Park
    PROVE  OpsInv'
  <1> USE DEF OpsInv
  <1>1. /\ prune.pc = "counted" /\ disk[Drilled] > 0 /\ prune' = [prune EXCEPT !.pc = "parked"]
        /\ stash' = disk[Drilled] /\ disk' = [disk EXCEPT ![Drilled] = 0]
        /\ UNCHANGED <<index, qdrant, drifted, recover, edits, faults>>
    BY DEF Park, PruneGoes
  <1>2. /\ prune' \in Drills(PruneSteps) /\ prune'.pc = "parked" /\ prune'.was = prune.was
        /\ prune'.calm = prune.calm /\ prune'.lost = prune.lost
    BY <1>1 DEF OpsTypes, Drills, PruneSteps
  <1>3. /\ disk' \in PointCounts /\ disk'[Drilled] = 0 /\ disk[Drilled] \in 0 .. MaxPoints
        /\ \A n \in Notes \ {Drilled} : disk'[n] = disk[n]
    BY <1>1, OperationsAssumption DEF OpsTypes, PointCounts
  <1>4. OpsTypes'
    BY <1>1, <1>2, <1>3 DEF OpsTypes
  <1>5. StashHeld' /\ stash = 0
    BY <1>1, <1>2 DEF StashHeld
  <1>6. PruneCalm'
    BY <1>1, <1>2, <1>3, <1>5 DEF PruneCalm, Swept, Ended
  <1>7. RecoverCalm'
    BY <1>1, <1>3, UnchangedIndex, RecoverCalmStays
  <1>8. BackWhole'
    BY <1>2 DEF BackWhole, Ended
  <1> QED
    BY <1>4, <1>5, <1>6, <1>7, <1>8

LEMMA PruneGoesOnKeeps ==
    ASSUME OpsInv, PruneGoesOn
    PROVE  /\ OpsInv'
           /\ prune'.pc = "confirmed" => /\ prune.pc = "reingested" /\ UNCHANGED <<index, disk, stash>>
                                         /\ Counts(index) = Counts(prune.was)
  <1> USE DEF OpsInv
  <1>1. PICK step \in PruneSteps \ {"off", "counted"}, orphan \in 0 .. MaxPoints, lost \in BOOLEAN :
            PruneGoesTo(step, orphan, lost)
    BY DEF PruneGoesOn
  <1>2. /\ prune' \in Drills(PruneSteps) /\ prune'.pc = step /\ prune'.was = prune.was
        /\ prune'.calm = prune.calm /\ prune'.lost = lost
    BY <1>1 DEF PruneGoesTo, OpsTypes, Drills
  <1>3. /\ FilesKept /\ IndexKept /\ UNCHANGED <<qdrant, drifted, recover>> /\ ~Ended(prune)
        /\ step \in Swept => prune.pc \in Swept \/ index' = disk
    BY <1>1 DEF PruneGoesOn, PruneGoesTo
  <1>4. OpsTypes'
    BY <1>2, <1>3, FilesTyped DEF OpsTypes, IndexKept
  <1>5. StashHeld'
    BY <1>1, <1>2 DEF PruneGoesTo, StashHeld
  <1>6. ASSUME prune'.calm PROVE PruneCalm'
    <2>1. /\ prune.was[Drilled] > 0 /\ Drilled \in Notes
          /\ \A n \in Notes : index[n] \in {0, prune.was[n]}
          /\ \A n \in Notes \ {Drilled} : disk[n] = prune.was[n]
          /\ stash = 0 => disk[Drilled] = prune.was[Drilled]
          /\ stash # 0 => disk[Drilled] = 0 /\ stash = prune.was[Drilled]
          /\ prune.pc \in Swept /\ stash # 0 => index[Drilled] = 0
      BY <1>2, <1>3, <1>6, OperationsAssumption DEF PruneCalm
    <2>2. \A n \in Notes : disk[n] \in {0, prune.was[n]}
      BY <2>1
    <2>3. \A n \in Notes : index'[n] \in {0, prune.was[n]}
      BY <1>3, <2>1, <2>2 DEF IndexKept
    <2>4. CASE UNCHANGED <<disk, stash>>
      <3>1. step \in Swept /\ stash # 0 => index'[Drilled] = 0
        BY <1>3, <2>1 DEF IndexKept
      <3> QED
        BY <1>2, <2>1, <2>3, <2>4, <3>1 DEF PruneCalm
    <2>5. CASE stash # 0 /\ disk' = [disk EXCEPT ![Drilled] = stash] /\ stash' = 0
      <3>1. disk'[Drilled] = prune.was[Drilled] /\ \A n \in Notes \ {Drilled} : disk'[n] = prune.was[n]
        BY <2>1, <2>5 DEF OpsTypes, PointCounts
      <3> QED
        BY <1>2, <2>1, <2>3, <2>5, <3>1 DEF PruneCalm
    <2> QED
      BY <1>3, <2>4, <2>5 DEF FilesKept
  <1>7. PruneCalm'
    BY <1>6 DEF PruneCalm
  <1>10. BackWhole'
    <2> SUFFICES ASSUME prune'.calm, Ended(prune)', ~lost
                 PROVE  disk'[Drilled] = prune.was[Drilled]
      BY <1>2 DEF BackWhole
    <2>1. /\ stash = 0 => disk[Drilled] = prune.was[Drilled]
          /\ stash # 0 => stash = prune.was[Drilled]
      BY <1>2, <1>3 DEF PruneCalm
    <2>2. stash' = 0
      BY <1>1, <1>2 DEF PruneGoesTo, Ended
    <2>3. CASE UNCHANGED <<disk, stash>>
      BY <2>1, <2>2, <2>3
    <2>4. CASE stash # 0 /\ disk' = [disk EXCEPT ![Drilled] = stash] /\ stash' = 0
      BY <2>1, <2>4, OperationsAssumption DEF OpsTypes, PointCounts
    <2> QED
      BY <1>3, <2>3, <2>4 DEF FilesKept
  <1>8. RecoverCalm'
    BY <1>3, FilesTyped, RecoverCalmStays
  <1>9. step = "confirmed" => /\ prune.pc = "reingested" /\ UNCHANGED <<index, disk, stash>>
                            /\ Counts(index) = Counts(prune.was)
    BY <1>1 DEF PruneGoesTo
  <1> QED
    BY <1>2, <1>4, <1>5, <1>7, <1>8, <1>9, <1>10

-----------------------------------------------------------------------------
(* Everything else leaves the prune drill and the files where they are. *)
Elsewhere == UNCHANGED <<disk, stash, prune>>

LEMMA RecoverPc ==
    ASSUME OpsInv, NEW step \in RecoverSteps, recover' = [recover EXCEPT !.pc = step]
    PROVE  /\ recover' \in Drills(RecoverSteps) /\ recover'.pc = step /\ recover'.was = recover.was
           /\ recover'.calm = recover.calm /\ recover.pc \in RecoverSteps
  BY DEF OpsInv, OpsTypes, Drills

(* A step of the recovery that changes no index, or has it as the notes on disk. *)
LEMMA RecoverGoesOn ==
    ASSUME OpsInv, Elsewhere, UNCHANGED drifted, IndexKept,
           qdrant' \in {"up", "stopped", "removed", "blank"},
           NEW step \in RecoverSteps, recover' = [recover EXCEPT !.pc = step],
           step \in Measured => recover.pc \in Measured,
           step = "rebuilt" => index' = Ingested \/ recover.pc = "rebuilt"
    PROVE  OpsInv'
  <1> USE DEF OpsInv, Elsewhere
  <1>1. /\ recover' \in Drills(RecoverSteps) /\ recover'.pc = step /\ recover'.was = recover.was
        /\ recover'.calm = recover.calm
    BY RecoverPc
  <1>2. OpsTypes'
    BY <1>1 DEF OpsTypes, IndexKept
  <1>3. PruneCalm' /\ StashHeld' /\ BackWhole'
    BY PruneCalmStays DEF IndexKept
  <1>4. RecoverCalm'
    <2> SUFFICES ASSUME recover'.calm, step \in Measured, NEW n \in Notes \ {Drilled}
                 PROVE  /\ disk[n] = recover.was[n] /\ index'[n] \in {0, recover.was[n]}
                        /\ step = "rebuilt" => index'[n] = recover.was[n]
      BY <1>1 DEF RecoverCalm
    <2>1. /\ disk[n] = recover.was[n] /\ index[n] \in {0, recover.was[n]}
          /\ recover.pc = "rebuilt" => index[n] = recover.was[n]
      BY <1>1 DEF RecoverCalm
    <2>2. disk[n] \in 0 .. MaxPoints
      BY DEF OpsTypes, PointCounts
    <2>3. index' = Ingested => index'[n] = recover.was[n]
      BY <2>1, <2>2, OperationsAssumption DEF Ingested
    <2> QED
      BY <2>1, <2>3 DEF IndexKept
  <1> QED
    BY <1>2, <1>3, <1>4

LEMMA WipeKeeps ==
    ASSUME OpsInv, RemoveVolume
    PROVE  OpsInv'
  <1> USE DEF OpsInv
  <1>1. /\ recover.pc = "down" /\ recover' = [recover EXCEPT !.pc = "wiped"]
        /\ qdrant' = "removed" /\ index' = NoPoints /\ UNCHANGED <<disk, stash, drifted, prune>>
    BY DEF RemoveVolume, RecoverGoes
  <1>2. /\ recover' \in Drills(RecoverSteps) /\ recover'.pc = "wiped" /\ recover'.was = recover.was
        /\ recover'.calm = recover.calm
    BY <1>1, RecoverPc DEF RecoverSteps
  <1>3. index' \in PointCounts /\ \A n \in Notes : index'[n] = 0
    BY <1>1, OperationsAssumption DEF NoPoints, PointCounts
  <1>4. OpsTypes'
    BY <1>1, <1>2, <1>3 DEF OpsTypes
  <1>5. PruneCalm' /\ StashHeld' /\ BackWhole'
    BY <1>1, <1>3, PruneCalmStays
  <1>6. RecoverCalm'
    BY <1>1, <1>2, <1>3 DEF RecoverCalm, Measured
  <1> QED
    BY <1>4, <1>5, <1>6

LEMMA MeasureKeeps ==
    ASSUME OpsInv, MeasureBefore
    PROVE  OpsInv' /\ recover'.pc = "measured"
  <1> USE DEF OpsInv
  <1> DEFINE calm == index = disk
  <1>1. /\ recover' = [recover EXCEPT !.pc = "measured", !.was = index, !.calm = calm]
        /\ UNCHANGED <<disk, stash, index, qdrant, drifted, prune>>
        /\ calm \in BOOLEAN /\ (calm => index = disk)
    BY DEF MeasureBefore
  <1> HIDE DEF calm
  <1>2. /\ recover' \in Drills(RecoverSteps) /\ recover'.pc = "measured" /\ recover'.was = index
        /\ recover'.calm = calm
    BY <1>1 DEF OpsTypes, Drills, RecoverSteps
  <1>3. OpsTypes'
    BY <1>1, <1>2 DEF OpsTypes
  <1>4. PruneCalm' /\ StashHeld' /\ BackWhole'
    BY <1>1, PruneCalmStays
  <1>5. RecoverCalm'
    BY <1>1, <1>2 DEF RecoverCalm
  <1> QED
    BY <1>2, <1>3, <1>4, <1>5

LEMMA EditKeeps ==
    ASSUME OpsInv, EditVault
    PROVE  OpsInv' /\ prune'.pc = prune.pc /\ recover'.pc = recover.pc
  <1> USE DEF OpsInv
  <1>1. PICK n \in Notes, k \in 0 .. MaxPoints : disk' = [disk EXCEPT ![n] = k]
    BY DEF EditVault
  <1>2. /\ prune' = [prune EXCEPT !.calm = FALSE] /\ recover' = [recover EXCEPT !.calm = FALSE]
        /\ UNCHANGED <<stash, index, qdrant, drifted>>
    BY DEF EditVault
  <1>3. /\ prune' \in Drills(PruneSteps) /\ recover' \in Drills(RecoverSteps)
        /\ prune'.pc = prune.pc /\ prune'.lost = prune.lost /\ ~prune'.calm
        /\ recover'.pc = recover.pc /\ ~recover'.calm
    BY <1>2 DEF OpsTypes, Drills
  <1>4. disk' \in PointCounts
    BY <1>1 DEF OpsTypes, PointCounts
  <1>5. OpsTypes'
    BY <1>2, <1>3, <1>4 DEF OpsTypes
  <1> QED
    BY <1>2, <1>3, <1>5 DEF StashHeld, PruneCalm, BackWhole, RecoverCalm

(* The drill ends with nothing aside, by a move that failed. *)
LEMMA ParkTornKeeps ==
    ASSUME OpsInv, ParkTorn
    PROVE  OpsInv' /\ prune'.pc = "aborted" /\ recover'.pc = recover.pc
  <1> USE DEF OpsInv
  <1>1. PICK k \in 1 .. disk[Drilled] - 1 : disk' = [disk EXCEPT ![Drilled] = k]
    BY DEF ParkTorn
  <1>2. /\ prune.pc = "counted" /\ prune' = [prune EXCEPT !.pc = "aborted", !.lost = TRUE]
        /\ recover' = [recover EXCEPT !.calm = FALSE]
        /\ UNCHANGED <<stash, index, qdrant, drifted>>
    BY DEF ParkTorn
  <1>3. /\ prune' \in Drills(PruneSteps) /\ recover' \in Drills(RecoverSteps)
        /\ prune'.pc = "aborted" /\ prune'.lost /\ recover'.pc = recover.pc /\ ~recover'.calm
    BY <1>2 DEF OpsTypes, Drills, PruneSteps
  <1>4. disk' \in PointCounts
    <2>1. disk[Drilled] \in 0 .. MaxPoints
      BY OperationsAssumption DEF OpsTypes, PointCounts
    <2>2. k \in 0 .. MaxPoints
      BY <1>1, <2>1, OperationsAssumption
    <2> QED
      BY <1>1, <2>2 DEF OpsTypes, PointCounts
  <1>5. OpsTypes'
    BY <1>2, <1>3, <1>4 DEF OpsTypes
  <1>6. stash' = 0
    BY <1>2 DEF StashHeld
  <1> QED
    BY <1>3, <1>5, <1>6 DEF StashHeld, PruneCalm, BackWhole, RecoverCalm, Ended

(* Commands by hand and timers. *)
LEMMA OutsideKeeps ==
    ASSUME OpsInv, Elsewhere, UNCHANGED <<drifted, recover>>, IndexKept,
           qdrant' \in {"up", "stopped", "removed", "blank"}
    PROVE  OpsInv'
  <1>1. OpsTypes'
    BY DEF OpsInv, OpsTypes, Elsewhere, IndexKept
  <1>2. PruneCalm' /\ StashHeld' /\ BackWhole'
    BY PruneCalmStays DEF OpsInv, Elsewhere, IndexKept
  <1>3. RecoverCalm'
    BY RecoverCalmStays DEF OpsInv, Elsewhere
  <1> QED
    BY <1>1, <1>2, <1>3 DEF OpsInv

(* A verdict is of the counts. *)
ConfirmsByCount ==
    prune.pc # "confirmed" /\ prune'.pc = "confirmed" =>
        prune.pc = "reingested" /\ UNCHANGED <<index, disk, stash>> /\ Counts(index) = Counts(prune.was)
RecoversByCount ==
    recover.pc # "recovered" /\ recover'.pc = "recovered" =>
        recover.pc = "rebuilt" /\ UNCHANGED index /\ Counts(index) = Counts(recover.was)

LEMMA RecoveryStep ==
    ASSUME OpsInv, RecoveryDrill \/ RecoverFails
    PROVE  OpsInv' /\ UNCHANGED prune /\ RecoversByCount
  <1> USE DEF RecoverSteps, Measured, Elsewhere
  <1>0. OpsTypes /\ qdrant \in {"up", "stopped", "removed", "blank"}
    BY DEF OpsInv, OpsTypes
  <1>1. CASE Preflight \/ ComposeDown \/ ComposeUp \/ ApplySchema \/ WaitsInVain
    <2>1. PICK step \in {"checked", "down", "waiting", "rebuilding", "aborted"} :
              /\ recover' = [recover EXCEPT !.pc = step] /\ UNCHANGED <<disk, stash, index, prune, drifted>>
              /\ step \in Measured => recover.pc \in Measured
              /\ qdrant' \in {"up", "stopped", "removed", "blank"}
      BY <1>0, <1>1 DEF Preflight, ComposeDown, ComposeUp, ApplySchema, WaitsInVain, RecoverGoes, SchemaApplies
    <2>2. IndexKept
      BY <1>0, <2>1, UnchangedIndex
    <2>3. OpsInv'
      BY <2>1, <2>2, RecoverGoesOn
    <2>4. recover'.pc # "recovered"
      BY <2>1, RecoverPc
    <2> QED
      BY <2>1, <2>3, <2>4 DEF RecoversByCount
  <1>2. CASE MeasureBefore
    <2>1. OpsInv' /\ recover'.pc = "measured"
      BY <1>2, MeasureKeeps
    <2> QED
      BY <1>2, <2>1 DEF MeasureBefore, RecoversByCount
  <1>3. CASE RemoveVolume
    <2>1. OpsInv' /\ recover' = [recover EXCEPT !.pc = "wiped"]
      BY <1>3, WipeKeeps DEF RemoveVolume, RecoverGoes
    <2>2. recover'.pc # "recovered"
      BY <2>1, RecoverPc
    <2> QED
      BY <1>3, <2>1, <2>2 DEF RemoveVolume, RecoversByCount
  <1>4. CASE Reingest
    <2>1. /\ recover' = [recover EXCEPT !.pc = "rebuilt"] /\ UNCHANGED <<disk, stash, prune, drifted, qdrant>>
          /\ recover.pc = "rebuilding" /\ index' = Ingested
      BY <1>4 DEF Reingest, RecoverGoes
    <2>2. IndexKept
      BY <1>0, <2>1, WholeIngest
    <2>3. OpsInv'
      BY <1>0, <2>1, <2>2, RecoverGoesOn
    <2>4. recover'.pc # "recovered"
      BY <2>1, RecoverPc
    <2> QED
      BY <2>1, <2>3, <2>4 DEF RecoversByCount
  <1>5. CASE Verdict
    <2> DEFINE step == IF Counts(index) = Counts(recover.was) THEN "recovered" ELSE "aborted"
    <2>1. /\ recover' = [recover EXCEPT !.pc = step] /\ recover.pc = "rebuilt"
          /\ UNCHANGED <<disk, stash, index, prune, drifted, qdrant>>
      BY <1>5 DEF Verdict, Compare
    <2>2. step \in {"recovered", "aborted"} /\ (step = "recovered" => Counts(index) = Counts(recover.was))
      OBVIOUS
    <2> HIDE DEF step
    <2>3. IndexKept
      BY <1>0, <2>1, UnchangedIndex
    <2>4. OpsInv'
      BY <1>0, <2>1, <2>2, <2>3, RecoverGoesOn
    <2>5. recover'.pc = step
      BY <2>1, <2>2, RecoverPc
    <2> QED
      BY <2>1, <2>2, <2>4, <2>5 DEF RecoversByCount
  <1>6. CASE RecoverFails
    <2>1. /\ recover' = [recover EXCEPT !.pc = "aborted"] /\ UNCHANGED <<disk, stash, prune, drifted, qdrant>>
          /\ Partly(Ingested) \/ UNCHANGED index
      BY <1>6 DEF RecoverFails
    <2>2. IndexKept
      <3>1. CASE Partly(Ingested)
        BY <1>0, <3>1, PartlyTyped, IngestedTyped DEF IndexKept, Ingested
      <3> QED
        BY <1>0, <2>1, <3>1, UnchangedIndex
    <2>3. OpsInv'
      BY <1>0, <2>1, <2>2, RecoverGoesOn
    <2>4. recover'.pc # "recovered"
      BY <2>1, RecoverPc
    <2> QED
      BY <2>1, <2>3, <2>4 DEF RecoversByCount
  <1> QED
    BY <1>1, <1>2, <1>3, <1>4, <1>5, <1>6 DEF RecoveryDrill

LEMMA OpsStepKeeps ==
    ASSUME OpsInv, [OpsNext]_opsVars
    PROVE  OpsInv' /\ ConfirmsByCount /\ RecoversByCount
  <1>0. OpsTypes /\ StashHeld
    BY DEF OpsInv
  <1>1. CASE CountBefore
    <2>1. prune'.pc # "confirmed" /\ UNCHANGED recover
      BY <1>0, <1>1 DEF CountBefore, OpsTypes, Drills
    <2> QED
      BY <1>1, <2>1, CountBeforeKeeps DEF ConfirmsByCount, RecoversByCount
  <1>2. CASE Park
    <2>1. prune'.pc # "confirmed" /\ UNCHANGED recover
      BY <1>0, <1>2 DEF Park, PruneGoes, OpsTypes, Drills
    <2> QED
      BY <1>2, <2>1, ParkKeeps DEF ConfirmsByCount, RecoversByCount
  <1>3. CASE \/ ReportOrphan \/ PruneOrphan \/ CountAfter \/ PutBack \/ IngestBack \/ ConfirmPrune
             \/ PruneFails \/ PruneKilled
    <2>1. PruneGoesOn
      BY <1>0, <1>3, PruneActionsGoOn
    <2>2. UNCHANGED recover
      BY <2>1 DEF PruneGoesOn
    <2> QED
      BY <2>1, <2>2, PruneGoesOnKeeps DEF ConfirmsByCount, RecoversByCount
  <1>4. CASE RecoveryDrill \/ RecoverFails
    BY <1>4, RecoveryStep DEF ConfirmsByCount
  <1>5. CASE ComposeUpByHand \/ ApplyByHand \/ ScheduledIngest \/ UNCHANGED opsVars
    <2>1. /\ UNCHANGED <<disk, stash, prune, drifted, recover>>
          /\ qdrant' \in {"up", "stopped", "removed", "blank"}
          /\ index' = Ingested \/ UNCHANGED index
      BY <1>0, <1>5 DEF ComposeUpByHand, ApplyByHand, SchemaApplies, ScheduledIngest, opsVars, OpsTypes
    <2>2. IndexKept
      BY <1>0, <2>1, WholeIngest, UnchangedIndex
    <2>3. OpsInv'
      BY <2>1, <2>2, OutsideKeeps DEF Elsewhere
    <2> QED
      BY <2>1, <2>3 DEF ConfirmsByCount, RecoversByCount
  <1>6. CASE EditVault
    BY <1>6, EditKeeps DEF ConfirmsByCount, RecoversByCount
  <1>7. CASE ParkTorn
    BY <1>7, ParkTornKeeps DEF ConfirmsByCount, RecoversByCount
  <1> QED
    BY <1>1, <1>2, <1>3, <1>4, <1>5, <1>6, <1>7 DEF OpsNext, PruneDrill

(* The counts are enough where nobody edits: what they would miss, the drills have not done. *)
LEMMA VerdictStep ==
    ASSUME OpsInv, [OpsNext]_opsVars
    PROVE  /\ prune.pc # "confirmed" /\ prune'.pc = "confirmed" /\ prune.calm
                => index' = prune.was /\ disk'[Drilled] = prune.was[Drilled]
           /\ recover.pc # "recovered" /\ recover'.pc = "recovered" /\ recover.calm
                => index' = recover.was
  <1>0. /\ index \in PointCounts /\ prune.was \in PointCounts /\ recover.was \in PointCounts
        /\ Drilled \in Notes
    BY OperationsAssumption DEF OpsInv, OpsTypes, Drills
  <1>1. ConfirmsByCount /\ RecoversByCount
    BY OpsStepKeeps
  <1>2. ASSUME prune.pc # "confirmed", prune'.pc = "confirmed", prune.calm
        PROVE  index' = prune.was /\ disk'[Drilled] = prune.was[Drilled]
    <2>1. /\ prune.pc = "reingested" /\ UNCHANGED <<index, disk, stash>>
          /\ Points(index) = Points(prune.was)
      BY <1>1, <1>2 DEF ConfirmsByCount, Counts
    <2>2. /\ prune.was[Drilled] > 0 /\ \A n \in Notes : index[n] \in {0, prune.was[n]}
          /\ stash = 0 => disk[Drilled] = prune.was[Drilled]
          /\ stash # 0 => index[Drilled] = 0
      BY <1>2, <2>1 DEF OpsInv, PruneCalm, Ended, Swept
    <2>3. \A n \in Notes : index[n] <= prune.was[n]
      BY <1>0, <2>2, OperationsAssumption DEF PointCounts
    <2>4. index = prune.was
      BY <1>0, <2>1, <2>3, SameCountSameIndex
    <2> QED
      BY <2>1, <2>2, <2>4
  <1>3. ASSUME recover.pc # "recovered", recover'.pc = "recovered", recover.calm
        PROVE  index' = recover.was
    <2>1. recover.pc = "rebuilt" /\ UNCHANGED index /\ Points(index) = Points(recover.was)
      BY <1>1, <1>3 DEF RecoversByCount, Counts
    <2>2. \A n \in Notes \ {Drilled} : index[n] = recover.was[n]
      BY <1>3, <2>1 DEF OpsInv, RecoverCalm, Measured
    <2>3. index = recover.was
      BY <1>0, <2>1, <2>2, SameButOne
    <2> QED
      BY <2>1, <2>3
  <1> QED
    BY <1>2, <1>3

-----------------------------------------------------------------------------
(* The inductive invariant of the drills. *)
THEOREM OpsInvariance == OpsSpec => []OpsInv
  BY OpsInitInv, OpsStepKeeps, PTL DEF OpsSpec

(* However the prune drill ends, short of a kill or of a move that failed, its note is back
   in the vault, as it was unless it was edited (the trap on EXIT, scripts/prune-drill.sh). *)
THEOREM DrilledNoteComesBack == OpsSpec => []NoteComesBack
  <1>1. OpsInv => NoteComesBack
    BY DEF OpsInv, StashHeld, BackWhole, NoteComesBack, Ended
  <1> QED
    BY <1>1, OpsInvariance, PTL

(* A drill that ends well in a vault nobody edits has proved what it prints, though all it
   compares is counts (scripts/prune-drill.sh, scripts/recovery-drill.sh). *)
THEOREM DrillVerdictsAreTrue == OpsSpec => VerdictsAreTrue
  BY OpsInvariance, VerdictStep, PTL DEF OpsSpec, VerdictsAreTrue
=============================================================================
