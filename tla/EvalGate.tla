------------------------------ MODULE EvalGate ------------------------------
(***************************************************************************)
(* knowrag eval (cmd/cli/eval.go, internal/eval): a golden set asked       *)
(* question by question, of one ranking or of both, or the isolation       *)
(* cases one by one, any of which may fail to be asked; then a verdict, a  *)
(* document where two rankings were compared, and an exit code that        *)
(* scripts act on.                                                         *)
(***************************************************************************)
EXTENDS Naturals, Sequences, FiniteSets

CONSTANTS Minima,          \* --min-recall, each a pair <<numerator, denominator>>
          MaxQuestions     \* bound: entries of the golden set, cases of the suite

EvalAssumption ==
    /\ Minima \subseteq Nat \X (Nat \ {0}) /\ MaxQuestions \in Nat \ {0}
ASSUME EvalAssumption

VARIABLES eval,       \* [mode, min, set, phase, results, exit]
          document    \* the last comparison written: [state, hybrid, dense, winner]

evalVars == <<eval, document>>

Rankings(mode) == CASE mode = "golden"    -> <<"hybrid">>
                    [] mode = "compare"   -> <<"hybrid", "dense">>
                    [] mode = "isolation" -> <<"cases">>
Unasked == [hybrid |-> <<>>, dense |-> <<>>, cases |-> <<>>]
Ready == [mode |-> "golden", min |-> <<0, 1>>, set |-> 0, phase |-> "ready",
          results |-> Unasked, exit |-> "none"]

EvalInit ==
    /\ eval = Ready
    /\ document = [state |-> "none", hybrid |-> <<>>, dense |-> <<>>, winner |-> "hybrid"]

-----------------------------------------------------------------------------
(* A search that failed is no miss: it is in neither number. *)
Count(results, of)  == Cardinality({k \in DOMAIN results : results[k] = of})
Hits(results)       == Count(results, "hit")
Total(results)      == Hits(results) + Count(results, "miss")
Complete(results)   == Count(results, "errored") = 0

(* hits / total >= minimum, where 0 / 0 is 0. *)
Reaches(results, min) == IF Total(results) = 0 THEN min[1] = 0
                         ELSE Hits(results) * min[2] >= min[1] * Total(results)

(* The ranking by recall alone: the cross products of the two ratios. *)
DecisionOutcome(hybrid, dense) ==
    IF Hits(dense) * Total(hybrid) > Hits(hybrid) * Total(dense) THEN "dense" ELSE "hybrid"

MayBeWritten(r) ==
    /\ Complete(r.hybrid) /\ Complete(r.dense) /\ Total(r.hybrid) = Total(r.dense)

(* The verdict without a look at what could not be asked. *)
PassedOnWhatAnswered(e) == e.mode = "golden" => Reaches(e.results.hybrid, e.min)

Passed(e) ==
    CASE e.mode = "golden"    -> Complete(e.results.hybrid) /\ Reaches(e.results.hybrid, e.min)
      [] e.mode = "compare"   -> Complete(e.results.hybrid) /\ Complete(e.results.dense)
      [] e.mode = "isolation" -> e.results.cases # <<>> /\ Hits(e.results.cases) = Len(e.results.cases)

-----------------------------------------------------------------------------
Ends(exit) == eval' = [eval EXCEPT !.phase = "ended", !.exit = exit]

(* The flags; then, for the golden modes, something to search and a set that
   loads: a path that is not there, or a corpus that does not load, is a usage
   failure, a set that is invalid or empty or an index that is away is not. *)
Refusals(mode) == {"usage"} \union IF mode = "isolation" THEN {} ELSE {"failure"}

StartEval ==
    /\ eval.phase = "ready" /\ UNCHANGED document
    /\ \E mode \in {"golden", "compare", "isolation"}, min \in Minima, set \in 1 .. MaxQuestions :
        LET run == [Ready EXCEPT !.mode = mode, !.min = min, !.set = set, !.phase = "asking"]
        IN  \/ eval' = run
            \/ \E exit \in Refusals(mode) : eval' = [run EXCEPT !.phase = "ended", !.exit = exit]

(* The next question of the next ranking that has any left. *)
Asking(e) == LET left == {k \in DOMAIN Rankings(e.mode) :
                            Len(e.results[Rankings(e.mode)[k]]) < e.set}
             IN  IF left = {} THEN {} ELSE {Rankings(e.mode)[CHOOSE k \in left : \A l \in left : k <= l]}

(* RunGolden goes on after a search that failed; the suite after a case that did.
   The context of the command is never cancelled, so RunGolden's exit on one that
   is has no step here. *)
Ask ==
    /\ eval.phase = "asking" /\ UNCHANGED document
    /\ \E ranking \in Asking(eval),
          answer \in {"hit", "miss"} \union IF eval.mode = "isolation" THEN {} ELSE {"errored"} :
            eval' = [eval EXCEPT !.results[ranking] = Append(@, answer)]

(* Both runs are over: the document is written, refused, left cut or unwritten
   by an error, or was not asked for. *)
WriteHybridVsDenseReport ==
    /\ eval.phase = "asking" /\ eval.mode = "compare" /\ Asking(eval) = {}
    /\ \/ UNCHANGED document /\ eval' = [eval EXCEPT !.phase = "answering"]
       \/ /\ MayBeWritten(eval.results)
          /\ document' = [state |-> "whole", hybrid |-> eval.results.hybrid,
                          dense |-> eval.results.dense,
                          winner |-> DecisionOutcome(eval.results.hybrid, eval.results.dense)]
          /\ eval' = [eval EXCEPT !.phase = "answering"]
       \/ /\ MayBeWritten(eval.results) /\ Ends("failure")
          /\ UNCHANGED document \/ document' = [document EXCEPT !.state = "torn"]
       \/ /\ ~MayBeWritten(eval.results) /\ UNCHANGED document /\ Ends("failure")

(* The answer is printed before the verdict; a pipe that is closed fails the run. *)
ReturnOutcome ==
    /\ \/ eval.phase = "asking" /\ eval.mode # "compare" /\ Asking(eval) = {}
       \/ eval.phase = "answering"
    /\ UNCHANGED document
    /\ \/ Ends("failure")
       \/ Passed(eval) /\ Ends("ok")
       \/ ~Passed(eval) /\ Ends("assertion")

(* Another command. *)
NextCommand == eval.phase = "ended" /\ eval' = Ready /\ UNCHANGED document

EvalNext == StartEval \/ Ask \/ WriteHybridVsDenseReport \/ ReturnOutcome \/ NextCommand

EvalSpec == EvalInit /\ [][EvalNext]_evalVars

-----------------------------------------------------------------------------
(* "An evaluation that did not run is not an evaluation that passed" (eval.go):
   exit 0 says that every question of a set that has some was asked, of every
   ranking, and answered, and that the recall of the whole set reaches the
   minimum; the exit of a verdict, that nothing was left to ask; and a document
   ranks two complete runs over the same questions, a tie for the hybrid. *)
PassMeansMeasured ==
    LET asked(r) == Len(r) = eval.set /\ eval.set > 0 /\ Complete(r)
        runs == {eval.results[Rankings(eval.mode)[k]] : k \in DOMAIN Rankings(eval.mode)}
    IN  /\ eval.exit = "ok" =>
             /\ \A r \in runs : asked(r)
             /\ eval.mode = "golden" =>
                  Hits(eval.results.hybrid) * eval.min[2] >= eval.min[1] * eval.set
             /\ eval.mode = "isolation" => Hits(eval.results.cases) = eval.set
        /\ eval.exit = "assertion" => \A r \in runs : Len(r) = eval.set
        /\ document.state = "whole" =>
             /\ Len(document.hybrid) = Len(document.dense)
             /\ Complete(document.hybrid) /\ Complete(document.dense)
             /\ document.winner = "dense" <=>
                  Hits(document.dense) > Hits(document.hybrid)
=============================================================================
