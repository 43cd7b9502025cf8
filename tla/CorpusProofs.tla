---------------------------- MODULE CorpusProofs ---------------------------
(***************************************************************************)
(* What becomes of a note before it is embedded, for every value of the    *)
(* constants.  The chunker, for every set of notes over any lines and for  *)
(* every floor and ceiling: the scans and the merge are followed line by   *)
(* line; what lies between them, the cutting at headings, is about sets of *)
(* lines.  The settings of the vaults, for every roster, environment and   *)
(* file.  The scans of a run, for any number of vaults, trees and logs.    *)
(***************************************************************************)
EXTENDS Chunker, Configuration, VaultScan, DataLemmas

USE ChunkerAssumption

-----------------------------------------------------------------------------
(* The fences. *)

Spans(n) == [from : 1 .. n, to : 1 .. n]
Scans(n) == [open : 0 .. n, spans : SUBSET Spans(n)]

FenceScan(body, f) ==
    /\ f \in [0 .. Len(body) -> Scans(Len(body))] /\ f[0] = [open |-> 0, spans |-> {}]
    /\ \A i \in 1 .. Len(body) : f[i] = ReadLine(body, f[i - 1], i)

LEMMA FenceScans ==
    ASSUME NEW body \in Seq(Lines)
    PROVE  \E f : /\ FenceScan(body, f)
                  /\ ScanFences(body) = f[Len(body)].spans \union
                        (IF f[Len(body)].open = 0 THEN {}
                         ELSE {[from |-> f[Len(body)].open, to |-> Len(body)]})
<1> DEFINE n == Len(body)
           S == Scans(n)
           start == [open |-> 0, spans |-> {}]
           step == [x \in (1 .. n) \X S |-> ReadLine(body, x[2], x[1])]
           Unroll(g) == [i \in 0 .. n |-> IF i = 0 THEN start ELSE ReadLine(body, g[i - 1], i)]
           scan == CHOOSE g : g = Unroll(g)
<1>1. n \in Nat /\ start \in S
  BY DEF Scans
<1>2. step \in [(1 .. n) \X S -> S]
  <2>1. ASSUME NEW i \in 1 .. n, NEW s \in S PROVE ReadLine(body, s, i) \in S
    <3>1. s.open \in 0 .. n /\ s.spans \subseteq Spans(n) /\ i \in 0 .. n
      BY DEF Scans
    <3>2. CASE s.open = 0
      BY <3>1, <3>2 DEF Scans, ReadLine
    <3>3. CASE s.open # 0 /\ Closes(body[s.open], body[i])
      <4>1. [from |-> s.open, to |-> i] \in Spans(n)
        BY <3>1, <3>3 DEF Spans
      <4>2. QED
        BY <3>1, <3>3, <4>1 DEF Scans, ReadLine
    <3>4. CASE s.open # 0 /\ ~Closes(body[s.open], body[i])
      BY <3>4 DEF ReadLine
    <3>5. QED
      BY <3>2, <3>3, <3>4
  <2>2. QED
    BY <2>1
<1>3. PICK f : Steps(f, S, n, start, step)
  <2> HIDE DEF step, n, S, start
  <2>1. QED
    BY <1>1, <1>2, Recursion
<1>4. /\ f \in [0 .. n -> S] /\ f[0] = start
      /\ \A i \in 1 .. n : f[i] = ReadLine(body, f[i - 1], i)
  <2>1. f \in [0 .. n -> S] /\ f[0] = start /\ \A i \in 1 .. n : f[i] = step[<<i, f[i - 1]>>]
    BY <1>3 DEF Steps
  <2>2. \A i \in 1 .. n : i - 1 \in 0 .. n
    OBVIOUS
  <2>3. \A i \in 1 .. n : step[<<i, f[i - 1]>>] = ReadLine(body, f[i - 1], i)
    <3> HIDE DEF S, n
    <3>1. QED
      BY <2>1, <2>2
  <2>4. QED
    BY <2>1, <2>3
<1>5. f = Unroll(f)
  BY <1>4
<1>6. scan = Unroll(scan)
  BY <1>5
<1> HIDE DEF scan
<1>7. /\ scan = [i \in 0 .. n |-> scan[i]] /\ scan[0] = start
      /\ \A i \in 1 .. n : scan[i] = ReadLine(body, scan[i - 1], i)
  <2>1. \A i \in 0 .. n : scan[i] = IF i = 0 THEN start ELSE ReadLine(body, scan[i - 1], i)
    BY <1>6, Zenon
  <2>2. scan = [i \in 0 .. n |-> scan[i]]
    BY <1>6
  <2> HIDE DEF start, Unroll
  <2>3. scan[0] = start
    BY <1>1, <2>1
  <2>4. \A i \in 1 .. n : scan[i] = ReadLine(body, scan[i - 1], i)
    BY <1>1, <2>1
  <2>5. QED
    BY <2>2, <2>3, <2>4
<1>8. \A i \in 1 .. n : scan[i - 1] \in S => scan[i] = step[<<i, scan[i - 1]>>]
  BY <1>7
<1>9. Steps(scan, S, n, start, step)
  <2> HIDE DEF step, n, S, start
  <2>1. QED
    BY <1>1, <1>2, <1>7, <1>8, Unrolled
<1>10. FenceScan(body, scan)
  BY <1>7, <1>9 DEF Steps, FenceScan
<1>11. ScanFences(body) = scan[n].spans \union
           (IF scan[n].open = 0 THEN {} ELSE {[from |-> scan[n].open, to |-> n]})
  BY DEF ScanFences, scan
<1>12. QED
  BY <1>10, <1>11

(* What is known of the fences once line i is read. *)
FencesSoFar(body, s, i) ==
    /\ s.open <= i
    /\ s.open # 0 => /\ body[s.open].kind = "fence"
                     /\ \A j \in s.open + 1 .. i : ~Closes(body[s.open], body[j])
    /\ \A u \in s.spans : /\ u.from < u.to /\ u.to <= i /\ (s.open # 0 => u.to < s.open)
                          /\ body[u.from].kind = "fence" /\ Closes(body[u.from], body[u.to])
                          /\ \A j \in u.from + 1 .. u.to - 1 : ~Closes(body[u.from], body[j])
    /\ \A u, v \in s.spans : u = v \/ u.to < v.from \/ v.to < u.from
    /\ \A j \in 1 .. i : body[j].kind = "fence"
                           => InUnits(s.spans, j) \/ (s.open # 0 /\ s.open <= j)

LEMMA FencesGrow ==
    ASSUME NEW body \in Seq(Lines), NEW i \in 1 .. Len(body), NEW s \in Scans(Len(body)),
           FencesSoFar(body, s, i - 1)
    PROVE  FencesSoFar(body, ReadLine(body, s, i), i)
<1> DEFINE n == Len(body)
           t == ReadLine(body, s, i)
<1>1. /\ n \in Nat /\ i \in 1 .. n /\ s.open \in 0 .. n /\ s.open <= i - 1
      /\ s.spans \subseteq Spans(n)
      /\ \A u \in s.spans : u.from \in 1 .. n /\ u.to \in 1 .. n
  BY DEF FencesSoFar, Scans, Spans
<1> SUFFICES FencesSoFar(body, t, i)
  OBVIOUS
<1>2. CASE s.open = 0 /\ body[i].kind # "fence"
  <2>1. t.open = 0 /\ t.spans = s.spans
    BY <1>2 DEF ReadLine, Scans
  <2>2. QED
    BY <1>1, <1>2, <2>1 DEF FencesSoFar
<1>3. CASE s.open = 0 /\ body[i].kind = "fence"
  <2>1. t.open = i /\ t.spans = s.spans
    BY <1>3 DEF ReadLine, Scans
  <2> HIDE DEF t
  <2>2. QED
    BY <1>1, <1>3, <2>1 DEF FencesSoFar
<1>4. CASE s.open # 0 /\ Closes(body[s.open], body[i])
  <2> DEFINE w == [from |-> s.open, to |-> i]
  <2>1. t.open = 0 /\ t.spans = s.spans \union {w}
    BY <1>4 DEF ReadLine
  <2>2. w.from = s.open /\ w.to = i
    OBVIOUS
  <2> HIDE DEF t, w
  <2>3. \A u \in t.spans : /\ u.from < u.to /\ u.to <= i
                           /\ body[u.from].kind = "fence" /\ Closes(body[u.from], body[u.to])
                           /\ \A j \in u.from + 1 .. u.to - 1 : ~Closes(body[u.from], body[j])
    BY <1>1, <1>4, <2>1, <2>2 DEF FencesSoFar
  <2>4. \A u, v \in t.spans : u = v \/ u.to < v.from \/ v.to < u.from
    BY <1>1, <1>4, <2>1, <2>2 DEF FencesSoFar
  <2>5. ASSUME NEW j \in 1 .. i, body[j].kind = "fence" PROVE InUnits(t.spans, j)
    <3>1. j \in w.from .. w.to \/ InUnits(s.spans, j)
      BY <1>1, <1>4, <2>2, <2>5 DEF FencesSoFar
    <3>2. QED
      BY <2>1, <3>1 DEF InUnits
  <2>6. t.open <= i /\ (t.open # 0 => FALSE)
    BY <1>1, <2>1
  <2>7. QED
    BY <2>3, <2>4, <2>5, <2>6 DEF FencesSoFar
<1>5. CASE s.open # 0 /\ ~Closes(body[s.open], body[i])
  <2>1. t = s
    BY <1>5 DEF ReadLine
  <2>2. QED
    BY <1>1, <1>5, <2>1 DEF FencesSoFar
<1>6. QED
  BY <1>2, <1>3, <1>4, <1>5

(* The fences are where Markdown has them. *)
LEMMA FencesAreFences ==
    ASSUME NEW body \in Seq(Lines)
    PROVE  AreFences(body, ScanFences(body)) /\ ScanFences(body) \subseteq Spans(Len(body))
<1> DEFINE n == Len(body)
<1>1. PICK f : /\ FenceScan(body, f)
               /\ ScanFences(body) = f[n].spans \union
                    (IF f[n].open = 0 THEN {} ELSE {[from |-> f[n].open, to |-> n]})
  BY FenceScans
<1>2. n \in Nat /\ \A i \in 0 .. n : f[i] \in Scans(n)
  BY <1>1 DEF FenceScan
<1> DEFINE T == {i \in 0 .. n : FencesSoFar(body, f[i], i)}
<1>3. 0 \in T
  BY <1>1, <1>2 DEF FenceScan, FencesSoFar
<1>4. ASSUME NEW i \in 0 .. n, i \in T, i < n PROVE i + 1 \in T
  <2>1. i + 1 \in 1 .. n /\ (i + 1) - 1 = i /\ f[i] \in Scans(n)
    BY <1>2, <1>4
  <2>2. f[i + 1] = ReadLine(body, f[i], i + 1)
    BY <2>1, <1>1 DEF FenceScan
  <2>3. FencesSoFar(body, f[i], (i + 1) - 1)
    BY <1>4, <2>1
  <2>4. QED
    BY <2>1, <2>2, <2>3, FencesGrow
<1>5. FencesSoFar(body, f[n], n)
  <2>1. 0 .. n \subseteq T
    <3> HIDE DEF T
    <3>1. QED
      BY <1>2, <1>3, <1>4, UpTo
  <2>2. QED
    BY <1>2, <2>1
<1> DEFINE s == f[n]
           units == ScanFences(body)
           w == [from |-> s.open, to |-> n]
<1>6. /\ s.open \in 0 .. n /\ s.spans \subseteq Spans(n)
      /\ \A u \in s.spans : u.from \in 1 .. n /\ u.to \in 1 .. n
  BY <1>2 DEF Scans, Spans
<1>7. units = s.spans \union (IF s.open = 0 THEN {} ELSE {w}) /\ w.from = s.open /\ w.to = n
  BY <1>1
<1>8. units \subseteq Spans(n)
  <2>1. s.open # 0 => w \in Spans(n)
    BY <1>2, <1>6 DEF Spans
  <2>2. QED
    BY <1>6, <1>7, <2>1
<1> HIDE DEF s, units, w
<1>9. ASSUME NEW i \in DOMAIN body, body[i].kind = "fence" PROVE InUnits(units, i)
  <2>1. i \in 1 .. n
    OBVIOUS
  <2>2. CASE InUnits(s.spans, i)
    BY <1>7, <2>2 DEF InUnits
  <2>3. CASE s.open # 0 /\ s.open <= i
    <3>1. w \in units /\ i \in w.from .. w.to
      BY <1>2, <1>6, <1>7, <2>1, <2>3
    <3>2. QED
      BY <3>1 DEF InUnits
  <2>4. QED
    BY <1>5, <1>9, <2>1, <2>2, <2>3 DEF FencesSoFar, s
<1>10. \A u, v \in units : u = v \/ u.to < v.from \/ v.to < u.from
  BY <1>5, <1>6, <1>7 DEF FencesSoFar, s
<1>11. ASSUME NEW u \in units
       PROVE  LET open     == body[u.from]
                  closing  == {i \in u.from + 1 .. Len(body) :
                                 /\ body[i].kind = "fence" /\ body[i].char = open.char
                                 /\ body[i].run >= open.run /\ ~body[i].info}
              IN  /\ open.kind = "fence"
                  /\ closing = {} => u.to = Len(body)
                  /\ closing # {} => u.to \in closing /\ \A i \in closing : u.to <= i
  <2> DEFINE closing == {i \in u.from + 1 .. n : Closes(body[u.from], body[i])}
  <2>1. closing = {i \in u.from + 1 .. Len(body) :
                     /\ body[i].kind = "fence" /\ body[i].char = body[u.from].char
                     /\ body[i].run >= body[u.from].run /\ ~body[i].info}
    BY DEF Closes
  <2>2. CASE u \in s.spans
    <3>1. /\ body[u.from].kind = "fence" /\ Closes(body[u.from], body[u.to]) /\ u.from < u.to
          /\ \A j \in u.from + 1 .. u.to - 1 : ~Closes(body[u.from], body[j])
      BY <1>5, <2>2 DEF FencesSoFar, s
    <3>2. u.from \in 1 .. n /\ u.to \in 1 .. n
      BY <1>6, <2>2
    <3>3. u.to \in closing
      BY <1>2, <3>1, <3>2
    <3>4. \A i \in closing : u.to <= i
      BY <1>2, <3>1, <3>2
    <3> HIDE DEF closing
    <3>5. QED
      BY <2>1, <3>1, <3>3, <3>4
  <2>3. CASE u \notin s.spans
    <3>1. s.open # 0 /\ u = w
      BY <1>7, <2>3
    <3>2. /\ body[u.from].kind = "fence" /\ u.to = n
          /\ \A j \in u.from + 1 .. n : ~Closes(body[u.from], body[j])
      BY <1>5, <1>7, <3>1 DEF FencesSoFar, s
    <3>3. closing = {}
      BY <3>2
    <3> HIDE DEF closing
    <3>4. QED
      BY <2>1, <3>2, <3>3
  <2>4. QED
    BY <2>2, <2>3
<1>12. QED
  BY <1>8, <1>9, <1>10, <1>11 DEF AreFences, units

-----------------------------------------------------------------------------
(* The tables. *)

LEMMA LastRows ==
    ASSUME NEW body \in Seq(Lines), NEW fences, NEW i \in 1 .. Len(body), i < Len(body)
    PROVE  LastRow(body, fences, i) \in i + 1 .. Len(body)
<1> DEFINE n == Len(body)
           Row(k) == IsTableRow(body[k]) /\ ~InUnits(fences, k)
           T == {j \in i + 1 .. n : j = n \/ ~Row(j + 1)}
<1>1. n \in Nat /\ i \in 1 .. n /\ i + 1 \in 1 .. n
  OBVIOUS
<1>2. n \in T /\ T \subseteq Nat
  BY <1>1
<1>3. PICK m \in T : \A j \in T : m <= j
  <2> HIDE DEF T
  <2>1. QED
    BY <1>2, LeastNat
<1>4. m \in i + 1 .. n /\ (m < n => ~Row(m + 1))
  BY <1>1, <1>3
<1>5. ASSUME NEW k \in i + 2 .. m PROVE Row(k)
  <2>1. k - 1 \in i + 1 .. n /\ k - 1 # n /\ k - 1 < m /\ (k - 1) + 1 = k
    BY <1>1, <1>4
  <2>2. k - 1 \notin T
    BY <1>3, <2>1
  <2> HIDE DEF Row
  <2>3. QED
    BY <2>1, <2>2
<1>6. \E j \in i + 1 .. n : /\ \A k \in i + 2 .. j : IsTableRow(body[k]) /\ ~InUnits(fences, k)
                            /\ j < n => ~IsTableRow(body[j + 1]) \/ InUnits(fences, j + 1)
  BY <1>4, <1>5
<1>7. QED
  BY <1>6 DEF LastRow

LEMMA TablesAreSpans ==
    ASSUME NEW body \in Seq(Lines), NEW fences
    PROVE  ScanTables(body, fences) \subseteq Spans(Len(body))
<1> DEFINE n == Len(body)
           S == SUBSET Spans(n)
           step == [x \in (1 .. n) \X S |-> ReadRow(body, fences, x[2], x[1])]
           Unroll(g) == [i \in 0 .. n |-> IF i = 0 THEN {} ELSE ReadRow(body, fences, g[i - 1], i)]
           scan == CHOOSE g : g = Unroll(g)
<1>1. n \in Nat /\ {} \in S
  OBVIOUS
<1>2. step \in [(1 .. n) \X S -> S]
  <2>1. ASSUME NEW i \in 1 .. n, NEW tables \in S PROVE ReadRow(body, fences, tables, i) \in S
    <3>1. i < n => [from |-> i, to |-> LastRow(body, fences, i)] \in Spans(n)
      BY LastRows DEF Spans
    <3>2. QED
      BY <3>1 DEF ReadRow
  <2>2. QED
    BY <2>1
<1>3. PICK f : Steps(f, S, n, {}, step)
  <2> HIDE DEF step, n, S
  <2>1. QED
    BY <1>1, <1>2, Recursion
<1>4. /\ f \in [0 .. n -> S] /\ f[0] = {}
      /\ \A i \in 1 .. n : f[i] = ReadRow(body, fences, f[i - 1], i)
  <2>1. f \in [0 .. n -> S] /\ f[0] = {} /\ \A i \in 1 .. n : f[i] = step[<<i, f[i - 1]>>]
    BY <1>3 DEF Steps
  <2>2. \A i \in 1 .. n : i - 1 \in 0 .. n
    OBVIOUS
  <2>3. \A i \in 1 .. n : step[<<i, f[i - 1]>>] = ReadRow(body, fences, f[i - 1], i)
    <3> HIDE DEF S, n
    <3>1. QED
      BY <2>1, <2>2
  <2>4. QED
    BY <2>1, <2>3
<1>5. f = Unroll(f)
  BY <1>4
<1>6. scan = Unroll(scan)
  BY <1>5
<1> HIDE DEF scan
<1>7. /\ scan = [i \in 0 .. n |-> scan[i]] /\ scan[0] = {}
      /\ \A i \in 1 .. n : scan[i] = ReadRow(body, fences, scan[i - 1], i)
  <2>1. \A i \in 0 .. n : scan[i] = IF i = 0 THEN {} ELSE ReadRow(body, fences, scan[i - 1], i)
    BY <1>6, Zenon
  <2>2. scan = [i \in 0 .. n |-> scan[i]]
    BY <1>6
  <2> HIDE DEF Unroll
  <2>3. scan[0] = {}
    BY <1>1, <2>1
  <2>4. \A i \in 1 .. n : scan[i] = ReadRow(body, fences, scan[i - 1], i)
    BY <1>1, <2>1
  <2>5. QED
    BY <2>2, <2>3, <2>4
<1>8. \A i \in 1 .. n : scan[i - 1] \in S => scan[i] = step[<<i, scan[i - 1]>>]
  BY <1>7
<1>9. Steps(scan, S, n, {}, step)
  <2> HIDE DEF step, n, S
  <2>1. QED
    BY <1>1, <1>2, <1>7, <1>8, Unrolled
<1>10. ScanTables(body, fences) = scan[n]
  BY DEF ScanTables, scan
<1>11. scan[n] \in S
  BY <1>1, <1>9 DEF Steps
<1>12. QED
  BY <1>10, <1>11

LEMMA UnitsAreSpans ==
    ASSUME NEW body \in Seq(Lines)
    PROVE  Units(body) \subseteq Spans(Len(body))
  BY FencesAreFences, TablesAreSpans DEF Units

-----------------------------------------------------------------------------
(* Tokens are a number. *)

LEMMA TokensAreNumbers ==
    ASSUME NEW body \in Seq(Lines), NEW p, Len(p.crumb) \in Nat,
           p.from \in 1 .. Len(body), p.to \in 1 .. Len(body)
    PROVE  MeasureTokens(body, p) \in Int
<1> DEFINE n == Len(body)
           step == [x \in (1 .. n) \X Nat |-> x[2] + body[x[1]].tokens]
           Unroll(g) == [i \in 0 .. n |-> IF i = 0 THEN 0 ELSE g[i - 1] + body[i].tokens]
           spent == CHOOSE g : g = Unroll(g)
<1>1. n \in Nat /\ 0 \in Nat /\ \A i \in 1 .. n : body[i].tokens \in Nat
  OBVIOUS
<1>2. step \in [(1 .. n) \X Nat -> Nat]
  BY <1>1
<1>3. PICK f : Steps(f, Nat, n, 0, step)
  <2> HIDE DEF step, n
  <2>1. QED
    BY <1>1, <1>2, Recursion
<1>4. /\ f \in [0 .. n -> Nat] /\ f[0] = 0
      /\ \A i \in 1 .. n : f[i] = f[i - 1] + body[i].tokens
  <2>1. f \in [0 .. n -> Nat] /\ f[0] = 0 /\ \A i \in 1 .. n : f[i] = step[<<i, f[i - 1]>>]
    BY <1>3 DEF Steps
  <2>2. \A i \in 1 .. n : i - 1 \in 0 .. n
    OBVIOUS
  <2>3. \A i \in 1 .. n : step[<<i, f[i - 1]>>] = f[i - 1] + body[i].tokens
    <3> HIDE DEF n
    <3>1. QED
      BY <2>1, <2>2
  <2>4. QED
    BY <2>1, <2>3
<1>5. f = Unroll(f)
  BY <1>4
<1>6. spent = Unroll(spent)
  BY <1>5
<1> HIDE DEF spent
<1>7. /\ spent = [i \in 0 .. n |-> spent[i]] /\ spent[0] = 0
      /\ \A i \in 1 .. n : spent[i] = spent[i - 1] + body[i].tokens
  <2>1. \A i \in 0 .. n : spent[i] = IF i = 0 THEN 0 ELSE spent[i - 1] + body[i].tokens
    BY <1>6, Zenon
  <2>2. spent = [i \in 0 .. n |-> spent[i]]
    BY <1>6
  <2> HIDE DEF Unroll
  <2>3. spent[0] = 0
    BY <1>1, <2>1
  <2>4. \A i \in 1 .. n : spent[i] = spent[i - 1] + body[i].tokens
    BY <1>1, <2>1
  <2>5. QED
    BY <2>2, <2>3, <2>4
<1>8. \A i \in 1 .. n : spent[i - 1] \in Nat => spent[i] = step[<<i, spent[i - 1]>>]
  BY <1>7
<1>9. Steps(spent, Nat, n, 0, step)
  <2> HIDE DEF step, n
  <2>1. QED
    BY <1>1, <1>2, <1>7, <1>8, Unrolled
<1>10. MeasureTokens(body, p) = Len(p.crumb) + spent[p.to] - spent[p.from - 1]
  BY DEF MeasureTokens, spent
<1>11. spent[p.to] \in Nat /\ spent[p.from - 1] \in Nat
  <2>1. p.to \in 0 .. n /\ p.from - 1 \in 0 .. n
    BY <1>1
  <2>2. QED
    BY <1>9, <2>1 DEF Steps
<1>12. QED
  BY <1>10, <1>11

-----------------------------------------------------------------------------
(* Cutting at a set of lines. *)

LEMMA LastOfLines ==
    ASSUME NEW n \in Nat, NEW lines, lines \subseteq 1 .. n, NEW at \in Nat,
           \E h \in lines : h <= at
    PROVE  /\ LastAt(lines, at) \in lines /\ LastAt(lines, at) <= at
           /\ \A g \in lines : g <= at => g <= LastAt(lines, at)
<1> DEFINE T == {h \in lines : h <= at}
<1>1. T \subseteq 0 .. n /\ T # {}
  <2>1. PICK h \in lines : h <= at
    OBVIOUS
  <2>2. \A g \in lines : g \in 0 .. n
    OBVIOUS
  <2>3. QED
    BY <2>1, <2>2
<1>2. PICK m \in T : \A k \in T : k <= m
  <2> HIDE DEF T
  <2>1. QED
    BY <1>1, Greatest
<1>3. QED
  BY <1>2 DEF LastAt

LEMMA NextOfLines ==
    ASSUME NEW n \in Nat, NEW lines, lines \subseteq 1 .. n, NEW at \in Nat, NEW end
    PROVE  /\ (\E h \in lines : h > at) =>
                /\ Until(lines, at, end) \in Nat /\ Until(lines, at, end) + 1 \in lines
                /\ at <= Until(lines, at, end)
                /\ \A g \in lines : g > at => Until(lines, at, end) < g
           /\ ~(\E h \in lines : h > at) => Until(lines, at, end) = end
<1> DEFINE T == {h \in lines : h > at}
           m == CHOOSE h \in lines : h > at /\ \A g \in lines : g > at => h <= g
<1>1. ASSUME \E h \in lines : h > at
      PROVE  /\ Until(lines, at, end) \in Nat /\ Until(lines, at, end) + 1 \in lines
             /\ at <= Until(lines, at, end)
             /\ \A g \in lines : g > at => Until(lines, at, end) < g
  <2>1. T \subseteq Nat /\ T # {}
    <3>1. PICK h \in lines : h > at
      BY <1>1
    <3>2. \A g \in lines : g \in Nat
      OBVIOUS
    <3>3. QED
      BY <3>1, <3>2
  <2>2. PICK h \in T : \A g \in T : h <= g
    <3> HIDE DEF T
    <3>1. QED
      BY <2>1, LeastNat
  <2>3. m \in lines /\ m > at /\ \A g \in lines : g > at => m <= g
    BY <2>2
  <2>4. Until(lines, at, end) = m - 1
    BY <1>1 DEF Until
  <2>5. m \in 1 .. n
    BY <2>3
  <2> HIDE DEF m
  <2>6. QED
    BY <2>3, <2>4, <2>5
<1>2. QED
  BY <1>1 DEF Until

(* A range cut at lines of its own, its first among them. *)
LEMMA CutAt ==
    ASSUME NEW n \in Nat, NEW from \in 1 .. n, NEW to \in from .. n,
           NEW lines, lines \subseteq from .. to, from \in lines
    PROVE  /\ \A i \in lines : /\ Until(lines, i, to) \in i .. to
                               /\ Until(lines, i, to) = to \/ Until(lines, i, to) + 1 \in lines
                               /\ \A g \in lines : g > i => Until(lines, i, to) < g
           /\ \A k \in from .. to : \E i \in lines : k \in i .. Until(lines, i, to)
<1>1. ASSUME NEW i \in lines
      PROVE  /\ Until(lines, i, to) \in i .. to
             /\ Until(lines, i, to) = to \/ Until(lines, i, to) + 1 \in lines
             /\ \A g \in lines : g > i => Until(lines, i, to) < g
  <2>1. lines \subseteq 1 .. n /\ i \in Nat /\ i \in from .. to
    OBVIOUS
  <2>2. CASE \E h \in lines : h > i
    <3>1. /\ Until(lines, i, to) \in Nat /\ Until(lines, i, to) + 1 \in lines
          /\ i <= Until(lines, i, to) /\ \A g \in lines : g > i => Until(lines, i, to) < g
      BY <2>1, <2>2, NextOfLines
    <3>2. QED
      BY <2>1, <3>1
  <2>3. CASE ~(\E h \in lines : h > i)
    <3>1. Until(lines, i, to) = to
      BY <2>1, <2>3, NextOfLines
    <3>2. QED
      BY <2>1, <2>3, <3>1
  <2>4. QED
    BY <2>2, <2>3
<1>2. ASSUME NEW k \in from .. to
      PROVE  \E i \in lines : k \in i .. Until(lines, i, to)
  <2> DEFINE i == LastAt(lines, k)
  <2>1. lines \subseteq 1 .. n /\ k \in Nat /\ from <= k
    OBVIOUS
  <2>2. i \in lines /\ i <= k /\ \A g \in lines : g <= k => g <= i
    BY <2>1, LastOfLines
  <2> HIDE DEF i
  <2>3. /\ Until(lines, i, to) \in i .. to
        /\ Until(lines, i, to) = to \/ Until(lines, i, to) + 1 \in lines
    BY <1>1, <2>2
  <2>4. k <= Until(lines, i, to)
    BY <2>1, <2>2, <2>3
  <2>5. QED
    BY <2>2, <2>3, <2>4
<1>3. QED
  BY <1>1, <1>2

-----------------------------------------------------------------------------
(* Sections and children. *)

Titles    == {l.name : l \in Lines}
PieceSet(n) == [crumb : Seq(Titles), from : 1 .. n, to : 1 .. n]

Found(body)     == ScanHeadings(body, Units(body))
Level(body, l)  == AtLevel(body, Found(body), l)

LEMMA Levels ==
    ASSUME NEW body \in Seq(Lines)
    PROVE  /\ Found(body) \subseteq 1 .. Len(body)
           /\ \A l \in 1 .. 3 : Level(body, l) = Headings(body, {l})
           /\ \A l \in 1 .. 3 : Level(body, l) \subseteq 1 .. Len(body)
           /\ Headings(body, {2, 3}) = Level(body, 2) \union Level(body, 3)
           /\ Level(body, 2) \intersect Level(body, 3) = {}
           /\ \A h \in Found(body) : body[h].kind = "heading" /\ ~InUnits(Units(body), h)
  BY DEF Found, Level, ScanHeadings, AtLevel, Headings

(* What names a line: its H2, the H3 after it, the H1 its H2 is under, and in what
   comes before any H2 the first H1, wherever it is. *)
LEMMA NamesReach ==
    ASSUME NEW body \in Seq(Lines), NEW i \in 1 .. Len(body), NEW h
    PROVE  /\ \A o \in Level(body, 2) :
                /\ o <= i /\ \A g \in Level(body, 2) : g <= i => g <= o
                /\ h \in Level(body, 1) /\ h <= o
                /\ \A g \in Level(body, 1) : g <= o => g <= h
                => StandsOver(body, i, body[h].name)
           /\ /\ h \in Level(body, 1)
              /\ \A g \in Level(body, 1) \union Level(body, 2) : h <= g
              /\ \A g \in Level(body, 2) : i < g
              => StandsOver(body, i, body[h].name)
           /\ /\ h \in Level(body, 2) /\ h <= i
              /\ \A g \in Level(body, 2) : g <= i => g <= h
              => StandsOver(body, i, body[h].name)
           /\ /\ h \in Level(body, 3) /\ h <= i
              /\ \A g \in Level(body, 2) : g <= i => g < h
              /\ \A g \in Level(body, 3) : g <= i => g <= h
              => StandsOver(body, i, body[h].name)
<1> DEFINE H(l) == Headings(body, {l})
           Apart(x, j) == \A g \in Headings(body, 2 .. body[x].level) :
                              g \notin (i + 1 .. j) \union (j + 1 .. i)
<1>1. /\ Level(body, 1) = H(1) /\ Level(body, 2) = H(2) /\ Level(body, 3) = H(3)
  BY Levels
<1>2. \A l \in 1 .. 3 : \A g \in H(l) : g \in 1 .. Len(body) /\ body[g].level = l
                                         /\ g \in Headings(body, 1 .. 3)
  BY DEF Headings
<1>3. \A l \in 1 .. 3 : \A g \in Headings(body, 1 .. l) :
          g \in H(1) \/ (l > 1 /\ g \in H(2)) \/ (l > 2 /\ g \in H(3))
  BY DEF Headings
<1>4. \A l \in 1 .. 3 : \A g \in Headings(body, 2 .. l) :
          (l > 1 /\ g \in H(2)) \/ (l > 2 /\ g \in H(3))
  BY DEF Headings
<1>5. \A j \in 1 .. Len(body) :
          j \in SectionOf(body, i) <=> \A g \in H(2) : g <= i <=> g <= j
  BY DEF SectionOf
<1>6. \A j \in SectionOf(body, i) : \A x \in HeadingsOver(body, j) :
          Apart(x, j) => StandsOver(body, i, body[x].name)
  BY DEF StandsOver
<1>7. \A x \in Headings(body, 1 .. 3) : x \in HeadingsOver(body, x)
  <2>1. \A x \in Headings(body, 1 .. 3) : x \in 1 .. Len(body) /\ x <= x
    BY DEF Headings
  <2>2. \A x \in Headings(body, 1 .. 3) : \A g \in Headings(body, 1 .. body[x].level) :
            g <= x \/ x < g
    BY <2>1 DEF Headings
  <2>3. QED
    BY <2>1, <2>2 DEF HeadingsOver
<1> HIDE DEF H
<1>9. ASSUME NEW o \in H(2), o <= i, \A g \in H(2) : g <= i => g <= o,
             h \in H(1), h <= o, \A g \in H(1) : g <= o => g <= h
      PROVE  StandsOver(body, i, body[h].name)
  <2>1. o \in 1 .. Len(body) /\ h \in 1 .. Len(body) /\ body[h].level = 1 /\ h \in Headings(body, 1 .. 3)
    BY <1>2, <1>9
  <2>2. \A g \in Headings(body, 1 .. body[h].level) : g <= h \/ o < g
    BY <1>2, <1>3, <1>9, <2>1
  <2>3. h \in HeadingsOver(body, o)
    BY <1>9, <2>1, <2>2 DEF HeadingsOver
  <2>4. o \in SectionOf(body, i)
    BY <1>2, <1>5, <1>9, <2>1
  <2>5. Apart(h, o)
    BY <1>4, <2>1
  <2>6. QED
    BY <1>6, <2>3, <2>4, <2>5
<1>10. ASSUME h \in H(1), \A g \in H(1) \union H(2) : h <= g, \A g \in H(2) : i < g
       PROVE  StandsOver(body, i, body[h].name)
  <2>1. h \in 1 .. Len(body) /\ body[h].level = 1 /\ h \in Headings(body, 1 .. 3) /\ h \notin H(2)
    BY <1>2, <1>10
  <2>2. h \in SectionOf(body, i)
    BY <1>2, <1>5, <1>10, <2>1
  <2>3. Apart(h, h)
    BY <1>4, <2>1
  <2>4. QED
    BY <1>6, <1>7, <2>1, <2>2, <2>3
<1>11. ASSUME h \in H(2) \union H(3), h <= i, \A g \in H(2) : g <= i => g <= h,
              h \in H(3) => \A g \in H(3) : g <= i => g <= h
       PROVE  StandsOver(body, i, body[h].name)
  <2>1. h \in 1 .. Len(body) /\ body[h].level \in 2 .. 3 /\ h \in Headings(body, 1 .. 3)
        /\ (h \in H(3) <=> body[h].level = 3)
    BY <1>2, <1>11
  <2>2. h \in SectionOf(body, i)
    BY <1>2, <1>5, <1>11, <2>1
  <2>3. Apart(h, h)
    <3> DEFINE l == body[h].level
    <3>1. l \in 1 .. 3 /\ (l > 2 => h \in H(3))
      BY <2>1
    <3> HIDE DEF l
    <3>2. ASSUME NEW g \in Headings(body, 2 .. l)
          PROVE  g \notin (i + 1 .. h) \union (h + 1 .. i)
      <4>1. g \in H(2) \/ (h \in H(3) /\ g \in H(3))
        BY <1>4, <3>1
      <4>2. g \in 1 .. Len(body) /\ (g <= i => g <= h)
        BY <1>2, <1>11, <4>1
      <4>3. QED
        BY <1>11, <2>1, <4>2
    <3>3. QED
      BY <3>2 DEF l
  <2>4. QED
    BY <1>6, <1>7, <2>1, <2>2, <2>3
<1>12. ASSUME h \in H(3), \A g \in H(2) : g <= i => g < h
       PROVE  \A g \in H(2) : g <= i => g <= h
  BY <1>2, <1>12
<1>13. h \in H(3) /\ h <= i /\ (\A g \in H(2) : g <= i => g < h)
       /\ (\A g \in H(3) : g <= i => g <= h) => StandsOver(body, i, body[h].name)
  BY <1>11, <1>12
<1>14. h \in H(2) /\ h <= i /\ (\A g \in H(2) : g <= i => g <= h)
       => StandsOver(body, i, body[h].name)
  <2>1. h \in H(2) => h \notin H(3)
    BY <1>2
  <2>2. QED
    BY <1>11, <2>1
<1>15. QED
  BY <1>1, <1>9, <1>10, <1>13, <1>14, Zenon

(* What may be said of a heading path over all the lines of a piece. *)
Named(body, p) ==
    \A i \in p.from .. p.to, k \in DOMAIN p.crumb : StandsOver(body, i, p.crumb[k])

(* The sections: one from each H2 and one from the top, apart, and over every line. *)
LEMMA SectionsCut ==
    ASSUME NEW body \in Seq(Lines)
    PROVE  /\ \A s \in SplitSections(body, Found(body)) :
                /\ s \in PieceSet(Len(body)) /\ s.from <= s.to
                /\ s.from = 1 \/ s.from \in Level(body, 2)
                /\ s.to = Len(body) \/ s.to + 1 \in Level(body, 2)
                /\ \A g \in Level(body, 2) : g \notin s.from + 1 .. s.to
                /\ Named(body, s)
           /\ \A s, t \in SplitSections(body, Found(body)) :
                s = t \/ s.to < t.from \/ t.to < s.from
           /\ \A i \in 1 .. Len(body) :
                \E s \in SplitSections(body, Found(body)) : i \in s.from .. s.to
<1> DEFINE n == Len(body)
           headings == Found(body)
           h2s == AtLevel(body, headings, 2)
           starts == h2s \union (IF body = <<>> THEN {} ELSE {1})
           Crumb(i) == IF i \in h2s THEN BreadcrumbAt(body, headings, i)
                       ELSE PreambleBreadcrumb(body, headings)
           Section(i) == [crumb |-> Crumb(i), from |-> i, to |-> Until(starts, i, n)]
<1>1. SplitSections(body, headings) = {Section(i) : i \in starts}
  BY DEF SplitSections
<1>2. /\ n \in Nat /\ h2s = Level(body, 2) /\ h2s \subseteq 1 .. n /\ headings \subseteq 1 .. n
      /\ body = <<>> => n = 0
  BY Levels DEF Level
<1>7. \A h \in headings : body[h].name \in Titles
  BY Levels DEF Titles
<1>3. CASE body = <<>>
  <2>1. n = 0 /\ starts = {}
    BY <1>2, <1>3
  <2> HIDE DEF starts, Section
  <2>2. SplitSections(body, Found(body)) = {}
    BY <1>1, <2>1
  <2>3. QED
    BY <1>2, <2>1, <2>2
<1>4. body # <<>> => n \in 1 .. n /\ 1 \in 1 .. n
  OBVIOUS
<1> HIDE DEF n
<1>5. CASE body # <<>>
  <2>1. n \in 1 .. n /\ 1 \in 1 .. n
    BY <1>4, <1>5
  <2>2. starts \subseteq 1 .. n /\ 1 \in starts /\ h2s \subseteq starts
        /\ \A i \in starts : i = 1 \/ i \in h2s
    BY <1>2, <1>5, <2>1
  <2> HIDE DEF starts, h2s, headings
  <2>3. /\ \A i \in starts : /\ Until(starts, i, n) \in i .. n
                             /\ Until(starts, i, n) = n \/ Until(starts, i, n) + 1 \in starts
                             /\ \A g \in starts : g > i => Until(starts, i, n) < g
        /\ \A k \in 1 .. n : \E i \in starts : k \in i .. Until(starts, i, n)
    BY <1>2, <2>1, <2>2, CutAt
  <2>4. \A i \in starts : Section(i).crumb = Crumb(i) /\ Section(i).from = i
                           /\ Section(i).to = Until(starts, i, n)
    OBVIOUS
  <2>5. ASSUME NEW i \in starts
        PROVE  Crumb(i) \in Seq(Titles) /\ Named(body, Section(i))
    <3>1. \A h \in headings : body[h].name \in Titles
      BY <1>7
    <3>3. /\ Level(body, 1) = AtLevel(body, headings, 1)
          /\ Level(body, 1) \subseteq headings /\ h2s \subseteq headings
      BY DEF Level, headings, h2s, AtLevel
    <3>4. ASSUME NEW j \in i .. Until(starts, i, n) PROVE j \in 1 .. n
      BY <1>2, <2>2, <2>3, <3>4
    <3>5. CASE i \in h2s
      <4> DEFINE latest(level) == LET hs == AtLevel(body, headings, level)
                                  IN  IF \E h \in hs : h <= i THEN body[LastAt(hs, i)].name ELSE NoName
      <4>1. Crumb(i) = NonEmpty(latest(1), latest(2))
        BY <3>5 DEF BreadcrumbAt
      <4>2. latest(2) = body[i].name
        <5>1. i \in h2s /\ i <= i /\ i \in Nat /\ h2s = AtLevel(body, headings, 2)
          BY <1>2, <3>5 DEF h2s
        <5>2. LastAt(h2s, i) = i
          <6>1. LastAt(h2s, i) \in h2s /\ LastAt(h2s, i) <= i /\ i <= LastAt(h2s, i)
            BY <1>2, <5>1, LastOfLines
          <6>2. QED
            BY <1>2, <5>1, <6>1
        <5>3. QED
          BY <5>1, <5>2
      <4>3. \/ latest(1) = NoName
            \/ \E h \in Level(body, 1) : /\ latest(1) = body[h].name /\ h <= i
                                         /\ \A g \in Level(body, 1) : g <= i => g <= h
        <5> DEFINE hs == AtLevel(body, headings, 1)
        <5>1. CASE \E h \in hs : h <= i
          <6>1. hs \subseteq 1 .. n /\ i \in Nat
            <7>1. i \in 1 .. n
              BY <2>2
            <7>2. hs \subseteq 1 .. n
              BY <1>2, <3>3
            <7>3. QED
              BY <7>1, <7>2
          <6>2. /\ LastAt(hs, i) \in hs /\ LastAt(hs, i) <= i
                /\ \A g \in hs : g <= i => g <= LastAt(hs, i)
            BY <1>2, <5>1, <6>1, LastOfLines
          <6>3. latest(1) = body[LastAt(hs, i)].name
            BY <5>1
          <6>4. QED
            BY <3>3, <6>2, <6>3
        <5>2. QED
          BY <5>1
      <4> HIDE DEF latest
      <4>4. latest(2) \in Titles /\ (latest(1) # NoName => latest(1) \in Titles)
        BY <1>2, <3>1, <3>3, <3>5, <4>2, <4>3 DEF h2s
      <4>5. /\ Crumb(i) \in Seq(Titles)
            /\ \A k \in DOMAIN Crumb(i) : \/ Crumb(i)[k] = latest(2)
                                          \/ latest(1) # NoName /\ Crumb(i)[k] = latest(1)
        <5> DEFINE a == latest(1)
                   b == latest(2)
                   c == Crumb(i)
        <5>1. c = NonEmpty(a, b) /\ b \in Titles /\ (a # NoName => a \in Titles)
          BY <4>1, <4>4
        <5> HIDE DEF a, b, c
        <5>2. c = <<>> \/ c = <<b>> \/ (a # NoName /\ (c = <<a>> \/ c = <<a, b>>))
          BY <5>1 DEF NonEmpty, NoCrumb
        <5>3. /\ c \in Seq(Titles)
              /\ \A k \in DOMAIN c : c[k] = b \/ (a # NoName /\ c[k] = a)
          <6>1. CASE c = <<>>
            BY <6>1
          <6>2. CASE c = <<b>>
            BY <5>1, <6>2
          <6>3. CASE a # NoName /\ c = <<a>>
            BY <5>1, <6>3
          <6>4. CASE a # NoName /\ c = <<a, b>>
            BY <5>1, <6>4
          <6>5. QED
            BY <5>2, <6>1, <6>2, <6>3, <6>4, Zenon
        <5> USE DEF a, b, c
        <5>4. QED
          BY <5>3
      <4>6. ASSUME NEW j \in i .. Until(starts, i, n)
            PROVE  /\ StandsOver(body, j, latest(2))
                   /\ latest(1) # NoName => StandsOver(body, j, latest(1))
        <5>1. j \in 1 .. n /\ i <= j /\ \A g \in Level(body, 2) : g <= j => g <= i
          BY <1>2, <2>2, <2>3, <3>4, <4>6
        <5>2. StandsOver(body, j, latest(2))
          BY <1>2, <3>5, <4>2, <5>1, NamesReach DEF n
        <5>3. ASSUME latest(1) # NoName PROVE StandsOver(body, j, latest(1))
          <6>1. PICK h \in Level(body, 1) : /\ latest(1) = body[h].name /\ h <= i
                                            /\ \A g \in Level(body, 1) : g <= i => g <= h
            BY <4>3, <5>3
          <6>2. StandsOver(body, j, body[h].name)
            BY <1>2, <3>5, <5>1, <6>1, NamesReach DEF n
          <6>3. QED
            BY <6>1, <6>2
        <5>4. QED
          BY <5>2, <5>3
      <4>7. Named(body, Section(i))
        <5> HIDE DEF Crumb
        <5>1. \A j \in i .. Until(starts, i, n), k \in DOMAIN Crumb(i) :
                  StandsOver(body, j, Crumb(i)[k])
          BY <4>5, <4>6
        <5> HIDE DEF Section
        <5>2. QED
          BY <2>4, <5>1 DEF Named
      <4>8. QED
        BY <4>5, <4>7
    <3>6. CASE i \notin h2s
      <4> DEFINE first == {h \in AtLevel(body, headings, 1) :
                             \A g \in headings : body[g].level <= 2 => h <= g}
      <4>1. Crumb(i) = IF first = {} THEN NoCrumb ELSE <<body[CHOOSE h \in first : TRUE].name>>
        BY <3>6 DEF PreambleBreadcrumb
      <4>2. \/ Crumb(i) = NoCrumb
            \/ \E h \in Level(body, 1) :
                  /\ Crumb(i) = <<body[h].name>>
                  /\ \A g \in Level(body, 1) \union Level(body, 2) : h <= g
        <5>1. CASE first # {}
          <6>1. (CHOOSE h \in first : TRUE) \in first
            BY <5>1
          <6>2. PICK h \in first : Crumb(i) = <<body[h].name>>
            BY <4>1, <5>1, <6>1
          <6>3. \A g \in Level(body, 1) \union Level(body, 2) : g \in headings /\ body[g].level <= 2
            BY DEF Level, AtLevel, headings
          <6>4. h \in Level(body, 1) /\ \A g \in Level(body, 1) \union Level(body, 2) : h <= g
            BY <3>3, <6>2, <6>3
          <6>5. QED
            BY <6>2, <6>4
        <5>2. QED
          BY <4>1, <5>1
      <4> HIDE DEF Crumb
      <4>3. Crumb(i) \in Seq(Titles)
        <5>1. \A h \in Level(body, 1) : body[h].name \in Titles
          BY <3>1, <3>3
        <5>2. CASE Crumb(i) = NoCrumb
          BY <5>2 DEF NoCrumb
        <5>3. CASE Crumb(i) # NoCrumb
          <6>1. PICK h \in Level(body, 1) : Crumb(i) = <<body[h].name>>
            BY <4>2, <5>3
          <6>2. QED
            BY <5>1, <6>1
        <5>4. QED
          BY <5>2, <5>3
      <4>4. ASSUME NEW j \in i .. Until(starts, i, n), NEW k \in DOMAIN Crumb(i)
            PROVE  StandsOver(body, j, Crumb(i)[k])
        <5>1. j \in 1 .. n
          BY <3>4
        <5>2. \A g \in Level(body, 2) : j < g
          <6>1. i = 1
            BY <2>2, <3>6
          <6>2. ASSUME NEW g \in Level(body, 2) PROVE j < g
            <7>1. g \in 1 .. n /\ g \in starts /\ g # i
              BY <1>2, <2>2, <3>6
            <7>2. Until(starts, i, n) < g
              BY <2>3, <6>1, <7>1
            <7>3. Until(starts, i, n) \in i .. n
              BY <2>3
            <7>4. QED
              BY <1>2, <6>1, <7>1, <7>2, <7>3
          <6>3. QED
            BY <6>2
        <5>3. PICK h \in Level(body, 1) :
                  /\ Crumb(i) = <<body[h].name>>
                  /\ \A g \in Level(body, 1) \union Level(body, 2) : h <= g
          BY <4>2, <4>4 DEF NoCrumb
        <5>4. StandsOver(body, j, body[h].name)
          BY <5>1, <5>2, <5>3, NamesReach DEF n
        <5>5. QED
          BY <4>4, <5>3, <5>4
      <4> HIDE DEF Section
      <4>5. QED
        BY <2>4, <4>3, <4>4 DEF Named
    <3>7. QED
      BY <3>5, <3>6
  <2> HIDE DEF Crumb
  <2>6. ASSUME NEW i \in starts
        PROVE  /\ Section(i) \in PieceSet(n) /\ i <= Until(starts, i, n)
               /\ i = 1 \/ i \in Level(body, 2)
               /\ Until(starts, i, n) = n \/ Until(starts, i, n) + 1 \in Level(body, 2)
               /\ \A g \in Level(body, 2) : g \notin i + 1 .. Until(starts, i, n)
    <3>1. i \in 1 .. n /\ Until(starts, i, n) \in i .. n
      BY <2>2, <2>3
    <3>2. Section(i) \in PieceSet(n)
      <4>1. Until(starts, i, n) \in 1 .. n
        BY <1>2, <3>1
      <4>2. Crumb(i) \in Seq(Titles)
        BY <2>5
      <4>3. QED
        BY <3>1, <4>1, <4>2 DEF PieceSet
    <3>3. Until(starts, i, n) + 1 # 1
      BY <1>2, <3>1
    <3> HIDE DEF Section
    <3>4. \A g \in starts : g \notin i + 1 .. Until(starts, i, n)
      BY <2>3, <3>1
    <3>5. Until(starts, i, n) = n \/ Until(starts, i, n) + 1 \in starts
      BY <2>3
    <3>6. QED
      BY <1>2, <2>2, <3>1, <3>2, <3>3, <3>4, <3>5
  <2>7. ASSUME NEW i \in starts, NEW j \in starts
        PROVE  i = j \/ Until(starts, i, n) < j \/ Until(starts, j, n) < i
    BY <1>2, <2>2, <2>3
  <2>8. \A i \in starts : Section(i).crumb = Crumb(i) /\ Section(i).from = i
                           /\ Section(i).to = Until(starts, i, n)
    OBVIOUS
  <2> HIDE DEF Section
  <2>9. SplitSections(body, Found(body)) = {Section(i) : i \in starts}
    BY <1>1 DEF headings
  <2>10. \A s \in SplitSections(body, Found(body)) : \E i \in starts : s = Section(i)
    BY <2>9
  <2>11. \A s \in SplitSections(body, Found(body)) :
           /\ s \in PieceSet(n) /\ s.from <= s.to
           /\ s.from = 1 \/ s.from \in Level(body, 2)
           /\ s.to = n \/ s.to + 1 \in Level(body, 2)
           /\ \A g \in Level(body, 2) : g \notin s.from + 1 .. s.to
           /\ Named(body, s)
    BY <2>5, <2>6, <2>8, <2>10
  <2>12. \A s, t \in SplitSections(body, Found(body)) : s = t \/ s.to < t.from \/ t.to < s.from
    BY <2>7, <2>8, <2>10
  <2>13. ASSUME NEW k \in 1 .. n
         PROVE  \E s \in SplitSections(body, Found(body)) : k \in s.from .. s.to
    <3>1. PICK i \in starts : k \in i .. Until(starts, i, n)
      BY <2>3
    <3>2. Section(i) \in SplitSections(body, Found(body))
      BY <2>9
    <3>3. QED
      BY <2>8, <3>1, <3>2
  <2>14. QED
    BY <2>11, <2>12, <2>13 DEF n
<1>6. QED
  BY <1>3, <1>5

(* The children of a section: one from each H3 and one from its top, apart, over
   every line of it; there are some if there is an H3. *)
LEMMA ChildrenCut ==
    ASSUME NEW body \in Seq(Lines), NEW s \in SplitSections(body, Found(body))
    PROVE  /\ \A c \in SplitAtH3(body, Found(body), s) :
                /\ c \in PieceSet(Len(body)) /\ c.from <= c.to
                /\ s.from <= c.from /\ c.to <= s.to
                /\ c.from = s.from \/ c.from \in Level(body, 3)
                /\ c.to = s.to \/ c.to + 1 \in Level(body, 3)
                /\ \A g \in Level(body, 3) : g \notin c.from + 1 .. c.to
                /\ Named(body, c)
           /\ \A c, d \in SplitAtH3(body, Found(body), s) :
                c = d \/ c.to < d.from \/ d.to < c.from
           /\ SplitAtH3(body, Found(body), s) # {} =>
                \A i \in s.from .. s.to :
                    \E c \in SplitAtH3(body, Found(body), s) : i \in c.from .. c.to
           /\ SplitAtH3(body, Found(body), s) = {} =>
                \A g \in Level(body, 3) : g \notin s.from .. s.to
<1> DEFINE n == Len(body)
           h3s == {h \in AtLevel(body, Found(body), 3) : h \in s.from .. s.to}
           starts == IF h3s = {} THEN {} ELSE h3s \union {s.from}
           Crumb(i) == IF i \in h3s THEN Append(s.crumb, body[i].name) ELSE s.crumb
           Child(i) == [crumb |-> Crumb(i), from |-> i, to |-> Until(starts, i, s.to)]
           Children == SplitAtH3(body, Found(body), s)
<1>1. Children = {Child(i) : i \in starts}
  BY DEF SplitAtH3
<1>2. /\ n \in Nat /\ Level(body, 3) \subseteq 1 .. n
      /\ \A h \in 1 .. n : body[h].name \in Titles
  BY Levels DEF Titles
<1>3. /\ s \in PieceSet(n) /\ s.from <= s.to /\ Named(body, s)
      /\ s.from = 1 \/ s.from \in Level(body, 2)
      /\ \A g \in Level(body, 2) : g \notin s.from + 1 .. s.to
  BY SectionsCut
<1>4. s.crumb \in Seq(Titles) /\ s.from \in 1 .. n /\ s.to \in s.from .. n
  BY <1>2, <1>3 DEF PieceSet
<1>5. /\ \A h \in h3s : h \in Level(body, 3) /\ h \in s.from .. s.to
      /\ \A h \in Level(body, 3) : h \in s.from .. s.to => h \in h3s
  BY DEF Level
<1>6. CASE h3s = {}
  <2>1. Children = {}
    BY <1>1, <1>6
  <2>2. \A g \in Level(body, 3) : g \notin s.from .. s.to
    BY <1>5, <1>6
  <2> HIDE DEF Children, h3s
  <2>3. QED
    BY <2>1, <2>2 DEF Children
<1>7. CASE h3s # {}
  <2>1. /\ starts \subseteq s.from .. s.to /\ s.from \in starts /\ h3s \subseteq starts
        /\ \A i \in starts : i = s.from \/ i \in h3s
    BY <1>4, <1>7
  <2> HIDE DEF starts, h3s, n
  <2>2. /\ \A i \in starts :
             /\ Until(starts, i, s.to) \in i .. s.to
             /\ Until(starts, i, s.to) = s.to \/ Until(starts, i, s.to) + 1 \in starts
             /\ \A g \in starts : g > i => Until(starts, i, s.to) < g
        /\ \A k \in s.from .. s.to : \E i \in starts : k \in i .. Until(starts, i, s.to)
    <3>1. n \in Nat /\ s.from \in 1 .. n /\ s.to \in s.from .. n
          /\ starts \subseteq s.from .. s.to /\ s.from \in starts
      BY <1>2, <1>4, <2>1
    <3>2. QED
      BY <3>1, CutAt
  <2>3. \A i \in starts : Child(i).crumb = Crumb(i) /\ Child(i).from = i
                           /\ Child(i).to = Until(starts, i, s.to)
    OBVIOUS
  <2>4. ASSUME NEW i \in starts
        PROVE  /\ i \in 1 .. n /\ i \in s.from .. s.to /\ Until(starts, i, s.to) \in i .. s.to
               /\ Until(starts, i, s.to) \in 1 .. n
    <3>1. i \in s.from .. s.to /\ Until(starts, i, s.to) \in i .. s.to
      BY <2>1, <2>2
    <3>2. QED
      BY <1>2, <1>4, <3>1
  <2>5. ASSUME NEW i \in starts
        PROVE  Crumb(i) \in Seq(Titles)
    <3>1. body[i].name \in Titles
      BY <1>2, <2>4
    <3>2. QED
      BY <1>4, <3>1
  <2>6. ASSUME NEW i \in starts
        PROVE  Named(body, Child(i))
    <3>1. ASSUME NEW j \in i .. Until(starts, i, s.to)
          PROVE  j \in 1 .. n /\ j \in s.from .. s.to
      <4>1. i \in s.from .. s.to /\ Until(starts, i, s.to) \in i .. s.to
        BY <2>4
      <4>2. QED
        BY <1>2, <1>4, <4>1, <3>1
    <3>2. ASSUME NEW j \in i .. Until(starts, i, s.to), NEW k \in DOMAIN s.crumb
          PROVE  StandsOver(body, j, s.crumb[k])
      BY <1>3, <3>1, <3>2 DEF Named
    <3>3. ASSUME i \in h3s, NEW j \in i .. Until(starts, i, s.to)
          PROVE  StandsOver(body, j, body[i].name)
      <4>1. i \in Level(body, 3) /\ i \in s.from .. s.to /\ i \in 1 .. n /\ j \in 1 .. n
            /\ i <= j /\ j \in s.from .. s.to
        BY <1>5, <2>4, <3>1, <3>3
      <4>2. ASSUME NEW g \in Level(body, 2), g <= j PROVE g < i
        <5>1. g \notin s.from + 1 .. s.to /\ g \in 1 .. n
          BY <1>3, Levels DEF n
        <5>2. g <= s.from
          BY <1>4, <4>1, <4>2, <5>1
        <5>3. g # i
          BY <4>1, Levels
        <5>4. QED
          BY <1>4, <4>1, <5>1, <5>2, <5>3
      <4>3. ASSUME NEW g \in Level(body, 3), g <= j PROVE g <= i
        <5>1. g \in 1 .. n
          BY <1>2
        <5>2. ASSUME g > i PROVE FALSE
          <6>1. g \in s.from .. s.to
            BY <1>4, <4>1, <4>3, <5>1, <5>2
          <6>2. g \in starts
            BY <1>5, <2>1, <6>1
          <6>3. Until(starts, i, s.to) < g /\ Until(starts, i, s.to) \in 1 .. n
            BY <2>2, <2>4, <5>2, <6>2
          <6>4. QED
            BY <3>3, <4>1, <4>3, <5>1, <6>3
        <5>3. QED
          BY <4>1, <5>1, <5>2
      <4>4. QED
        BY <4>1, <4>2, <4>3, NamesReach DEF n
    <3>4. ASSUME NEW j \in i .. Until(starts, i, s.to), NEW k \in DOMAIN Crumb(i)
          PROVE  StandsOver(body, j, Crumb(i)[k])
      <4>1. CASE i \in h3s
        <5>1. body[i].name \in Titles /\ s.crumb \in Seq(Titles)
          BY <1>2, <1>4, <2>4
        <5>2. Crumb(i) = Append(s.crumb, body[i].name)
          BY <4>1
        <5> HIDE DEF Crumb
        <5>3. Crumb(i)[k] = body[i].name \/ (k \in DOMAIN s.crumb /\ Crumb(i)[k] = s.crumb[k])
          BY <3>4, <5>1, <5>2
        <5>4. QED
          BY <3>2, <3>3, <4>1, <5>3
      <4>2. CASE i \notin h3s
        BY <3>2, <3>4, <4>2
      <4>3. QED
        BY <4>1, <4>2
    <3> HIDE DEF Crumb, Child
    <3>5. QED
      BY <2>3, <3>4 DEF Named
  <2> HIDE DEF Crumb
  <2>7. ASSUME NEW i \in starts
        PROVE  /\ Child(i) \in PieceSet(n) /\ i <= Until(starts, i, s.to)
               /\ s.from <= i /\ Until(starts, i, s.to) <= s.to
               /\ i = s.from \/ i \in Level(body, 3)
               /\ Until(starts, i, s.to) = s.to \/ Until(starts, i, s.to) + 1 \in Level(body, 3)
               /\ \A g \in Level(body, 3) : g \notin i + 1 .. Until(starts, i, s.to)
    <3>1. i \in 1 .. n /\ i \in s.from .. s.to /\ Until(starts, i, s.to) \in i .. s.to
          /\ Until(starts, i, s.to) \in 1 .. n
      BY <2>4
    <3>2. Child(i) \in PieceSet(n)
      <4>1. Crumb(i) \in Seq(Titles)
        BY <2>5
      <4>2. QED
        BY <3>1, <4>1 DEF PieceSet
    <3>3. Until(starts, i, s.to) + 1 # s.from
      BY <1>4, <3>1
    <3> HIDE DEF Child
    <3>4. Until(starts, i, s.to) = s.to \/ Until(starts, i, s.to) + 1 \in starts
      BY <2>2
    <3>5. ASSUME NEW g \in Level(body, 3), g \in i + 1 .. Until(starts, i, s.to) PROVE FALSE
      <4>1. g \in 1 .. n /\ g > i /\ g <= Until(starts, i, s.to)
        BY <1>2, <3>1, <3>5
      <4>2. g \in s.from .. s.to
        BY <1>4, <3>1, <4>1
      <4>3. g \in starts
        BY <1>5, <2>1, <4>2
      <4>4. Until(starts, i, s.to) < g
        BY <2>2, <4>1, <4>3
      <4>5. QED
        BY <3>1, <4>1, <4>4
    <3>6. i = s.from \/ i \in Level(body, 3)
      BY <1>5, <2>1
    <3>7. Until(starts, i, s.to) = s.to \/ Until(starts, i, s.to) + 1 \in Level(body, 3)
      BY <1>5, <2>1, <3>3, <3>4
    <3>8. i <= Until(starts, i, s.to) /\ s.from <= i /\ Until(starts, i, s.to) <= s.to
      BY <1>4, <3>1
    <3>9. QED
      BY <3>2, <3>5, <3>6, <3>7, <3>8
  <2>8. ASSUME NEW i \in starts, NEW j \in starts
        PROVE  i = j \/ Until(starts, i, s.to) < j \/ Until(starts, j, s.to) < i
    <3>1. i \in 1 .. n /\ j \in 1 .. n
      BY <2>4
    <3>2. i = j \/ i < j \/ j < i
      BY <3>1
    <3>3. QED
      BY <2>2, <3>1, <3>2
  <2> HIDE DEF Child
  <2>9. \A c \in Children : \E i \in starts : c = Child(i)
    BY <1>1
  <2>10. \A i \in starts : Child(i) \in Children
    BY <1>1
  <2>11. \A c \in Children :
           /\ c \in PieceSet(n) /\ c.from <= c.to
           /\ s.from <= c.from /\ c.to <= s.to
           /\ c.from = s.from \/ c.from \in Level(body, 3)
           /\ c.to = s.to \/ c.to + 1 \in Level(body, 3)
           /\ \A g \in Level(body, 3) : g \notin c.from + 1 .. c.to
           /\ Named(body, c)
    BY <2>3, <2>6, <2>7, <2>9
  <2>12. \A c, d \in Children : c = d \/ c.to < d.from \/ d.to < c.from
    BY <2>3, <2>8, <2>9
  <2>13. ASSUME NEW k \in s.from .. s.to
         PROVE  \E c \in Children : k \in c.from .. c.to
    <3>1. PICK i \in starts : k \in i .. Until(starts, i, s.to)
      BY <2>2
    <3>2. QED
      BY <2>3, <2>10, <3>1
  <2>14. Children # {}
    BY <2>1, <2>10
  <2>15. QED
    BY <2>11, <2>12, <2>13, <2>14 DEF n
<1>8. QED
  BY <1>6, <1>7

-----------------------------------------------------------------------------
(* The pieces the merge is given. *)

LEMMA TokensOf ==
    ASSUME NEW body \in Seq(Lines), NEW p \in PieceSet(Len(body))
    PROVE  MeasureTokens(body, p) \in Int
<1>1. Len(p.crumb) \in Nat /\ p.from \in 1 .. Len(body) /\ p.to \in 1 .. Len(body)
  BY DEF PieceSet
<1>2. QED
  BY <1>1, TokensAreNumbers

CutsOf(body) == Headings(body, {2, 3})

WellCut(body, p, cfg) ==
    /\ p \in PieceSet(Len(body)) /\ p.from <= p.to
    /\ p.from = 1 \/ p.from \in CutsOf(body)
    /\ p.to = Len(body) \/ p.to + 1 \in CutsOf(body)
    /\ MeasureTokens(body, p) > cfg.ceiling => \A g \in CutsOf(body) : g \notin p.from + 1 .. p.to
    /\ Named(body, p)

LEMMA PiecesCut ==
    ASSUME NEW body \in Seq(Lines), NEW cfg \in Configs, NEW s \in SplitSections(body, Found(body))
    PROVE  /\ \A p \in PiecesOf(body, Found(body), s, cfg) :
                WellCut(body, p, cfg) /\ s.from <= p.from /\ p.to <= s.to
           /\ \A p, q \in PiecesOf(body, Found(body), s, cfg) :
                p = q \/ p.to < q.from \/ q.to < p.from
           /\ \A i \in s.from .. s.to : body[i].kind # "blank" =>
                \E p \in PiecesOf(body, Found(body), s, cfg) : i \in p.from .. p.to
<1> DEFINE n == Len(body)
           children == SplitAtH3(body, Found(body), s)
           pieces == PiecesOf(body, Found(body), s, cfg)
<1>1. /\ s \in PieceSet(n) /\ s.from <= s.to
      /\ s.from = 1 \/ s.from \in Level(body, 2)
      /\ s.to = n \/ s.to + 1 \in Level(body, 2)
      /\ \A g \in Level(body, 2) : g \notin s.from + 1 .. s.to
      /\ Named(body, s)
  BY SectionsCut
<1>2. \A c \in children :
          /\ c \in PieceSet(n) /\ c.from <= c.to
          /\ s.from <= c.from /\ c.to <= s.to
          /\ c.from = s.from \/ c.from \in Level(body, 3)
          /\ c.to = s.to \/ c.to + 1 \in Level(body, 3)
          /\ \A g \in Level(body, 3) : g \notin c.from + 1 .. c.to
          /\ Named(body, c)
  BY ChildrenCut
<1>3. \A c, d \in children : c = d \/ c.to < d.from \/ d.to < c.from
  BY ChildrenCut
<1>4. children # {} => \A i \in s.from .. s.to : \E c \in children : i \in c.from .. c.to
  BY ChildrenCut
<1>5. children = {} => \A g \in Level(body, 3) : g \notin s.from .. s.to
  BY ChildrenCut
<1>6. /\ n \in Nat /\ s.from \in 1 .. n /\ s.to \in 1 .. n
      /\ \A g : g \in CutsOf(body) <=> g \in Level(body, 2) \/ g \in Level(body, 3)
      /\ \A g \in CutsOf(body) : g \in 1 .. n
  BY <1>1, Levels DEF PieceSet, CutsOf
<1>7. cfg.ceiling \in Int /\ MeasureTokens(body, s) \in Int
  BY <1>1, TokensOf
<1>8. CASE Blank(body, s)
  <2>1. pieces = {}
    BY <1>8 DEF PiecesOf
  <2>2. \A i \in s.from .. s.to : body[i].kind = "blank"
    BY <1>8 DEF Blank
  <2> HIDE DEF pieces
  <2>3. QED
    BY <2>1, <2>2 DEF pieces
<1>9. CASE ~Blank(body, s) /\ (MeasureTokens(body, s) <= cfg.ceiling \/ children = {})
  <2>1. pieces = {s}
    BY <1>9 DEF PiecesOf
  <2>2. MeasureTokens(body, s) > cfg.ceiling => \A g \in CutsOf(body) : g \notin s.from + 1 .. s.to
    <3>1. ASSUME MeasureTokens(body, s) > cfg.ceiling, NEW g \in CutsOf(body), g \in s.from + 1 .. s.to
          PROVE  FALSE
      <4>1. children = {}
        BY <1>7, <1>9, <3>1
      <4>2. g \in s.from .. s.to
        BY <1>6, <3>1
      <4>3. g \notin Level(body, 3)
        BY <1>5, <4>1, <4>2
      <4>4. QED
        BY <1>1, <1>6, <3>1, <4>3
    <3>2. QED
      BY <3>1
  <2>3. WellCut(body, s, cfg)
    BY <1>1, <1>6, <2>2 DEF WellCut
  <2> HIDE DEF pieces
  <2>4. s.from <= s.from /\ s.to <= s.to
    BY <1>6
  <2>5. QED
    BY <2>1, <2>3, <2>4 DEF pieces
<1>10. CASE ~Blank(body, s) /\ ~(MeasureTokens(body, s) <= cfg.ceiling \/ children = {})
  <2>1. pieces = {c \in children : ~Blank(body, c)}
    BY <1>10 DEF PiecesOf
  <2>2. ASSUME NEW c \in children PROVE WellCut(body, c, cfg)
    <3>1. c.from \in 1 .. n /\ c.to \in 1 .. n /\ s.from <= c.from /\ c.to <= s.to
      BY <1>2 DEF PieceSet
    <3>2. ASSUME NEW g \in CutsOf(body), g \in c.from + 1 .. c.to PROVE FALSE
      <4>1. g \in s.from + 1 .. s.to
        BY <1>6, <3>1, <3>2
      <4>2. QED
        BY <1>1, <1>2, <1>6, <3>2, <4>1
    <3>3. c.from = 1 \/ c.from \in CutsOf(body)
      BY <1>1, <1>2, <1>6
    <3>4. c.to = n \/ c.to + 1 \in CutsOf(body)
      BY <1>1, <1>2, <1>6
    <3>5. QED
      BY <1>2, <3>2, <3>3, <3>4 DEF WellCut
  <2> HIDE DEF children, pieces
  <2>3. ASSUME NEW i \in s.from .. s.to, body[i].kind # "blank"
        PROVE  \E p \in pieces : i \in p.from .. p.to
    <3>1. PICK c \in children : i \in c.from .. c.to
      BY <1>4, <1>10
    <3>2. ~Blank(body, c)
      BY <2>3, <3>1 DEF Blank
    <3>3. QED
      BY <2>1, <3>1, <3>2
  <2>4. QED
    BY <1>2, <1>3, <2>1, <2>2, <2>3 DEF pieces
<1>11. QED
  BY <1>8, <1>9, <1>10

(* The pieces of a note lie between headings, apart, and over every line that is not blank. *)
LEMMA PartsCut ==
    ASSUME NEW body \in Seq(Lines), NEW cfg \in Configs
    PROVE  /\ \A p \in Parts(body, cfg) : WellCut(body, p, cfg)
           /\ \A p, q \in Parts(body, cfg) : p = q \/ p.to < q.from \/ q.to < p.from
           /\ \A i \in 1 .. Len(body) : body[i].kind # "blank" =>
                \E p \in Parts(body, cfg) : i \in p.from .. p.to
<1> DEFINE sections == SplitSections(body, Found(body))
           Of(s) == PiecesOf(body, Found(body), s, cfg)
<1>1. Parts(body, cfg) = UNION {Of(s) : s \in sections}
  BY DEF Parts, SplitOverCeiling, Found
<1>2. \A p \in Parts(body, cfg) : \E s \in sections : p \in Of(s)
  BY <1>1
<1>3. \A s \in sections : \A p \in Of(s) : p \in Parts(body, cfg)
  BY <1>1
<1> HIDE DEF sections, Of
<1>4. \A s \in sections : \A p \in Of(s) : WellCut(body, p, cfg) /\ s.from <= p.from /\ p.to <= s.to
  BY PiecesCut DEF sections, Of
<1>5. \A s \in sections : \A p, q \in Of(s) : p = q \/ p.to < q.from \/ q.to < p.from
  BY PiecesCut DEF sections, Of
<1>6. \A s, t \in sections : s = t \/ s.to < t.from \/ t.to < s.from
  BY SectionsCut DEF sections
<1>7. \A s \in sections : s.from \in Nat /\ s.to \in Nat
  <2>1. \A s \in sections : s \in PieceSet(Len(body))
    BY SectionsCut DEF sections
  <2>2. QED
    BY <2>1 DEF PieceSet
<1>8. ASSUME NEW p \in Parts(body, cfg), NEW q \in Parts(body, cfg)
      PROVE  p = q \/ p.to < q.from \/ q.to < p.from
  <2>1. PICK s \in sections : p \in Of(s)
    BY <1>2
  <2>2. PICK t \in sections : q \in Of(t)
    BY <1>2
  <2>3. CASE s = t
    BY <1>5, <2>1, <2>2, <2>3
  <2>4. CASE s # t
    <3>1. s.to < t.from \/ t.to < s.from
      BY <1>6, <2>4
    <3>2. p.to <= s.to /\ s.from <= p.from /\ q.to <= t.to /\ t.from <= q.from
      BY <1>4, <2>1, <2>2
    <3>3. /\ p.from \in Nat /\ p.to \in Nat /\ q.from \in Nat /\ q.to \in Nat
          /\ s.from \in Nat /\ s.to \in Nat /\ t.from \in Nat /\ t.to \in Nat
      BY <1>4, <1>7, <2>1, <2>2 DEF WellCut, PieceSet
    <3>4. QED
      BY <3>1, <3>2, <3>3
  <2>5. QED
    BY <2>3, <2>4
<1>9. ASSUME NEW i \in 1 .. Len(body), body[i].kind # "blank"
      PROVE  \E p \in Parts(body, cfg) : i \in p.from .. p.to
  <2>1. PICK s \in sections : i \in s.from .. s.to
    BY SectionsCut DEF sections
  <2>2. PICK p \in Of(s) : i \in p.from .. p.to
    BY <1>9, <2>1, PiecesCut DEF sections, Of
  <2>3. QED
    BY <1>3, <2>2
<1>10. QED
  BY <1>2, <1>4, <1>8, <1>9

-----------------------------------------------------------------------------
(* The merge. *)

LEMMA PrefixIs ==
    ASSUME NEW a \in Seq(Titles), NEW b \in Seq(Titles)
    PROVE  /\ CommonBreadcrumbPrefix(a, b) \in Seq(Titles)
           /\ \A k \in DOMAIN CommonBreadcrumbPrefix(a, b) :
                /\ k \in DOMAIN a /\ CommonBreadcrumbPrefix(a, b)[k] = a[k]
                /\ k \in DOMAIN b /\ CommonBreadcrumbPrefix(a, b)[k] = b[k]
<1> DEFINE common == {n \in 0 .. Len(a) : n <= Len(b) /\ \A k \in 1 .. n : a[k] = b[k]}
           m == CHOOSE n \in common : \A k \in common : k <= n
<1>1. Len(a) \in Nat /\ Len(b) \in Nat /\ common \subseteq 0 .. Len(a)
  OBVIOUS
<1>2. 0 \in common
  BY <1>1
<1>3. m \in common
  <2> HIDE DEF common
  <2>1. \E n \in common : \A k \in common : k <= n
    BY <1>1, <1>2, Greatest
  <2>2. QED
    BY <2>1
<1>4. CommonBreadcrumbPrefix(a, b) = SubSeq(a, 1, m)
  BY DEF CommonBreadcrumbPrefix
<1>5. m \in 0 .. Len(a) /\ m <= Len(b) /\ \A k \in 1 .. m : a[k] = b[k]
  BY <1>3
<1> HIDE DEF m
<1>6. /\ SubSeq(a, 1, m) \in Seq(Titles) /\ DOMAIN SubSeq(a, 1, m) = 1 .. m
      /\ \A k \in 1 .. m : SubSeq(a, 1, m)[k] = a[k]
  BY <1>1, <1>5
<1>7. \A k \in 1 .. m : k \in DOMAIN a /\ k \in DOMAIN b
  BY <1>1, <1>5
<1>8. QED
  BY <1>4, <1>5, <1>6, <1>7

LEMMA UnionIs ==
    ASSUME NEW n \in Nat, NEW p \in PieceSet(n), NEW q \in PieceSet(n)
    PROVE  /\ Union(p, q) \in PieceSet(n)
           /\ Union(p, q).from = p.from /\ Union(p, q).to = q.to
           /\ Union(p, q).crumb = CommonBreadcrumbPrefix(p.crumb, q.crumb)
<1>1. p.crumb \in Seq(Titles) /\ q.crumb \in Seq(Titles) /\ p.from \in 1 .. n /\ q.to \in 1 .. n
  BY DEF PieceSet
<1>2. CommonBreadcrumbPrefix(p.crumb, q.crumb) \in Seq(Titles)
  BY <1>1, PrefixIs
<1>3. QED
  BY <1>1, <1>2 DEF Union, PieceSet

MergeOne(body, P, cfg, out, i) ==
    IF \E p \in P : p.from = i THEN TakeUp(body, out, CHOOSE p \in P : p.from = i, cfg) ELSE out

MergeScan(body, P, cfg, f) ==
    /\ f \in [0 .. Len(body) -> Seq(PieceSet(Len(body)))] /\ f[0] = <<>>
    /\ \A i \in 1 .. Len(body) : f[i] = MergeOne(body, P, cfg, f[i - 1], i)

LEMMA MergeScans ==
    ASSUME NEW body \in Seq(Lines), NEW P, P \subseteq PieceSet(Len(body)), NEW cfg
    PROVE  \E f : MergeScan(body, P, cfg, f) /\ MergePieces(body, P, cfg) = f[Len(body)]
<1> DEFINE n == Len(body)
           S == Seq(PieceSet(n))
           step == [x \in (1 .. n) \X S |-> MergeOne(body, P, cfg, x[2], x[1])]
           Unroll(g) == [i \in 0 .. n |-> IF i = 0 THEN <<>>
                            ELSE IF \E p \in P : p.from = i
                            THEN TakeUp(body, g[i - 1], CHOOSE p \in P : p.from = i, cfg)
                            ELSE g[i - 1]]
           merged == CHOOSE g : g = Unroll(g)
<1>1. n \in Nat /\ <<>> \in S
  OBVIOUS
<1>2. step \in [(1 .. n) \X S -> S]
  <2>1. ASSUME NEW i \in 1 .. n, NEW out \in S PROVE MergeOne(body, P, cfg, out, i) \in S
    <3> DEFINE q == CHOOSE p \in P : p.from = i
               m == Len(out)
    <3>1. CASE \E p \in P : p.from = i
      <4>1. q \in P /\ q \in PieceSet(n)
        BY <3>1
      <4> HIDE DEF q, S, n
      <4>2. TakeUp(body, out, q, cfg) \in S
        <5>1. CASE out # <<>> /\ Joins(body, out[Len(out)], q, cfg)
          <6>1. m \in 1 .. m /\ DOMAIN out = 1 .. m /\ out[m] \in PieceSet(n)
            BY <5>1 DEF S
          <6>2. Union(out[m], q) \in PieceSet(n)
            BY <1>1, <4>1, <6>1, UnionIs
          <6>3. TakeUp(body, out, q, cfg) = [out EXCEPT ![m] = Union(out[m], q)]
            BY <5>1 DEF TakeUp
          <6> HIDE DEF m
          <6>4. QED
            BY <6>1, <6>2, <6>3 DEF S
        <5>2. CASE ~(out # <<>> /\ Joins(body, out[Len(out)], q, cfg))
          <6>1. TakeUp(body, out, q, cfg) = Append(out, q)
            BY <5>2 DEF TakeUp
          <6>2. QED
            BY <4>1, <6>1 DEF S
        <5>3. QED
          BY <5>1, <5>2
      <4>3. MergeOne(body, P, cfg, out, i) = TakeUp(body, out, q, cfg)
        BY <3>1 DEF MergeOne, q
      <4>4. QED
        BY <4>2, <4>3
    <3>2. QED
      BY <3>1 DEF MergeOne
  <2> HIDE DEF S
  <2>2. QED
    BY <2>1
<1>3. PICK f : Steps(f, S, n, <<>>, step)
  <2> HIDE DEF step, n, S
  <2>1. QED
    BY <1>1, <1>2, Recursion
<1>4. /\ f \in [0 .. n -> S] /\ f[0] = <<>>
      /\ \A i \in 1 .. n : f[i] = MergeOne(body, P, cfg, f[i - 1], i)
  <2>1. f \in [0 .. n -> S] /\ f[0] = <<>> /\ \A i \in 1 .. n : f[i] = step[<<i, f[i - 1]>>]
    BY <1>3 DEF Steps
  <2>2. \A i \in 1 .. n : i - 1 \in 0 .. n
    OBVIOUS
  <2>3. \A i \in 1 .. n : step[<<i, f[i - 1]>>] = MergeOne(body, P, cfg, f[i - 1], i)
    <3> HIDE DEF S, n
    <3>1. QED
      BY <2>1, <2>2
  <2>4. QED
    BY <2>1, <2>3
<1>5. f = Unroll(f)
  <2>1. \A i \in 0 .. n : f[i] = IF i = 0 THEN <<>>
                                 ELSE IF \E p \in P : p.from = i
                                 THEN TakeUp(body, f[i - 1], CHOOSE p \in P : p.from = i, cfg)
                                 ELSE f[i - 1]
    BY <1>4 DEF MergeOne
  <2>2. f = [i \in 0 .. n |-> f[i]]
    BY <1>4
  <2>3. QED
    BY <2>1, <2>2
<1>6. merged = Unroll(merged)
  BY <1>5
<1> HIDE DEF merged
<1>7. /\ merged = [i \in 0 .. n |-> merged[i]] /\ merged[0] = <<>>
      /\ \A i \in 1 .. n : merged[i] = MergeOne(body, P, cfg, merged[i - 1], i)
  <2>1. \A i \in 0 .. n : merged[i] = IF i = 0 THEN <<>>
                                      ELSE IF \E p \in P : p.from = i
                                      THEN TakeUp(body, merged[i - 1], CHOOSE p \in P : p.from = i, cfg)
                                      ELSE merged[i - 1]
    BY <1>6, Zenon
  <2>2. merged = [i \in 0 .. n |-> merged[i]]
    BY <1>6
  <2> HIDE DEF Unroll
  <2>3. merged[0] = <<>>
    BY <1>1, <2>1
  <2>4. ASSUME NEW i \in 1 .. n PROVE merged[i] = MergeOne(body, P, cfg, merged[i - 1], i)
    <3>1. i \in 0 .. n /\ i # 0
      BY <1>1
    <3>2. QED
      BY <2>1, <3>1, Zenon DEF MergeOne
  <2>5. QED
    BY <2>2, <2>3, <2>4
<1>8. \A i \in 1 .. n : merged[i - 1] \in S => merged[i] = step[<<i, merged[i - 1]>>]
  BY <1>7
<1>9. Steps(merged, S, n, <<>>, step)
  <2> HIDE DEF step, n, S
  <2>1. QED
    BY <1>1, <1>2, <1>7, <1>8, Unrolled
<1>10. MergePieces(body, P, cfg) = merged[n]
  BY DEF MergePieces, merged
<1>11. MergeScan(body, P, cfg, merged)
  BY <1>7, <1>9 DEF Steps, MergeScan
<1>12. QED
  BY <1>10, <1>11

(* What the chunks are once the pieces from the lines up to i are taken up. *)
Placed(P, out, i) ==
    \A c \in DOMAIN out :
        /\ out[c].from <= out[c].to
        /\ \E p \in P : p.from = out[c].from /\ p.from <= i
        /\ \E p \in P : p.to = out[c].to /\ p.from <= i
InOrder(out) == \A c, d \in DOMAIN out : c < d => out[c].to < out[d].from
Covered(P, out, i) ==
    \A p \in P : p.from <= i => \E c \in DOMAIN out : out[c].from <= p.from /\ p.to <= out[c].to
Sized(body, P, cfg, out) ==
    \A c \in DOMAIN out : out[c] \in P \/ MeasureTokens(body, out[c]) <= cfg.ceiling
Titled(body, p) ==
    \A j \in p.from .. p.to, k \in DOMAIN p.crumb :
        body[j].kind # "blank" => StandsOver(body, j, p.crumb[k])
Refused(body, P, cfg, p, next) ==
    MeasureTokens(body, p) < cfg.floor =>
        \E q \in P : q.from = next.from /\ MeasureTokens(body, Union(p, q)) > cfg.ceiling
Forced(body, P, cfg, out) ==
    \A c \in DOMAIN out : c + 1 \in DOMAIN out => Refused(body, P, cfg, out[c], out[c + 1])

Merged(body, P, cfg, out, i) ==
    /\ Placed(P, out, i) /\ InOrder(out) /\ Covered(P, out, i) /\ Sized(body, P, cfg, out)
    /\ \A c \in DOMAIN out : Titled(body, out[c])
    /\ Forced(body, P, cfg, out)

LEMMA MergeKeeps ==
    ASSUME NEW body \in Seq(Lines), NEW cfg \in Configs, NEW i \in 1 .. Len(body),
           NEW out \in Seq(PieceSet(Len(body))), Merged(body, Parts(body, cfg), cfg, out, i - 1)
    PROVE  Merged(body, Parts(body, cfg), cfg, MergeOne(body, Parts(body, cfg), cfg, out, i), i)
<1> DEFINE n == Len(body)
           P == Parts(body, cfg)
           m == Len(out)
           new == MergeOne(body, P, cfg, out, i)
<1> SUFFICES Merged(body, P, cfg, new, i)
  OBVIOUS
<1>1. /\ \A p \in P : WellCut(body, p, cfg)
      /\ \A p, q \in P : p = q \/ p.to < q.from \/ q.to < p.from
      /\ \A j \in 1 .. n : body[j].kind # "blank" => \E p \in P : j \in p.from .. p.to
  BY PartsCut
<1>2. /\ n \in Nat /\ i \in 1 .. n /\ m \in Nat /\ DOMAIN out = 1 .. m
      /\ cfg.ceiling \in Int /\ cfg.floor \in Int
  OBVIOUS
<1>3. \A p \in P : /\ p \in PieceSet(n) /\ p.from \in 1 .. n /\ p.to \in 1 .. n /\ p.from <= p.to
                   /\ p.crumb \in Seq(Titles) /\ Named(body, p)
  BY <1>1 DEF WellCut, PieceSet
<1>4. \A c \in 1 .. m : /\ out[c] \in PieceSet(n) /\ out[c].from \in 1 .. n /\ out[c].to \in 1 .. n
                        /\ out[c].crumb \in Seq(Titles)
  <2>1. \A c \in 1 .. m : out[c] \in PieceSet(n)
    OBVIOUS
  <2>2. QED
    BY <2>1 DEF PieceSet
<1> HIDE DEF P, n, m
<1>5. /\ Placed(P, out, i - 1) /\ InOrder(out) /\ Covered(P, out, i - 1)
      /\ Sized(body, P, cfg, out) /\ Forced(body, P, cfg, out)
      /\ \A c \in DOMAIN out : Titled(body, out[c])
  BY DEF Merged, P
<1>6. CASE ~\E p \in P : p.from = i
  <2>1. new = out
    BY <1>6 DEF MergeOne
  <2>2. \A p \in P : p.from <= i <=> p.from <= i - 1
    BY <1>2, <1>3, <1>6
  <2>3. Placed(P, out, i) /\ Covered(P, out, i)
    BY <1>5, <2>2 DEF Placed, Covered
  <2> HIDE DEF new
  <2>4. QED
    BY <1>5, <2>1, <2>3 DEF Merged
<1>7. CASE \E p \in P : p.from = i
  <2> DEFINE q == CHOOSE p \in P : p.from = i
  <2>1. q \in P /\ q.from = i
    BY <1>7
  <2>2. new = TakeUp(body, out, q, cfg)
    BY <1>7 DEF MergeOne
  <2> HIDE DEF q, new
  <2>3. /\ q \in PieceSet(n) /\ q.from \in 1 .. n /\ q.to \in 1 .. n /\ q.from <= q.to
        /\ q.crumb \in Seq(Titles) /\ Named(body, q)
    BY <1>3, <2>1
  <2>4. \A p \in P : p.from <= i => p = q \/ p.from <= i - 1
    <3>1. ASSUME NEW p \in P, p.from <= i, p # q PROVE p.from <= i - 1
      <4>1. p.to < q.from \/ q.to < p.from
        BY <1>1, <2>1, <3>1
      <4>2. p.from \in 1 .. n /\ p.to \in 1 .. n /\ p.from <= p.to
        BY <1>3
      <4>3. QED
        BY <1>2, <2>1, <2>3, <3>1, <4>1, <4>2
    <3>2. QED
      BY <3>1
  <2>5. ASSUME NEW c \in 1 .. m PROVE out[c].to < q.from
    <3>1. PICK p \in P : p.to = out[c].to /\ p.from <= i - 1
      BY <1>2, <1>5 DEF Placed
    <3>2. p.to < q.from \/ q.to < p.from
      BY <1>1, <1>2, <1>3, <2>1, <3>1
    <3>3. QED
      BY <1>2, <1>3, <2>1, <2>3, <3>1, <3>2
  <2>6. \A c \in 1 .. m : /\ out[c].from <= out[c].to
                          /\ \E p \in P : p.from = out[c].from /\ p.from <= i
                          /\ \E p \in P : p.to = out[c].to /\ p.from <= i
    <3>1. \A p \in P : p.from <= i - 1 => p.from <= i
      BY <1>2, <1>3
    <3>2. QED
      BY <1>2, <1>5, <3>1 DEF Placed
  <2>7. CASE out # <<>> /\ Joins(body, out[Len(out)], q, cfg)
    <3> DEFINE u == Union(out[m], q)
    <3>1. m \in 1 .. m /\ m >= 1
      <4>1. out # <<>> => Len(out) # 0
        OBVIOUS
      <4>2. QED
        BY <1>2, <2>7, <4>1 DEF m
    <3>2. /\ u \in PieceSet(n) /\ u.from = out[m].from /\ u.to = q.to
          /\ u.crumb = CommonBreadcrumbPrefix(out[m].crumb, q.crumb)
      BY <1>2, <1>4, <2>3, <3>1, UnionIs
    <3>3. new = [out EXCEPT ![m] = u]
      BY <2>2, <2>7 DEF TakeUp, m
    <3>4. MeasureTokens(body, u) <= cfg.ceiling
      BY <2>7 DEF Joins, m
    <3>5. ASSUME NEW j \in u.from .. u.to, NEW k \in DOMAIN u.crumb, body[j].kind # "blank"
          PROVE  StandsOver(body, j, u.crumb[k])
      <4>1. /\ k \in DOMAIN out[m].crumb /\ u.crumb[k] = out[m].crumb[k]
            /\ k \in DOMAIN q.crumb /\ u.crumb[k] = q.crumb[k]
        <5>1. out[m].crumb \in Seq(Titles) /\ q.crumb \in Seq(Titles)
          BY <1>4, <2>3, <3>1
        <5>2. k \in DOMAIN CommonBreadcrumbPrefix(out[m].crumb, q.crumb)
          BY <3>2, <3>5
        <5> HIDE DEF u
        <5>3. QED
          BY <3>2, <5>1, <5>2, PrefixIs
      <4>2. /\ out[m].from \in 1 .. n /\ out[m].to \in 1 .. n
            /\ j \in Nat /\ out[m].from <= j /\ j <= q.to /\ j \in 1 .. n
        BY <1>2, <1>4, <2>3, <3>1, <3>2, <3>5
      <4>3. PICK p \in P : j \in p.from .. p.to
        BY <1>1, <3>5, <4>2
      <4>4. p.from \in 1 .. n /\ p.to \in 1 .. n /\ p.from <= j /\ j <= p.to
        BY <1>3, <4>2, <4>3
      <4>5. p.from <= i
        <5>1. p = q \/ p.to < q.from \/ q.to < p.from
          BY <1>1, <2>1
        <5>2. QED
          BY <1>2, <2>1, <2>3, <4>2, <4>4, <5>1
      <4>6. CASE p = q
        BY <2>3, <4>1, <4>3, <4>6 DEF Named
      <4>7. CASE p # q
        <5>1. PICK c \in DOMAIN out : out[c].from <= p.from /\ p.to <= out[c].to
          BY <1>5, <2>4, <4>5, <4>7 DEF Covered
        <5>2. out[c].from \in 1 .. n /\ out[c].to \in 1 .. n /\ c \in 1 .. m
          BY <1>2, <1>4, <5>1
        <5>3. c < m => out[c].to < out[m].from
          BY <1>2, <1>5, <3>1, <5>1 DEF InOrder
        <5>4. c = m
          BY <1>2, <4>2, <4>4, <5>1, <5>2, <5>3
        <5>5. j \in out[m].from .. out[m].to
          BY <4>2, <4>4, <5>1, <5>2, <5>4
        <5>6. Titled(body, out[m])
          BY <1>2, <1>5, <3>1
        <5>7. QED
          BY <3>5, <4>1, <5>5, <5>6 DEF Titled
      <4>8. QED
        BY <4>6, <4>7
    <3> HIDE DEF u
    <3>6. /\ DOMAIN new = 1 .. m /\ new[m] = u
          /\ \A c \in 1 .. m : c # m => new[c] = out[c]
      BY <1>2, <3>1, <3>3
    <3>7. Placed(P, new, i)
      <4>1. u.from <= u.to
        <5>1. out[m].from <= out[m].to /\ out[m].to < q.from
          BY <2>5, <2>6, <3>1
        <5>2. out[m].from \in 1 .. n /\ out[m].to \in 1 .. n
          BY <1>4, <3>1
        <5>3. QED
          BY <2>3, <3>2, <5>1, <5>2
      <4>2. \E p \in P : p.to = u.to /\ p.from <= i
        BY <1>2, <2>1, <3>2
      <4>3. \E p \in P : p.from = u.from /\ p.from <= i
        BY <2>6, <3>1, <3>2
      <4>4. QED
        BY <2>6, <3>6, <4>1, <4>2, <4>3 DEF Placed
    <3>8. InOrder(new)
      <4>1. ASSUME NEW c \in 1 .. m, NEW d \in 1 .. m, c < d PROVE new[c].to < new[d].from
        <5>1. out[c].to < out[d].from /\ c # m
          <6>1. c # m
            BY <1>2, <4>1
          <6>2. QED
            BY <1>2, <1>5, <4>1, <6>1 DEF InOrder
        <5>2. QED
          BY <3>2, <3>6, <5>1
      <4>2. QED
        BY <3>6, <4>1 DEF InOrder
    <3>9. Covered(P, new, i)
      <4>1. ASSUME NEW p \in P, p.from <= i
            PROVE  \E c \in 1 .. m : new[c].from <= p.from /\ p.to <= new[c].to
        <5>1. CASE p = q
          <6>1. out[m].from <= out[m].to /\ out[m].to < q.from
            BY <2>5, <2>6, <3>1
          <6>2. u.from <= q.from /\ q.to <= u.to
            BY <1>4, <2>3, <3>1, <3>2, <6>1
          <6>3. QED
            BY <3>1, <3>6, <5>1, <6>2
        <5>2. CASE p # q
          <6>1. PICK c \in DOMAIN out : out[c].from <= p.from /\ p.to <= out[c].to
            BY <1>5, <2>4, <4>1, <5>2 DEF Covered
          <6>2. CASE c = m
            <7>1. out[m].to < q.from
              BY <2>5, <3>1
            <7>2. p.to <= u.to
              BY <1>3, <1>4, <2>3, <3>1, <3>2, <6>1, <6>2, <7>1
            <7>3. QED
              BY <3>1, <3>2, <3>6, <6>1, <6>2, <7>2
          <6>3. CASE c # m
            BY <1>2, <3>6, <6>1, <6>3
          <6>4. QED
            BY <6>2, <6>3
        <5>3. QED
          BY <5>1, <5>2
      <4>2. QED
        BY <3>6, <4>1 DEF Covered
    <3>10. Sized(body, P, cfg, new)
      BY <1>2, <1>5, <3>4, <3>6 DEF Sized
    <3>11. \A c \in DOMAIN new : Titled(body, new[c])
      <4>1. Titled(body, u)
        BY <3>5 DEF Titled
      <4>2. QED
        BY <1>2, <1>5, <3>6, <4>1
    <3>12. Forced(body, P, cfg, new)
      <4>1. ASSUME NEW c \in 1 .. m, c + 1 \in 1 .. m
            PROVE  Refused(body, P, cfg, new[c], new[c + 1])
        <5>1. Refused(body, P, cfg, out[c], out[c + 1])
          BY <1>2, <1>5, <4>1 DEF Forced
        <5>2. new[c] = out[c] /\ new[c + 1].from = out[c + 1].from
          <6>1. c # m
            BY <1>2, <4>1
          <6>2. QED
            BY <3>2, <3>6, <4>1, <6>1
        <5>3. QED
          BY <5>1, <5>2 DEF Refused
      <4>2. QED
        BY <3>6, <4>1 DEF Forced
    <3>13. QED
      BY <3>7, <3>8, <3>9, <3>10, <3>11, <3>12 DEF Merged
  <2>8. CASE ~(out # <<>> /\ Joins(body, out[Len(out)], q, cfg))
    <3>1. new = Append(out, q)
      BY <2>2, <2>8 DEF TakeUp
    <3>2. /\ DOMAIN new = 1 .. m + 1 /\ new[m + 1] = q
          /\ \A c \in 1 .. m : new[c] = out[c]
      BY <1>2, <3>1 DEF m
    <3>3. \A c \in 1 .. m + 1 : c = m + 1 \/ c \in 1 .. m
      BY <1>2
    <3>4. m + 1 \in 1 .. m + 1 /\ \A c \in 1 .. m : c \in 1 .. m + 1
      BY <1>2
    <3>5. Placed(P, new, i)
      <4>1. \E p \in P : p.to = q.to /\ p.from <= i
        BY <1>2, <2>1
      <4>2. \E p \in P : p.from = q.from /\ p.from <= i
        BY <1>2, <2>1
      <4>3. QED
        BY <2>3, <2>6, <3>2, <3>3, <4>1, <4>2 DEF Placed
    <3>6. InOrder(new)
      <4>1. ASSUME NEW c \in 1 .. m + 1, NEW d \in 1 .. m + 1, c < d
            PROVE  new[c].to < new[d].from
        <5>1. c \in 1 .. m
          BY <1>2, <4>1
        <5>2. CASE d = m + 1
          BY <2>5, <3>2, <5>1, <5>2
        <5>3. CASE d # m + 1
          <6>1. d \in 1 .. m
            BY <3>3, <5>3
          <6>2. out[c].to < out[d].from
            BY <1>2, <1>5, <4>1, <5>1, <6>1 DEF InOrder
          <6>3. QED
            BY <3>2, <5>1, <6>1, <6>2
        <5>4. QED
          BY <5>2, <5>3
      <4>2. QED
        BY <3>2, <4>1 DEF InOrder
    <3>7. Covered(P, new, i)
      <4>1. ASSUME NEW p \in P, p.from <= i
            PROVE  \E c \in 1 .. m + 1 : new[c].from <= p.from /\ p.to <= new[c].to
        <5>1. CASE p = q
          <6>1. q.from <= q.from /\ q.to <= q.to
            BY <2>3
          <6>2. QED
            BY <3>2, <3>4, <5>1, <6>1
        <5>2. CASE p # q
          <6>1. PICK c \in DOMAIN out : out[c].from <= p.from /\ p.to <= out[c].to
            BY <1>5, <2>4, <4>1, <5>2 DEF Covered
          <6>2. c \in 1 .. m /\ c \in 1 .. m + 1 /\ new[c] = out[c]
            BY <1>2, <3>2, <3>4, <6>1
          <6>3. QED
            BY <6>1, <6>2
        <5>3. QED
          BY <5>1, <5>2
      <4>2. QED
        BY <3>2, <4>1 DEF Covered
    <3>8. Sized(body, P, cfg, new)
      BY <1>2, <1>5, <2>1, <3>2, <3>3 DEF Sized
    <3>9. \A c \in DOMAIN new : Titled(body, new[c])
      <4>1. Titled(body, q)
        BY <2>3 DEF Titled, Named
      <4>2. QED
        BY <1>2, <1>5, <3>2, <3>3, <4>1
    <3>10. Forced(body, P, cfg, new)
      <4>1. ASSUME NEW c \in 1 .. m + 1, c + 1 \in 1 .. m + 1
            PROVE  Refused(body, P, cfg, new[c], new[c + 1])
        <5>1. c \in 1 .. m /\ new[c] = out[c]
          BY <1>2, <3>2, <4>1
        <5>2. CASE c = m
          <6>1. out # <<>> /\ Len(out) = m
            BY <1>2, <5>1 DEF m
          <6>2. MeasureTokens(body, out[m]) < cfg.floor =>
                    ~(MeasureTokens(body, Union(out[m], q)) <= cfg.ceiling)
            BY <2>8, <6>1 DEF Joins
          <6>3. MeasureTokens(body, Union(out[m], q)) \in Int
            <7>1. Union(out[m], q) \in PieceSet(n)
              BY <1>2, <1>4, <2>3, <5>1, <5>2, UnionIs
            <7>2. QED
              BY <7>1, TokensOf DEF n
          <6>4. Refused(body, P, cfg, out[m], q)
            BY <1>2, <2>1, <6>2, <6>3 DEF Refused
          <6>5. QED
            BY <3>2, <5>1, <5>2, <6>4
        <5>3. CASE c # m
          <6>1. c + 1 \in 1 .. m
            BY <1>2, <4>1, <5>1, <5>3
          <6>2. Refused(body, P, cfg, out[c], out[c + 1])
            BY <1>2, <1>5, <5>1, <6>1 DEF Forced
          <6>3. QED
            BY <3>2, <5>1, <6>1, <6>2
        <5>4. QED
          BY <5>2, <5>3
      <4>2. QED
        BY <3>2, <4>1 DEF Forced
    <3>11. QED
      BY <3>5, <3>6, <3>7, <3>8, <3>9, <3>10 DEF Merged
  <2>9. QED
    BY <2>7, <2>8
<1>8. QED
  BY <1>6, <1>7

(* The chunks of a whole note, and where no unit of it may be cut. *)
LEMMA ChunksOf ==
    ASSUME NEW body \in Seq(Lines), NEW cfg \in Configs
    PROVE  LET out == MergePieces(body, Parts(body, cfg), cfg)
           IN  out \in Seq(PieceSet(Len(body))) /\ Merged(body, Parts(body, cfg), cfg, out, Len(body))
<1> DEFINE n == Len(body)
           P == Parts(body, cfg)
<1>1. P \subseteq PieceSet(n) /\ \A p \in P : p.from \in Nat /\ p.from >= 1
  <2>1. \A p \in P : p \in PieceSet(n)
    BY PartsCut DEF WellCut
  <2>2. QED
    BY <2>1 DEF PieceSet
<1> HIDE DEF P
<1>2. PICK f : MergeScan(body, P, cfg, f) /\ MergePieces(body, P, cfg) = f[n]
  BY <1>1, MergeScans
<1> DEFINE T == {i \in 0 .. n : Merged(body, P, cfg, f[i], i)}
<1>3. 0 \in T
  <2>1. f[0] = <<>> /\ 0 \in 0 .. n
    BY <1>2 DEF MergeScan
  <2>2. \A p \in P : ~(p.from <= 0)
    BY <1>1
  <2>3. Merged(body, P, cfg, <<>>, 0)
    BY <2>2 DEF Merged, Placed, InOrder, Covered, Sized, Forced
  <2>4. QED
    BY <2>1, <2>3
<1>4. ASSUME NEW i \in 0 .. n, i \in T, i < n PROVE i + 1 \in T
  <2>1. i + 1 \in 1 .. n /\ (i + 1) - 1 = i /\ i + 1 \in 0 .. n
    BY <1>4
  <2>2. f[i] \in Seq(PieceSet(n)) /\ f[i + 1] = MergeOne(body, P, cfg, f[i], i + 1)
    BY <1>2, <2>1 DEF MergeScan
  <2>3. Merged(body, P, cfg, f[i], (i + 1) - 1)
    BY <1>4, <2>1
  <2>4. Merged(body, P, cfg, f[i + 1], i + 1)
    BY <2>1, <2>2, <2>3, MergeKeeps DEF P
  <2>5. QED
    BY <2>1, <2>4
<1>5. n \in T
  <2> HIDE DEF T
  <2>1. n \in Nat
    OBVIOUS
  <2>2. 0 .. n \subseteq T
    BY <1>3, <1>4, <2>1, UpTo
  <2>3. QED
    BY <2>1, <2>2
<1>6. f[n] \in Seq(PieceSet(n))
  <2>1. n \in 0 .. n
    OBVIOUS
  <2>2. QED
    BY <1>2, <2>1 DEF MergeScan
<1>7. QED
  BY <1>2, <1>5, <1>6 DEF P

-----------------------------------------------------------------------------
(* The chunker, note after note. *)

Asked ==
    /\ sizes \in Configs /\ noteBody \in Bodies \union {<<>>}
    /\ outcome # Unchunked => outcome = ChunkNote(noteBody, sizes) /\ noteBody \in Bodies

LEMMA AskedIsKept == ChunkerSpec => []Asked
<1>1. ChunkerInit => Asked
  BY DEF ChunkerInit, Asked
<1>2. Asked /\ [ChunkerNext]_chunkerVars => Asked'
  BY DEF Asked, ChunkerNext, Chunk, NextNote, chunkerVars
<1>3. QED
  BY <1>1, <1>2, PTL DEF ChunkerSpec

(* The chunks of a note that was chunked are what the merge made of its pieces. *)
LEMMA OutcomeIs ==
    ASSUME Asked, outcome.error = "none"
    PROVE  /\ noteBody \in Seq(Lines) /\ sizes \in Configs
           /\ Pieces = MergePieces(noteBody, Parts(noteBody, sizes), sizes)
           /\ \A c \in DOMAIN Pieces :
                /\ ~(MeasureTokens(noteBody, Pieces[c]) > HardTokenLimit)
                /\ outcome.chunks[c].oversize <=> MeasureTokens(noteBody, Pieces[c]) > sizes.ceiling
<1> DEFINE out == MergePieces(noteBody, Parts(noteBody, sizes), sizes)
           tokens(i) == MeasureTokens(noteBody, out[i])
<1>1. outcome = ChunkNote(noteBody, sizes) /\ noteBody \in Bodies /\ sizes \in Configs
  BY DEF Asked, Unchunked, Failed
<1>2. noteBody \in Seq(Lines)
  BY <1>1
<1>3. /\ ~\E i \in DOMAIN out : tokens(i) > HardTokenLimit
      /\ outcome.chunks = [i \in DOMAIN out |-> [piece |-> out[i], oversize |-> tokens(i) > sizes.ceiling]]
  <2> HIDE DEF out
  <2>1. ChunkNote(noteBody, sizes) =
          IF ~Validate(sizes) THEN Failed("config")
          ELSE IF \E i \in DOMAIN out : tokens(i) > HardTokenLimit THEN Failed("hardLimit")
          ELSE [error  |-> "none",
                chunks |-> [i \in DOMAIN out |->
                               [piece |-> out[i], oversize |-> tokens(i) > sizes.ceiling]]]
    BY DEF ChunkNote, out
  <2> HIDE DEF tokens
  <2>2. QED
    BY <1>1, <2>1 DEF Failed
<1>4. out \in Seq(PieceSet(Len(noteBody)))
  BY <1>1, <1>2, ChunksOf
<1> HIDE DEF out
<1>5. DOMAIN outcome.chunks = DOMAIN out /\ \A c \in DOMAIN out : outcome.chunks[c].piece = out[c]
  BY <1>3
<1>6. Pieces = out
  BY <1>4, <1>5 DEF Pieces
<1>7. ASSUME NEW c \in DOMAIN out
      PROVE  outcome.chunks[c].oversize <=> tokens(c) > sizes.ceiling
  <2>1. outcome.chunks[c] = [piece |-> out[c], oversize |-> tokens(c) > sizes.ceiling]
    BY <1>3
  <2> HIDE DEF tokens
  <2>2. outcome.chunks[c].oversize = (tokens(c) > sizes.ceiling)
    BY <2>1
  <2>3. QED
    BY <2>2, Zenon
<1>8. \A c \in DOMAIN out : ~(tokens(c) > HardTokenLimit)
  BY <1>3
<1>9. QED
  BY <1>1, <1>2, <1>6, <1>7, <1>8, Zenon DEF out

LEMMA WholeAndUntorn == Asked => NothingLostOrTorn
<1> SUFFICES ASSUME Asked, outcome.error = "none"
             PROVE  /\ AreFences(noteBody, ScanFences(noteBody))
                    /\ \A c, d \in DOMAIN Pieces : c < d => Pieces[c].to < Pieces[d].from
                    /\ \A i \in DOMAIN noteBody :
                          noteBody[i].kind # "blank" => Cardinality(Chunked(i)) = 1
                    /\ \A u \in Units(noteBody), i \in DOMAIN noteBody :
                          i \in u.from .. u.to => Chunked(i) = Chunked(u.from)
  BY DEF NothingLostOrTorn
<1> DEFINE body == noteBody
           n == Len(body)
           P == Parts(body, sizes)
           out == MergePieces(body, P, sizes)
<1>1. body \in Seq(Lines) /\ sizes \in Configs /\ Pieces = out
  BY OutcomeIs
<1>2. out \in Seq(PieceSet(n)) /\ Merged(body, P, sizes, out, n)
  BY <1>1, ChunksOf
<1>3. /\ \A p \in P : WellCut(body, p, sizes)
      /\ \A i \in 1 .. n : body[i].kind # "blank" => \E p \in P : i \in p.from .. p.to
  BY <1>1, PartsCut
<1>4. /\ n \in Nat /\ DOMAIN body = 1 .. n /\ DOMAIN out \subseteq Nat
      /\ \A c \in DOMAIN out : out[c].from \in 1 .. n /\ out[c].to \in 1 .. n
  <2>1. \A c \in DOMAIN out : out[c] \in PieceSet(n)
    BY <1>2
  <2> HIDE DEF out
  <2>2. QED
    BY <1>1, <1>2, <2>1 DEF PieceSet
<1>5. AreFences(body, ScanFences(body)) /\ Units(body) \subseteq Spans(n)
  BY <1>1, FencesAreFences, UnitsAreSpans
<1> HIDE DEF out, P, body, n
<1>6. Placed(P, out, n) /\ InOrder(out) /\ Covered(P, out, n)
  BY <1>2 DEF Merged
<1>7. \A p \in P : p.from \in 1 .. n /\ p.to \in 1 .. n
  BY <1>3 DEF WellCut, PieceSet, n
<1>8. ASSUME NEW i \in 1 .. n, body[i].kind # "blank" PROVE Cardinality(Chunked(i)) = 1
  <2>1. PICK p \in P : i \in p.from .. p.to
    BY <1>3, <1>8
  <2>2. PICK c \in DOMAIN out : out[c].from <= p.from /\ p.to <= out[c].to
    BY <1>4, <1>6, <1>7 DEF Covered
  <2>3. i \in out[c].from .. out[c].to
    BY <1>4, <1>7, <2>1, <2>2
  <2>4. ASSUME NEW d \in DOMAIN out, i \in out[d].from .. out[d].to PROVE d = c
    <3>1. c < d => out[c].to < out[d].from
      BY <1>6 DEF InOrder
    <3>2. d < c => out[d].to < out[c].from
      BY <1>6 DEF InOrder
    <3>3. c \in Nat /\ d \in Nat
      BY <1>4
    <3>4. QED
      BY <1>4, <2>3, <2>4, <3>1, <3>2, <3>3
  <2>5. Chunked(i) = {c}
    BY <1>1, <2>3, <2>4 DEF Chunked
  <2>6. QED
    BY <2>5, FS_Singleton
<1>9. \A g \in CutsOf(body) : ~InUnits(Units(body), g)
  BY DEF CutsOf, Headings
<1>10. ASSUME NEW c \in DOMAIN out
       PROVE  /\ out[c].from = 1 \/ out[c].from \in CutsOf(body)
              /\ out[c].to = n \/ out[c].to + 1 \in CutsOf(body)
  <2>1. PICK p \in P : p.from = out[c].from
    BY <1>6 DEF Placed
  <2>2. PICK q \in P : q.to = out[c].to
    BY <1>6 DEF Placed
  <2>3. WellCut(body, p, sizes) /\ WellCut(body, q, sizes)
    BY <1>3
  <2>4. QED
    BY <2>1, <2>2, <2>3 DEF WellCut, n
<1>11. ASSUME NEW u \in Units(body), NEW i \in 1 .. n, i \in u.from .. u.to
       PROVE  Chunked(i) = Chunked(u.from)
  <2>1. u.from \in 1 .. n /\ u.to \in 1 .. n
    BY <1>5 DEF Spans
  <2>2. ASSUME NEW g \in u.from .. u.to PROVE g \notin CutsOf(body)
    BY <1>9, <2>2 DEF InUnits
  <2>3. ASSUME NEW c \in DOMAIN out, i \in out[c].from .. out[c].to
        PROVE  u.from \in out[c].from .. out[c].to
    <3>1. ASSUME u.from < out[c].from PROVE FALSE
      <4>1. out[c].from \in u.from .. u.to /\ out[c].from # 1
        BY <1>4, <1>11, <2>1, <2>3, <3>1
      <4>2. QED
        BY <1>10, <2>2, <4>1
    <3>2. QED
      BY <1>4, <1>11, <2>1, <2>3, <3>1
  <2>4. ASSUME NEW c \in DOMAIN out, u.from \in out[c].from .. out[c].to
        PROVE  i \in out[c].from .. out[c].to
    <3>1. ASSUME out[c].to < i PROVE FALSE
      <4>1. out[c].to + 1 \in u.from .. u.to /\ out[c].to # n
        BY <1>4, <1>11, <2>1, <2>4, <3>1
      <4>2. QED
        BY <1>10, <2>2, <4>1
    <3>2. QED
      BY <1>4, <1>11, <2>1, <2>4, <3>1
  <2>5. QED
    BY <1>1, <2>3, <2>4 DEF Chunked
<1>12. QED
  BY <1>1, <1>4, <1>5, <1>6, <1>8, <1>11 DEF InOrder, body, n

LEMMA OnlyForcedCuts == Asked => CutsAreForced
<1> SUFFICES ASSUME Asked, outcome.error = "none", NEW c \in DOMAIN Pieces
             PROVE  LET p == Pieces[c]
                        k == MeasureTokens(noteBody, p)
                    IN  /\ k <= HardTokenLimit
                        /\ outcome.chunks[c].oversize <=> k > sizes.ceiling
                        /\ k > sizes.ceiling
                             => Headings(noteBody, {2, 3}) \intersect (p.from + 1 .. p.to) = {}
                        /\ c < Len(Pieces) /\ k < sizes.floor
                             => \E q \in Parts(noteBody, sizes) :
                                    /\ q.from = Pieces[c + 1].from
                                    /\ MeasureTokens(noteBody, Union(p, q)) > sizes.ceiling
  BY DEF CutsAreForced
<1> DEFINE n == Len(noteBody)
           P == Parts(noteBody, sizes)
           out == MergePieces(noteBody, P, sizes)
           k == MeasureTokens(noteBody, out[c])
<1>1. noteBody \in Seq(Lines) /\ sizes \in Configs /\ Pieces = out
  BY OutcomeIs
<1>2. ~(k > HardTokenLimit) /\ (outcome.chunks[c].oversize <=> k > sizes.ceiling)
  BY <1>1, OutcomeIs
<1>3. out \in Seq(PieceSet(n)) /\ Merged(noteBody, P, sizes, out, n)
  BY <1>1, ChunksOf
<1>4. \A p \in P : WellCut(noteBody, p, sizes)
  BY <1>1, PartsCut
<1> HIDE DEF out, P
<1>5. c \in DOMAIN out /\ out[c] \in PieceSet(n)
  BY <1>1, <1>3
<1>6. k \in Int /\ sizes.ceiling \in Int /\ sizes.floor \in Int
  BY <1>1, <1>5, TokensOf
<1> HIDE DEF k
<1>7. ASSUME k > sizes.ceiling
      PROVE  CutsOf(noteBody) \intersect (out[c].from + 1 .. out[c].to) = {}
  <2>1. out[c] \in P
    BY <1>3, <1>5, <1>6, <1>7 DEF Merged, Sized, k
  <2>2. \A g \in CutsOf(noteBody) : g \notin out[c].from + 1 .. out[c].to
    BY <1>4, <1>7, <2>1 DEF WellCut, k
  <2>3. QED
    BY <2>2
<1>8. ASSUME c < Len(out), k < sizes.floor
      PROVE  \E q \in P : /\ q.from = out[c + 1].from
                          /\ MeasureTokens(noteBody, Union(out[c], q)) > sizes.ceiling
  <2>1. c + 1 \in DOMAIN out
    BY <1>3, <1>5, <1>8
  <2>2. Refused(noteBody, P, sizes, out[c], out[c + 1])
    BY <1>3, <1>5, <2>1 DEF Merged, Forced
  <2>3. QED
    BY <1>8, <2>2 DEF Refused, k
<1>9. k <= HardTokenLimit
  BY <1>2, <1>6
<1>10. QED
  BY <1>1, <1>2, <1>7, <1>8, <1>9, Zenon DEF k, CutsOf, P

LEMMA TrueBreadcrumbs == Asked => BreadcrumbsAreTrue
<1> SUFFICES ASSUME Asked, outcome.error = "none", NEW c \in DOMAIN Pieces
             PROVE  Titled(noteBody, Pieces[c])
  BY DEF BreadcrumbsAreTrue, Titled
<1>1. noteBody \in Seq(Lines) /\ sizes \in Configs
      /\ Pieces = MergePieces(noteBody, Parts(noteBody, sizes), sizes)
  BY OutcomeIs
<1>2. QED
  BY <1>1, ChunksOf DEF Merged

(* Of every note under every configuration, no line is lost and no unit torn. *)
THEOREM NotesAreChunkedWhole == ChunkerSpec => []NothingLostOrTorn
  BY AskedIsKept, WholeAndUntorn, PTL

(* A cut is made where a heading allows it, and none is missed that would have helped. *)
THEOREM CutsHaveCause == ChunkerSpec => []CutsAreForced
  BY AskedIsKept, OnlyForcedCuts, PTL

(* No chunk claims a heading that some of its lines are not under, an H1 that comes
   within a section apart. *)
THEOREM BreadcrumbsHold == ChunkerSpec => []BreadcrumbsAreTrue
  BY AskedIsKept, TrueBreadcrumbs, PTL

-----------------------------------------------------------------------------
(* The settings of the vaults, for every roster, environment and file. *)

ConfigInv == loaded # NotLoaded =>
    /\ installation \in Installations
    /\ loaded = Load(installation.roster, installation.env, installation.file)

LEMMA ConfigurationIsLoaded == ConfigSpec => []ConfigInv
<1>1. ConfigInit => ConfigInv
  BY DEF ConfigInit, ConfigInv
<1>2. ConfigInv /\ [ConfigNext]_configVars => ConfigInv'
  BY DEF ConfigInv, ConfigNext, configVars, LoadConfig, NextProcess
<1>3. QED
  BY <1>1, <1>2, PTL DEF ConfigSpec

Slugs == {name \in Names : ValidateSlug(name)}

(* The last word of a variable tells the setting, and the rest the vault. *)
LEMMA VariablesAreApart ==
    ASSUME NEW n \in Slugs, NEW m \in Slugs, NEW f \in VaultFields, NEW g \in VaultFields,
           VaultEnv(n, f) = VaultEnv(m, g)
    PROVE  n = m /\ f = g
<1> DEFINE W == n.words
           V == m.words
           s == f.suffix
           t == g.suffix
           Words == STRING \union {"path", "areas", "exclude", "folders", "root", "files"}
<1>1. n \in [words : Seq(STRING), glue : {"-", "_"}, upper : BOOLEAN]
      /\ m \in [words : Seq(STRING), glue : {"-", "_"}, upper : BOOLEAN]
  BY ConfigurationAssumption DEF ConfigurationAssumption, Slugs
<1>2. W \in Seq(Words) /\ V \in Seq(Words) /\ Len(W) \in Nat /\ Len(V) \in Nat
  <2>1. W \in Seq(STRING) /\ V \in Seq(STRING)
    BY <1>1
  <2> HIDE DEF W, V
  <2>2. QED
    BY <2>1
<1>3. /\ s \in Seq(Words) /\ t \in Seq(Words) /\ Len(s) \in Nat \ {0} /\ Len(t) \in Nat \ {0}
      /\ s[Len(s)] = t[Len(t)] => s = t
  <2>1. ASSUME NEW h \in VaultFields
        PROVE  \/ h.suffix = <<"path">> \/ h.suffix = <<"areas">>
               \/ h.suffix = <<"exclude", "folders">> \/ h.suffix = <<"exclude", "root", "files">>
    BY DEF VaultFields
  <2>2. ASSUME NEW x, \/ x = <<"path">> \/ x = <<"areas">>
                     \/ x = <<"exclude", "folders">> \/ x = <<"exclude", "root", "files">>
        PROVE  /\ x \in Seq(Words) /\ Len(x) \in Nat \ {0}
               /\ x[Len(x)] = "path" => x = <<"path">>
               /\ x[Len(x)] = "areas" => x = <<"areas">>
               /\ x[Len(x)] = "folders" => x = <<"exclude", "folders">>
               /\ x[Len(x)] = "files" => x = <<"exclude", "root", "files">>
               /\ x[Len(x)] \in {"path", "areas", "folders", "files"}
    <3>1. CASE x = <<"path">>
      BY <3>1
    <3>2. CASE x = <<"areas">>
      BY <3>2
    <3>3. CASE x = <<"exclude", "folders">>
      BY <3>3
    <3>4. CASE x = <<"exclude", "root", "files">>
      BY <3>4
    <3>5. QED
      BY <2>2, <3>1, <3>2, <3>3, <3>4
  <2>3. QED
    <3>1. /\ \/ s = <<"path">> \/ s = <<"areas">>
             \/ s = <<"exclude", "folders">> \/ s = <<"exclude", "root", "files">>
          /\ \/ t = <<"path">> \/ t = <<"areas">>
             \/ t = <<"exclude", "folders">> \/ t = <<"exclude", "root", "files">>
      BY <2>1
    <3> HIDE DEF s, t, Words
    <3>2. QED
      BY <2>2, <3>1
<1>4. W \o s = V \o t
  BY DEF VaultEnv
<1>5. s[Len(s)] = t[Len(t)]
  <2> HIDE DEF W, V, s, t, Words
  <2>1. /\ Len(W \o s) = Len(W) + Len(s) /\ Len(V \o t) = Len(V) + Len(t)
        /\ (W \o s)[Len(W) + Len(s)] = s[Len(s)] /\ (V \o t)[Len(V) + Len(t)] = t[Len(t)]
    BY <1>2, <1>3
  <2>2. QED
    BY <2>1, <1>4
<1>6. s = t /\ f = g
  <2>1. s = t
    BY <1>3, <1>5
  <2>2. ASSUME NEW h \in VaultFields
        PROVE  /\ h.suffix = <<"path">> => h = [suffix |-> <<"path">>, required |-> TRUE]
               /\ h.suffix = <<"areas">> => h = [suffix |-> <<"areas">>, required |-> TRUE]
               /\ h.suffix = <<"exclude", "folders">>
                    => h = [suffix |-> <<"exclude", "folders">>, required |-> FALSE]
               /\ h.suffix = <<"exclude", "root", "files">>
                    => h = [suffix |-> <<"exclude", "root", "files">>, required |-> FALSE]
               /\ \/ h.suffix = <<"path">> \/ h.suffix = <<"areas">>
                  \/ h.suffix = <<"exclude", "folders">> \/ h.suffix = <<"exclude", "root", "files">>
    BY DEF VaultFields
  <2>3. f.suffix = g.suffix
    BY <2>1
  <2>4. f = g
    <3>1. CASE f.suffix = <<"path">>
      BY <2>2, <2>3, <3>1, Zenon
    <3>2. CASE f.suffix = <<"areas">>
      BY <2>2, <2>3, <3>2, Zenon
    <3>3. CASE f.suffix = <<"exclude", "folders">>
      BY <2>2, <2>3, <3>3, Zenon
    <3>4. CASE f.suffix = <<"exclude", "root", "files">>
      BY <2>2, <2>3, <3>4, Zenon
    <3>5. QED
      BY <2>2, <3>1, <3>2, <3>3, <3>4, Zenon
  <2>5. QED
    BY <2>1, <2>4
<1>7. W = V
  <2>1. s = t
    BY <1>6
  <2> HIDE DEF W, V, s, t, Words
  <2>2. Len(W) = Len(V)
    <3>1. Len(W \o s) = Len(W) + Len(s) /\ Len(V \o t) = Len(V) + Len(t)
      BY <1>2, <1>3
    <3>2. QED
      BY <3>1, <2>1, <1>4, <1>2, <1>3
  <2>3. ASSUME NEW k \in 1 .. Len(W) PROVE W[k] = V[k]
    <3>1. (W \o s)[k] = W[k] /\ (V \o t)[k] = V[k]
      BY <2>2, <1>2, <1>3
    <3>2. QED
      BY <3>1, <1>4
  <2>4. QED
    BY <1>2, <2>2, <2>3
<1>8. n.upper = m.upper /\ n.glue = m.glue
  <2>1. /\ n.upper = FALSE /\ m.upper = FALSE
    BY <1>1, Zenon DEF Slugs, ValidateSlug
  <2>2. ASSUME NEW name \in Slugs PROVE name.glue = "-"
    <3>1. Len(name.words) <= 1 => name.glue = "-"
      BY ConfigurationAssumption DEF ConfigurationAssumption, Slugs
    <3>2. Len(name.words) > 1 => name.glue = "-"
      BY DEF Slugs, ValidateSlug
    <3>3. name.words \in Seq(STRING)
      BY ConfigurationAssumption DEF ConfigurationAssumption, Slugs
    <3>4. QED
      BY <3>1, <3>2, <3>3
  <2>3. QED
    BY <2>1, <2>2
<1>9. n = [words |-> n.words, glue |-> n.glue, upper |-> n.upper]
      /\ m = [words |-> m.words, glue |-> m.glue, upper |-> m.upper]
  BY <1>1, Zenon
<1>10. QED
  BY <1>6, <1>7, <1>8, <1>9

(* No setting of a vault is passed over and no two vaults share a variable:
   loadVaults and orphanedVaultSettings, for every roster, environment and file. *)
THEOREM SettingsAreHeeded == ConfigSpec => []EachSettingHasOneVault
<1>1. ConfigInv => EachSettingHasOneVault
  <2> DEFINE roster == installation.roster
             env == installation.env
             file == installation.file
             in == Roster(roster, file)
  <2>1. SUFFICES ASSUME ConfigInv, loaded.error = "none", in # {}
                 PROVE  EachSettingHasOneVault
    BY DEF EachSettingHasOneVault
  <2>2. /\ installation \in Installations
        /\ loaded = Load(roster, env, file)
    <3>1. loaded # NotLoaded
      BY <2>1 DEF NotLoaded
    <3>2. QED
      BY <2>1, <3>1 DEF ConfigInv
  <2>3. /\ ~OrphanedVaultSettings(roster, env, file)
        /\ loaded.vaults = Vaults(roster, env, file)
    BY <2>1, <2>2 DEF Load
  <2>4. DOMAIN loaded.vaults = in
    BY <2>3 DEF Vaults
  <2>5. in \subseteq Names
    BY <2>2, ConfigurationAssumption DEF ConfigurationAssumption, Roster, NotGiven
  <2>6. DOMAIN file \subseteq DOMAIN loaded.vaults
    BY <2>1, <2>3, <2>4 DEF OrphanedVaultSettings
  <2>7. ASSUME NEW name \in in, Usable(name) PROVE name \in Slugs
    BY <2>5, <2>7 DEF Usable, RequireVaults, Slugs
  <2>8. ASSUME NEW var \in DOMAIN env
        PROVE  /\ Readers(var) # {}
               /\ \A r \in Readers(var) : loaded.vaults[r[1]][r[2]] = env[var]
               /\ \A r, s \in Readers(var) : Usable(r[1]) /\ Usable(s[1]) => r = s
    <3>1. \E name \in in, f \in VaultFields : var = VaultEnv(name, f)
      BY <2>1, <2>3 DEF OrphanedVaultSettings
    <3>2. Readers(var) # {}
      <4>1. PICK name \in in, f \in VaultFields : var = VaultEnv(name, f)
        BY <3>1
      <4>2. <<name, f>> \in Readers(var)
        BY <4>1, <2>4 DEF Readers
      <4>3. QED
        BY <4>2
    <3>3. ASSUME NEW r \in Readers(var)
          PROVE  /\ r[1] \in in /\ r[2] \in VaultFields /\ r = <<r[1], r[2]>>
                 /\ VaultEnv(r[1], r[2]) = var
      BY <2>4 DEF Readers
    <3>4. ASSUME NEW r \in Readers(var) PROVE loaded.vaults[r[1]][r[2]] = env[var]
      BY <2>3, <3>3 DEF Vaults, Given
    <3>5. ASSUME NEW r \in Readers(var), NEW s \in Readers(var), Usable(r[1]), Usable(s[1])
          PROVE  r = s
      <4>1. r[1] \in Slugs /\ s[1] \in Slugs
        BY <3>3, <3>5, <2>7
      <4>2. r[1] = s[1] /\ r[2] = s[2]
        BY <3>3, <4>1, VariablesAreApart
      <4>3. QED
        BY <3>3, <4>2
    <3>6. QED
      BY <3>2, <3>4, <3>5
  <2>9. QED
    BY <2>6, <2>8 DEF EachSettingHasOneVault
<1>2. QED
  BY <1>1, ConfigurationIsLoaded, PTL

-----------------------------------------------------------------------------
(* The scans of a run, for any number of vaults, trees, logs and settings. *)

AnyVault   == UNION {Selected[k] : k \in DOMAIN Selected}
TextsOf(v) == {v.entries[i].text : i \in DOMAIN v.entries}
EntryOf(v) == [folders : Seq(STRING), name : STRING, link : BOOLEAN, text : TextsOf(v)]
Commits    == [date : Nat, paths : SUBSET Seq(STRING)]

LEMMA VaultForm ==
    ASSUME NEW v \in AnyVault
    PROVE  /\ v.entries \in Seq(EntryOf(v)) /\ v.log \in Seq(Commits)
           /\ v.areas \subseteq STRING /\ v.folders \subseteq Seq(STRING)
           /\ \A text \in TextsOf(v) : \A f \in DOMAIN text.faults :
                 \E c \in DOMAIN Checks : Checks[c] = <<f, text.faults[f]>>
<1>1. PICK k \in DOMAIN Selected : v \in Selected[k]
  BY DEF AnyVault
<1>2. /\ v.entries \in Seq(EntryOf(v)) /\ v.log \in Seq(Commits)
      /\ v.areas \subseteq STRING /\ v.folders \subseteq Seq(STRING)
  BY <1>1, VaultAssumption DEF VaultAssumption, EntryOf, TextsOf, Commits
<1>3. \A i \in DOMAIN v.entries : \A f \in DOMAIN v.entries[i].text.faults :
         \E c \in DOMAIN Checks : Checks[c] = <<f, v.entries[i].text.faults[f]>>
  BY <1>1, VaultAssumption, Zenon DEF VaultAssumption
<1>4. QED
  BY <1>2, <1>3, Zenon DEF TextsOf

(* The walk meets an entry unless a folder over it, by its own name or by the
   path to it, is to be skipped. *)
LEMMA WalkedRule ==
    ASSUME NEW v \in AnyVault, NEW e \in EntryOf(v)
    PROVE  Walked(v, e) <=> ~SkipDir(v, e) /\ (e.link \/ ~PassedOver(v, e))
<1> DEFINE fs == e.folders
<1>1. fs \in Seq(STRING) /\ Len(fs) \in Nat /\ DOMAIN fs = 1 .. Len(fs) /\ e.link \in BOOLEAN
  BY DEF EntryOf
<1>2. ASSUME NEW p \in v.folders, p # <<>>
      PROVE  (Len(p) <= Len(fs) /\ SpelledLike(p, fs))
                <=> \E k \in DOMAIN fs : FoldPath(SubSeq(fs, 1, k)) = FoldPath(p)
  <2>1. p \in Seq(STRING) /\ Len(p) \in Nat \ {0} /\ DOMAIN p = 1 .. Len(p)
    BY VaultForm, <1>2
  <2> DEFINE folded(q, n) == [j \in 1 .. n |-> FoldName(q[j])]
  <2>2. FoldPath(p) = folded(p, Len(p))
    BY <2>1 DEF FoldPath
  <2>3. ASSUME NEW k \in DOMAIN fs PROVE FoldPath(SubSeq(fs, 1, k)) = folded(fs, k)
    <3>1. DOMAIN SubSeq(fs, 1, k) = 1 .. k /\ \A j \in 1 .. k : SubSeq(fs, 1, k)[j] = fs[j]
      BY <1>1
    <3>2. QED
      BY <3>1 DEF FoldPath
  <2>4. ASSUME Len(p) <= Len(fs), SpelledLike(p, fs)
        PROVE  \E k \in DOMAIN fs : FoldPath(SubSeq(fs, 1, k)) = FoldPath(p)
    <3>1. Len(p) \in DOMAIN fs
      BY <1>1, <2>1, <2>4
    <3>2. \A j \in 1 .. Len(p) : FoldName(p[j]) = FoldName(fs[j])
      BY <2>1, <2>4 DEF SpelledLike
    <3>3. folded(fs, Len(p)) = folded(p, Len(p))
      BY <3>2
    <3>4. QED
      BY <2>2, <2>3, <3>1, <3>3
  <2>5. ASSUME NEW k \in DOMAIN fs, FoldPath(SubSeq(fs, 1, k)) = FoldPath(p)
        PROVE  Len(p) <= Len(fs) /\ SpelledLike(p, fs)
    <3>1. folded(fs, k) = folded(p, Len(p))
      BY <2>2, <2>3, <2>5
    <3>2. 1 .. k = 1 .. Len(p)
      <4>1. DOMAIN folded(fs, k) = 1 .. k /\ DOMAIN folded(p, Len(p)) = 1 .. Len(p)
        OBVIOUS
      <4> HIDE DEF folded
      <4>2. QED
        BY <3>1, <4>1
    <3>3. k = Len(p)
      <4>1. k \in 1 .. Len(p) /\ Len(p) \in 1 .. k
        BY <1>1, <2>1, <3>2
      <4>2. QED
        BY <4>1, <2>1
    <3>4. ASSUME NEW j \in 1 .. Len(p) PROVE FoldName(p[j]) = FoldName(fs[j])
      <4>1. folded(fs, k)[j] = FoldName(fs[j]) /\ folded(p, Len(p))[j] = FoldName(p[j])
        BY <3>3
      <4> HIDE DEF folded
      <4>2. QED
        BY <3>1, <4>1
    <3>5. QED
      BY <1>1, <2>1, <3>3, <3>4 DEF SpelledLike
  <2>6. QED
    BY <2>4, <2>5
<1>3. SkipDir(v, e) <=> \/ \E k \in DOMAIN fs : fs[k] \in Dotted
                        \/ \E p \in v.folders : p # <<>> /\ Len(p) <= Len(fs) /\ SpelledLike(p, fs)
  BY <1>2, Zenon DEF SkipDir, FolderSet
<1>4. ~PassedOver(v, e)
        <=> e.name \in Markdown /\ (fs = <<>> => \A name \in v.rootFiles : FoldName(name) # FoldName(e.name))
  BY DEF PassedOver, IsFirstLevel
<1>5. QED
  BY <1>1, <1>3, <1>4, Zenon DEF Walked

(* What is read of a file is well formed when no check finds anything. *)
LEMMA FormedRule ==
    ASSUME NEW v \in AnyVault, NEW e \in EntryOf(v), ~e.link
    PROVE  Formed(v, e) <=> /\ e.text.head = "block" /\ ParseFrontmatter(e.text) = <<>>
                            /\ DeriveArea(v, e) # <<>>
<1>1. (Findings(e.text) = {}) <=> (DOMAIN e.text.faults = {})
  <2>1. ASSUME NEW f \in DOMAIN e.text.faults PROVE Findings(e.text) # {}
    <3>1. e.text \in TextsOf(v)
      BY DEF EntryOf
    <3>2. PICK c \in DOMAIN Checks : Checks[c] = <<f, e.text.faults[f]>>
      BY <3>1, VaultForm
    <3>3. Checks[c][1] = f /\ Checks[c][2] = e.text.faults[f]
      BY <3>2
    <3>4. c \in Findings(e.text)
      BY <3>3, Zenon DEF Findings
    <3>5. QED
      BY <3>4
  <2>2. DOMAIN e.text.faults = {} => Findings(e.text) = {}
    BY Zenon DEF Findings
  <2>3. QED
    BY <2>1, <2>2
<1>2. e.text.head = "block" => (ParseFrontmatter(e.text) = <<>> <=> Findings(e.text) = {})
  <2> DEFINE first == CHOOSE c \in Findings(e.text) : \A d \in Findings(e.text) : c <= d
  <2>1. <<Checks[first][1]>> # <<>>
    OBVIOUS
  <2>2. QED
    BY <2>1, Zenon DEF ParseFrontmatter
<1>3. DeriveArea(v, e) # <<>> <=> e.folders # <<>> /\ FoldName(e.folders[1]) \in v.areas
  <2>1. <<FoldName(e.folders[1])>> # <<>>
    OBVIOUS
  <2>2. QED
    BY <2>1, Zenon DEF DeriveArea
<1>4. QED
  BY <1>1, <1>2, <1>3, Zenon DEF Formed

(* What becomes of an entry. *)
NoteOf(v, dates, e) == [path |-> PathOf(e), uid |-> e.text.uid, area |-> DeriveArea(v, e)[1],
                        sub |-> DeriveSub(e), updated |-> ResolveUpdated(PathOf(e), dates)]
Whys(v) == {<<"link">>, <<"reading">>, <<"area">>, <<"duplicate">>}
             \union {ParseFrontmatter(text) : text \in TextsOf(v)}

LEMMA EntryCases ==
    ASSUME NEW v \in AnyVault, NEW e \in EntryOf(v), NEW dates, NEW r
    PROVE  /\ ~Walked(v, e) => Read(v, dates, r, e) = r
           /\ (Walked(v, e) /\ ~e.link /\ e.text.head = "empty")
                => Read(v, dates, r, e) = [r EXCEPT !.skipped = Append(r.skipped, PathOf(e))]
           /\ (Walked(v, e) /\ ~Formed(v, e) /\ (e.link \/ e.text.head # "empty"))
                => \E why \in Whys(v) : Read(v, dates, r, e) = Fail(r, PathOf(e), why)
           /\ (Walked(v, e) /\ Formed(v, e) /\ SeenUID(r, e.text.uid))
                => \E why \in Whys(v) : Read(v, dates, r, e) = Fail(r, PathOf(e), why)
           /\ (Walked(v, e) /\ Formed(v, e) /\ ~SeenUID(r, e.text.uid))
                => Read(v, dates, r, e) = [r EXCEPT !.notes = Append(r.notes, NoteOf(v, dates, e))]
<1> DEFINE s == Read(v, dates, r, e)
<1>1. e.link \in BOOLEAN /\ e.text \in TextsOf(v)
  BY DEF EntryOf
<1>2. ~Walked(v, e) => s = r
  BY <1>1, WalkedRule, Zenon DEF Read, ReadEntry
<1>3. ASSUME Walked(v, e), e.link
      PROVE  s = Fail(r, PathOf(e), <<"link">>) /\ ~Formed(v, e)
  BY <1>1, <1>3, WalkedRule, Zenon DEF Read, ReadEntry, Formed
<1>4. ASSUME Walked(v, e), ~e.link
      PROVE  s = IF e.text.head = "unreadable" THEN Fail(r, PathOf(e), <<"reading">>)
                 ELSE IF e.text.head = "empty" THEN [r EXCEPT !.skipped = Append(r.skipped, PathOf(e))]
                 ELSE IF ParseFrontmatter(e.text) # <<>> THEN Fail(r, PathOf(e), ParseFrontmatter(e.text))
                 ELSE IF DeriveArea(v, e) = <<>> THEN Fail(r, PathOf(e), <<"area">>)
                 ELSE IF SeenUID(r, e.text.uid) THEN Fail(r, PathOf(e), <<"duplicate">>)
                 ELSE [r EXCEPT !.notes = Append(r.notes, NoteOf(v, dates, e))]
  <2>1. ~SkipDir(v, e) /\ ~PassedOver(v, e)
    BY <1>4, WalkedRule
  <2>2. QED
    BY <2>1, <1>4, Zenon DEF Read, ReadEntry, NoteOf
<1>5. ParseFrontmatter(e.text) \in Whys(v) /\ <<"link">> \in Whys(v) /\ <<"reading">> \in Whys(v)
      /\ <<"area">> \in Whys(v) /\ <<"duplicate">> \in Whys(v)
  BY <1>1, Zenon DEF Whys
<1>6. ~e.link /\ Formed(v, e)
        => /\ e.text.head = "block" /\ e.text.head # "unreadable" /\ e.text.head # "empty"
           /\ ParseFrontmatter(e.text) = <<>> /\ DeriveArea(v, e) # <<>>
  BY FormedRule
<1>7. ~e.link /\ e.text.head # "block" => ParseFrontmatter(e.text) # <<>>
  <2>1. <<"---">> # <<>>
    OBVIOUS
  <2>2. QED
    BY <2>1, Zenon DEF ParseFrontmatter
<1>8. Formed(v, e) => ~e.link
  BY DEF Formed
<1>9. ASSUME Walked(v, e), ~e.link, e.text.head = "empty"
      PROVE  s = [r EXCEPT !.skipped = Append(r.skipped, PathOf(e))]
  <2>1. e.text.head # "unreadable"
    BY <1>9
  <2>2. QED
    BY <1>4, <1>9, <2>1, Zenon
<1>10. ASSUME Walked(v, e), ~Formed(v, e), e.link \/ e.text.head # "empty"
       PROVE  \E why \in Whys(v) : s = Fail(r, PathOf(e), why)
  <2>1. CASE e.link
    BY <1>3, <1>5, <1>10, <2>1, Zenon
  <2>2. CASE ~e.link
    <3>1. e.text.head = "unreadable" \/ ParseFrontmatter(e.text) # <<>> \/ DeriveArea(v, e) = <<>>
      BY <1>7, <1>10, <2>2, FormedRule, Zenon
    <3>2. QED
      BY <1>4, <1>5, <1>10, <2>2, <3>1, Zenon
  <2>3. QED
    BY <2>1, <2>2, <1>1
<1>11. ASSUME Walked(v, e), Formed(v, e), SeenUID(r, e.text.uid)
       PROVE  \E why \in Whys(v) : s = Fail(r, PathOf(e), why)
  BY <1>4, <1>5, <1>6, <1>8, <1>11, Zenon
<1>12. ASSUME Walked(v, e), Formed(v, e), ~SeenUID(r, e.text.uid)
       PROVE  s = [r EXCEPT !.notes = Append(r.notes, NoteOf(v, dates, e))]
  BY <1>4, <1>6, <1>8, <1>12, Zenon
<1>13. QED
  BY <1>2, <1>9, <1>10, <1>11, <1>12, Zenon

LEMMA DuplicateFails ==
    ASSUME NEW v \in AnyVault, NEW e \in EntryOf(v), NEW dates, NEW r,
           Walked(v, e), Formed(v, e), SeenUID(r, e.text.uid)
    PROVE  \E why \in Whys(v) : Read(v, dates, r, e) = Fail(r, PathOf(e), why)
  BY EntryCases

-----------------------------------------------------------------------------
(* The dates of the log. *)

Paths    == Seq(STRING)
DateMaps == UNION {[P -> Nat] : P \in SUBSET Paths}

DateRun(v, f) ==
    /\ f \in [0 .. Len(v.log) -> DateMaps] /\ f[0] = <<>>
    /\ \A k \in 1 .. Len(v.log) : f[k] = AddCommit(f[k - 1], v.log[k])

LEMMA CommitIsAdded ==
    ASSUME NEW dates \in DateMaps, NEW c \in Commits
    PROVE  /\ AddCommit(dates, c) \in DateMaps
           /\ DOMAIN AddCommit(dates, c) = DOMAIN dates \union (IF c.date = NoDate THEN {} ELSE c.paths)
           /\ \A p \in DOMAIN AddCommit(dates, c) :
                 AddCommit(dates, c)[p] = IF p \in DOMAIN dates THEN dates[p] ELSE c.date
<1>1. PICK P \in SUBSET Paths : dates \in [P -> Nat]
  BY DEF DateMaps
<1>2. c.date \in Nat /\ c.paths \in SUBSET Paths
  BY DEF Commits, Paths
<1>3. CASE c.date = NoDate
  BY <1>1, <1>3 DEF AddCommit
<1>4. CASE c.date # NoDate
  <2> DEFINE Q == P \union c.paths
             g == [p \in Q |-> IF p \in P THEN dates[p] ELSE c.date]
  <2>1. AddCommit(dates, c) = g
    BY <1>1, <1>4 DEF AddCommit
  <2>2. g \in [Q -> Nat] /\ Q \in SUBSET Paths
    BY <1>1, <1>2
  <2>3. g \in DateMaps
    BY <2>2, Zenon DEF DateMaps
  <2>4. QED
    BY <1>1, <1>4, <2>1, <2>3
<1>5. QED
  BY <1>3, <1>4

LEMMA DateRuns ==
    ASSUME NEW v \in AnyVault
    PROVE  \E f : DateRun(v, f) /\ GitUpdatedMap(v.log) = f[Len(v.log)]
<1> DEFINE n == Len(v.log)
           step == [x \in (1 .. n) \X DateMaps |-> AddCommit(x[2], v.log[x[1]])]
           Unroll(g) == [k \in 0 .. n |-> IF k = 0 THEN <<>> ELSE AddCommit(g[k - 1], v.log[k])]
           scan == CHOOSE g : g = Unroll(g)
<1>1. n \in Nat /\ \A k \in 1 .. n : v.log[k] \in Commits
  BY VaultForm
<1>2. <<>> \in DateMaps
  <2>1. <<>> \in [{} -> Nat]
    OBVIOUS
  <2>2. {} \in SUBSET Paths
    OBVIOUS
  <2>3. QED
    BY <2>1, <2>2, Zenon DEF DateMaps
<1>3. step \in [(1 .. n) \X DateMaps -> DateMaps]
  <2>1. ASSUME NEW k \in 1 .. n, NEW s \in DateMaps PROVE AddCommit(s, v.log[k]) \in DateMaps
    BY <1>1, CommitIsAdded
  <2>2. QED
    BY <2>1
<1>4. PICK f : Steps(f, DateMaps, n, <<>>, step)
  <2> HIDE DEF step, n
  <2>1. QED
    BY <1>1, <1>2, <1>3, Recursion
<1>5. \A k \in 1 .. n, s \in DateMaps : step[<<k, s>>] = AddCommit(s, v.log[k])
  OBVIOUS
<1>6. /\ f \in [0 .. n -> DateMaps] /\ f[0] = <<>>
      /\ \A k \in 1 .. n : f[k] = AddCommit(f[k - 1], v.log[k])
  <2>1. f \in [0 .. n -> DateMaps] /\ f[0] = <<>> /\ \A k \in 1 .. n : f[k] = step[<<k, f[k - 1]>>]
    BY <1>4 DEF Steps
  <2>2. \A k \in 1 .. n : k - 1 \in 0 .. n /\ f[k - 1] \in DateMaps
    BY <2>1, <1>1
  <2> HIDE DEF step
  <2>3. QED
    BY <2>1, <2>2, <1>5
<1>7. f = Unroll(f)
  <2> HIDE DEF step, n
  <2>1. QED
    BY <1>6
<1>8. scan = Unroll(scan)
  BY <1>7, Zenon
<1>9. Steps(scan, DateMaps, n, <<>>, step)
  <2> HIDE DEF scan, step, n
  <2>1. scan = [k \in 0 .. n |-> scan[k]]
    BY <1>8
  <2>2. scan[0] = <<>>
    BY <1>8, <1>1
  <2>3. ASSUME NEW k \in 1 .. n, scan[k - 1] \in DateMaps PROVE scan[k] = step[<<k, scan[k - 1]>>]
    <3>1. scan[k] = AddCommit(scan[k - 1], v.log[k])
      BY <1>8, <1>1
    <3>2. QED
      BY <3>1, <2>3, <1>5
  <2>4. QED
    BY <1>1, <1>2, <1>3, <2>1, <2>2, <2>3, Unrolled
<1>10. /\ scan \in [0 .. n -> DateMaps] /\ scan[0] = <<>>
       /\ \A k \in 1 .. n : scan[k] = AddCommit(scan[k - 1], v.log[k])
  <2>1. /\ scan \in [0 .. n -> DateMaps] /\ scan[0] = <<>>
        /\ \A k \in 1 .. n : scan[k] = step[<<k, scan[k - 1]>>]
    BY <1>9 DEF Steps
  <2> HIDE DEF scan, step, n
  <2>2. \A k \in 1 .. n : k - 1 \in 0 .. n /\ scan[k - 1] \in DateMaps
    BY <2>1, <1>1
  <2>3. QED
    BY <2>1, <2>2, <1>5
<1>11. GitUpdatedMap(v.log) = scan[n]
  BY DEF GitUpdatedMap
<1>12. QED
  <2> HIDE DEF scan
  <2>1. DateRun(v, scan)
    BY <1>10 DEF DateRun
  <2>2. QED
    BY <2>1, <1>11

Naming(path, log, k) == {c \in 1 .. k : log[c].date # NoDate /\ path \in log[c].paths}

DatedSoFar(v, f, k) ==
    \A path \in Paths :
        /\ path \in DOMAIN f[k] <=> Naming(path, v.log, k) # {}
        /\ path \in DOMAIN f[k] => \E c \in Naming(path, v.log, k) :
                /\ f[k][path] = v.log[c].date
                /\ \A d \in Naming(path, v.log, k) : c <= d

(* The first date seen for a path is that of the newest commit that names it. *)
LEMMA DatesAreNewest ==
    ASSUME NEW v \in AnyVault, NEW path \in Paths
    PROVE  LET date == ResolveUpdated(path, GitUpdatedMap(v.log))
           IN  date \in Nat /\ IsDated(path, date, v.log)
<1> DEFINE n == Len(v.log)
<1>1. n \in Nat /\ DOMAIN v.log = 1 .. n /\ \A k \in 1 .. n : v.log[k] \in Commits
  BY VaultForm
<1>2. PICK f : DateRun(v, f) /\ GitUpdatedMap(v.log) = f[n]
  BY DateRuns
<1>3. /\ f \in [0 .. n -> DateMaps] /\ f[0] = <<>>
      /\ \A k \in 1 .. n : f[k] = AddCommit(f[k - 1], v.log[k])
  BY <1>2 DEF DateRun
<1> HIDE DEF n
<1> DEFINE T == {k \in 0 .. n : DatedSoFar(v, f, k)}
<1>4. 0 \in T
  <2>1. \A p \in Paths : Naming(p, v.log, 0) = {}
    BY DEF Naming
  <2>2. QED
    BY <1>1, <1>3, <2>1 DEF DatedSoFar
<1>5. ASSUME NEW k \in 0 .. n, k \in T, k < n
      PROVE  k + 1 \in T
  <2> DEFINE c == v.log[k + 1]
  <2>1. k + 1 \in 1 .. n /\ (k + 1) - 1 = k /\ f[k] \in DateMaps /\ c \in Commits
    BY <1>1, <1>3, <1>5
  <2>2. /\ DOMAIN f[k + 1] = DOMAIN f[k] \union (IF c.date = NoDate THEN {} ELSE c.paths)
        /\ \A p \in DOMAIN f[k + 1] : f[k + 1][p] = IF p \in DOMAIN f[k] THEN f[k][p] ELSE c.date
    <3>1. f[k + 1] = AddCommit(f[k], c)
      BY <1>3, <2>1
    <3>2. /\ DOMAIN AddCommit(f[k], c) = DOMAIN f[k] \union (IF c.date = NoDate THEN {} ELSE c.paths)
          /\ \A p \in DOMAIN AddCommit(f[k], c) :
                AddCommit(f[k], c)[p] = IF p \in DOMAIN f[k] THEN f[k][p] ELSE c.date
      <4> HIDE DEF c
      <4>1. QED
        BY <2>1, CommitIsAdded, Zenon
    <3>3. QED
      BY <3>1, <3>2, Zenon
  <2>3. ASSUME NEW p \in Paths
        PROVE  /\ p \in DOMAIN f[k + 1] <=> Naming(p, v.log, k + 1) # {}
               /\ p \in DOMAIN f[k + 1] => \E d \in Naming(p, v.log, k + 1) :
                    /\ f[k + 1][p] = v.log[d].date
                    /\ \A e \in Naming(p, v.log, k + 1) : d <= e
    <3>1. \A d : d \in Naming(p, v.log, k + 1)
                    <=> \/ d \in Naming(p, v.log, k)
                        \/ d = k + 1 /\ c.date # NoDate /\ p \in c.paths
      BY <1>1, <2>1 DEF Naming
    <3>2. \A d \in Naming(p, v.log, k) : d \in 1 .. k
      BY DEF Naming
    <3>3. /\ p \in DOMAIN f[k] <=> Naming(p, v.log, k) # {}
          /\ p \in DOMAIN f[k] => \E d \in Naming(p, v.log, k) :
                 f[k][p] = v.log[d].date /\ \A e \in Naming(p, v.log, k) : d <= e
      BY <1>5 DEF DatedSoFar
    <3>4. CASE p \in DOMAIN f[k]
      <4>1. PICK d \in Naming(p, v.log, k) :
                 f[k][p] = v.log[d].date /\ \A e \in Naming(p, v.log, k) : d <= e
        BY <3>3, <3>4
      <4>2. d \in Naming(p, v.log, k + 1) /\ d <= k + 1
        BY <3>1, <3>2
      <4>3. \A e \in Naming(p, v.log, k + 1) : d <= e
        BY <3>1, <4>1, <4>2
      <4>4. f[k + 1][p] = v.log[d].date /\ p \in DOMAIN f[k + 1]
        BY <2>2, <3>4, <4>1
      <4>5. QED
        BY <4>2, <4>3, <4>4
    <3>5. CASE p \notin DOMAIN f[k]
      <4>1. Naming(p, v.log, k) = {}
        BY <3>3, <3>5
      <4>2. p \in DOMAIN f[k + 1] <=> c.date # NoDate /\ p \in c.paths
        BY <2>2, <3>5
      <4>3. \A d : d \in Naming(p, v.log, k + 1) <=> d = k + 1 /\ c.date # NoDate /\ p \in c.paths
        BY <3>1, <4>1
      <4>4. ASSUME p \in DOMAIN f[k + 1]
            PROVE  \E d \in Naming(p, v.log, k + 1) :
                      f[k + 1][p] = v.log[d].date /\ \A e \in Naming(p, v.log, k + 1) : d <= e
        <5>1. k + 1 \in Naming(p, v.log, k + 1)
          BY <4>2, <4>3, <4>4
        <5>2. f[k + 1][p] = v.log[k + 1].date
          BY <2>2, <3>5, <4>4
        <5>3. \A e \in Naming(p, v.log, k + 1) : k + 1 <= e
          BY <4>3, <2>1
        <5>4. QED
          BY <5>1, <5>2, <5>3
      <4>5. QED
        BY <4>2, <4>3, <4>4
    <3>6. QED
      BY <3>4, <3>5
  <2>4. QED
    BY <2>1, <2>3 DEF DatedSoFar
<1>6. n \in T
  <2> HIDE DEF T
  <2>1. 0 .. n \subseteq T
    BY <1>1, <1>4, <1>5, UpTo
  <2>2. QED
    BY <2>1, <1>1
<1>7. n \in 0 .. n /\ f[n] \in DateMaps
  BY <1>1, <1>3
<1> DEFINE date == ResolveUpdated(path, f[n])
<1>8. date \in Nat
  <2>1. PICK P \in SUBSET Paths : f[n] \in [P -> Nat]
    BY <1>7 DEF DateMaps
  <2>2. QED
    BY <2>1 DEF ResolveUpdated, NoDate
<1>9. IsDated(path, date, v.log)
  <2>1. Naming(path, v.log, n) = {c \in DOMAIN v.log : v.log[c].date # NoDate /\ path \in v.log[c].paths}
    BY <1>1 DEF Naming
  <2>2. /\ path \in DOMAIN f[n] <=> Naming(path, v.log, n) # {}
        /\ path \in DOMAIN f[n] => \E c \in Naming(path, v.log, n) :
              f[n][path] = v.log[c].date /\ \A d \in Naming(path, v.log, n) : c <= d
    BY <1>6 DEF DatedSoFar
  <2>3. QED
    BY <2>1, <2>2, Zenon DEF IsDated, ResolveUpdated
<1>10. QED
  BY <1>2, <1>8, <1>9

-----------------------------------------------------------------------------
(* The files of a vault, one after another. *)

UidsOf(v)  == {text.uid : text \in TextsOf(v)}
NotesOf(v) == [path : Paths, uid : UidsOf(v), area : v.areas, sub : STRING \union {NoSub}, updated : Nat]
Errors(v)  == [path : Paths, why : Whys(v)]
Results(v) == [notes : Seq(NotesOf(v)), skipped : Seq(Paths), failures : Seq(Errors(v))]

DatesOf(v) == GitUpdatedMap(v.log)

LEMMA PathsAreKnown ==
    ASSUME NEW v \in AnyVault, NEW e \in EntryOf(v)
    PROVE  PathOf(e) \in Paths
<1>1. e.folders \in Seq(STRING) /\ e.name \in STRING
  BY DEF EntryOf
<1>2. <<e.name>> \in Seq(STRING)
  BY <1>1
<1>3. QED
  BY <1>1, <1>2 DEF PathOf, Paths

LEMMA NotesAreTyped ==
    ASSUME NEW v \in AnyVault, NEW e \in EntryOf(v), Formed(v, e)
    PROVE  NoteOf(v, DatesOf(v), e) \in NotesOf(v)
<1>1. PathOf(e) \in Paths
  BY PathsAreKnown
<1>2. e.text.uid \in UidsOf(v)
  <2>1. e.text \in TextsOf(v)
    BY DEF EntryOf
  <2>2. QED
    BY <2>1, Zenon DEF UidsOf
<1>3. DeriveArea(v, e)[1] \in v.areas
  BY DEF Formed, DeriveArea
<1>4. DeriveSub(e) \in STRING \union {NoSub}
  <2>1. e.folders \in Seq(STRING)
    BY DEF EntryOf
  <2>2. QED
    BY <2>1 DEF DeriveSub
<1>5. ResolveUpdated(PathOf(e), DatesOf(v)) \in Nat
  BY <1>1, DatesAreNewest DEF DatesOf
<1>6. QED
  BY <1>1, <1>2, <1>3, <1>4, <1>5 DEF NoteOf, NotesOf

LEMMA ResultsGrow ==
    ASSUME NEW v \in AnyVault, NEW r \in Results(v)
    PROVE  /\ r.notes \in Seq(NotesOf(v)) /\ r.skipped \in Seq(Paths) /\ r.failures \in Seq(Errors(v))
           /\ \A path \in Paths :
                /\ [r EXCEPT !.skipped = Append(r.skipped, path)] \in Results(v)
                /\ \A why \in Whys(v) : Fail(r, path, why) \in Results(v)
           /\ \A note \in NotesOf(v) : [r EXCEPT !.notes = Append(r.notes, note)] \in Results(v)
<1>1. r.notes \in Seq(NotesOf(v)) /\ r.skipped \in Seq(Paths) /\ r.failures \in Seq(Errors(v))
  BY DEF Results
<1>2. ASSUME NEW path \in Paths
      PROVE  [r EXCEPT !.skipped = Append(r.skipped, path)] \in Results(v)
  <2>1. Append(r.skipped, path) \in Seq(Paths)
    BY <1>1
  <2>2. QED
    BY <2>1 DEF Results
<1>3. ASSUME NEW path \in Paths, NEW why \in Whys(v)
      PROVE  Fail(r, path, why) \in Results(v)
  <2>1. [path |-> path, why |-> why] \in Errors(v)
    BY DEF Errors
  <2>2. Append(r.failures, [path |-> path, why |-> why]) \in Seq(Errors(v))
    BY <1>1, <2>1
  <2>3. QED
    BY <2>2 DEF Results, Fail
<1>4. ASSUME NEW note \in NotesOf(v)
      PROVE  [r EXCEPT !.notes = Append(r.notes, note)] \in Results(v)
  <2>1. Append(r.notes, note) \in Seq(NotesOf(v))
    BY <1>1
  <2>2. QED
    BY <2>1 DEF Results
<1>5. QED
  BY <1>1, <1>2, <1>3, <1>4

LEMMA ReadIsTyped ==
    ASSUME NEW v \in AnyVault, NEW e \in EntryOf(v), NEW r \in Results(v)
    PROVE  Read(v, DatesOf(v), r, e) \in Results(v)
<1> DEFINE dates == DatesOf(v)
           s == Read(v, dates, r, e)
<1> SUFFICES s \in Results(v)
  OBVIOUS
<1> HIDE DEF dates
<1>1. PathOf(e) \in Paths
  BY PathsAreKnown
<1>2. e.link \in BOOLEAN
  BY DEF EntryOf
<1>3. CASE ~Walked(v, e)
  BY <1>3, EntryCases, Zenon
<1>4. CASE Walked(v, e) /\ ~e.link /\ e.text.head = "empty"
  <2>1. s = [r EXCEPT !.skipped = Append(r.skipped, PathOf(e))]
    BY <1>4, EntryCases
  <2>2. QED
    BY <2>1, <1>1, ResultsGrow, Zenon
<1>5. CASE Walked(v, e) /\ ~Formed(v, e) /\ (e.link \/ e.text.head # "empty")
  <2>1. \E why \in Whys(v) : s = Fail(r, PathOf(e), why)
    BY <1>5, EntryCases
  <2>2. QED
    BY <2>1, <1>1, ResultsGrow, Zenon
<1>6. CASE Walked(v, e) /\ Formed(v, e) /\ SeenUID(r, e.text.uid)
  <2>1. \E why \in Whys(v) : s = Fail(r, PathOf(e), why)
    BY <1>6, EntryCases
  <2>2. QED
    BY <2>1, <1>1, ResultsGrow, Zenon
<1>7. CASE Walked(v, e) /\ Formed(v, e) /\ ~SeenUID(r, e.text.uid)
  <2>1. s = [r EXCEPT !.notes = Append(r.notes, NoteOf(v, dates, e))]
    BY <1>7, EntryCases
  <2>2. NoteOf(v, dates, e) \in NotesOf(v)
    BY <1>7, NotesAreTyped DEF dates
  <2>3. [r EXCEPT !.notes = Append(r.notes, NoteOf(v, dates, e))] \in Results(v)
    BY <2>2, ResultsGrow
  <2> HIDE DEF s
  <2>4. QED
    BY <2>1, <2>3
<1>8. QED
  BY <1>2, <1>3, <1>4, <1>5, <1>6, <1>7, Zenon

ReadRun(v, f) ==
    /\ f \in [0 .. Len(v.entries) -> Results(v)] /\ f[0] = Nothing
    /\ \A k \in 1 .. Len(v.entries) : f[k] = Read(v, DatesOf(v), f[k - 1], v.entries[k])

ScanOf(v, all) ==
    IF v.fails # "none" THEN Fail(Nothing, <<>>, <<v.fails>>)
    ELSE IF all.failures # <<>> THEN [Nothing EXCEPT !.failures = all.failures]
    ELSE all

LEMMA ReadRuns ==
    ASSUME NEW v \in AnyVault
    PROVE  \E f : ReadRun(v, f) /\ ScanVault(v) = ScanOf(v, f[Len(v.entries)])
<1> DEFINE n == Len(v.entries)
           S == Results(v)
           dates == DatesOf(v)
           step == [x \in (1 .. n) \X S |-> Read(v, dates, x[2], v.entries[x[1]])]
           Unroll(g) == [k \in 0 .. n |-> IF k = 0 THEN Nothing ELSE Read(v, dates, g[k - 1], v.entries[k])]
           scan == CHOOSE g : g = Unroll(g)
<1>1. n \in Nat /\ \A k \in 1 .. n : v.entries[k] \in EntryOf(v)
  BY VaultForm
<1>2. Nothing \in S
  BY DEF Nothing, Results
<1>3. step \in [(1 .. n) \X S -> S]
  <2>1. ASSUME NEW k \in 1 .. n, NEW s \in S PROVE Read(v, dates, s, v.entries[k]) \in S
    BY <1>1, ReadIsTyped
  <2>2. QED
    BY <2>1
<1>4. PICK f : Steps(f, S, n, Nothing, step)
  <2> HIDE DEF step, n, S
  <2>1. QED
    BY <1>1, <1>2, <1>3, Recursion
<1>5. \A k \in 1 .. n, s \in S : step[<<k, s>>] = Read(v, dates, s, v.entries[k])
  OBVIOUS
<1>6. /\ f \in [0 .. n -> S] /\ f[0] = Nothing
      /\ \A k \in 1 .. n : f[k] = Read(v, dates, f[k - 1], v.entries[k])
  <2> HIDE DEF step, S, n
  <2>1. f \in [0 .. n -> S] /\ f[0] = Nothing /\ \A k \in 1 .. n : f[k] = step[<<k, f[k - 1]>>]
    BY <1>4 DEF Steps
  <2>2. \A k \in 1 .. n : k - 1 \in 0 .. n /\ f[k - 1] \in S
    BY <2>1, <1>1
  <2>3. QED
    BY <2>1, <2>2, <1>5
<1>7. f = Unroll(f)
  <2> HIDE DEF step, n, S, dates
  <2>1. QED
    BY <1>6
<1>8. scan = Unroll(scan)
  BY <1>7, Zenon
<1>9. Steps(scan, S, n, Nothing, step)
  <2> HIDE DEF scan, step, n, S, dates
  <2>1. scan = [k \in 0 .. n |-> scan[k]]
    BY <1>8
  <2>2. scan[0] = Nothing
    BY <1>8, <1>1
  <2>3. ASSUME NEW k \in 1 .. n, scan[k - 1] \in S PROVE scan[k] = step[<<k, scan[k - 1]>>]
    <3>1. scan[k] = Read(v, dates, scan[k - 1], v.entries[k])
      BY <1>8, <1>1
    <3>2. QED
      BY <3>1, <2>3, <1>5
  <2>4. QED
    BY <1>1, <1>2, <1>3, <2>1, <2>2, <2>3, Unrolled
<1>10. /\ scan \in [0 .. n -> S] /\ scan[0] = Nothing
       /\ \A k \in 1 .. n : scan[k] = Read(v, dates, scan[k - 1], v.entries[k])
  <2> HIDE DEF scan, step, n, S, dates
  <2>1. /\ scan \in [0 .. n -> S] /\ scan[0] = Nothing
        /\ \A k \in 1 .. n : scan[k] = step[<<k, scan[k - 1]>>]
    BY <1>9 DEF Steps
  <2>2. \A k \in 1 .. n : k - 1 \in 0 .. n /\ scan[k - 1] \in S
    BY <2>1, <1>1
  <2>3. QED
    BY <2>1, <2>2, <1>5
<1>11. ScanVault(v) = ScanOf(v, scan[n])
  BY Zenon DEF ScanVault, ScanOf, DatesOf
<1>12. QED
  <2> HIDE DEF scan
  <2>1. ReadRun(v, scan)
    BY <1>10 DEF ReadRun
  <2>2. QED
    BY <2>1, <1>11

LEMMA Appended ==
    ASSUME NEW T, NEW s \in Seq(T), NEW x \in T
    PROVE  /\ Len(s) \in Nat /\ Len(Append(s, x)) = Len(s) + 1
           /\ DOMAIN s = 1 .. Len(s) /\ DOMAIN Append(s, x) = 1 .. Len(s) + 1
           /\ \A j \in 1 .. Len(s) : Append(s, x)[j] = s[j]
           /\ Append(s, x)[Len(s) + 1] = x
  OBVIOUS

(* What the files up to the k-th have come to. *)
EntryAt(v, i)  == v.entries[i]
Kept(v, i)     == Walked(v, EntryAt(v, i)) /\ Formed(v, EntryAt(v, i))
NamedBy(v, i, seq)  == \E x \in DOMAIN seq : seq[x].path = PathOf(EntryAt(v, i))
ListedBy(v, i, seq) == \E x \in DOMAIN seq : seq[x] = PathOf(EntryAt(v, i))

FailuresSoFar(v, r, k) ==
    /\ \A x \in DOMAIN r.failures :
          \E i \in 1 .. k : i \in Offend(v) /\ r.failures[x].path = PathOf(EntryAt(v, i))
    /\ \A i \in 1 .. k : i \in Offend(v) => NamedBy(v, i, r.failures)
    /\ Len(r.failures) = Cardinality((1 .. k) \intersect Offend(v))

NotesSoFar(v, r, k) ==
    /\ \A u : SeenUID(r, u) <=> \E j \in 1 .. k : Kept(v, j) /\ EntryAt(v, j).text.uid = u
    /\ \A x \in DOMAIN r.notes :
        /\ \E i \in 1 .. k : Walked(v, EntryAt(v, i)) /\ r.notes[x].path = PathOf(EntryAt(v, i))
        /\ IsDated(r.notes[x].path, r.notes[x].updated, v.log)
    /\ \A x, y \in DOMAIN r.notes : r.notes[x].uid = r.notes[y].uid => x = y

FatesSoFar(v, r, k) ==
    /\ \A x \in DOMAIN r.skipped :
          \E i \in 1 .. k : Walked(v, EntryAt(v, i)) /\ r.skipped[x] = PathOf(EntryAt(v, i))
    /\ \A i \in 1 .. k : Walked(v, EntryAt(v, i)) /\ i \notin Offend(v)
                           => NamedBy(v, i, r.notes) \/ ListedBy(v, i, r.skipped)

SoFar(v, r, k) == FailuresSoFar(v, r, k) /\ NotesSoFar(v, r, k) /\ FatesSoFar(v, r, k)

LEMMA NothingSoFar ==
    ASSUME NEW v \in AnyVault
    PROVE  SoFar(v, Nothing, 0)
<1>1. Nothing.notes = <<>> /\ Nothing.skipped = <<>> /\ Nothing.failures = <<>>
  BY DEF Nothing
<1>2. Cardinality((1 .. 0) \intersect Offend(v)) = 0
  BY CountTo
<1>3. FailuresSoFar(v, Nothing, 0)
  BY <1>1, <1>2 DEF FailuresSoFar
<1>4. NotesSoFar(v, Nothing, 0)
  BY <1>1 DEF NotesSoFar, SeenUID
<1>5. FatesSoFar(v, Nothing, 0)
  BY <1>1 DEF FatesSoFar
<1>6. QED
  BY <1>3, <1>4, <1>5 DEF SoFar

(* Whether a file offends is seen from the uids of the notes before it. *)
LEMMA OffendRule ==
    ASSUME NEW v \in AnyVault, NEW i \in 1 .. Len(v.entries), NEW r, NotesSoFar(v, r, i - 1)
    PROVE  i \in Offend(v) <=>
              LET e == EntryAt(v, i)
              IN  /\ Walked(v, e) /\ (e.link \/ e.text.head # "empty")
                  /\ ~Formed(v, e) \/ SeenUID(r, e.text.uid)
<1>1. v.entries \in Seq(EntryOf(v)) /\ i \in DOMAIN v.entries
  BY VaultForm
<1>2. Formed(v, EntryAt(v, i)) => (Repeats(v, i) <=> SeenUID(r, EntryAt(v, i).text.uid))
  BY Zenon DEF NotesSoFar, Repeats, EntryAt, Kept
<1>3. ~Formed(v, EntryAt(v, i)) => ~Repeats(v, i)
  BY Zenon DEF Repeats, EntryAt
<1>4. QED
  BY <1>1, <1>2, <1>3, Zenon DEF Offend, EntryAt

(* A file that offends is named. *)
LEMMA FailIsCounted ==
    ASSUME NEW v \in AnyVault, NEW r \in Results(v), NEW k \in Nat, k < Len(v.entries),
           SoFar(v, r, k), k + 1 \in Offend(v), NEW why \in Whys(v),
           ~(Kept(v, k + 1) /\ ~SeenUID(r, EntryAt(v, k + 1).text.uid))
    PROVE  SoFar(v, Fail(r, PathOf(EntryAt(v, k + 1)), why), k + 1)
<1> DEFINE path == PathOf(EntryAt(v, k + 1))
           x0 == [path |-> path, why |-> why]
           s == Fail(r, path, why)
<1> SUFFICES SoFar(v, s, k + 1)
  OBVIOUS
<1>1. Len(v.entries) \in Nat /\ k + 1 \in 1 .. Len(v.entries) /\ EntryAt(v, k + 1) \in EntryOf(v)
  BY VaultForm DEF EntryAt
<1>2. path \in Paths /\ x0 \in Errors(v) /\ x0.path = path
  BY <1>1, PathsAreKnown DEF Errors
<1>3. s.notes = r.notes /\ s.skipped = r.skipped /\ s.failures = Append(r.failures, x0)
  BY DEF Fail, Results
<1>4. r.failures \in Seq(Errors(v))
  BY ResultsGrow
<1> HIDE DEF x0, s, path
<1> DEFINE n == Len(r.failures)
<1>5. /\ n \in Nat /\ Len(s.failures) = n + 1
      /\ DOMAIN r.failures = 1 .. n /\ DOMAIN s.failures = 1 .. n + 1
      /\ \A j \in 1 .. n : s.failures[j] = r.failures[j]
      /\ s.failures[n + 1] = x0
  BY <1>2, <1>3, <1>4, Appended
<1> HIDE DEF n
<1>6. FailuresSoFar(v, s, k + 1)
  <2>1. ASSUME NEW x \in DOMAIN s.failures
        PROVE  \E i \in 1 .. k + 1 : i \in Offend(v) /\ s.failures[x].path = PathOf(EntryAt(v, i))
    <3>1. CASE x = n + 1
      <4>1. k + 1 \in 1 .. k + 1 /\ s.failures[x].path = PathOf(EntryAt(v, k + 1))
        BY <1>2, <1>5, <3>1 DEF path
      <4>2. QED
        BY <4>1
    <3>2. CASE x # n + 1
      <4>1. x \in DOMAIN r.failures /\ s.failures[x] = r.failures[x]
        BY <1>5, <3>2
      <4>2. PICK i \in 1 .. k : i \in Offend(v) /\ r.failures[x].path = PathOf(EntryAt(v, i))
        BY <4>1 DEF SoFar, FailuresSoFar
      <4>3. i \in 1 .. k + 1
        OBVIOUS
      <4>4. QED
        BY <4>1, <4>2, <4>3
    <3>3. QED
      BY <3>1, <3>2
  <2>2. ASSUME NEW i \in 1 .. k + 1, i \in Offend(v) PROVE NamedBy(v, i, s.failures)
    <3>1. CASE i = k + 1
      <4>1. n + 1 \in DOMAIN s.failures /\ s.failures[n + 1].path = PathOf(EntryAt(v, i))
        BY <1>2, <1>5, <3>1 DEF path
      <4>2. QED
        BY <4>1 DEF NamedBy
    <3>2. CASE i # k + 1
      <4>1. i \in 1 .. k
        BY <3>2
      <4>2. PICK x \in DOMAIN r.failures : r.failures[x].path = PathOf(EntryAt(v, i))
        BY <4>1, <2>2 DEF SoFar, FailuresSoFar, NamedBy
      <4>3. x \in DOMAIN s.failures /\ s.failures[x] = r.failures[x]
        BY <1>5
      <4>4. QED
        BY <4>2, <4>3 DEF NamedBy
    <3>3. QED
      BY <3>1, <3>2
  <2>3. Len(s.failures) = Cardinality((1 .. k + 1) \intersect Offend(v))
    <3>1. n = Cardinality((1 .. k) \intersect Offend(v))
      BY DEF SoFar, FailuresSoFar, n
    <3>2. QED
      BY <3>1, <1>5, CountTo
  <2>4. QED
    BY <2>1, <2>2, <2>3 DEF FailuresSoFar
<1>7. NotesSoFar(v, s, k + 1)
  <2>1. \A u : SeenUID(s, u) <=> SeenUID(r, u)
    BY <1>3 DEF SeenUID
  <2>2. ASSUME NEW u
        PROVE  SeenUID(r, u) <=> \E j \in 1 .. k + 1 : Kept(v, j) /\ EntryAt(v, j).text.uid = u
    <3>1. SeenUID(r, u) <=> \E j \in 1 .. k : Kept(v, j) /\ EntryAt(v, j).text.uid = u
      BY DEF SoFar, NotesSoFar
    <3>2. \A j : j \in 1 .. k + 1 <=> j \in 1 .. k \/ j = k + 1
      OBVIOUS
    <3>3. Kept(v, k + 1) => SeenUID(r, EntryAt(v, k + 1).text.uid)
      OBVIOUS
    <3>4. QED
      BY <3>1, <3>2, <3>3, Zenon
  <2>3. 1 .. k \subseteq 1 .. k + 1
    OBVIOUS
  <2>4. QED
    BY <1>3, <2>1, <2>2, <2>3 DEF SoFar, NotesSoFar
<1>8. FatesSoFar(v, s, k + 1)
  <2>1. \A j : j \in 1 .. k + 1 <=> j \in 1 .. k \/ j = k + 1
    OBVIOUS
  <2>2. QED
    BY <1>3, <2>1 DEF SoFar, FatesSoFar
<1>9. QED
  BY <1>6, <1>7, <1>8 DEF SoFar

(* A note is kept under a uid that none before it has. *)
LEMMA NoteIsAdded ==
    ASSUME NEW v \in AnyVault, NEW r \in Results(v), NEW k \in Nat, k < Len(v.entries),
           SoFar(v, r, k), k + 1 \notin Offend(v),
           Kept(v, k + 1), ~SeenUID(r, EntryAt(v, k + 1).text.uid)
    PROVE  SoFar(v, [r EXCEPT !.notes = Append(r.notes, NoteOf(v, DatesOf(v), EntryAt(v, k + 1)))], k + 1)
<1> DEFINE e == EntryAt(v, k + 1)
           x0 == NoteOf(v, DatesOf(v), e)
           s == [r EXCEPT !.notes = Append(r.notes, x0)]
<1> SUFFICES SoFar(v, s, k + 1)
  OBVIOUS
<1>1. Len(v.entries) \in Nat /\ k + 1 \in 1 .. Len(v.entries) /\ e \in EntryOf(v)
  BY VaultForm DEF EntryAt
<1>2. x0 \in NotesOf(v) /\ x0.path = PathOf(e) /\ x0.uid = e.text.uid
      /\ IsDated(x0.path, x0.updated, v.log)
  <2>1. x0 \in NotesOf(v)
    BY <1>1, NotesAreTyped DEF Kept
  <2>2. PathOf(e) \in Paths
    BY <1>1, PathsAreKnown
  <2>3. IsDated(PathOf(e), ResolveUpdated(PathOf(e), DatesOf(v)), v.log)
    BY <2>2, DatesAreNewest DEF DatesOf
  <2>4. QED
    BY <2>1, <2>3 DEF NoteOf
<1>3. s.failures = r.failures /\ s.skipped = r.skipped /\ s.notes = Append(r.notes, x0)
  BY DEF Results
<1>4. r.notes \in Seq(NotesOf(v))
  BY ResultsGrow
<1>5. Walked(v, e) /\ EntryAt(v, k + 1) = e
  BY DEF Kept
<1> HIDE DEF x0, s, e
<1> DEFINE n == Len(r.notes)
<1>6. /\ n \in Nat /\ DOMAIN r.notes = 1 .. n /\ DOMAIN s.notes = 1 .. n + 1
      /\ \A j \in 1 .. n : s.notes[j] = r.notes[j]
      /\ s.notes[n + 1] = x0
  BY <1>2, <1>3, <1>4, Appended
<1> HIDE DEF n
<1>7. \A j : j \in 1 .. k + 1 <=> j \in 1 .. k \/ j = k + 1
  OBVIOUS
<1>8. \A x \in DOMAIN s.notes : x = n + 1 \/ (x \in DOMAIN r.notes /\ s.notes[x] = r.notes[x])
  BY <1>6
<1>9. FailuresSoFar(v, s, k + 1)
  <2>1. Cardinality((1 .. k + 1) \intersect Offend(v)) = Cardinality((1 .. k) \intersect Offend(v))
    <3>1. (1 .. k + 1) \intersect Offend(v) = (1 .. k) \intersect Offend(v)
      BY <1>7
    <3>2. QED
      BY <3>1
  <2>2. QED
    BY <1>3, <1>7, <2>1 DEF SoFar, FailuresSoFar
<1>10. NotesSoFar(v, s, k + 1)
  <2>1. ASSUME NEW u PROVE SeenUID(s, u) <=> SeenUID(r, u) \/ u = e.text.uid
    <3>1. n + 1 \in DOMAIN s.notes /\ \A j \in DOMAIN r.notes : j \in DOMAIN s.notes
      BY <1>6
    <3>2. QED
      BY <1>2, <1>6, <1>8, <3>1, Zenon DEF SeenUID
  <2>2. ASSUME NEW u
        PROVE  SeenUID(s, u) <=> \E j \in 1 .. k + 1 : Kept(v, j) /\ EntryAt(v, j).text.uid = u
    <3>1. SeenUID(r, u) <=> \E j \in 1 .. k : Kept(v, j) /\ EntryAt(v, j).text.uid = u
      BY DEF SoFar, NotesSoFar
    <3>2. QED
      BY <3>1, <2>1, <1>7, <1>5, Zenon
  <2>3. ASSUME NEW x \in DOMAIN s.notes
        PROVE  /\ \E i \in 1 .. k + 1 : Walked(v, EntryAt(v, i)) /\ s.notes[x].path = PathOf(EntryAt(v, i))
               /\ IsDated(s.notes[x].path, s.notes[x].updated, v.log)
    <3>1. CASE x = n + 1
      BY <3>1, <1>2, <1>5, <1>6, <1>7, Zenon
    <3>2. CASE x \in DOMAIN r.notes /\ s.notes[x] = r.notes[x]
      BY <3>2, <1>7, Zenon DEF SoFar, NotesSoFar
    <3>3. QED
      BY <3>1, <3>2, <1>8
  <2>4. ASSUME NEW x \in DOMAIN s.notes, NEW y \in DOMAIN s.notes, s.notes[x].uid = s.notes[y].uid
        PROVE  x = y
    <3>1. \A z \in DOMAIN r.notes : r.notes[z].uid # e.text.uid
      BY <1>5 DEF SeenUID
    <3>2. \A z \in DOMAIN s.notes : z # n + 1 => z \in DOMAIN r.notes /\ s.notes[z] = r.notes[z]
      BY <1>8
    <3>3. CASE x = n + 1 \/ y = n + 1
      BY <3>1, <3>2, <3>3, <2>4, <1>2, <1>6, Zenon
    <3>4. CASE x # n + 1 /\ y # n + 1
      <4>1. r.notes[x].uid = r.notes[y].uid /\ x \in DOMAIN r.notes /\ y \in DOMAIN r.notes
        BY <3>2, <3>4, <2>4
      <4>2. QED
        BY <4>1 DEF SoFar, NotesSoFar
    <3>5. QED
      BY <3>3, <3>4
  <2>5. QED
    BY <2>2, <2>3, <2>4, Zenon DEF NotesSoFar
<1>11. FatesSoFar(v, s, k + 1)
  <2>1. ASSUME NEW i \in 1 .. k + 1, Walked(v, EntryAt(v, i)), i \notin Offend(v)
        PROVE  NamedBy(v, i, s.notes) \/ ListedBy(v, i, s.skipped)
    <3>1. CASE i = k + 1
      <4>1. n + 1 \in DOMAIN s.notes
        BY <1>6
      <4>2. QED
        BY <3>1, <4>1, <1>2, <1>5, <1>6, Zenon DEF NamedBy
    <3>2. CASE i \in 1 .. k
      <4>1. NamedBy(v, i, r.notes) \/ ListedBy(v, i, r.skipped)
        BY <3>2, <2>1 DEF SoFar, FatesSoFar
      <4>2. NamedBy(v, i, r.notes) => NamedBy(v, i, s.notes)
        <5>1. \A j \in DOMAIN r.notes : j \in DOMAIN s.notes /\ s.notes[j] = r.notes[j]
          BY <1>6
        <5>2. QED
          BY <5>1, Zenon DEF NamedBy
      <4>3. QED
        BY <4>1, <4>2, <1>3
    <3>3. QED
      BY <3>1, <3>2
  <2>2. QED
    BY <2>1, <1>3, <1>7 DEF SoFar, FatesSoFar
<1>12. QED
  BY <1>9, <1>10, <1>11 DEF SoFar

(* An empty file is skipped, and what is not walked is nothing. *)
LEMMA SkippedIsListed ==
    ASSUME NEW v \in AnyVault, NEW r \in Results(v), NEW k \in Nat, k < Len(v.entries),
           SoFar(v, r, k), k + 1 \notin Offend(v), ~Kept(v, k + 1), NEW s,
           s.notes = r.notes, s.failures = r.failures,
           \/ ~Walked(v, EntryAt(v, k + 1)) /\ s.skipped = r.skipped
           \/ /\ Walked(v, EntryAt(v, k + 1))
              /\ s.skipped = Append(r.skipped, PathOf(EntryAt(v, k + 1)))
    PROVE  SoFar(v, s, k + 1)
<1> DEFINE e == EntryAt(v, k + 1)
           n == Len(r.skipped)
<1>1. Len(v.entries) \in Nat /\ k + 1 \in 1 .. Len(v.entries) /\ e \in EntryOf(v)
  BY VaultForm DEF EntryAt
<1>2. PathOf(e) \in Paths /\ r.skipped \in Seq(Paths)
  BY <1>1, PathsAreKnown, ResultsGrow
<1>3. /\ n \in Nat /\ DOMAIN r.skipped = 1 .. n
      /\ Walked(v, e) => /\ DOMAIN s.skipped = 1 .. n + 1 /\ s.skipped[n + 1] = PathOf(e)
                         /\ \A j \in 1 .. n : s.skipped[j] = r.skipped[j]
  <2> DEFINE path == PathOf(e)
             a == Append(r.skipped, path)
  <2>1. Walked(v, e) => s.skipped = a
    OBVIOUS
  <2>2. /\ n \in Nat /\ DOMAIN r.skipped = 1 .. n /\ DOMAIN a = 1 .. n + 1
        /\ (\A j \in 1 .. n : a[j] = r.skipped[j]) /\ a[n + 1] = path
    <3> HIDE DEF path
    <3>1. path \in Paths
      BY <1>2 DEF path
    <3>2. QED
      BY <1>2, <3>1, Appended
  <2> HIDE DEF a, path, n
  <2>3. CASE Walked(v, e)
    BY <2>1, <2>2, <2>3 DEF path
  <2>4. QED
    BY <2>2, <2>3
<1> HIDE DEF n
<1>4. \A j : j \in 1 .. k + 1 <=> j \in 1 .. k \/ j = k + 1
  OBVIOUS
<1>5. \A j \in DOMAIN r.skipped : j \in DOMAIN s.skipped /\ s.skipped[j] = r.skipped[j]
  BY <1>3
<1>6. \A j \in DOMAIN s.skipped : \/ j \in DOMAIN r.skipped /\ s.skipped[j] = r.skipped[j]
                                  \/ Walked(v, e) /\ s.skipped[j] = PathOf(e)
  BY <1>3
<1>7. FailuresSoFar(v, s, k + 1)
  <2>1. (1 .. k + 1) \intersect Offend(v) = (1 .. k) \intersect Offend(v)
    BY <1>4
  <2>2. QED
    BY <1>4, <2>1 DEF SoFar, FailuresSoFar
<1>8. NotesSoFar(v, s, k + 1)
  <2>1. \A u : SeenUID(s, u) <=> SeenUID(r, u)
    BY DEF SeenUID
  <2>2. ASSUME NEW u
        PROVE  SeenUID(s, u) <=> \E j \in 1 .. k + 1 : Kept(v, j) /\ EntryAt(v, j).text.uid = u
    BY <2>1, <1>4, Zenon DEF SoFar, NotesSoFar
  <2>3. ASSUME NEW x \in DOMAIN s.notes
        PROVE  /\ \E i \in 1 .. k + 1 : Walked(v, EntryAt(v, i)) /\ s.notes[x].path = PathOf(EntryAt(v, i))
               /\ IsDated(s.notes[x].path, s.notes[x].updated, v.log)
    <3>1. /\ \E i \in 1 .. k : Walked(v, EntryAt(v, i)) /\ r.notes[x].path = PathOf(EntryAt(v, i))
          /\ IsDated(r.notes[x].path, r.notes[x].updated, v.log)
      BY DEF SoFar, NotesSoFar
    <3>2. QED
      BY <3>1, <1>4
  <2>4. \A x, y \in DOMAIN s.notes : s.notes[x].uid = s.notes[y].uid => x = y
    BY DEF SoFar, NotesSoFar
  <2>5. QED
    BY <2>2, <2>3, <2>4, Zenon DEF NotesSoFar
<1>9. FatesSoFar(v, s, k + 1)
  <2>1. ASSUME NEW x \in DOMAIN s.skipped
        PROVE  \E i \in 1 .. k + 1 : Walked(v, EntryAt(v, i)) /\ s.skipped[x] = PathOf(EntryAt(v, i))
    BY <1>4, <1>6, Zenon DEF SoFar, FatesSoFar
  <2>2. ASSUME NEW i \in 1 .. k + 1, Walked(v, EntryAt(v, i)), i \notin Offend(v)
        PROVE  NamedBy(v, i, s.notes) \/ ListedBy(v, i, s.skipped)
    <3>1. CASE i = k + 1
      <4>1. n + 1 \in DOMAIN s.skipped /\ s.skipped[n + 1] = PathOf(EntryAt(v, i))
        BY <3>1, <2>2, <1>3
      <4>2. QED
        BY <4>1 DEF ListedBy
    <3>2. CASE i \in 1 .. k
      BY <3>2, <2>2, <1>5, Zenon DEF SoFar, FatesSoFar, ListedBy
    <3>3. QED
      BY <3>1, <3>2
  <2>3. QED
    BY <2>1, <2>2 DEF FatesSoFar
<1>10. QED
  BY <1>7, <1>8, <1>9 DEF SoFar

LEMMA ReadSoFarStep ==
    ASSUME NEW v \in AnyVault, NEW r \in Results(v), NEW k \in Nat, k < Len(v.entries), SoFar(v, r, k)
    PROVE  SoFar(v, Read(v, DatesOf(v), r, EntryAt(v, k + 1)), k + 1)
<1> DEFINE e == EntryAt(v, k + 1)
           dates == DatesOf(v)
           s == Read(v, dates, r, e)
<1> SUFFICES SoFar(v, s, k + 1)
  OBVIOUS
<1>1. Len(v.entries) \in Nat /\ k + 1 \in 1 .. Len(v.entries) /\ e \in EntryOf(v) /\ e.link \in BOOLEAN
  <2>1. Len(v.entries) \in Nat /\ k + 1 \in 1 .. Len(v.entries) /\ e \in EntryOf(v)
    BY VaultForm DEF EntryAt
  <2>2. QED
    BY <2>1 DEF EntryOf
<1> HIDE DEF dates
<1>2. k + 1 \in Offend(v) <=> /\ Walked(v, e) /\ (e.link \/ e.text.head # "empty")
                              /\ ~Formed(v, e) \/ SeenUID(r, e.text.uid)
  <2>1. NotesSoFar(v, r, (k + 1) - 1)
    BY DEF SoFar
  <2>2. QED
    BY <2>1, <1>1, OffendRule
<1>3. Kept(v, k + 1) <=> Walked(v, e) /\ Formed(v, e)
  BY DEF Kept
<1>4. Formed(v, e) => ~e.link /\ e.text.head # "empty"
  BY DEF Formed
<1>5. CASE ~Walked(v, e)
  <2>1. s = r
    BY <1>1, <1>5, EntryCases
  <2>2. QED
    BY <2>1, <1>2, <1>3, <1>5, SkippedIsListed
<1>6. CASE Walked(v, e) /\ ~e.link /\ e.text.head = "empty"
  <2>1. s = [r EXCEPT !.skipped = Append(r.skipped, PathOf(e))]
    <3>1. \A d \in EntryOf(v) : (Walked(v, d) /\ ~d.link /\ d.text.head = "empty")
            => Read(v, dates, r, d) = [r EXCEPT !.skipped = Append(r.skipped, PathOf(d))]
      BY EntryCases
    <3> HIDE DEF e
    <3>2. QED
      BY <3>1, <1>1, <1>6
  <2>2. s.notes = r.notes /\ s.failures = r.failures /\ s.skipped = Append(r.skipped, PathOf(e))
    BY <2>1 DEF Results
  <2> HIDE DEF s
  <2>3. QED
    BY <2>2, <1>2, <1>3, <1>4, <1>6, SkippedIsListed
<1>7. CASE Walked(v, e) /\ ~Formed(v, e) /\ (e.link \/ e.text.head # "empty")
  <2>1. PICK why \in Whys(v) : s = Fail(r, PathOf(e), why)
    BY <1>1, <1>7, EntryCases
  <2>2. QED
    BY <2>1, <1>2, <1>3, <1>7, FailIsCounted
<1>8. CASE Walked(v, e) /\ Formed(v, e) /\ SeenUID(r, e.text.uid)
  <2>1. PICK why \in Whys(v) : s = Fail(r, PathOf(e), why)
    BY <1>1, <1>8, DuplicateFails
  <2>2. QED
    BY <2>1, <1>2, <1>3, <1>4, <1>8, FailIsCounted
<1>9. CASE Walked(v, e) /\ Formed(v, e) /\ ~SeenUID(r, e.text.uid)
  <2>1. s = [r EXCEPT !.notes = Append(r.notes, NoteOf(v, dates, e))]
    BY <1>1, <1>9, EntryCases
  <2>2. QED
    BY <2>1, <1>2, <1>3, <1>9, NoteIsAdded DEF dates
<1>10. QED
  BY <1>1, <1>5, <1>6, <1>7, <1>8, <1>9

LEMMA ReadEverything ==
    ASSUME NEW v \in AnyVault
    PROVE  \E all \in Results(v) : ScanVault(v) = ScanOf(v, all) /\ SoFar(v, all, Len(v.entries))
<1> DEFINE n == Len(v.entries)
<1>1. n \in Nat
  BY VaultForm
<1>2. PICK f : ReadRun(v, f) /\ ScanVault(v) = ScanOf(v, f[n])
  BY ReadRuns
<1>3. /\ f \in [0 .. n -> Results(v)] /\ f[0] = Nothing
      /\ \A k \in 1 .. n : f[k] = Read(v, DatesOf(v), f[k - 1], EntryAt(v, k))
  BY <1>2 DEF ReadRun, EntryAt
<1> DEFINE T == {k \in 0 .. n : SoFar(v, f[k], k)}
<1>4. 0 \in T
  BY <1>1, <1>3, NothingSoFar
<1>5. ASSUME NEW k \in 0 .. n, k \in T, k < n
      PROVE  k + 1 \in T
  <2>1. k + 1 \in 1 .. n /\ (k + 1) - 1 = k /\ k \in Nat /\ f[k] \in Results(v)
    BY <1>1, <1>3, <1>5
  <2>2. f[k + 1] = Read(v, DatesOf(v), f[k], EntryAt(v, k + 1))
    BY <1>3, <2>1
  <2>3. SoFar(v, f[k + 1], k + 1)
    BY <1>5, <2>1, <2>2, ReadSoFarStep
  <2>4. QED
    BY <2>1, <2>3
<1>6. n \in T
  <2> HIDE DEF T, n
  <2>1. 0 .. n \subseteq T
    BY <1>1, <1>4, <1>5, UpTo
  <2>2. QED
    BY <2>1, <1>1
<1>7. f[n] \in Results(v)
  BY <1>1, <1>3
<1>8. QED
  BY <1>2, <1>6, <1>7

Apart(seq) == \A x, y \in DOMAIN seq : seq[x].uid = seq[y].uid => x = y

(* A scan is whole or it names every file that offends. *)
LEMMA ScanHasOneFate ==
    ASSUME NEW v \in AnyVault
    PROVE  /\ IsWholeOrNamesEvery(v, ScanVault(v))
           /\ ScanVault(v).notes \in Seq(NotesOf(v)) /\ Apart(ScanVault(v).notes)
<1> DEFINE r == ScanVault(v)
           n == Len(v.entries)
<1>1. PICK all \in Results(v) : r = ScanOf(v, all) /\ SoFar(v, all, n)
  BY ReadEverything
<1>2. n \in Nat /\ DOMAIN v.entries = 1 .. n
  BY VaultForm
<1> HIDE DEF r, n
<1> SUFFICES IsWholeOrNamesEvery(v, r) /\ r.notes \in Seq(NotesOf(v)) /\ Apart(r.notes)
  BY DEF r
<1>3. CASE v.fails # "none"
  <2>1. r = Fail(Nothing, <<>>, <<v.fails>>)
    BY <1>1, <1>3 DEF ScanOf
  <2>2. r.notes = <<>> /\ r.skipped = <<>> /\ r.failures # <<>>
    BY <2>1 DEF Fail, Nothing
  <2>3. QED
    BY <2>2, <1>3 DEF IsWholeOrNamesEvery, Apart
<1>4. CASE v.fails = "none"
  <2> DEFINE fails == all.failures
  <2>1. fails \in Seq(Errors(v)) /\ Len(fails) \in Nat /\ DOMAIN fails = 1 .. Len(fails)
    BY ResultsGrow
  <2>2. r.failures = fails /\ (fails # <<>> => r.notes = <<>> /\ r.skipped = <<>>)
        /\ (fails = <<>> => r = all)
    <3>1. CASE fails # <<>>
      <4>1. r = [Nothing EXCEPT !.failures = fails]
        BY <1>1, <1>4, <3>1 DEF ScanOf
      <4>2. QED
        BY <4>1, <3>1 DEF Nothing
    <3>2. CASE fails = <<>>
      BY <1>1, <1>4, <3>2 DEF ScanOf
    <3>3. QED
      BY <3>1, <3>2
  <2>3. Offend(v) \subseteq 1 .. n
    BY <1>2 DEF Offend
  <2>4. PathsIn(fails) = {PathOf(v.entries[i]) : i \in Offend(v)}
    <3>1. ASSUME NEW x \in DOMAIN fails
          PROVE  \E i \in Offend(v) : fails[x].path = PathOf(v.entries[i])
      BY <1>1, Zenon DEF SoFar, FailuresSoFar, EntryAt
    <3>2. ASSUME NEW i \in Offend(v)
          PROVE  \E x \in DOMAIN fails : fails[x].path = PathOf(v.entries[i])
      <4>1. i \in 1 .. n
        BY <2>3
      <4>2. QED
        BY <1>1, <4>1, Zenon DEF SoFar, FailuresSoFar, NamedBy, EntryAt
    <3> HIDE DEF fails
    <3>3. QED
      BY <3>1, <3>2 DEF PathsIn
  <2>5. Len(fails) = Cardinality(Offend(v))
    <3>1. (1 .. n) \intersect Offend(v) = Offend(v)
      BY <2>3
    <3>2. QED
      BY <1>1, <3>1 DEF SoFar, FailuresSoFar
  <2>6. ASSUME Offend(v) = {}
        PROVE  r = all
    <3>1. \A x \in DOMAIN fails : FALSE
      BY <1>1, <2>6, Zenon DEF SoFar, FailuresSoFar
    <3>2. fails = <<>>
      <4> HIDE DEF fails
      <4>1. 1 \notin DOMAIN fails
        BY <3>1, Zenon
      <4>2. QED
        BY <2>1, <4>1
    <3>3. QED
      BY <2>2, <3>2
  <2>7. ASSUME Offend(v) = {}
        PROVE  /\ PathsIn(r.notes) \union {r.skipped[k] : k \in DOMAIN r.skipped}
                    = {PathOf(v.entries[i]) : i \in {i \in DOMAIN v.entries : Walked(v, v.entries[i])}}
               /\ \A k \in DOMAIN r.notes : IsDated(r.notes[k].path, r.notes[k].updated, v.log)
    <3>1. SoFar(v, r, n)
      BY <1>1, <2>6, <2>7
    <3>2. ASSUME NEW x \in DOMAIN r.notes
          PROVE  /\ \E i \in 1 .. n : Walked(v, v.entries[i]) /\ r.notes[x].path = PathOf(v.entries[i])
                 /\ IsDated(r.notes[x].path, r.notes[x].updated, v.log)
      BY <3>1, Zenon DEF SoFar, NotesSoFar, EntryAt
    <3>3. ASSUME NEW x \in DOMAIN r.skipped
          PROVE  \E i \in 1 .. n : Walked(v, v.entries[i]) /\ r.skipped[x] = PathOf(v.entries[i])
      BY <3>1, Zenon DEF SoFar, FatesSoFar, EntryAt
    <3>4. ASSUME NEW i \in 1 .. n, Walked(v, v.entries[i])
          PROVE  \/ \E x \in DOMAIN r.notes : r.notes[x].path = PathOf(v.entries[i])
                 \/ \E x \in DOMAIN r.skipped : r.skipped[x] = PathOf(v.entries[i])
      <4>1. i \notin Offend(v)
        BY <2>7
      <4>2. QED
        BY <3>1, <3>4, <4>1, Zenon DEF SoFar, FatesSoFar, EntryAt, NamedBy, ListedBy
    <3>5. QED
      BY <1>2, <3>2, <3>3, <3>4 DEF PathsIn
  <2>8. IsWholeOrNamesEvery(v, r)
    BY <1>4, <2>2, <2>4, <2>5, <2>7 DEF IsWholeOrNamesEvery
  <2>9. r.notes \in Seq(NotesOf(v)) /\ Apart(r.notes)
    <3>1. CASE r.notes = <<>>
      BY <3>1 DEF Apart
    <3>2. CASE r = all
      <4>1. Apart(all.notes)
        BY <1>1, Zenon DEF SoFar, NotesSoFar, Apart
      <4>2. QED
        BY <3>2, <4>1, ResultsGrow
    <3>3. QED
      BY <2>2, <3>1, <3>2
  <2>10. QED
    BY <2>8, <2>9
<1>5. QED
  BY <1>3, <1>4

-----------------------------------------------------------------------------
(* The scans of a run are joined. *)

AnyNote == UNION {NotesOf(v) : v \in AnyVault}

ScansAre(ss) ==
    /\ Len(ss) \in Nat /\ DOMAIN ss = 1 .. Len(ss)
    /\ \A s \in DOMAIN ss : ss[s].notes \in Seq(AnyNote) /\ Apart(ss[s].notes)

Joined(seq, notes) == seq \o notes

FlatRun(ss, f) ==
    /\ f \in [0 .. Len(ss) -> Seq(AnyNote)] /\ f[0] = <<>>
    /\ \A k \in 1 .. Len(ss) : f[k] = Joined(f[k - 1], ss[k].notes)

LEMMA FlatRuns ==
    ASSUME NEW ss, ScansAre(ss)
    PROVE  \E f : FlatRun(ss, f) /\ Flatten(ss) = f[Len(ss)]
<1> DEFINE n == Len(ss)
           S == Seq(AnyNote)
           step == [x \in (1 .. n) \X S |-> Joined(x[2], ss[x[1]].notes)]
           Unroll(g) == [k \in 0 .. n |-> IF k = 0 THEN <<>> ELSE Joined(g[k - 1], ss[k].notes)]
           scan == CHOOSE g : g = Unroll(g)
<1>1. n \in Nat /\ \A k \in 1 .. n : ss[k].notes \in S
  BY DEF ScansAre
<1>2. <<>> \in S
  OBVIOUS
<1>3. step \in [(1 .. n) \X S -> S]
  <2>1. ASSUME NEW k \in 1 .. n, NEW s \in S PROVE Joined(s, ss[k].notes) \in S
    BY <1>1 DEF Joined
  <2>2. QED
    BY <2>1
<1>4. PICK f : Steps(f, S, n, <<>>, step)
  <2> HIDE DEF step, n, S
  <2>1. QED
    BY <1>1, <1>2, <1>3, Recursion
<1>5. \A k \in 1 .. n, s \in S : step[<<k, s>>] = Joined(s, ss[k].notes)
  OBVIOUS
<1>6. /\ f \in [0 .. n -> S] /\ f[0] = <<>>
      /\ \A k \in 1 .. n : f[k] = Joined(f[k - 1], ss[k].notes)
  <2> HIDE DEF step, S, n
  <2>1. f \in [0 .. n -> S] /\ f[0] = <<>> /\ \A k \in 1 .. n : f[k] = step[<<k, f[k - 1]>>]
    BY <1>4 DEF Steps
  <2>2. \A k \in 1 .. n : k - 1 \in 0 .. n /\ f[k - 1] \in S
    BY <2>1, <1>1
  <2>3. QED
    BY <2>1, <2>2, <1>5
<1>7. f = Unroll(f)
  <2> HIDE DEF step, n, S
  <2>1. QED
    BY <1>6
<1>8. scan = Unroll(scan)
  BY <1>7, Zenon
<1>9. Steps(scan, S, n, <<>>, step)
  <2> HIDE DEF scan, step, n, S
  <2>1. scan = [k \in 0 .. n |-> scan[k]]
    BY <1>8
  <2>2. scan[0] = <<>>
    BY <1>8, <1>1
  <2>3. ASSUME NEW k \in 1 .. n, scan[k - 1] \in S PROVE scan[k] = step[<<k, scan[k - 1]>>]
    <3>1. scan[k] = Joined(scan[k - 1], ss[k].notes)
      BY <1>8, <1>1
    <3>2. QED
      BY <3>1, <2>3, <1>5
  <2>4. QED
    BY <1>1, <1>2, <1>3, <2>1, <2>2, <2>3, Unrolled
<1>10. /\ scan \in [0 .. n -> S] /\ scan[0] = <<>>
       /\ \A k \in 1 .. n : scan[k] = Joined(scan[k - 1], ss[k].notes)
  <2> HIDE DEF scan, step, n, S
  <2>1. /\ scan \in [0 .. n -> S] /\ scan[0] = <<>>
        /\ \A k \in 1 .. n : scan[k] = step[<<k, scan[k - 1]>>]
    BY <1>9 DEF Steps
  <2>2. \A k \in 1 .. n : k - 1 \in 0 .. n /\ scan[k - 1] \in S
    BY <2>1, <1>1
  <2>3. QED
    BY <2>1, <2>2, <1>5
<1>11. Flatten(ss) = scan[n]
  BY Zenon DEF Flatten, Joined
<1>12. QED
  <2> HIDE DEF scan
  <2>1. FlatRun(ss, scan)
    BY <1>10 DEF FlatRun
  <2>2. QED
    BY <2>1, <1>11

NoneShared(ss) == \A i, j \in DOMAIN ss : i < j => ~CheckCrossVaultDuplicateUIDs(ss[i], ss[j])

JoinedSoFar(ss, seq, k) ==
    /\ \A x \in DOMAIN seq : \E s \in 1 .. k : \E m \in DOMAIN ss[s].notes : seq[x] = ss[s].notes[m]
    /\ \A s \in 1 .. k : \A m \in DOMAIN ss[s].notes : \E x \in DOMAIN seq : seq[x] = ss[s].notes[m]
    /\ Apart(seq)

LEMMA JoinedStep ==
    ASSUME NEW ss, ScansAre(ss), NoneShared(ss), NEW k \in Nat, k < Len(ss),
           NEW a \in Seq(AnyNote), JoinedSoFar(ss, a, k)
    PROVE  JoinedSoFar(ss, Joined(a, ss[k + 1].notes), k + 1)
<1> DEFINE b == ss[k + 1].notes
           g == Joined(a, b)
           n == Len(a)
<1>1. k + 1 \in DOMAIN ss /\ b \in Seq(AnyNote) /\ Apart(b) /\ Len(ss) \in Nat
  BY DEF ScansAre
<1> HIDE DEF b
<1>2. /\ n \in Nat /\ Len(b) \in Nat
      /\ DOMAIN a = 1 .. n /\ DOMAIN b = 1 .. Len(b) /\ DOMAIN g = 1 .. n + Len(b)
      /\ \A x \in 1 .. n : g[x] = a[x]
      /\ \A x \in 1 .. Len(b) : g[n + x] = b[x]
  BY <1>1 DEF Joined
<1> HIDE DEF g, n
<1>3. ASSUME NEW x \in DOMAIN g
      PROVE  \/ x \in DOMAIN a /\ g[x] = a[x]
             \/ x - n \in DOMAIN b /\ g[x] = b[x - n]
  <2>1. x \in 1 .. n + Len(b)
    BY <1>2
  <2>2. CASE x <= n
    BY <1>2, <2>1, <2>2
  <2>3. CASE ~(x <= n)
    <3>1. x - n \in 1 .. Len(b) /\ n + (x - n) = x
      BY <1>2, <2>1, <2>3
    <3>2. QED
      BY <3>1, <1>2
  <2>4. QED
    BY <2>2, <2>3
<1>4. \A s : s \in 1 .. k + 1 <=> s \in 1 .. k \/ s = k + 1
  OBVIOUS
<1>5. ASSUME NEW x \in DOMAIN g
      PROVE  \E s \in 1 .. k + 1 : \E m \in DOMAIN ss[s].notes : g[x] = ss[s].notes[m]
  <2>1. CASE x \in DOMAIN a /\ g[x] = a[x]
    <3>1. PICK s \in 1 .. k : \E m \in DOMAIN ss[s].notes : a[x] = ss[s].notes[m]
      BY <2>1, Zenon DEF JoinedSoFar
    <3>2. s \in 1 .. k + 1
      OBVIOUS
    <3>3. \E m \in DOMAIN ss[s].notes : g[x] = ss[s].notes[m]
      BY <3>1, <2>1
    <3>4. QED
      BY <3>2, <3>3, Zenon
  <2>2. CASE x - n \in DOMAIN b /\ g[x] = b[x - n]
    BY <2>2, <1>4, Zenon DEF b
  <2>3. QED
    BY <2>1, <2>2, <1>3
<1>6. ASSUME NEW s \in 1 .. k + 1, NEW m \in DOMAIN ss[s].notes
      PROVE  \E x \in DOMAIN g : g[x] = ss[s].notes[m]
  <2>1. CASE s \in 1 .. k
    <3>1. PICK x \in DOMAIN a : a[x] = ss[s].notes[m]
      BY <2>1, Zenon DEF JoinedSoFar
    <3>2. x \in DOMAIN g /\ g[x] = a[x]
      BY <1>2
    <3>3. QED
      BY <3>1, <3>2
  <2>2. CASE s = k + 1
    <3>1. m \in DOMAIN b /\ ss[s].notes[m] = b[m]
      BY <2>2 DEF b
    <3>2. n + m \in DOMAIN g /\ g[n + m] = b[m]
      BY <1>2, <3>1
    <3>3. QED
      BY <3>1, <3>2
  <2>3. QED
    BY <2>1, <2>2
<1>7. ASSUME NEW x \in DOMAIN a, NEW y \in DOMAIN b PROVE a[x].uid # b[y].uid
  <2>1. PICK s \in 1 .. k : \E m \in DOMAIN ss[s].notes : a[x] = ss[s].notes[m]
    BY Zenon DEF JoinedSoFar
  <2>2. s \in DOMAIN ss /\ s < k + 1
    BY <1>1 DEF ScansAre
  <2>3. ~CheckCrossVaultDuplicateUIDs(ss[s], ss[k + 1])
    BY <1>1, <2>2 DEF NoneShared
  <2>4. ~SeenUID(ss[s], b[y].uid)
    BY <2>3, Zenon DEF CheckCrossVaultDuplicateUIDs, b
  <2>5. QED
    BY <2>1, <2>4, Zenon DEF SeenUID
<1>8. Apart(g)
  <2> SUFFICES ASSUME NEW x \in DOMAIN g, NEW y \in DOMAIN g, g[x].uid = g[y].uid
               PROVE  x = y
    BY DEF Apart
  <2>1. CASE (x \in DOMAIN a /\ g[x] = a[x]) /\ (y \in DOMAIN a /\ g[y] = a[y])
    BY <2>1 DEF JoinedSoFar, Apart
  <2>2. CASE (x \in DOMAIN a /\ g[x] = a[x]) /\ (y - n \in DOMAIN b /\ g[y] = b[y - n])
    BY <2>2, <1>7, Zenon
  <2>3. CASE (x - n \in DOMAIN b /\ g[x] = b[x - n]) /\ (y \in DOMAIN a /\ g[y] = a[y])
    BY <2>3, <1>7, Zenon
  <2>4. CASE (x - n \in DOMAIN b /\ g[x] = b[x - n]) /\ (y - n \in DOMAIN b /\ g[y] = b[y - n])
    <3>1. x - n = y - n
      BY <2>4, <1>1, Zenon DEF Apart
    <3>2. QED
      BY <3>1, <1>2
  <2>5. QED
    BY <1>3, <2>1, <2>2, <2>3, <2>4, Zenon
<1>9. JoinedSoFar(ss, g, k + 1)
  BY <1>5, <1>6, <1>8, Zenon DEF JoinedSoFar
<1>10. QED
  BY <1>9 DEF g, b

(* All the notes of all the scans, each under a uid of its own. *)
LEMMA FlattenHasEvery ==
    ASSUME NEW ss, ScansAre(ss), NoneShared(ss)
    PROVE  JoinedSoFar(ss, Flatten(ss), Len(ss))
<1> DEFINE n == Len(ss)
<1>1. n \in Nat
  BY DEF ScansAre
<1>2. PICK f : FlatRun(ss, f) /\ Flatten(ss) = f[n]
  BY FlatRuns
<1>3. /\ f \in [0 .. n -> Seq(AnyNote)] /\ f[0] = <<>>
      /\ \A k \in 1 .. n : f[k] = Joined(f[k - 1], ss[k].notes)
  BY <1>2 DEF FlatRun
<1> DEFINE T == {k \in 0 .. n : JoinedSoFar(ss, f[k], k)}
<1>4. 0 \in T
  BY <1>1, <1>3 DEF JoinedSoFar, Apart
<1>5. ASSUME NEW k \in 0 .. n, k \in T, k < n
      PROVE  k + 1 \in T
  <2>1. k + 1 \in 1 .. n /\ (k + 1) - 1 = k /\ k \in Nat /\ f[k] \in Seq(AnyNote)
    BY <1>1, <1>3, <1>5
  <2>2. f[k + 1] = Joined(f[k], ss[k + 1].notes)
    BY <1>3, <2>1
  <2>3. JoinedSoFar(ss, f[k + 1], k + 1)
    BY <1>5, <2>1, <2>2, JoinedStep
  <2>4. QED
    BY <2>1, <2>3
<1>6. n \in T
  <2> HIDE DEF T, n
  <2>1. 0 .. n \subseteq T
    BY <1>1, <1>4, <1>5, UpTo
  <2>2. QED
    BY <2>1, <1>1
<1>7. QED
  BY <1>2, <1>6

-----------------------------------------------------------------------------
(* The run. *)

VaultInv ==
    /\ found \in Seq(AnyVault) /\ Len(scans) = Len(found) /\ DOMAIN scans = 1 .. Len(found)
    /\ Len(scans) <= Len(Selected)
    /\ \A k \in DOMAIN scans : scans[k] = ScanVault(found[k])
    /\ stage \in {"scanning", "failed", "refused", "running"}
    /\ stage # "failed" => \A k \in DOMAIN scans : scans[k].failures = <<>>
    /\ stage = "failed" => scans[Len(scans)].failures # <<>>
    /\ stage = "refused" => ~NoneShared(scans)
    /\ stage = "running" => NoneShared(scans) /\ Len(scans) = Len(Selected) /\ batch = Flatten(scans)
    /\ stage # "running" => batch = <<>>

LEMMA SharedRule ==
    ASSUME NEW ss
    PROVE  NoneShared(ss) <=> ~\E i, j \in DOMAIN ss : i < j /\ CheckCrossVaultDuplicateUIDs(ss[i], ss[j])
  BY Zenon DEF NoneShared

LEMMA VaultInvHolds == VaultSpec => []VaultInv
<1>1. VaultInit => VaultInv
  <2> SUFFICES ASSUME VaultInit PROVE VaultInv
    OBVIOUS
  <2>1. Len(Selected) \in Nat
    BY VaultAssumption DEF VaultAssumption
  <2>2. /\ found = <<>> /\ scans = <<>> /\ stage = "scanning" /\ batch = <<>>
        /\ Len(scans) = 0 /\ Len(found) = 0 /\ DOMAIN scans = {} /\ 1 .. 0 = {}
    BY DEF VaultInit
  <2>3. found \in Seq(AnyVault)
    BY <2>2
  <2>4. QED
    BY <2>1, <2>2, <2>3 DEF VaultInv
<1>2. ASSUME VaultInv, [VaultNext]_vaultVars
      PROVE  VaultInv'
  <2>1. CASE ScanNext
    <3>1. PICK v \in Selected[Len(scans) + 1] :
             /\ found' = Append(found, v)
             /\ scans' = Append(scans, ScanVault(v))
             /\ stage' = IF ScanVault(v).failures = <<>> THEN "scanning" ELSE "failed"
      BY <2>1 DEF ScanNext
    <3>2. stage = "scanning" /\ Len(scans) < Len(Selected) /\ batch' = batch
      BY <2>1 DEF ScanNext
    <3> DEFINE n == Len(found)
               scan == ScanVault(v)
    <3>3. n \in Nat /\ Len(Selected) \in Nat /\ DOMAIN Selected = 1 .. Len(Selected)
          /\ found \in Seq(AnyVault) /\ DOMAIN found = 1 .. n
      <4>1. Len(Selected) \in Nat /\ DOMAIN Selected = 1 .. Len(Selected)
        BY VaultAssumption DEF VaultAssumption
      <4>2. found \in Seq(AnyVault)
        BY <1>2 DEF VaultInv
      <4>3. QED
        BY <4>1, <4>2
    <3>4. v \in AnyVault
      <4>1. Len(scans) + 1 \in DOMAIN Selected
        BY <1>2, <3>2, <3>3 DEF VaultInv
      <4>2. QED
        BY <4>1 DEF AnyVault
    <3>5. /\ found' \in Seq(AnyVault) /\ Len(found') = n + 1
          /\ \A k \in 1 .. n : found'[k] = found[k]
          /\ found'[n + 1] = v
      BY <3>1, <3>3, <3>4, Appended
    <3>6. /\ Len(scans') = n + 1 /\ DOMAIN scans' = 1 .. n + 1
          /\ \A k \in 1 .. n : scans'[k] = scans[k]
          /\ scans'[n + 1] = scan
      <4>1. Len(scans) = n /\ DOMAIN scans = 1 .. n
        BY <1>2 DEF VaultInv
      <4> HIDE DEF scan, n
      <4>2. QED
        BY <3>1, <3>3, <4>1 DEF scan
    <3> HIDE DEF scan, n
    <3>7. \A k \in 1 .. n : scans[k] = ScanVault(found[k]) /\ scans[k].failures = <<>>
      BY <1>2, <3>2 DEF VaultInv, n
    <3>8. \A k \in 1 .. n + 1 : k \in 1 .. n \/ k = n + 1
      BY <3>3
    <3>9. ASSUME NEW k \in 1 .. n + 1 PROVE scans'[k] = ScanVault(found'[k])
      BY <3>5, <3>6, <3>7, <3>8 DEF scan
    <3>10. Len(scans') = Len(found') /\ DOMAIN scans' = 1 .. Len(found')
           /\ n + 1 <= Len(Selected)
      BY <1>2, <3>2, <3>3, <3>5, <3>6 DEF VaultInv, n
    <3>11. CASE scan.failures = <<>>
      <4>1. stage' = "scanning"
        BY <3>1, <3>11 DEF scan
      <4>2. \A k \in DOMAIN scans' : scans'[k].failures = <<>>
        BY <3>6, <3>7, <3>8, <3>11
      <4>3. batch' = <<>>
        BY <1>2, <3>2 DEF VaultInv
      <4>4. QED
        BY <3>5, <3>6, <3>9, <3>10, <4>1, <4>2, <4>3 DEF VaultInv
    <3>12. CASE scan.failures # <<>>
      <4>1. stage' = "failed"
        BY <3>1, <3>12 DEF scan
      <4>2. scans'[Len(scans')].failures # <<>>
        BY <3>6, <3>12
      <4>3. batch' = <<>>
        BY <1>2, <3>2 DEF VaultInv
      <4>4. QED
        BY <3>5, <3>6, <3>9, <3>10, <4>1, <4>2, <4>3 DEF VaultInv
    <3>13. QED
      BY <3>11, <3>12
  <2>2. CASE Orchestrate
    <3>1. stage = "scanning" /\ Len(scans) = Len(Selected) /\ found' = found /\ scans' = scans
      BY <2>2 DEF Orchestrate
    <3>2. NoneShared(scans') <=> NoneShared(scans)
      BY <3>1
    <3>3. CASE NoneShared(scans)
      <4>1. stage' = "running" /\ batch' = Flatten(scans')
        BY <2>2, <3>1, <3>3, SharedRule DEF Orchestrate
      <4>2. QED
        BY <1>2, <3>1, <3>2, <3>3, <4>1 DEF VaultInv
    <3>4. CASE ~NoneShared(scans)
      <4>1. stage' = "refused" /\ batch' = batch
        BY <2>2, <3>1, <3>4, SharedRule DEF Orchestrate
      <4>2. QED
        BY <1>2, <3>1, <3>2, <3>4, <4>1 DEF VaultInv
    <3>5. QED
      BY <3>3, <3>4
  <2>3. CASE NextRun
    <3>1. VaultInit'
      BY <2>3 DEF NextRun, VaultInit
    <3>2. VaultInit' => VaultInv'
      BY <1>1, PTL
    <3>3. QED
      BY <3>1, <3>2
  <2>4. CASE UNCHANGED vaultVars
    BY <1>2, <2>4 DEF VaultInv, vaultVars
  <2>5. QED
    BY <1>2, <2>1, <2>2, <2>3, <2>4 DEF VaultNext
<1>3. QED
  BY <1>1, <1>2, PTL DEF VaultSpec

(* A vault is read whole or every file that offends is named, whatever is in it,
   and a run goes on with all the notes of its vaults or with none (ScanVault,
   scanVaults and Orchestrate). *)
THEOREM ScansAreWhole == VaultSpec => []EveryFileHasOneFate
<1>1. ASSUME VaultInv PROVE EveryFileHasOneFate
  <2> DEFINE n == Len(found)
  <2>1. n \in Nat /\ Len(scans) = n /\ DOMAIN scans = 1 .. n
        /\ \A k \in 1 .. n : found[k] \in AnyVault /\ scans[k] = ScanVault(found[k])
    BY <1>1 DEF VaultInv
  <2> HIDE DEF n
  <2>2. ASSUME NEW k \in 1 .. n
        PROVE  /\ IsWholeOrNamesEvery(found[k], scans[k])
               /\ scans[k].notes \in Seq(AnyNote) /\ Apart(scans[k].notes)
    <3>1. /\ IsWholeOrNamesEvery(found[k], scans[k])
          /\ scans[k].notes \in Seq(NotesOf(found[k])) /\ Apart(scans[k].notes)
      BY <2>1, ScanHasOneFate
    <3>2. NotesOf(found[k]) \subseteq AnyNote
      BY <2>1, Zenon DEF AnyNote
    <3>3. scans[k].notes \in Seq(AnyNote)
      BY <3>1, <3>2
    <3>4. QED
      BY <3>1, <3>3
  <2>3. ScansAre(scans)
    BY <2>1, <2>2 DEF ScansAre
  <2>4. CASE stage = "running"
    <3>1. NoneShared(scans) /\ batch = Flatten(scans) /\ Len(scans) = Len(Selected)
          /\ \A k \in DOMAIN scans : scans[k].failures = <<>>
      BY <1>1, <2>4 DEF VaultInv
    <3>2. JoinedSoFar(scans, batch, n)
      BY <2>1, <2>3, <3>1, FlattenHasEvery
    <3>3. {batch[k] : k \in DOMAIN batch}
            = UNION {{scans[s].notes[k] : k \in DOMAIN scans[s].notes} : s \in DOMAIN scans}
      <4>1. ASSUME NEW x \in DOMAIN batch
            PROVE  \E s \in DOMAIN scans : \E m \in DOMAIN scans[s].notes : batch[x] = scans[s].notes[m]
        <5>1. PICK s \in 1 .. n : \E m \in DOMAIN scans[s].notes : batch[x] = scans[s].notes[m]
          BY <3>2 DEF JoinedSoFar
        <5>2. s \in DOMAIN scans
          BY <2>1
        <5>3. QED
          BY <5>1, <5>2
      <4>2. ASSUME NEW s \in DOMAIN scans, NEW m \in DOMAIN scans[s].notes
            PROVE  \E x \in DOMAIN batch : batch[x] = scans[s].notes[m]
        BY <2>1, <3>2, Zenon DEF JoinedSoFar
      <4>3. QED
        BY <4>1, <4>2
    <3>4. Apart(batch)
      BY <3>2 DEF JoinedSoFar
    <3>5. QED
      BY <2>1, <2>2, <2>4, <3>1, <3>3, <3>4, Zenon DEF EveryFileHasOneFate, Apart
  <2>5. CASE stage = "refused"
    <3>1. batch = <<>> /\ ~NoneShared(scans)
      BY <1>1, <2>5 DEF VaultInv
    <3>2. \E i, j \in DOMAIN scans : i # j /\ \E a \in DOMAIN scans[i].notes, b \in DOMAIN scans[j].notes :
                                                scans[i].notes[a].uid = scans[j].notes[b].uid
      <4>1. PICK i \in DOMAIN scans, j \in DOMAIN scans :
                i < j /\ CheckCrossVaultDuplicateUIDs(scans[i], scans[j])
        BY <3>1 DEF NoneShared
      <4>2. i # j
        BY <2>1, <4>1
      <4>3. QED
        BY <4>1, <4>2, Zenon DEF CheckCrossVaultDuplicateUIDs, SeenUID
    <3>3. DOMAIN batch = {}
      BY <3>1
    <3>4. QED
      BY <2>1, <2>2, <2>5, <3>1, <3>2, <3>3 DEF EveryFileHasOneFate
  <2>6. CASE stage \in {"scanning", "failed"}
    <3>1. batch = <<>> /\ (stage = "failed" => scans[Len(scans)].failures # <<>>)
      BY <1>1, <2>6 DEF VaultInv
    <3>2. DOMAIN batch = {}
      BY <3>1
    <3>3. QED
      BY <2>1, <2>2, <2>6, <3>1, <3>2 DEF EveryFileHasOneFate
  <2>7. QED
    BY <1>1, <2>4, <2>5, <2>6 DEF VaultInv
<1>2. QED
  BY <1>1, VaultInvHolds, PTL
=============================================================================
