------------------------- MODULE AuthLogTailProofs -------------------------
(***************************************************************************)
(* Theorems about AuthLogTail, for every log, every way of writing it and   *)
(* any number of rotations, truncations and outages.                        *)
(***************************************************************************)
EXTENDS AuthLogTail, FiniteSetTheorems, SequenceTheorems, WellFoundedInduction, TLAPS

-----------------------------------------------------------------------------
(* Splitting a run of pieces into lines. *)

\* Any non-empty set of numbers has a least one.
LEMMA LeastNumber ==
  ASSUME NEW S, S \subseteq Nat, S # {}
  PROVE  \E m \in S : \A k \in S : m <= k
<1> DEFINE R == OpToRel(<, Nat)
<1>1. IsWellFoundedOn(R, Nat)
  BY NatLessThanWellFounded
<1>2. \A x, y \in Nat : x < y => <<x, y>> \in R
  BY DEF OpToRel
<1> HIDE DEF R
<1>3. PICK m \in S : \A k \in S : ~(<<k, m>> \in R)
  BY <1>1, WFMin
<1>4. \A k \in S : m <= k
  <2> TAKE k \in S
  <2>1. k \in Nat /\ m \in Nat
    OBVIOUS
  <2>2. ~(k < m)
    BY <1>2, <1>3, <2>1
  <2>3. QED
    BY <2>1, <2>2
<1>5. QED
  BY <1>4

\* The numbers of S, one after the other.
Enumerates(g, m, S) ==
  /\ g \in [1..m -> S]
  /\ \A i, j \in 1..m : i < j => g[i] < g[j]
  /\ \A x \in S : \E i \in 1..m : g[i] = x

\* Any set of positions can be put in order.
LEMMA Enumeration ==
  ASSUME NEW n \in Nat, NEW S \in SUBSET (1..n)
  PROVE  \E m \in Nat : \E g : Enumerates(g, m, S)
<1> DEFINE Good(k) == \A T \in SUBSET (1..k) : \E m \in Nat : \E g : Enumerates(g, m, T)
           Bad == {k \in Nat : ~Good(k)}
<1>1. Bad = {}
  <2> SUFFICES ASSUME Bad # {} PROVE FALSE
    OBVIOUS
  <2>1. Bad \subseteq Nat
    OBVIOUS
  <2> HIDE DEF Bad
  <2>2. PICK k \in Bad : \A j \in Bad : k <= j
    BY <2>1, LeastNumber
  <2> USE DEF Bad
  <2>3. k \in Nat /\ ~Good(k)
    BY <2>2
  <2>4. PICK T \in SUBSET (1..k) : ~\E m \in Nat : \E g : Enumerates(g, m, T)
    BY <2>3
  <2>5. CASE k = 0
    <3>1. T = {}
      BY <2>4, <2>5
    <3>2. Enumerates([i \in 1..0 |-> 0], 0, T)
      BY <3>1 DEF Enumerates
    <3>3. QED
      BY <2>4, <3>2
  <2>6. CASE k # 0
    <3>1. k - 1 \in Nat /\ Good(k - 1)
      BY <2>2, <2>3, <2>6
    <3>2. T \ {k} \in SUBSET (1..(k - 1))
      BY <2>3, <2>4
    <3>3. PICK m \in Nat : \E g : Enumerates(g, m, T \ {k})
      BY <3>1, <3>2
    <3>4. PICK g : Enumerates(g, m, T \ {k})
      BY <3>3
    <3>5. CASE k \notin T
      <4>1. T \ {k} = T
        BY <3>5
      <4>2. QED
        BY <2>4, <3>4, <4>1
    <3>6. CASE k \in T
      <4> DEFINE e == [i \in 1..(m + 1) |-> IF i <= m THEN g[i] ELSE k]
      <4>1. \A i \in 1..m : i \in 1..(m + 1) /\ e[i] = g[i] /\ g[i] \in T \ {k} /\ g[i] < k
        <5> TAKE i \in 1..m
        <5>1. i \in 1..(m + 1) /\ e[i] = g[i]
          OBVIOUS
        <5>2. g[i] \in T \ {k}
          BY <3>4 DEF Enumerates
        <5>3. g[i] \in 1..(k - 1)
          BY <3>2, <5>2
        <5>4. g[i] < k
          BY <2>3, <5>3
        <5>5. QED
          BY <5>1, <5>2, <5>4
      <4>2. m + 1 \in 1..(m + 1) /\ e[m + 1] = k
        OBVIOUS
      <4>3. \A i \in 1..(m + 1) : i \in 1..m \/ i = m + 1
        OBVIOUS
      <4>4. DOMAIN e = 1..(m + 1) /\ e = [i \in 1..(m + 1) |-> e[i]]
        OBVIOUS
      <4> HIDE DEF e
      <4>5. e \in [1..(m + 1) -> T]
        BY <3>6, <4>1, <4>2, <4>3, <4>4
      <4>6. \A i, j \in 1..(m + 1) : i < j => e[i] < e[j]
        <5> SUFFICES ASSUME NEW i \in 1..(m + 1), NEW j \in 1..(m + 1), i < j
                     PROVE  e[i] < e[j]
          OBVIOUS
        <5>1. i \in 1..m
          OBVIOUS
        <5>2. CASE j \in 1..m
          BY <3>4, <4>1, <5>1, <5>2 DEF Enumerates
        <5>3. CASE j = m + 1
          BY <4>1, <4>2, <5>1, <5>3
        <5>4. QED
          BY <4>3, <5>2, <5>3
      <4>7. \A x \in T : \E i \in 1..(m + 1) : e[i] = x
        <5> TAKE x \in T
        <5>1. CASE x = k
          BY <4>2, <5>1
        <5>2. CASE x # k
          <6>1. PICK i \in 1..m : g[i] = x
            BY <3>4, <5>2 DEF Enumerates
          <6>2. QED
            BY <4>1, <6>1
        <5>3. QED
          BY <5>1, <5>2
      <4>8. Enumerates(e, m + 1, T)
        BY <4>5, <4>6, <4>7 DEF Enumerates
      <4>9. m + 1 \in Nat
        OBVIOUS
      <4>10. QED
        BY <2>4, <4>8, <4>9
    <3>7. QED
      BY <3>5, <3>6
  <2>7. QED
    BY <2>5, <2>6
<1>2. Good(n)
  BY <1>1
<1>3. QED
  BY <1>2

\* EndsInOrder lists the ends of the lines, first to last.
LEMMA EndsAreEnumerated ==
  ASSUME NEW ps \in Seq(Piece)
  PROVE  \E m \in Nat : Enumerates(EndsInOrder(ps), m, Ends(ps))
<1> DEFINE S == Ends(ps)
           Increasing(s) == \A i, j \in DOMAIN s : i < j => s[i] < s[j]
           F == [1..Cardinality(S) -> S]
<1>1. Len(ps) \in Nat /\ S \in SUBSET (1..Len(ps))
  BY DEF Ends
<1>2. IsFiniteSet(S)
  <2>1. IsFiniteSet(1..Len(ps))
    BY <1>1, FS_Interval
  <2>2. QED
    BY <1>1, <2>1, FS_Subset
<1>3. \A x \in S : x \in Nat
  BY <1>1
<1>4. EndsInOrder(ps) = CHOOSE s \in F : Increasing(s)
  BY DEF EndsInOrder
<1> HIDE DEF S
<1>5. PICK m \in Nat : \E g : Enumerates(g, m, S)
  BY <1>1, Enumeration
<1>6. PICK g : Enumerates(g, m, S)
  BY <1>5
<1>7. \A i, j \in 1..m : g[i] = g[j] => i = j
  <2> SUFFICES ASSUME NEW i \in 1..m, NEW j \in 1..m, g[i] = g[j], i # j PROVE FALSE
    OBVIOUS
  <2>1. g[i] \in Nat /\ g[j] \in Nat
    BY <1>3, <1>6 DEF Enumerates
  <2>2. i < j \/ j < i
    OBVIOUS
  <2>3. QED
    BY <1>6, <2>1, <2>2 DEF Enumerates
<1>8. ExistsBijection(1..m, S)
  <2>1. g \in Bijection(1..m, S)
    BY <1>6, <1>7 DEF Enumerates, Bijection, Injection, Surjection, IsInjective
  <2>2. QED
    BY <2>1 DEF ExistsBijection
<1>9. Cardinality(S) = m
  BY <1>8, FS_CountingElements
<1>10. g \in F /\ Increasing(g)
  BY <1>6, <1>9 DEF Enumerates
<1> DEFINE e == EndsInOrder(ps)
<1>11. e \in F /\ Increasing(e)
  BY <1>4, <1>10
<1> HIDE DEF e
<1>12. e \in [1..m -> S] /\ \A i, j \in 1..m : i < j => e[i] < e[j]
  BY <1>9, <1>11
<1>13. \A i, j \in 1..m : e[i] = e[j] => i = j
  <2> SUFFICES ASSUME NEW i \in 1..m, NEW j \in 1..m, e[i] = e[j], i # j PROVE FALSE
    OBVIOUS
  <2>1. e[i] \in Nat /\ e[j] \in Nat
    BY <1>3, <1>12
  <2>2. i < j \/ j < i
    OBVIOUS
  <2>3. QED
    BY <1>12, <2>1, <2>2
<1>14. e \in Injection(1..m, S)
  BY <1>12, <1>13 DEF Injection, IsInjective
<1>15. e \in Surjection(1..m, S)
  <2>1. Cardinality(1..m) = m
    BY FS_Interval
  <2>2. QED
    BY <1>2, <1>9, <1>14, <2>1, FS_Injection
<1>16. \A x \in S : \E i \in 1..m : e[i] = x
  BY <1>15 DEF Surjection
<1>17. Enumerates(e, m, S)
  BY <1>12, <1>16 DEF Enumerates
<1>18. QED
  BY <1>17 DEF S, e

\* The k-th line of ps goes from after e[k - 1] to e[k].
Splits(ps, m, e) ==
  /\ m \in Nat /\ e \in [0..m -> 0..Len(ps)] /\ e[0] = 0
  /\ \A i, j \in 0..m : i < j => e[i] < e[j]
  /\ \A k \in 1..m : ps[e[k]].end /\ \A i \in e[k - 1] + 1 .. e[k] - 1 : ~ps[i].end
  /\ \A i \in e[m] + 1 .. Len(ps) : ~ps[i].end
  /\ \A i \in 1..Len(ps) : ps[i].end => \E k \in 1..m : e[k] = i
  /\ Complete(ps) = [k \in 1..m |-> SubSeq(ps, e[k - 1] + 1, e[k])]
  /\ LastEnd(ps) = e[m]

\* Complete and LastEnd split a run of pieces at its ends.
LEMMA LinesSplit ==
  ASSUME NEW ps \in Seq(Piece)
  PROVE  \E m \in Nat : \E e : Splits(ps, m, e)
<1>1. PICK m \in Nat : Enumerates(EndsInOrder(ps), m, Ends(ps))
  BY EndsAreEnumerated
<1>2. PICK s : s = EndsInOrder(ps)
  OBVIOUS
<1> DEFINE e == [k \in 0..m |-> IF k = 0 THEN 0 ELSE s[k]]
<1>3. Len(ps) \in Nat /\ \A i \in Ends(ps) : i \in 1..Len(ps) /\ ps[i].end
  BY DEF Ends
<1>4. \A i \in 1..Len(ps) : ps[i].end => i \in Ends(ps)
  BY DEF Ends
<1>5. s \in [1..m -> Ends(ps)] /\ \A i, j \in 1..m : i < j => s[i] < s[j]
  BY <1>1, <1>2 DEF Enumerates
<1>6. \A i \in Ends(ps) : \E k \in 1..m : s[k] = i
  BY <1>1, <1>2 DEF Enumerates
<1>7. \A k \in 1..m : k \in 0..m /\ e[k] = s[k] /\ s[k] \in 1..Len(ps) /\ ps[s[k]].end
  BY <1>3, <1>5
<1>8. 0 \in 0..m /\ e[0] = 0 /\ \A k \in 0..m : k = 0 \/ k \in 1..m
  OBVIOUS
<1>9. e = [k \in 0..m |-> e[k]]
  OBVIOUS
<1>10. Complete(ps) = [k \in 1..m |-> SubSeq(ps, e[k - 1] + 1, e[k])]
  <2>1. Complete(ps) = [k \in DOMAIN s |-> SubSeq(ps, IF k = 1 THEN 1 ELSE s[k - 1] + 1, s[k])]
    BY <1>2 DEF Complete
  <2>2. DOMAIN s = 1..m
    BY <1>5
  <2>3. \A k \in 1..m : (IF k = 1 THEN 1 ELSE s[k - 1] + 1) = e[k - 1] + 1 /\ s[k] = e[k]
    OBVIOUS
  <2> HIDE DEF e
  <2>4. QED
    BY <2>1, <2>2, <2>3
<1> HIDE DEF e
<1>11. e \in [0..m -> 0..Len(ps)]
  BY <1>3, <1>7, <1>8, <1>9
<1>12. \A i, j \in 0..m : i < j => e[i] < e[j]
  <2> SUFFICES ASSUME NEW i \in 0..m, NEW j \in 0..m, i < j PROVE e[i] < e[j]
    OBVIOUS
  <2>1. j \in 1..m
    OBVIOUS
  <2>2. CASE i = 0
    BY <1>7, <1>8, <2>1, <2>2
  <2>3. CASE i \in 1..m
    BY <1>5, <1>7, <2>1, <2>3
  <2>4. QED
    BY <1>8, <2>2, <2>3
<1>13. \A i \in 1..Len(ps) : ps[i].end => \E k \in 1..m : e[k] = i
  BY <1>4, <1>6, <1>7
<1>14. \A k \in 1..m : \A i \in e[k - 1] + 1 .. e[k] - 1 : ~ps[i].end
  <2> SUFFICES ASSUME NEW k \in 1..m, NEW i \in e[k - 1] + 1 .. e[k] - 1, ps[i].end
               PROVE  FALSE
    OBVIOUS
  <2>1. k \in 0..m /\ k - 1 \in 0..m /\ e[k - 1] \in 0..Len(ps) /\ e[k] \in 0..Len(ps)
    <3>1. k \in 0..m /\ k - 1 \in 0..m
      OBVIOUS
    <3>2. QED
      BY <1>11, <3>1
  <2>2. i \in 1..Len(ps)
    BY <1>3, <2>1
  <2>3. PICK q \in 1..m : e[q] = i
    BY <1>13, <2>2
  <2>4. q \in 0..m /\ (q <= k - 1 \/ q >= k)
    OBVIOUS
  <2>5. CASE q <= k - 1
    <3>1. q = k - 1 \/ e[q] < e[k - 1]
      BY <1>12, <2>1, <2>4, <2>5
    <3>2. QED
      BY <2>1, <2>3, <3>1
  <2>6. CASE q >= k
    <3>1. q = k \/ e[k] < e[q]
      BY <1>12, <2>1, <2>4, <2>6
    <3>2. QED
      BY <2>1, <2>3, <3>1
  <2>7. QED
    BY <2>4, <2>5, <2>6
<1>15. m \in 0..m /\ e[m] \in 0..Len(ps)
  <2>1. m \in 0..m
    OBVIOUS
  <2>2. QED
    BY <1>11, <2>1
<1>16. \A i \in 1..Len(ps) : ps[i].end => i <= e[m]
  <2> SUFFICES ASSUME NEW i \in 1..Len(ps), ps[i].end PROVE i <= e[m]
    OBVIOUS
  <2>1. PICK q \in 1..m : e[q] = i
    BY <1>13
  <2>2. q \in 0..m /\ (q = m \/ q < m)
    OBVIOUS
  <2>3. q = m \/ e[q] < e[m]
    BY <1>12, <1>15, <2>2
  <2>4. QED
    BY <1>15, <2>1, <2>3
<1>17. \A i \in e[m] + 1 .. Len(ps) : ~ps[i].end
  BY <1>3, <1>15, <1>16
<1>18. LastEnd(ps) = e[m]
  <2>1. CASE m = 0
    <3>1. Ends(ps) = {}
      BY <1>6, <2>1
    <3>2. QED
      BY <1>8, <2>1, <3>1 DEF LastEnd
  <2>2. CASE m # 0
    <3>1. m \in 1..m
      BY <2>2
    <3>2. e[m] \in Ends(ps) /\ Ends(ps) # {}
      BY <1>5, <1>7, <3>1
    <3>3. \A j \in Ends(ps) : j <= e[m]
      BY <1>3, <1>16
    <3>4. \A i \in Ends(ps) : (\A j \in Ends(ps) : j <= i) => i = e[m]
      <4> SUFFICES ASSUME NEW i \in Ends(ps), \A j \in Ends(ps) : j <= i PROVE i = e[m]
        OBVIOUS
      <4>1. i <= e[m] /\ e[m] <= i
        BY <3>2, <3>3
      <4>2. i \in Nat /\ e[m] \in Nat
        BY <1>3, <1>15
      <4>3. QED
        BY <4>1, <4>2
    <3>5. (CHOOSE i \in Ends(ps) : \A j \in Ends(ps) : j <= i) = e[m]
      BY <3>2, <3>3, <3>4
    <3>6. QED
      BY <3>2, <3>5 DEF LastEnd
  <2>3. QED
    BY <2>1, <2>2
<1>19. Splits(ps, m, e)
  <2>1. \A k \in 1..m : ps[e[k]].end
    BY <1>7
  <2>2. QED
    BY <1>8, <1>10, <1>11, <1>12, <1>13, <1>14, <1>17, <1>18, <2>1 DEF Splits
<1>20. QED
  BY <1>19

-----------------------------------------------------------------------------
(* The inductive invariant. *)

Line == Seq(Piece) \ {<<>>}
Record == [line : DOMAIN Kind, rec : Nat, cut : BOOLEAN,
           id : [ts : {Kind[n].ts : n \in DOMAIN Kind}, key : Keys, occurrence : Nat]]

\* The log as the daemon and logrotate may leave it.
LogTypes ==
  /\ files \in [Inodes -> Seq(Piece)]
  /\ \A f \in Inodes : \A i \in 1..Len(files[f]) :
       files[f][i].end => files[f][i].part = Parts[files[f][i].line]
  /\ wfile \in Inodes /\ path \in 0..MaxFiles
  /\ path = NoFile => wfile < MaxFiles
  /\ path # NoFile => path \in {wfile, wfile + 1}
  /\ last \in [line : DOMAIN Kind \cup {0}, part : Nat \ {0}, end : BOOLEAN]
  /\ last.line = 0 => last.end
  /\ truncs \in Nat

\* What the collector holds of it.
TailTypes ==
  /\ handle \in 0..MaxFiles /\ pos \in Nat /\ buf \in Seq(Piece)
  /\ discarding \in BOOLEAN /\ skip \in BOOLEAN
  /\ kept \in Seq(Line) /\ batch \in Seq(Line)

OutTypes == seen \in [Keys -> Nat] /\ emitted \in Seq(Record)

\* No file was read past its end.
Offsets == upto \in [Inodes -> Nat] /\ \A f \in Inodes : upto[f] <= Len(files[f])

\* What a poll holds at each of its stages.
PollStage ==
  /\ pc \in {"idle", "open", "read", "follow", "emit", "raised", "closed"}
  /\ pc \in {"idle", "raised", "closed"} => kept = <<>> /\ batch = <<>>
  /\ pc \in {"open", "read"} => batch = <<>>
  /\ pc # "emit" /\ ~nested => kept = <<>>
  /\ pc = "idle" => ~nested /\ ~final
  /\ pc = "open" => handle = NoFile
  /\ pc \in {"read", "follow"} => handle # NoFile
  /\ final => stopping
  /\ pc = "closed" => final
  /\ pc # "closed" /\ handle = NoFile => pos = 0 /\ buf = <<>> /\ ~discarding

\* The open file still reaches the offset.
InSync == handle # NoFile /\ pos <= Len(files[handle])

\* The offset in the open file where the line in hand began.
LineStart == pos - Len(buf)

\* The line being discarded at offset q of ps is over-long, or began in the skipped history.
Discarded(ps, q, skipped) ==
  \E j \in 1..q : /\ \A k \in j..q : ~ps[k].end
                  /\ ps[j].line \in skipped \/ q - j >= MaxLine

\* The buffer b is what ps holds before offset q: the line in hand, if it is not discarded.
Follows(ps, q, b, discards, skipped) ==
  /\ Len(b) <= q
  /\ \A i \in 1..Len(b) : b[i] = ps[q - Len(b) + i] /\ ~b[i].end
  /\ discards => Discarded(ps, q, skipped)
  /\ ~discards => q = Len(b) \/ ps[q - Len(b)].end

TailFollowsFile ==
  (InSync /\ ~regrown /\ pc # "closed") =>
    upto[handle] = pos /\ Follows(files[handle], pos, buf, discarding, history)

\* A line whose records are, or will be, on the queue, or is lost in a way that is named.
Covered(n) ==
  \/ n \in EmittedLines \cup history \cup dropped
  \/ \E k \in DOMAIN PollLines : PollLines[k][1].line = n /\ RecordCount(PollLines[k]) > 0

\* A piece that ends an auth line standing alone.
EndsAuthLine(ps, i) == ps[i].end /\ AuthLine(ps[i].line) /\ StandsAlone(ps, i)

ReadIsCovered ==
  ~regrown => \A f \in Inodes : \A i \in 1..upto[f] :
                EndsAuthLine(files[f], i) => Covered(files[f][i].line)

\* The line the daemon's next piece belongs to.
NextLine == IF last.end THEN last.line + 1 ELSE last.line

\* The piece at offset i of ps follows the earlier pieces of its line, from the line's start.
Continues(ps, i) ==
  /\ ps[i].part <= i
  /\ \A k \in i - ps[i].part + 1 .. i :
       ps[k].line = ps[i].line /\ ps[k].part = k - (i - ps[i].part)
  /\ ps[i].part = i \/ ps[i - ps[i].part].end

\* Without a truncation the pieces of a file follow one another, ...
WrittenWhole ==
  /\ ~last.end => files[wfile] # <<>>
  /\ files[wfile] # <<>> => files[wfile][Len(files[wfile])] = last
  /\ \A f \in Inodes : \A i \in 1..Len(files[f]) : Continues(files[f], i)

\* ... the lines of a file are in order, and those of a file come before those of the next.
WrittenInOrder ==
  /\ \A f \in Inodes : f > wfile => Len(files[f]) = 0
  /\ \A f \in Inodes : \A i \in 1..Len(files[f]) :
       /\ files[f][i].line <= last.line
       /\ files[f][i].end \/ f < wfile => files[f][i].line < NextLine
       /\ \A j \in 1..Len(files[f]) : i < j =>
            /\ files[f][i].line <= files[f][j].line
            /\ files[f][i].end => files[f][i].line < files[f][j].line
       /\ \A g \in Inodes : f < g =>
            \A j \in 1..Len(files[g]) : files[f][i].line < files[g][j].line

\* The first file still to be read.
FirstFile ==
  IF handle # NoFile THEN handle ELSE IF path # NoFile THEN path ELSE wfile + 1

\* The line is behind everything still to be read.
Behind(n) ==
  /\ n <= last.line
  /\ wfile >= FirstFile => n < NextLine
  /\ \A f \in Inodes : \A i \in 1..Len(files[f]) :
       (f >= FirstFile /\ (f = handle => i > LineStart)) => n < files[f][i].line

\* The offset is within the open file, which is not past the one the path names.
Reached ==
  /\ ~regrown
  /\ handle # NoFile => pos <= Len(files[handle]) /\ handle <= wfile + 1
  /\ path = NoFile => handle <= wfile
  /\ path # NoFile => handle <= path

\* Lines are taken in the order they were written.
TakenInOrder ==
  /\ \A i \in 1..Len(emitted) : Behind(emitted[i].line)
  /\ \A k \in 1..Len(PollLines) : Behind(PollLines[k][1].line)
  /\ \A i \in 1..Len(emitted) : \A k \in 1..Len(PollLines) :
       emitted[i].line < PollLines[k][1].line
  /\ \A j, k \in 1..Len(PollLines) : j < k => PollLines[j][1].line < PollLines[k][1].line

\* seenTs is the timestamp of the last record, and seen counts the records of that timestamp.
Numbered ==
  /\ emitted # <<>> => seenTs = Kind[emitted[Len(emitted)].line].ts
  /\ \A i \in 1..Len(emitted) :
       /\ emitted[i].id.ts = Kind[emitted[i].line].ts
       /\ emitted[i].id.ts = seenTs => emitted[i].id.occurrence < seen[emitted[i].id.key]

Untruncated ==
  truncs = 0 =>
    /\ WrittenWhole /\ WrittenInOrder /\ EmittedInOrder /\ DistinctIds
    /\ pc # "closed" => Reached /\ TakenInOrder
    /\ TimesDoNotReturn => Numbered

\* A line the final pass owes is covered, or ends within the read that is still to come.
OwedIsReached ==
  \/ owed = {}
  \/ /\ truncs = 0 /\ stopping
     /\ \/ \A n \in owed : Covered(n)
        \/ /\ handle # NoFile
           /\ (pc \in {"idle", "emit", "raised"} /\ ~final) \/ pc = "read"
           /\ \A n \in owed : AuthLine(n) /\
                \E i \in pos + 1 .. pos + MaxRead :
                  /\ i \in 1..Len(files[handle])
                  /\ files[handle][i].end /\ files[handle][i].line = n

-----------------------------------------------------------------------------
(* Types. *)

\* What the daemon writes next is a piece of a line of the log.
LEMMA NextPieceFits ==
  ASSUME LogTypes, ~last.end \/ last.line + 1 \in DOMAIN Kind
  PROVE  /\ NextPiece \in Piece /\ NextPiece.line = NextLine
         /\ NextPiece.end => NextPiece.part = Parts[NextPiece.line]
         /\ NextPiece.part = IF last.end THEN 1 ELSE last.part + 1
<1> DEFINE n == IF last.end THEN last.line + 1 ELSE last.line
           p == IF last.end THEN 1 ELSE last.part + 1
<1>1. last.line \in DOMAIN Kind \cup {0} /\ last.part \in Nat \ {0} /\ last.end \in BOOLEAN
  BY DEF LogTypes
<1>2. n \in DOMAIN Kind
  BY <1>1 DEF LogTypes
<1>3. p \in Nat \ {0}
  BY <1>1
<1>4. NextPiece = [line |-> n, part |-> p, end |-> p = Parts[n]]
  BY DEF NextPiece
<1> HIDE DEF n, p
<1>5. (p = Parts[n]) \in BOOLEAN
  OBVIOUS
<1>6. NextPiece \in Piece
  BY <1>2, <1>3, <1>4, <1>5 DEF Piece
<1>7. NextPiece.line = n /\ NextPiece.part = p /\ (NextPiece.end => p = Parts[n])
  BY <1>4
<1>8. QED
  BY <1>6, <1>7 DEF NextLine, n, p

\* The file after a write.
LEMMA Written ==
  ASSUME LogTypes, WritePiece
  PROVE  /\ files' \in [Inodes -> Seq(Piece)]
         /\ \A f \in Inodes : f # wfile => files'[f] = files[f]
         /\ Len(files'[wfile]) = Len(files[wfile]) + 1
         /\ \A i \in 1..Len(files[wfile]) : files'[wfile][i] = files[wfile][i]
         /\ files'[wfile][Len(files[wfile]) + 1] = NextPiece
         /\ last' = NextPiece
<1>1. NextPiece \in Piece
  BY NextPieceFits DEF WritePiece
<1>2. files \in [Inodes -> Seq(Piece)] /\ wfile \in Inodes
  BY DEF LogTypes
<1>3. files' = [files EXCEPT ![wfile] = Append(@, NextPiece)] /\ last' = NextPiece
  BY DEF WritePiece
<1>4. PICK p : p = NextPiece
  OBVIOUS
<1>5. PICK ps : ps = files[wfile]
  OBVIOUS
<1>6. ps \in Seq(Piece) /\ p \in Piece
  BY <1>1, <1>2, <1>4, <1>5
<1>7. /\ Append(ps, p) \in Seq(Piece) /\ Len(Append(ps, p)) = Len(ps) + 1
      /\ \A i \in 1..Len(ps) : Append(ps, p)[i] = ps[i]
      /\ Append(ps, p)[Len(ps) + 1] = p
  BY <1>6, AppendProperties
<1>8. files' = [files EXCEPT ![wfile] = Append(ps, p)]
  BY <1>3, <1>4, <1>5
<1>9. files'[wfile] = Append(ps, p) /\ \A f \in Inodes : f # wfile => files'[f] = files[f]
  BY <1>2, <1>8
<1>10. files' \in [Inodes -> Seq(Piece)]
  BY <1>2, <1>7, <1>8
<1>11. QED
  BY <1>3, <1>4, <1>5, <1>7, <1>9, <1>10

\* The file after a truncation.
LEMMA Truncated ==
  ASSUME LogTypes, NEW n \in 0..1, Truncate(n)
  PROVE  /\ path \in Inodes /\ n < Len(files[path])
         /\ files' \in [Inodes -> Seq(Piece)]
         /\ \A f \in Inodes : f # path => files'[f] = files[f]
         /\ Len(files'[path]) = n
         /\ \A i \in 1..n : files'[path][i] = files[path][i]
         /\ upto' = [upto EXCEPT ![path] = IF n < @ THEN n ELSE @]
<1>1. path \in Inodes
  BY DEF LogTypes, Truncate, Inodes, NoFile
<1>2. /\ n < Len(files[path]) /\ files' = [files EXCEPT ![path] = SubSeq(@, 1, n)]
      /\ upto' = [upto EXCEPT ![path] = IF n < @ THEN n ELSE @]
  BY DEF Truncate
<1>3. PICK ps : ps = files[path]
  OBVIOUS
<1>4. files \in [Inodes -> Seq(Piece)]
  BY DEF LogTypes
<1>5. ps \in Seq(Piece) /\ \A i \in 1..n : ps[i] \in Piece
  BY <1>1, <1>2, <1>3, <1>4
<1>6. /\ SubSeq(ps, 1, n) \in Seq(Piece)
      /\ Len(SubSeq(ps, 1, n)) = IF 1 <= n THEN n - 1 + 1 ELSE 0
      /\ \A i \in 1..n - 1 + 1 : SubSeq(ps, 1, n)[i] = ps[1 + i - 1]
  BY <1>5, SubSeqProperties
<1>7. Len(SubSeq(ps, 1, n)) = n /\ \A i \in 1..n : SubSeq(ps, 1, n)[i] = ps[i]
  BY <1>6
<1>8. files' = [files EXCEPT ![path] = SubSeq(ps, 1, n)]
  BY <1>2, <1>3
<1>9. files'[path] = SubSeq(ps, 1, n) /\ \A f \in Inodes : f # path => files'[f] = files[f]
  BY <1>1, <1>4, <1>8
<1>10. files' \in [Inodes -> Seq(Piece)]
  BY <1>4, <1>6, <1>8
<1>11. QED
  BY <1>1, <1>2, <1>3, <1>7, <1>9, <1>10

\* A step of the log that leaves what the files hold.
Renaming == RenameAway \/ Create \/ Reopen \/ SetAccess

\* The types of the log hold after every step.
LEMMA LogTypesStep == ASSUME LogTypes, [Next]_vars PROVE LogTypes'
<1> USE BoundsAssumption
<1>1. CASE Stop \/ Collect \/ UNCHANGED vars
  <2>1. UNCHANGED logVars
    BY <1>1 DEF Stop, Collect, Poll, OpenFails, OpenFile, Read, FollowFails, FollowSame,
       FollowRotated, FollowTruncated, EmitLine, EndPoll, TailOnly, vars
  <2>2. QED
    BY <2>1 DEF LogTypes, logVars
<1>2. CASE RenameAway
  BY <1>2 DEF RenameAway, LogTypes, NoFile, Inodes
<1>3. CASE Create
  BY <1>3 DEF Create, LogTypes, NoFile, Inodes
<1>4. CASE Reopen
  BY <1>4 DEF Reopen, LogTypes, NoFile, Inodes
<1>5. CASE SetAccess
  BY <1>5 DEF SetAccess, LogTypes
<1>6. CASE WritePiece
  <2>1. files' \in [Inodes -> Seq(Piece)] /\ last' = NextPiece
    BY <1>6, Written
  <2>2. /\ NextPiece \in Piece
        /\ NextPiece.end => NextPiece.part = Parts[NextPiece.line]
    BY <1>6, NextPieceFits DEF WritePiece
  <2>3. \A f \in Inodes : \A i \in 1..Len(files'[f]) :
          files'[f][i].end => files'[f][i].part = Parts[files'[f][i].line]
    <3> SUFFICES ASSUME NEW f \in Inodes, NEW i \in 1..Len(files'[f]), files'[f][i].end
                 PROVE  files'[f][i].part = Parts[files'[f][i].line]
      OBVIOUS
    <3>1. CASE f # wfile
      BY <1>6, <3>1, Written DEF LogTypes
    <3>2. CASE f = wfile
      <4>1. Len(files[f]) \in Nat
        BY DEF LogTypes
      <4>2. i \in 1..Len(files[f]) \/ i = Len(files[f]) + 1
        BY <1>6, <3>2, <4>1, Written
      <4>3. CASE i \in 1..Len(files[f])
        BY <1>6, <3>2, <4>3, Written DEF LogTypes
      <4>4. CASE i = Len(files[f]) + 1
        BY <1>6, <2>2, <3>2, <4>4, Written
      <4>5. QED
        BY <4>2, <4>3, <4>4
    <3>3. QED
      BY <3>1, <3>2
  <2>4. /\ last'.line \in DOMAIN Kind /\ last'.line # 0
        /\ last' \in [line : DOMAIN Kind \cup {0}, part : Nat \ {0}, end : BOOLEAN]
    BY <2>1, <2>2 DEF Piece
  <2>5. UNCHANGED <<path, wfile, truncs>>
    BY <1>6 DEF WritePiece
  <2>6. QED
    BY <2>1, <2>3, <2>4, <2>5 DEF LogTypes
<1>7. CASE \E n \in 0..1 : Truncate(n)
  <2>1. PICK n \in 0..1 : Truncate(n)
    BY <1>7
  <2>2. \A f \in Inodes : Len(files'[f]) <= Len(files[f])
                          /\ \A i \in 1..Len(files'[f]) : files'[f][i] = files[f][i]
    <3> TAKE f \in Inodes
    <3>1. Len(files[f]) \in Nat
      BY DEF LogTypes
    <3>2. CASE f # path
      BY <2>1, <3>1, <3>2, Truncated
    <3>3. CASE f = path
      <4>1. /\ Len(files'[path]) = n /\ n < Len(files[path])
            /\ \A i \in 1..n : files'[path][i] = files[path][i]
        BY <2>1, Truncated
      <4>2. QED
        BY <3>1, <3>3, <4>1
    <3>4. QED
      BY <3>2, <3>3
  <2>3. \A f \in Inodes : \A i \in 1..Len(files'[f]) : i \in 1..Len(files[f])
    <3> TAKE f \in Inodes
    <3>1. Len(files[f]) \in Nat /\ Len(files'[f]) \in Nat
      BY <2>1, Truncated DEF LogTypes
    <3>2. QED
      BY <2>2, <3>1
  <2>4. files' \in [Inodes -> Seq(Piece)]
    BY <2>1, Truncated
  <2>5. UNCHANGED <<path, wfile, last>> /\ truncs' = truncs + 1
    BY <2>1 DEF Truncate
  <2>6. \A f \in Inodes : \A i \in 1..Len(files'[f]) :
          files'[f][i].end => files'[f][i].part = Parts[files'[f][i].line]
    BY <2>2, <2>3 DEF LogTypes
  <2>7. truncs' \in Nat
    BY <2>5 DEF LogTypes
  <2>8. QED
    BY <2>4, <2>5, <2>6, <2>7 DEF LogTypes
<1>8. QED
  BY <1>1, <1>2, <1>3, <1>4, <1>5, <1>6, <1>7 DEF Next

-----------------------------------------------------------------------------
(* What one read does. *)

\* handle.read returned c pieces; with the buffer they are `all`, split into m lines of which
\* the first d are discarded.
ReadOutcome(c, m, e, d, all) ==
  /\ c \in 0..MaxRead /\ all \in Seq(Piece) /\ Splits(all, m, e) /\ d \in {0, 1}
  /\ Len(all) = Len(buf) + c
  /\ \A i \in 1..Len(buf) : all[i] = buf[i]
  /\ \A i \in 1..c : /\ pos + i \in 1..Len(files[handle])
                     /\ all[Len(buf) + i] = files[handle][pos + i]
  /\ pos' = pos + c
  /\ c = MaxRead \/ pos + c >= Len(files[handle])
  /\ d <= m /\ (d = 1 => discarding) /\ (d = 0 => ~discarding \/ m = 0)
  /\ batch' = [k \in 1..(m - d) |-> SubSeq(all, e[k + d - 1] + 1, e[k + d])]
  /\ Len(all) - e[m] > MaxLine => buf' = <<>> /\ discarding'
  /\ Len(all) - e[m] <= MaxLine =>
       buf' = SubSeq(all, e[m] + 1, Len(all)) /\ (discarding' => discarding /\ m = 0)
                                              /\ (discarding /\ m = 0 => discarding')

\* The chunk a read returns.
LEMMA ChunkRead ==
  ASSUME NEW ps \in Seq(Piece), NEW n \in Nat, NEW top,
         Len(ps) < n + MaxRead => top = Len(ps), Len(ps) >= n + MaxRead => top = n + MaxRead
  PROVE  \E c \in 0..MaxRead :
           /\ SubSeq(ps, n + 1, top) \in Seq(Piece) /\ Len(SubSeq(ps, n + 1, top)) = c
           /\ \A i \in 1..c : n + i \in 1..Len(ps) /\ SubSeq(ps, n + 1, top)[i] = ps[n + i]
           /\ c = MaxRead \/ n + c >= Len(ps)
<1> USE BoundsAssumption
<1>1. Len(ps) \in Nat /\ MaxRead \in Nat /\ top \in Nat /\ top <= Len(ps) /\ top <= n + MaxRead
  <2>1. Len(ps) \in Nat /\ MaxRead \in Nat
    OBVIOUS
  <2>2. QED
    BY <2>1
<1>2. top = Len(ps) \/ top = n + MaxRead
  <2>1. Len(ps) \in Nat /\ MaxRead \in Nat
    OBVIOUS
  <2>2. Len(ps) < n + MaxRead \/ Len(ps) >= n + MaxRead
    BY <2>1
  <2>3. QED
    BY <2>2
<1>3. PICK c \in Nat : c = IF n + 1 <= top THEN top - n ELSE 0
  <2>1. (IF n + 1 <= top THEN top - n ELSE 0) \in Nat
    BY <1>1
  <2>2. QED
    BY <2>1
<1>4. \A i \in n + 1 .. top : ps[i] \in Piece
  BY <1>1
<1>5. PICK a \in Int : a = n + 1
  OBVIOUS
<1>6. /\ SubSeq(ps, a, top) \in Seq(Piece)
      /\ Len(SubSeq(ps, a, top)) = IF a <= top THEN top - a + 1 ELSE 0
      /\ \A i \in 1..top - a + 1 : SubSeq(ps, a, top)[i] = ps[a + i - 1]
  BY <1>1, <1>4, <1>5, SubSeqProperties
<1>7. Len(SubSeq(ps, a, top)) = c
  BY <1>1, <1>3, <1>5, <1>6
<1>8. \A i \in 1..c : n + i \in 1..Len(ps) /\ i \in 1..top - a + 1 /\ a + i - 1 = n + i
  BY <1>1, <1>3, <1>5
<1>9. c \in 0..MaxRead /\ (c = MaxRead \/ n + c >= Len(ps))
  <2>1. top > n \/ top <= n
    BY <1>1
  <2>2. QED
    BY <1>1, <1>2, <1>3, <2>1
<1>10. \A i \in 1..c : SubSeq(ps, a, top)[i] = ps[n + i]
  BY <1>6, <1>8
<1>11. SubSeq(ps, n + 1, top) = SubSeq(ps, a, top)
  BY <1>5
<1>12. QED
  BY <1>6, <1>7, <1>8, <1>9, <1>10, <1>11

\* Every read has such an outcome.
LEMMA ReadSplits ==
  ASSUME LogTypes, TailTypes, PollStage, Read
  PROVE  \E c, m, e, d, all : ReadOutcome(c, m, e, d, all)
<1> USE BoundsAssumption
<1>1. handle \in Inodes /\ batch = <<>>
  BY DEF Read, PollStage, TailTypes, NoFile, Inodes
<1>2. files[handle] \in Seq(Piece) /\ pos \in Nat /\ buf \in Seq(Piece)
  BY <1>1 DEF LogTypes, TailTypes
<1>3. PICK ps : ps = files[handle]
  OBVIOUS
<1>4. PICK top : top = IF Len(ps) < pos + MaxRead THEN Len(ps) ELSE pos + MaxRead
  OBVIOUS
<1>5. PICK chunk : chunk = SubSeq(ps, pos + 1, top)
  OBVIOUS
<1>6. PICK c \in 0..MaxRead :
        /\ chunk \in Seq(Piece) /\ Len(chunk) = c
        /\ \A i \in 1..c : pos + i \in 1..Len(ps) /\ chunk[i] = ps[pos + i]
        /\ c = MaxRead \/ pos + c >= Len(ps)
  <2>1. ps \in Seq(Piece)
    BY <1>2, <1>3
  <2>2. PICK c \in 0..MaxRead :
           /\ SubSeq(ps, pos + 1, top) \in Seq(Piece) /\ Len(SubSeq(ps, pos + 1, top)) = c
           /\ \A i \in 1..c : pos + i \in 1..Len(ps) /\ SubSeq(ps, pos + 1, top)[i] = ps[pos + i]
           /\ c = MaxRead \/ pos + c >= Len(ps)
    <3>1. Len(ps) \in Nat /\ MaxRead \in Nat
      BY <2>1
    <3>2. Len(ps) < pos + MaxRead => top = Len(ps)
      BY <1>4
    <3>3. Len(ps) >= pos + MaxRead => top = pos + MaxRead
      BY <1>2, <1>4, <3>1
    <3>4. QED
      BY <1>2, <2>1, <3>2, <3>3, ChunkRead, Zenon
  <2>3. QED
    BY <1>5, <2>2
<1>7. PICK all : all = buf \o chunk
  OBVIOUS
<1>8. /\ all \in Seq(Piece) /\ Len(all) = Len(buf) + c
      /\ \A i \in 1..Len(buf) + c : all[i] = IF i <= Len(buf) THEN buf[i] ELSE chunk[i - Len(buf)]
  <2>1. /\ buf \o chunk \in Seq(Piece) /\ Len(buf \o chunk) = Len(buf) + Len(chunk)
        /\ \A i \in 1..Len(buf) + Len(chunk) :
             (buf \o chunk)[i] = IF i <= Len(buf) THEN buf[i] ELSE chunk[i - Len(buf)]
    <3>1. buf \in Seq(Piece) /\ chunk \in Seq(Piece)
      BY <1>2, <1>6
    <3>2. PICK T : T = Piece
      OBVIOUS
    <3>3. buf \in Seq(T) /\ chunk \in Seq(T)
      BY <3>1, <3>2
    <3>4. /\ buf \o chunk \in Seq(T) /\ Len(buf \o chunk) = Len(buf) + Len(chunk)
          /\ \A i \in 1..Len(buf) + Len(chunk) :
               (buf \o chunk)[i] = IF i <= Len(buf) THEN buf[i] ELSE chunk[i - Len(buf)]
      BY <3>3, ConcatProperties
    <3>5. QED
      BY <3>2, <3>4
  <2>2. QED
    BY <1>6, <1>7, <2>1
<1>9. Len(buf) \in Nat /\ c \in Nat
  BY <1>2, <1>6
<1>10. /\ \A i \in 1..Len(buf) : all[i] = buf[i]
       /\ \A i \in 1..c : all[Len(buf) + i] = chunk[i]
  BY <1>8, <1>9
<1>11. PICK m \in Nat : \E e : Splits(all, m, e)
  BY <1>8, LinesSplit
<1>12. PICK e : Splits(all, m, e)
  BY <1>11
<1>13. PICK done : done = Complete(all)
  OBVIOUS
<1>14. PICK first : first = (discarding /\ done # <<>>)
  OBVIOUS
<1>15. PICK over : over = Overlong(Rest(all))
  OBVIOUS
<1>16. /\ pos' = pos + Len(chunk)
       /\ batch' = batch \o (IF first THEN Tail(done) ELSE done)
       /\ buf' = IF over THEN <<>> ELSE Rest(all)
       /\ discarding' = (over \/ (discarding /\ ~first))
  BY <1>3, <1>4, <1>5, <1>7, <1>13, <1>14, <1>15 DEF Read
<1>17. /\ e \in [0..m -> 0..Len(all)] /\ e[0] = 0 /\ LastEnd(all) = e[m]
       /\ done = [k \in 1..m |-> SubSeq(all, e[k - 1] + 1, e[k])]
  BY <1>12, <1>13 DEF Splits
<1>18. e[m] \in 0..Len(all)
  <2>1. m \in 0..m
    OBVIOUS
  <2>2. QED
    BY <1>17, <2>1
<1>19. Rest(all) = SubSeq(all, e[m] + 1, Len(all)) /\ Len(Rest(all)) = Len(all) - e[m]
  <2>1. Len(all) \in Nat /\ \A i \in e[m] + 1 .. Len(all) : all[i] \in Piece
    BY <1>8, <1>18
  <2>2. PICK a \in Int : a = e[m] + 1
    BY <1>18
  <2>3. Len(SubSeq(all, a, Len(all))) = IF a <= Len(all) THEN Len(all) - a + 1 ELSE 0
    BY <2>1, <2>2, SubSeqProperties
  <2>4. Rest(all) = SubSeq(all, e[m] + 1, Len(all))
    BY <1>17 DEF Rest
  <2>5. QED
    BY <1>18, <2>1, <2>2, <2>3, <2>4
<1>20. (over => Len(all) - e[m] > MaxLine) /\ (~over => Len(all) - e[m] <= MaxLine)
  <2>1. over <=> Len(Rest(all)) > MaxLine
    BY <1>15 DEF Overlong
  <2>2. Len(all) - e[m] \in Int /\ MaxLine \in Int
    BY <1>8, <1>9, <1>18
  <2>3. PICK r \in Int : r = Len(all) - e[m]
    BY <2>2
  <2>4. over <=> r > MaxLine
    BY <1>19, <2>1, <2>3
  <2>5. (over => r > MaxLine) /\ (~over => r <= MaxLine)
    BY <2>2, <2>4
  <2>6. QED
    BY <2>3, <2>5
<1>21. /\ \A k \in 1..m : SubSeq(all, e[k - 1] + 1, e[k]) \in Seq(Piece)
       /\ done \in Seq(Seq(Piece)) /\ Len(done) = m /\ (done = <<>> <=> m = 0)
  <2>1. \A k \in 1..m : SubSeq(all, e[k - 1] + 1, e[k]) \in Seq(Piece)
    <3> TAKE k \in 1..m
    <3>1. k \in 0..m /\ k - 1 \in 0..m
      OBVIOUS
    <3>2. e[k] \in 0..Len(all) /\ e[k - 1] \in 0..Len(all)
      BY <1>17, <3>1
    <3>3. PICK a \in Int, b \in Int : a = e[k - 1] + 1 /\ b = e[k]
      BY <3>2
    <3>4. \A i \in a..b : all[i] \in Piece
      BY <1>8, <1>9, <3>2, <3>3
    <3>5. QED
      BY <3>3, <3>4, SubSeqProperties
  <2>2. PICK T : T = Seq(Piece)
    OBVIOUS
  <2>3. done \in [1..m -> T]
    BY <1>17, <2>1, <2>2
  <2>4. done \in Seq(T) /\ Len(done) = m /\ (done = <<>> <=> m = 0)
    BY <2>3
  <2>5. QED
    BY <2>1, <2>2, <2>4
<1>22. PICK d \in {0, 1} : (first => d = 1) /\ (~first => d = 0)
  OBVIOUS
<1>23. batch' = IF first THEN Tail(done) ELSE done
  <2>1. CASE first
    <3>1. Tail(done) \in Seq(Seq(Piece))
      BY <1>14, <1>21, <2>1, HeadTailProperties
    <3>2. QED
      BY <1>1, <1>16, <2>1, <3>1, ConcatEmptySeq
  <2>2. CASE ~first
    BY <1>1, <1>16, <1>21, <2>2, ConcatEmptySeq
  <2>3. QED
    BY <2>1, <2>2
<1>24. batch' = [k \in 1..(m - d) |-> SubSeq(all, e[k + d - 1] + 1, e[k + d])]
  <2>1. CASE ~first
    <3>1. d = 0 /\ m - d = m
      BY <1>22, <2>1
    <3>2. \A k \in 1..m : k + d - 1 = k - 1 /\ k + d = k
      BY <3>1
    <3>3. QED
      BY <1>17, <1>23, <2>1, <3>1, <3>2
  <2>2. CASE first
    <3>1. d = 1 /\ done # <<>> /\ m # 0
      BY <1>14, <1>21, <1>22, <2>2
    <3>2. /\ Tail(done) \in Seq(Seq(Piece)) /\ Len(Tail(done)) = m - 1
          /\ \A i \in 1..m - 1 : Tail(done)[i] = done[i + 1]
      BY <1>21, <3>1, HeadTailProperties
    <3>3. \A k \in 1..m - 1 : /\ Tail(done)[k] = SubSeq(all, e[k + d - 1] + 1, e[k + d])
      <4> TAKE k \in 1..m - 1
      <4>1. k + 1 \in 1..m /\ (k + 1) - 1 = k + d - 1 /\ k + 1 = k + d
        BY <3>1
      <4>2. done[k + 1] = SubSeq(all, e[(k + 1) - 1] + 1, e[k + 1])
        BY <1>17, <4>1
      <4>3. QED
        BY <3>2, <4>1, <4>2
    <3>4. Tail(done) = [k \in 1..m - 1 |-> Tail(done)[k]]
      <4>1. PICK td : td = Tail(done)
        OBVIOUS
      <4>2. td = [k \in 1..Len(td) |-> td[k]]
        <5>1. PICK T : T = Seq(Piece)
          OBVIOUS
        <5>2. td \in Seq(T)
          BY <3>2, <4>1, <5>1
        <5>3. QED
          BY <5>2
      <4>3. QED
        BY <3>2, <4>1, <4>2
    <3>5. QED
      BY <1>23, <2>2, <3>1, <3>3, <3>4
  <2>3. QED
    BY <2>1, <2>2
<1>25. d <= m /\ (d = 1 => discarding) /\ (d = 0 => ~discarding \/ m = 0)
  <2>1. first <=> discarding /\ m # 0
    BY <1>14, <1>21
  <2>2. CASE first
    BY <1>22, <2>1, <2>2
  <2>3. CASE ~first
    BY <1>22, <2>1, <2>3
  <2>4. QED
    BY <2>2, <2>3
<1>26. /\ Len(all) - e[m] > MaxLine => buf' = <<>> /\ discarding'
       /\ Len(all) - e[m] <= MaxLine =>
            buf' = SubSeq(all, e[m] + 1, Len(all)) /\ (discarding' => discarding /\ m = 0)
                                                   /\ (discarding /\ m = 0 => discarding')
  <2>1. Len(all) - e[m] \in Int /\ MaxLine \in Int
    BY <1>8, <1>9, <1>18
  <2>2. (Len(all) - e[m] > MaxLine => over) /\ (Len(all) - e[m] <= MaxLine => ~over)
    BY <1>20, <2>1
  <2>3. discarding /\ ~first <=> discarding /\ m = 0
    BY <1>14, <1>21
  <2>4. QED
    BY <1>16, <1>19, <2>2, <2>3
<1>27. ReadOutcome(c, m, e, d, all)
  BY <1>3, <1>6, <1>8, <1>9, <1>10, <1>12, <1>16, <1>24, <1>25, <1>26 DEF ReadOutcome
<1>28. QED
  BY <1>27

\* The line `l` is the pieces of `all` after s, up to and with its end t.
IsLineOf(l, all, s, t) ==
  /\ l \in Line /\ Len(l) = t - s
  /\ \A i \in 1..t - s : l[i] = all[s + i]
  /\ all[t].end

\* The k-th line a read adds.
LEMMA LineRead ==
  ASSUME NEW c, NEW m, NEW e, NEW d, NEW all, ReadOutcome(c, m, e, d, all),
         NEW k \in 1..(m - d)
  PROVE  IsLineOf(batch'[k], all, e[k + d - 1], e[k + d])
<1>1. /\ Splits(all, m, e) /\ d \in {0, 1} /\ all \in Seq(Piece)
      /\ batch' = [j \in 1..(m - d) |-> SubSeq(all, e[j + d - 1] + 1, e[j + d])]
  BY DEF ReadOutcome
<1>2. m \in Nat /\ e \in [0..m -> 0..Len(all)]
  BY <1>1 DEF Splits
<1>3. PICK q \in 1..m : q = k + d /\ q - 1 = k + d - 1
  <2>1. k + d \in 1..m /\ (k + d) - 1 = k + d - 1
    BY <1>1, <1>2
  <2>2. QED
    BY <2>1
<1>4. q \in 0..m /\ q - 1 \in 0..m /\ q - 1 < q
  BY <1>2
<1>5. PICK s \in 0..Len(all) : s = e[q - 1]
  BY <1>2, <1>4
<1>6. PICK t \in 0..Len(all) : t = e[q]
  BY <1>2, <1>4
<1>7. s < t
  BY <1>1, <1>4, <1>5, <1>6 DEF Splits
<1>8. all[t].end
  BY <1>1, <1>6 DEF Splits
<1>9. batch'[k] = SubSeq(all, s + 1, t)
  BY <1>1, <1>3, <1>5, <1>6
<1>10. PICK a \in Int : a = s + 1
  OBVIOUS
<1>11. Len(all) \in Nat /\ \A i \in a..t : all[i] \in Piece
  BY <1>1, <1>10
<1>12. /\ SubSeq(all, a, t) \in Seq(Piece)
       /\ Len(SubSeq(all, a, t)) = IF a <= t THEN t - a + 1 ELSE 0
       /\ \A i \in 1..t - a + 1 : SubSeq(all, a, t)[i] = all[a + i - 1]
  BY <1>11, SubSeqProperties
<1>13. Len(SubSeq(all, a, t)) = t - s /\ t - s > 0
  BY <1>7, <1>10, <1>12
<1>14. \A i \in 1..t - s : SubSeq(all, a, t)[i] = all[s + i]
  <2> TAKE i \in 1..t - s
  <2>1. i \in 1..t - a + 1 /\ a + i - 1 = s + i
    BY <1>7, <1>10
  <2>2. QED
    BY <1>12, <2>1
<1>15. SubSeq(all, a, t) \in Line
  <2>1. SubSeq(all, a, t) # <<>>
    BY <1>13
  <2>2. QED
    BY <1>12, <2>1 DEF Line
<1>16. batch'[k] = SubSeq(all, a, t)
  BY <1>9, <1>10
<1>17. /\ batch'[k] \in Line /\ Len(batch'[k]) = t - s
       /\ \A i \in 1..t - s : batch'[k][i] = all[s + i]
  BY <1>13, <1>14, <1>15, <1>16
<1>18. s = e[k + d - 1] /\ t = e[k + d]
  BY <1>3, <1>5, <1>6
<1>19. IsLineOf(batch'[k], all, s, t)
  BY <1>8, <1>17 DEF IsLineOf
<1>20. QED
  BY <1>18, <1>19

\* What remains in the buffer.
LEMMA RestOfRead ==
  ASSUME NEW c, NEW m, NEW e, NEW d, NEW all, ReadOutcome(c, m, e, d, all)
  PROVE  /\ e[m] \in 0..Len(all) /\ Len(all) \in Nat /\ m \in Nat
         /\ buf' \in Seq(Piece)
         /\ Len(all) - e[m] > MaxLine => Len(buf') = 0
         /\ Len(all) - e[m] <= MaxLine =>
              Len(buf') = Len(all) - e[m] /\ \A i \in 1..Len(buf') : buf'[i] = all[e[m] + i]
         /\ \A i \in e[m] + 1 .. Len(all) : ~all[i].end
<1> USE BoundsAssumption
<1>1. Splits(all, m, e) /\ all \in Seq(Piece)
  BY DEF ReadOutcome
<1>2. m \in Nat /\ e \in [0..m -> 0..Len(all)] /\ Len(all) \in Nat
  BY <1>1 DEF Splits
<1>3. m \in 0..m
  BY <1>2
<1>4. PICK s \in 0..Len(all) : s = e[m]
  BY <1>2, <1>3
<1>5. PICK a \in Int : a = s + 1
  OBVIOUS
<1>6. \A i \in a..Len(all) : all[i] \in Piece
  BY <1>1, <1>2, <1>5
<1>7. /\ SubSeq(all, a, Len(all)) \in Seq(Piece)
      /\ Len(SubSeq(all, a, Len(all))) = IF a <= Len(all) THEN Len(all) - a + 1 ELSE 0
      /\ \A i \in 1..Len(all) - a + 1 : SubSeq(all, a, Len(all))[i] = all[a + i - 1]
  BY <1>2, <1>6, SubSeqProperties
<1>8. Len(SubSeq(all, a, Len(all))) = Len(all) - s
  BY <1>2, <1>5, <1>7
<1>9. \A i \in 1..Len(all) - s : SubSeq(all, a, Len(all))[i] = all[s + i]
  <2>1. PICK n \in Nat : n = Len(all)
    BY <1>2
  <2>2. \A i \in 1..n - s : i \in 1..n - a + 1 /\ a + i - 1 = s + i
    BY <1>5
  <2>3. QED
    BY <1>7, <2>1, <2>2
<1>10. /\ Len(all) - s > MaxLine => buf' = <<>>
       /\ Len(all) - s <= MaxLine => buf' = SubSeq(all, a, Len(all))
  BY <1>4, <1>5 DEF ReadOutcome
<1>11. Len(all) - s > MaxLine \/ Len(all) - s <= MaxLine
  BY <1>2
<1>12. buf' \in Seq(Piece)
  <2>1. <<>> \in Seq(Piece)
    OBVIOUS
  <2>2. QED
    BY <1>7, <1>10, <1>11, <2>1
<1>13. Len(all) - s > MaxLine => Len(buf') = 0
  BY <1>10
<1>14. Len(all) - s <= MaxLine =>
         Len(buf') = Len(all) - s /\ \A i \in 1..Len(buf') : buf'[i] = all[s + i]
  BY <1>8, <1>9, <1>10
<1>15. \A i \in s + 1 .. Len(all) : ~all[i].end
  BY <1>1, <1>4 DEF Splits
<1>16. QED
  BY <1>2, <1>4, <1>12, <1>13, <1>14, <1>15

\* The lines of a poll, one after the other.
LEMMA Joined ==
  ASSUME NEW x \in Seq(Line), NEW y \in Seq(Line)
  PROVE  /\ x \o y \in Seq(Line) /\ Len(x \o y) = Len(x) + Len(y)
         /\ Len(x) \in Nat /\ Len(y) \in Nat
         /\ \A k \in 1..Len(x) : (x \o y)[k] = x[k]
         /\ \A k \in 1..Len(y) : (x \o y)[Len(x) + k] = y[k]
<1>1. /\ x \o y \in Seq(Line) /\ Len(x \o y) = Len(x) + Len(y)
      /\ \A i \in 1..Len(x) + Len(y) : (x \o y)[i] = IF i <= Len(x) THEN x[i] ELSE y[i - Len(x)]
  BY ConcatProperties, Zenon
<1>2. Len(x) \in Nat /\ Len(y) \in Nat
  OBVIOUS
<1>3. \A k \in 1..Len(x) : k \in 1..Len(x) + Len(y) /\ k <= Len(x)
  BY <1>2
<1>4. \A k \in 1..Len(y) :
        /\ Len(x) + k \in 1..Len(x) + Len(y) /\ ~(Len(x) + k <= Len(x)) /\ (Len(x) + k) - Len(x) = k
  BY <1>2
<1>5. QED
  BY <1>1, <1>2, <1>3, <1>4

\* A partial line that is flushed is a line.
LEMMA Flushed ==
  ASSUME TailTypes
  PROVE  /\ FlushPartial \in Seq(Line) /\ Len(FlushPartial) \in {0, 1}
         /\ Len(FlushPartial) = 1 => ~discarding /\ buf # <<>> /\ FlushPartial[1] = buf
<1>1. CASE discarding \/ buf = <<>>
  BY <1>1 DEF FlushPartial
<1>2. CASE ~(discarding \/ buf = <<>>)
  <2>1. buf \in Line
    BY <1>2 DEF TailTypes, Line
  <2>2. PICK b : b = buf
    OBVIOUS
  <2>3. FlushPartial = <<b>>
    BY <1>2, <2>2 DEF FlushPartial
  <2>4. <<b>> \in Seq(Line) /\ Len(<<b>>) = 1 /\ <<b>>[1] = b
    BY <2>1, <2>2
  <2>5. QED
    BY <1>2, <2>2, <2>3, <2>4
<1>3. QED
  BY <1>1, <1>2

\* The types of what the collector holds are kept.
LEMMA TailTypesStep ==
  ASSUME LogTypes, TailTypes, PollStage, [Next]_vars PROVE TailTypes'
<1> USE BoundsAssumption
<1>0. <<>> \in Seq(Piece) /\ <<>> \in Seq(Line)
  OBVIOUS
<1>1. CASE \/ WritePiece \/ RenameAway \/ Create \/ Reopen \/ SetAccess
           \/ (\E n \in 0..1 : Truncate(n)) \/ Stop \/ UNCHANGED vars
  <2>1. UNCHANGED <<handle, pos, buf, discarding, skip, kept, batch>>
    BY <1>1 DEF WritePiece, RenameAway, Create, Reopen, SetAccess, Truncate, Stop, LogOnly,
                vars, tailVars, pollVars
  <2>2. QED
    BY <2>1 DEF TailTypes
<1>2. CASE Poll \/ FollowSame
  BY <1>2 DEF Poll, FollowSame, TailTypes, tailVars
<1>3. CASE OpenFails
  BY <1>3 DEF OpenFails, TailTypes
<1>4. CASE OpenFile
  <2>1. handle' = path /\ path \in Inodes
    BY <1>4 DEF OpenFile, LogTypes, Inodes, NoFile
  <2>2. pos' \in Nat
    <3>1. Len(files[path]) \in Nat
      BY <2>1 DEF LogTypes
    <3>2. pos' = Len(files[path]) \/ pos' = pos
      BY <1>4 DEF OpenFile
    <3>3. QED
      BY <3>1, <3>2 DEF TailTypes
  <2>3. discarding' \in BOOLEAN
    <3>1. discarding' = discarding \/ (discarding' = ~files[path][Len(files[path])].end)
      BY <1>4 DEF OpenFile
    <3>2. QED
      BY <3>1 DEF TailTypes
  <2>4. skip' \in BOOLEAN /\ UNCHANGED <<buf, kept, batch>>
    BY <1>4 DEF OpenFile
  <2>5. QED
    BY <2>1, <2>2, <2>3, <2>4 DEF TailTypes, Inodes
<1>5. CASE Read
  <2>1. PICK c, m, e, d, all : ReadOutcome(c, m, e, d, all)
    BY <1>5, ReadSplits
  <2>2. buf' \in Seq(Piece) /\ m \in Nat
    BY <2>1, RestOfRead
  <2>3. d \in {0, 1} /\ d <= m /\ DOMAIN batch' = 1..(m - d)
        /\ batch' = [k \in 1..(m - d) |-> batch'[k]]
    BY <2>1 DEF ReadOutcome
  <2>4. \A k \in 1..(m - d) : batch'[k] \in Line
    BY <2>1, LineRead DEF IsLineOf
  <2>5. batch' \in Seq(Line)
    <3>1. m - d \in Nat
      BY <2>2, <2>3
    <3>2. batch' \in [1..(m - d) -> Line]
      BY <2>3, <2>4
    <3>3. QED
      BY <3>1, <3>2
  <2>6. pos' \in Nat
    BY <2>1 DEF ReadOutcome, TailTypes
  <2>7. discarding' \in BOOLEAN /\ UNCHANGED <<handle, skip, kept>>
    BY <1>5 DEF Read
  <2>8. QED
    BY <2>2, <2>5, <2>6, <2>7 DEF TailTypes
<1>6. CASE FollowFails
  BY <1>6 DEF FollowFails, TailTypes
<1>7. CASE FollowRotated
  <2>1. batch \o FlushPartial \in Seq(Line)
    BY Flushed, Joined DEF TailTypes
  <2>2. kept \o OldFileLines \in Seq(Line)
    BY <2>1, Joined DEF TailTypes, OldFileLines
  <2>3. /\ kept' = kept \o OldFileLines /\ batch' = <<>> /\ buf' = <<>> /\ discarding' = FALSE
        /\ handle' = 0 /\ pos' = 0 /\ skip' = skip
    BY <1>7 DEF FollowRotated, NoFile
  <2>4. handle' \in 0..MaxFiles
    BY <2>3
  <2>5. QED
    BY <1>0, <2>2, <2>3, <2>4 DEF TailTypes
<1>8. CASE FollowTruncated
  <2>1. /\ pos' = 0 /\ buf' = <<>> /\ discarding' = FALSE
        /\ UNCHANGED <<handle, skip, kept, batch>>
    BY <1>8 DEF FollowTruncated
  <2>2. QED
    BY <1>0, <2>1 DEF TailTypes
<1>9. CASE EmitLine
  <2>1. PollLines \in Seq(Line)
    BY Joined DEF TailTypes, PollLines
  <2>2. Tail(PollLines) \in Seq(Line)
    BY <1>9, <2>1, HeadTailProperties DEF EmitLine
  <2>3. QED
    BY <1>9, <2>2 DEF EmitLine, TailTypes
<1>10. CASE EndPoll
  BY <1>10 DEF EndPoll, TailTypes, NoFile
<1>11. QED
  BY <1>1, <1>2, <1>3, <1>4, <1>5, <1>6, <1>7, <1>8, <1>9, <1>10 DEF Next, Collect

\* A line begins with a piece of the log and is counted by its kind.
LEMMA LineFacts ==
  ASSUME NEW l \in Line
  PROVE  /\ Len(l) \in Nat \ {0} /\ l[1] \in Piece /\ l[1].line \in DOMAIN Kind
         /\ RecordCount(l) \in Nat /\ Key(l) \in Keys
<1> USE BoundsAssumption
<1>1. l \in Seq(Piece) /\ l # <<>>
  BY DEF Line
<1>2. Len(l) \in Nat \ {0} /\ l[1] \in Piece
  BY <1>1
<1>3. l[1].line \in DOMAIN Kind
  BY <1>2 DEF Piece
<1>4. Kind[l[1].line].count \in Nat
  BY <1>3
<1>5. RecordCount(l) = 0 \/ RecordCount(l) = Kind[l[1].line].count
  BY DEF RecordCount
<1>6. Key(l) \in Keys
  <2>1. Kind[l[1].line].key \in {Kind[n].key : n \in DOMAIN Kind}
    BY <1>3
  <2>2. (~Whole(l)) \in BOOLEAN
    OBVIOUS
  <2>3. QED
    BY <2>1, <2>2 DEF Key, Keys
<1>7. QED
  BY <1>2, <1>3, <1>4, <1>5, <1>6

\* What _number does with a line of n records: numbers them on from the identical ones.
NumberOutcome(l, known) ==
  /\ known \in [Keys -> Nat]
  /\ Kind[l[1].line].ts = seenTs => known = seen
  /\ RecordCount(l) = 0 => UNCHANGED outVars
  /\ RecordCount(l) # 0 =>
       /\ seenTs' = Kind[l[1].line].ts
       /\ seen' = [known EXCEPT ![Key(l)] = @ + RecordCount(l)]
       /\ emitted' \in Seq(Record) /\ Len(emitted') = Len(emitted) + RecordCount(l)
       /\ \A i \in 1..Len(emitted) : emitted'[i] = emitted[i]
       /\ \A i \in 1..RecordCount(l) :
            /\ emitted'[Len(emitted) + i].line = l[1].line
            /\ emitted'[Len(emitted) + i].rec = i
            /\ emitted'[Len(emitted) + i].id.ts = Kind[l[1].line].ts
            /\ emitted'[Len(emitted) + i].id.key = Key(l)
            /\ emitted'[Len(emitted) + i].id.occurrence = known[Key(l)] + i - 1

\* Numbering a line has such an outcome.
LEMMA LineNumbered ==
  ASSUME OutTypes, NEW l \in Line, Number(l)
  PROVE  \E known : NumberOutcome(l, known)
<1> DEFINE n == l[1].line
           rec(known, i) ==
             [line |-> n, rec |-> i, cut |-> ~Whole(l),
              id |-> [ts |-> Kind[n].ts, key |-> Key(l),
                      occurrence |-> Occurrence(known[Key(l)], i)]]
<1>1. PICK known : known = IF Kind[n].ts = seenTs THEN seen ELSE [k \in Keys |-> 0]
  OBVIOUS
<1>2. PICK count : count = RecordCount(l)
  OBVIOUS
<1>3. known \in [Keys -> Nat] /\ (Kind[n].ts = seenTs => known = seen)
  BY <1>1 DEF OutTypes
<1>4. count \in Nat /\ n \in DOMAIN Kind /\ Key(l) \in Keys
  BY <1>2, LineFacts
<1>5. CASE count = 0
  <2>1. UNCHANGED outVars
    BY <1>2, <1>5 DEF Number
  <2>2. NumberOutcome(l, known)
    BY <1>2, <1>3, <1>5, <2>1 DEF NumberOutcome
  <2>3. QED
    BY <2>2
<1>6. CASE count # 0
  <2> DEFINE new == [i \in 1..count |-> rec(known, i)]
  <2>1. /\ seenTs' = Kind[n].ts /\ seen' = [known EXCEPT ![Key(l)] = @ + count]
        /\ emitted' = emitted \o new
    BY <1>1, <1>2, <1>6 DEF Number
  <2>2. \A i \in 1..count : rec(known, i) \in Record
    <3> TAKE i \in 1..count
    <3>1. PICK v \in Nat : v = known[Key(l)]
      BY <1>3, <1>4
    <3>2. Occurrence(known[Key(l)], i) \in Nat
      BY <1>4, <3>1 DEF Occurrence
    <3>3. PICK o \in Nat : o = Occurrence(known[Key(l)], i)
      BY <3>2
    <3>4. PICK w \in BOOLEAN : w = ~Whole(l)
      OBVIOUS
    <3>5. Kind[n].ts \in {Kind[x].ts : x \in DOMAIN Kind} /\ i \in Nat
      BY <1>4
    <3>6. [ts |-> Kind[n].ts, key |-> Key(l), occurrence |-> o]
            \in [ts : {Kind[x].ts : x \in DOMAIN Kind}, key : Keys, occurrence : Nat]
      BY <1>4, <3>5
    <3>7. [line |-> n, rec |-> i, cut |-> w,
           id |-> [ts |-> Kind[n].ts, key |-> Key(l), occurrence |-> o]] \in Record
      BY <1>4, <3>5, <3>6 DEF Record
    <3>8. QED
      BY <3>3, <3>4, <3>7
  <2>3. \A i \in 1..count :
          /\ rec(known, i).line = n /\ rec(known, i).rec = i
          /\ rec(known, i).id.ts = Kind[n].ts /\ rec(known, i).id.key = Key(l)
          /\ rec(known, i).id.occurrence = known[Key(l)] + i - 1
    BY DEF Occurrence
  <2>4. new \in Seq(Record) /\ Len(new) = count /\ \A i \in 1..count : new[i] = rec(known, i)
    <3>1. \A i \in 1..count : new[i] = rec(known, i)
      OBVIOUS
    <3>2. new \in [1..count -> Record]
      BY <2>2
    <3> HIDE DEF new
    <3>3. QED
      BY <1>4, <3>1, <3>2
  <2> HIDE DEF new, rec
  <2>5. emitted \in Seq(Record)
    BY DEF OutTypes
  <2>6. /\ emitted \o new \in Seq(Record) /\ Len(emitted \o new) = Len(emitted) + Len(new)
        /\ \A i \in 1..Len(emitted) + Len(new) :
             (emitted \o new)[i] = IF i <= Len(emitted) THEN emitted[i] ELSE new[i - Len(emitted)]
    BY <2>4, <2>5, ConcatProperties, Zenon
  <2>7. PICK x \in Nat : x = Len(emitted)
    BY <2>5
  <2>8. \A i \in 1..x : i \in 1..x + count /\ i <= x
    BY <1>4
  <2>9. \A i \in 1..count : x + i \in 1..x + count /\ ~(x + i <= x) /\ (x + i) - x = i
    BY <1>4
  <2>10. /\ emitted' \in Seq(Record) /\ Len(emitted') = x + count
         /\ \A i \in 1..x : emitted'[i] = emitted[i]
         /\ \A i \in 1..count : emitted'[x + i] = new[i]
    BY <2>1, <2>4, <2>6, <2>7, <2>8, <2>9
  <2>11. \A i \in 1..count :
            /\ emitted'[x + i].line = n /\ emitted'[x + i].rec = i
            /\ emitted'[x + i].id.ts = Kind[n].ts /\ emitted'[x + i].id.key = Key(l)
            /\ emitted'[x + i].id.occurrence = known[Key(l)] + i - 1
    BY <2>3, <2>4, <2>10
  <2>12. NumberOutcome(l, known)
    BY <1>2, <1>3, <1>6, <2>1, <2>7, <2>10, <2>11 DEF NumberOutcome
  <2>13. QED
    BY <2>12
<1>7. QED
  BY <1>5, <1>6

\* A step that emits nothing leaves the queue.
LEMMA OnlyEmitLineEmits ==
  ASSUME [Next]_vars, ~EmitLine
  PROVE  emitted' = emitted /\ seenTs' = seenTs /\ (seen' = seen \/ FollowTruncated)
BY DEF Next, Collect, WritePiece, RenameAway, Create, Reopen, SetAccess, Truncate, Stop,
       LogOnly, vars, outVars, Poll, OpenFails, OpenFile, Read, FollowFails, FollowSame,
       FollowTruncated, FollowRotated, EndPoll

\* The line EmitLine takes.
LEMMA HeadLine ==
  ASSUME TailTypes, EmitLine
  PROVE  /\ PollLines \in Seq(Line) /\ Len(PollLines) \in Nat \ {0}
         /\ Head(PollLines) = PollLines[1] /\ PollLines[1] \in Line /\ Number(PollLines[1])
         /\ kept' = Tail(PollLines) /\ batch' = <<>>
         /\ PollLines' \in Seq(Line) /\ Len(PollLines') = Len(PollLines) - 1
         /\ \A k \in 1..Len(PollLines') : PollLines'[k] = PollLines[k + 1]
<1>1. PollLines \in Seq(Line)
  BY Joined DEF TailTypes, PollLines
<1>2. PICK p : p = PollLines
  OBVIOUS
<1>3. p \in Seq(Line) /\ p # <<>>
  BY <1>1, <1>2 DEF EmitLine
<1>4. Len(p) \in Nat \ {0} /\ Head(p) = p[1] /\ p[1] \in Line
  BY <1>3
<1>5. /\ Tail(p) \in Seq(Line) /\ Len(Tail(p)) = Len(p) - 1
      /\ \A i \in 1..Len(Tail(p)) : Tail(p)[i] = p[i + 1]
  BY <1>3, HeadTailProperties
<1>6. kept' = Tail(p) /\ batch' = <<>> /\ Number(p[1])
  BY <1>2, <1>4 DEF EmitLine
<1>7. PollLines' = Tail(p)
  <2>1. PollLines' = kept' \o batch'
    BY DEF PollLines
  <2>2. QED
    BY <1>5, <1>6, <2>1, ConcatEmptySeq
<1>8. QED
  BY <1>2, <1>3, <1>4, <1>5, <1>6, <1>7

\* The types of what is emitted are kept.
LEMMA OutTypesStep == ASSUME TailTypes, OutTypes, [Next]_vars PROVE OutTypes'
<1>1. CASE EmitLine
  <2>1. PollLines[1] \in Line /\ Number(PollLines[1])
    BY <1>1, HeadLine
  <2>2. PICK l \in Line : l = PollLines[1]
    BY <2>1
  <2>3. Number(l)
    BY <2>1, <2>2
  <2>4. PICK known : NumberOutcome(l, known)
    BY <2>3, LineNumbered
  <2>5. RecordCount(l) \in Nat /\ Key(l) \in Keys
    BY LineFacts
  <2>6. CASE RecordCount(l) = 0
    BY <2>4, <2>6 DEF NumberOutcome, OutTypes, outVars
  <2>7. CASE RecordCount(l) # 0
    <3>1. /\ emitted' \in Seq(Record) /\ known \in [Keys -> Nat]
          /\ seen' = [known EXCEPT ![Key(l)] = @ + RecordCount(l)]
      BY <2>4, <2>7 DEF NumberOutcome
    <3>2. known[Key(l)] + RecordCount(l) \in Nat
      BY <2>5, <3>1
    <3>3. QED
      BY <3>1, <3>2 DEF OutTypes
  <2>8. QED
    BY <2>6, <2>7
<1>2. CASE ~EmitLine
  <2>1. emitted' = emitted /\ (seen' = seen \/ seen' = [k \in Keys |-> 0])
    BY <1>2, OnlyEmitLineEmits DEF FollowTruncated
  <2>2. QED
    BY <2>1 DEF OutTypes
<1>3. QED
  BY <1>1, <1>2

\* Every step keeps what a poll holds at its stage.
LEMMA PollStageStep ==
  ASSUME TailTypes, PollStage, [Next]_vars PROVE PollStage'
<1>1. CASE \/ WritePiece \/ RenameAway \/ Create \/ Reopen \/ SetAccess
           \/ (\E n \in 0..1 : Truncate(n)) \/ UNCHANGED vars
  <2>1. UNCHANGED <<pc, kept, batch, nested, final, handle, pos, buf, discarding, stopping>>
    BY <1>1 DEF WritePiece, RenameAway, Create, Reopen, SetAccess, Truncate, LogOnly,
                vars, tailVars, pollVars, stopVars
  <2>2. QED
    BY <2>1 DEF PollStage
<1>2. CASE Stop
  BY <1>2 DEF Stop, PollStage, tailVars, pollVars
<1>3. CASE Poll
  BY <1>3 DEF Poll, PollStage, tailVars, TailOnly, stopVars
<1>4. CASE OpenFails
  BY <1>4 DEF OpenFails, PollStage, TailOnly, stopVars
<1>5. CASE OpenFile
  BY <1>5 DEF OpenFile, PollStage, TailOnly, stopVars
<1>6. CASE Read
  <2>1. /\ pc = "read" /\ pc' \in {"follow", "emit"}
        /\ UNCHANGED <<kept, nested, final, handle, stopping>>
    BY <1>6 DEF Read, TailOnly, stopVars
  <2>2. QED
    BY <2>1 DEF PollStage
<1>7. CASE FollowFails
  BY <1>7 DEF FollowFails, PollStage, TailOnly, stopVars
<1>8. CASE FollowSame
  BY <1>8 DEF FollowSame, PollStage, TailOnly, stopVars, tailVars
<1>9. CASE FollowRotated
  BY <1>9 DEF FollowRotated, PollStage, TailOnly, stopVars
<1>10. CASE FollowTruncated
  BY <1>10 DEF FollowTruncated, PollStage, TailOnly, stopVars
<1>11. CASE EmitLine
  BY <1>11 DEF EmitLine, PollStage, TailOnly, stopVars
<1>12. CASE EndPoll
  <2>1. kept = <<>> /\ batch = <<>>
    <3>1. CASE pc = "raised"
      BY <3>1 DEF PollStage
    <3>2. CASE pc = "emit" /\ PollLines = <<>>
      <4>1. Len(kept \o batch) = Len(kept) + Len(batch) /\ Len(kept) \in Nat /\ Len(batch) \in Nat
        BY Joined DEF TailTypes
      <4>2. Len(kept \o batch) = 0
        BY <3>2 DEF PollLines
      <4>3. Len(kept) = 0 /\ Len(batch) = 0
        BY <4>1, <4>2
      <4>4. QED
        BY <4>3 DEF TailTypes
    <3>3. QED
      BY <1>12, <3>1, <3>2 DEF EndPoll
  <2>2. QED
    BY <1>12, <2>1 DEF EndPoll, PollStage, TailOnly, stopVars
<1>13. QED
  BY <1>1, <1>2, <1>3, <1>4, <1>5, <1>6, <1>7, <1>8, <1>9, <1>10, <1>11, <1>12 DEF Next, Collect

\* No step reads a file past its end.
LEMMA OffsetsStep ==
  ASSUME LogTypes, TailTypes, PollStage, Offsets, [Next]_vars PROVE Offsets'
<1>0. \A f \in Inodes : Len(files[f]) \in Nat /\ upto[f] \in Nat
  BY DEF LogTypes, Offsets
<1>1. CASE WritePiece
  <2>1. upto' = upto
    BY <1>1 DEF WritePiece
  <2>2. \A f \in Inodes : Len(files'[f]) >= Len(files[f])
    <3> TAKE f \in Inodes
    <3>1. f # wfile => files'[f] = files[f]
      BY <1>1, Written
    <3>2. f = wfile => Len(files'[f]) = Len(files[f]) + 1
      BY <1>1, Written
    <3>3. QED
      BY <1>0, <3>1, <3>2
  <2>3. \A f \in Inodes : Len(files'[f]) \in Nat
    BY <1>1, Written
  <2>4. \A f \in Inodes : upto[f] <= Len(files[f])
    BY DEF Offsets
  <2>5. \A f \in Inodes : upto'[f] <= Len(files'[f])
    BY <1>0, <2>1, <2>2, <2>3, <2>4
  <2>6. QED
    BY <2>1, <2>5 DEF Offsets
<1>2. CASE \E n \in 0..1 : Truncate(n)
  <2>1. PICK n \in 0..1 : Truncate(n)
    BY <1>2
  <2>2. /\ path \in Inodes /\ Len(files'[path]) = n
        /\ \A f \in Inodes : f # path => files'[f] = files[f]
        /\ upto' = [upto EXCEPT ![path] = IF n < @ THEN n ELSE @]
    BY <2>1, Truncated
  <2>3. upto \in [Inodes -> Nat]
    BY DEF Offsets
  <2>4. /\ upto' \in [Inodes -> Nat] /\ upto'[path] <= n
        /\ \A f \in Inodes : f # path => upto'[f] = upto[f]
    BY <1>0, <2>2, <2>3
  <2>5. QED
    BY <2>2, <2>4 DEF Offsets
<1>3. CASE Renaming \/ Stop \/ Poll \/ OpenFails \/ FollowFails \/ FollowSame \/ FollowRotated
           \/ EmitLine \/ EndPoll \/ UNCHANGED vars
  <2>1. upto' = upto /\ files' = files
    BY <1>3 DEF Renaming, RenameAway, Create, Reopen, SetAccess, Stop, Poll, OpenFails,
       FollowFails, FollowSame, FollowRotated, EmitLine, EndPoll, TailOnly, logVars, histVars, vars
  <2>2. QED
    BY <2>1 DEF Offsets
<1>4. CASE OpenFile
  <2>1. /\ files' = files /\ path \in Inodes /\ upto' = [upto EXCEPT ![path] = pos']
        /\ pos' = Len(files[path]) \/ pos' = pos
    BY <1>4 DEF OpenFile, TailOnly, logVars, LogTypes, NoFile, Inodes
  <2>2. pos = 0
    BY <1>4 DEF OpenFile, PollStage
  <2>3. pos' \in Nat /\ pos' <= Len(files[path])
    BY <1>0, <2>1, <2>2
  <2>4. QED
    BY <2>1, <2>3 DEF Offsets
<1>5. CASE Read
  <2>1. handle \in Inodes /\ files' = files
    BY <1>5 DEF Read, PollStage, TailTypes, NoFile, Inodes, TailOnly, logVars
  <2>2. PICK v : /\ upto' = [upto EXCEPT ![handle] = v]
                 /\ v = upto[handle] \/ (v = pos' /\ ~(Len(files[handle]) < pos'))
    <3>1. upto' = [upto EXCEPT ![handle] = IF Len(files[handle]) < pos' THEN @ ELSE pos']
      BY <1>5 DEF Read
    <3>2. QED
      BY <3>1
  <2>3. pos' \in Nat
    BY <1>5, TailTypesStep DEF TailTypes
  <2>4. v \in Nat /\ v <= Len(files[handle])
    BY <1>0, <2>1, <2>2, <2>3 DEF Offsets
  <2>5. QED
    BY <2>1, <2>2, <2>4 DEF Offsets
<1>6. CASE FollowTruncated
  <2>1. handle \in Inodes /\ files' = files /\ upto' = [upto EXCEPT ![handle] = 0]
    BY <1>6 DEF FollowTruncated, PollStage, TailTypes, NoFile, Inodes, TailOnly, logVars
  <2>2. QED
    BY <1>0, <2>1 DEF Offsets
<1>7. QED
  BY <1>1, <1>2, <1>3, <1>4, <1>5, <1>6 DEF Next, Collect, Renaming

-----------------------------------------------------------------------------
(* The buffer is the line in hand. *)

\* What follows the offset does not matter.
LEMMA FollowsPrefix ==
  ASSUME NEW ps, NEW qs, NEW q \in Nat, NEW b \in Seq(Piece), NEW dis, NEW skipped,
         \A i \in 1..q : qs[i] = ps[i], Follows(ps, q, b, dis, skipped)
  PROVE  Follows(qs, q, b, dis, skipped)
<1>1. Len(b) \in Nat /\ Len(b) <= q
  BY DEF Follows
<1>2. \A i \in 1..Len(b) : q - Len(b) + i \in 1..q
  BY <1>1
<1>3. \A i \in 1..Len(b) : b[i] = qs[q - Len(b) + i] /\ ~b[i].end
  BY <1>2 DEF Follows
<1>4. ASSUME dis PROVE Discarded(qs, q, skipped)
  <2>1. PICK j \in 1..q : /\ \A k \in j..q : ~ps[k].end
                          /\ ps[j].line \in skipped \/ q - j >= MaxLine
    BY <1>4 DEF Follows, Discarded
  <2>2. \A k \in j..q : k \in 1..q
    OBVIOUS
  <2>3. \A k \in j..q : ~qs[k].end
    BY <2>1, <2>2
  <2>4. QED
    BY <2>1, <2>3 DEF Discarded
<1>5. ASSUME ~dis PROVE q = Len(b) \/ qs[q - Len(b)].end
  <2>1. q = Len(b) \/ q - Len(b) \in 1..q
    BY <1>1
  <2>2. QED
    BY <1>5, <2>1 DEF Follows
<1>6. QED
  BY <1>1, <1>3, <1>4, <1>5 DEF Follows

\* The lines `all` a read splits are those of the file from where the line in hand began.
LEMMA ReadFromFile ==
  ASSUME LogTypes, TailTypes, TailFollowsFile, Read, InSync, ~regrown,
         NEW c, NEW m, NEW e, NEW d, NEW all, ReadOutcome(c, m, e, d, all)
  PROVE  /\ LineStart \in Nat /\ c \in Nat /\ pos' = LineStart + Len(all)
         /\ Len(buf) \in Nat /\ pos = LineStart + Len(buf) /\ Len(all) = Len(buf) + c
         /\ LineStart + Len(all) <= Len(files[handle])
         /\ \A i \in 1..Len(all) : all[i] = files[handle][LineStart + i]
         /\ \A i \in 1..Len(buf) : ~all[i].end
<1> USE BoundsAssumption
<1>1. Follows(files[handle], pos, buf, discarding, history)
  BY DEF TailFollowsFile, Read
<1>2. /\ Len(buf) \in Nat /\ pos \in Nat /\ Len(buf) <= pos
      /\ \A i \in 1..Len(buf) : buf[i] = files[handle][pos - Len(buf) + i] /\ ~buf[i].end
  BY <1>1 DEF Follows, TailTypes
<1>3. /\ c \in 0..MaxRead /\ Len(all) = Len(buf) + c /\ pos' = pos + c
      /\ \A i \in 1..Len(buf) : all[i] = buf[i]
      /\ \A i \in 1..c : /\ pos + i \in 1..Len(files[handle])
                         /\ all[Len(buf) + i] = files[handle][pos + i]
  BY DEF ReadOutcome
<1>4. c \in Nat
  BY <1>3
<1>5. PICK L \in Nat : L = pos - Len(buf)
  <2>1. pos - Len(buf) \in Nat
    BY <1>2
  <2>2. QED
    BY <2>1
<1>6. LineStart = L /\ pos = L + Len(buf)
  BY <1>2, <1>5 DEF LineStart
<1>7. Len(files[handle]) \in Nat /\ pos <= Len(files[handle])
  <2>1. handle \in Inodes
    BY DEF InSync, TailTypes, Inodes, NoFile
  <2>2. QED
    BY <2>1 DEF InSync, LogTypes
<1>8. pos + c <= Len(files[handle])
  <2>1. CASE c = 0
    BY <1>2, <1>7, <2>1
  <2>2. CASE c # 0
    <3>1. c \in 1..c
      BY <1>4, <2>2
    <3>2. QED
      BY <1>3, <1>7, <3>1
  <2>3. QED
    BY <2>1, <2>2
<1>9. \A i \in 1..Len(all) : all[i] = files[handle][L + i]
  <2> TAKE i \in 1..Len(all)
  <2>1. CASE i <= Len(buf)
    <3>1. i \in 1..Len(buf)
      BY <1>2, <2>1
    <3>2. QED
      BY <1>2, <1>3, <1>5, <3>1
  <2>2. CASE i > Len(buf)
    <3>1. PICK j \in 1..c : i = Len(buf) + j
      <4>1. i - Len(buf) \in 1..c /\ i = Len(buf) + (i - Len(buf))
        BY <1>2, <1>3, <1>4, <2>2
      <4>2. QED
        BY <4>1
    <3>2. pos + j = L + i
      BY <1>2, <1>5, <3>1
    <3>3. QED
      BY <1>3, <3>1, <3>2
  <2>3. QED
    BY <1>2, <2>1, <2>2
<1>10. pos' = L + Len(all)
  BY <1>2, <1>3, <1>4, <1>5
<1>11. \A i \in 1..Len(buf) : ~all[i].end
  BY <1>2, <1>3
<1>12. QED
  BY <1>2, <1>3, <1>4, <1>6, <1>8, <1>9, <1>10, <1>11

\* After a read the buffer is again the line in hand.
LEMMA ReadFollows ==
  ASSUME LogTypes, TailTypes, PollStage, TailFollowsFile, Read, InSync, ~regrown
  PROVE  Follows(files[handle], pos', buf', discarding', history)
<1> USE BoundsAssumption
<1>1. PICK c, m, e, d, all : ReadOutcome(c, m, e, d, all)
  BY ReadSplits
<1>2. PICK ps : ps = files[handle]
  OBVIOUS
<1>3. PICK L \in Nat : L = LineStart
  BY <1>1, ReadFromFile
<1>4. PICK z \in Nat : z = Len(all)
  BY <1>1, RestOfRead
<1>5. PICK s \in 0..z : s = e[m]
  BY <1>1, <1>4, RestOfRead
<1>6. /\ pos' = L + z /\ Len(buf) \in Nat /\ pos = L + Len(buf) /\ Len(buf) <= z
      /\ \A i \in 1..z : all[i] = ps[L + i]
  <2>1. /\ c \in Nat /\ pos' = L + z /\ Len(buf) \in Nat /\ pos = L + Len(buf) /\ z = Len(buf) + c
        /\ \A i \in 1..z : all[i] = ps[L + i]
    BY <1>1, <1>2, <1>3, <1>4, ReadFromFile
  <2>2. QED
    BY <2>1
<1>7. /\ buf' \in Seq(Piece) /\ m \in Nat
      /\ z - s > MaxLine => Len(buf') = 0
      /\ z - s <= MaxLine => Len(buf') = z - s /\ \A i \in 1..Len(buf') : buf'[i] = all[s + i]
      /\ \A i \in s + 1 .. z : ~all[i].end
  <2>1. /\ buf' \in Seq(Piece) /\ m \in Nat
        /\ Len(all) - e[m] > MaxLine => Len(buf') = 0
        /\ Len(all) - e[m] <= MaxLine =>
             Len(buf') = Len(all) - e[m] /\ \A i \in 1..Len(buf') : buf'[i] = all[e[m] + i]
        /\ \A i \in e[m] + 1 .. Len(all) : ~all[i].end
    BY <1>1, RestOfRead
  <2>2. QED
    BY <1>4, <1>5, <2>1
<1>8. \A k \in L + s + 1 .. L + z : ~ps[k].end
  <2> TAKE k \in L + s + 1 .. L + z
  <2>1. PICK i \in s + 1 .. z : k = L + i
    <3>1. k - L \in s + 1 .. z /\ k = L + (k - L)
      OBVIOUS
    <3>2. QED
      BY <3>1
  <2>2. i \in 1..z
    OBVIOUS
  <2>3. QED
    BY <1>6, <1>7, <2>1, <2>2
<1>9. /\ z - s > MaxLine => buf' = <<>> /\ discarding'
      /\ z - s <= MaxLine => (discarding' => discarding /\ m = 0)
                             /\ (discarding /\ m = 0 => discarding')
  BY <1>1, <1>4, <1>5 DEF ReadOutcome
<1>10. Follows(ps, pos, buf, discarding, history)
  BY <1>2 DEF TailFollowsFile, Read
<1>11. CASE z - s > MaxLine
  <2>1. Len(buf') = 0 /\ discarding'
    BY <1>7, <1>9, <1>11
  <2>2. PICK j \in 1..L + z : j = L + s + 1
    <3>1. L + s + 1 \in 1..L + z
      BY <1>11
    <3>2. QED
      BY <3>1
  <2>3. (L + z) - j >= MaxLine
    BY <1>11, <2>2
  <2>4. \A k \in j..L + z : ~ps[k].end
    BY <1>8, <2>2
  <2>5. Discarded(ps, L + z, history)
    BY <2>3, <2>4 DEF Discarded
  <2>6. Len(buf') <= L + z
    BY <2>1
  <2>7. QED
    BY <1>2, <1>6, <2>1, <2>5, <2>6 DEF Follows
<1>12. CASE z - s <= MaxLine
  <2>1. Len(buf') = z - s /\ \A i \in 1..z - s : buf'[i] = all[s + i]
    BY <1>7, <1>12
  <2>2. Len(buf') <= L + z /\ (L + z) - Len(buf') = L + s
    BY <2>1
  <2>3. \A i \in 1..z - s : s + i \in 1..z /\ s + i \in s + 1 .. z /\ L + (s + i) = (L + s) + i
    OBVIOUS
  <2>4. \A i \in 1..z - s : buf'[i] = ps[(L + s) + i] /\ ~buf'[i].end
    BY <1>6, <1>7, <2>1, <2>3
  <2>5. ASSUME discarding' PROVE Discarded(ps, L + z, history)
    <3>1. discarding /\ m = 0
      BY <1>9, <1>12, <2>5
    <3>2. s = 0
      BY <1>1, <1>5, <3>1 DEF ReadOutcome, Splits
    <3>3. PICK j \in 1..pos : /\ \A k \in j..pos : ~ps[k].end
                              /\ ps[j].line \in history \/ pos - j >= MaxLine
      BY <1>10, <3>1 DEF Follows, Discarded
    <3>4. j \in 1..L + z /\ (pos - j >= MaxLine => (L + z) - j >= MaxLine)
      BY <1>6
    <3>5. \A k \in j..L + z : ~ps[k].end
      <4> TAKE k \in j..L + z
      <4>1. k \in j..pos \/ k \in L + s + 1 .. L + z
        BY <1>6, <3>2
      <4>2. QED
        BY <1>8, <3>3, <4>1
    <3>6. QED
      BY <3>3, <3>4, <3>5 DEF Discarded
  <2>6. ASSUME ~discarding' PROVE L + z = Len(buf') \/ ps[L + s].end
    <3>1. CASE m = 0
      <4>1. ~discarding /\ s = 0
        <5>1. ~discarding
          BY <1>9, <1>12, <2>6, <3>1
        <5>2. s = 0
          BY <1>1, <1>5, <3>1 DEF ReadOutcome, Splits
        <5>3. QED
          BY <5>1, <5>2
      <4>2. pos = Len(buf) \/ ps[pos - Len(buf)].end
        BY <1>10, <4>1 DEF Follows
      <4>3. pos - Len(buf) = L + s /\ (pos = Len(buf) => L = 0)
        BY <1>6, <4>1
      <4>4. L = 0 => L + z = Len(buf')
        BY <2>1, <4>1
      <4>5. QED
        BY <4>2, <4>3, <4>4
    <3>2. CASE m # 0
      <4>1. m \in 1..m /\ m - 1 \in 0..m /\ m \in 0..m /\ m - 1 < m
        BY <1>7, <3>2
      <4>2. all[s].end /\ e[m - 1] < e[m] /\ e[m - 1] \in 0..Len(all)
        BY <1>1, <1>5, <4>1 DEF ReadOutcome, Splits
      <4>3. s \in 1..z
        BY <1>5, <4>2
      <4>4. QED
        BY <1>6, <4>2, <4>3
    <3>3. QED
      BY <3>1, <3>2
  <2>7. /\ Len(buf') <= pos'
        /\ \A i \in 1..Len(buf') : buf'[i] = ps[pos' - Len(buf') + i] /\ ~buf'[i].end
    BY <1>6, <2>1, <2>2, <2>4
  <2>8. ~discarding' => pos' = Len(buf') \/ ps[pos' - Len(buf')].end
    BY <1>6, <2>2, <2>6
  <2>9. QED
    BY <1>2, <1>6, <2>5, <2>7, <2>8 DEF Follows
<1>13. QED
  <2>1. z - s > MaxLine \/ z - s <= MaxLine
    OBVIOUS
  <2>2. QED
    BY <1>11, <1>12, <2>1

\* The buffer stays the line in hand.
LEMMA TailFollowsStep ==
  ASSUME LogTypes, TailTypes, Offsets, PollStage, TailFollowsFile, [Next]_vars
  PROVE  TailFollowsFile'
<1> USE BoundsAssumption
<1> SUFFICES ASSUME InSync', ~regrown', pc' # "closed"
             PROVE  upto'[handle'] = pos'
                    /\ Follows(files'[handle'], pos', buf', discarding', history')
  BY DEF TailFollowsFile
<1>0. handle' # NoFile /\ pos' <= Len(files'[handle'])
  BY DEF InSync
<1>1. CASE \/ Renaming \/ Stop \/ Poll \/ OpenFails \/ FollowFails \/ FollowSame \/ EmitLine
           \/ EndPoll \/ UNCHANGED vars
  <2>1. /\ UNCHANGED <<files, handle, pos, buf, discarding, upto, history, regrown>>
        /\ pc # "closed"
    <3>1. CASE EndPoll
      BY <3>1, <1>0 DEF EndPoll, TailOnly, logVars, histVars
    <3>2. CASE Renaming \/ Stop \/ UNCHANGED vars
      BY <3>2 DEF Renaming, RenameAway, Create, Reopen, SetAccess, Stop, LogOnly, tailVars,
                  pollVars, histVars, logVars, vars
    <3>3. CASE Poll \/ OpenFails \/ FollowFails \/ FollowSame \/ EmitLine
      BY <3>3 DEF Poll, OpenFails, FollowFails, FollowSame, EmitLine, TailOnly, tailVars,
                  histVars, logVars
    <3>4. QED
      BY <1>1, <3>1, <3>2, <3>3
  <2>2. InSync /\ ~regrown
    BY <1>0, <2>1 DEF InSync
  <2>3. upto[handle] = pos /\ Follows(files[handle], pos, buf, discarding, history)
    BY <2>1, <2>2 DEF TailFollowsFile
  <2>4. QED
    BY <2>1, <2>3
<1>2. CASE WritePiece
  <2>1. /\ UNCHANGED <<handle, pos, buf, discarding, upto, history>> /\ pc # "closed"
        /\ regrown' = (regrown \/ (wfile = handle /\ Len(files'[wfile]) = pos))
    BY <1>2 DEF WritePiece, LogOnly, tailVars
  <2>2. handle \in Inodes /\ Len(files[handle]) \in Nat /\ pos \in Nat
    BY <1>0, <2>1 DEF TailTypes, LogTypes, Inodes, NoFile
  <2>3. pos <= Len(files[handle]) /\ \A i \in 1..pos : files'[handle][i] = files[handle][i]
    <3>1. CASE handle # wfile
      <4>1. files'[handle] = files[handle]
        BY <1>2, <2>2, <3>1, Written
      <4>2. QED
        BY <1>0, <2>1, <4>1
    <3>2. CASE handle = wfile
      <4>1. /\ Len(files'[handle]) = Len(files[handle]) + 1
            /\ \A i \in 1..Len(files[handle]) : files'[handle][i] = files[handle][i]
        BY <1>2, <3>2, Written
      <4>2. Len(files'[handle]) # pos
        BY <2>1, <3>2
      <4>3. pos <= Len(files[handle])
        BY <1>0, <2>1, <2>2, <4>1, <4>2
      <4>4. QED
        BY <2>2, <4>1, <4>3
    <3>3. QED
      BY <3>1, <3>2
  <2>4. upto[handle] = pos /\ Follows(files[handle], pos, buf, discarding, history)
    BY <1>0, <2>1, <2>3 DEF TailFollowsFile, InSync
  <2>5. buf \in Seq(Piece)
    BY DEF TailTypes
  <2>6. Follows(files'[handle], pos, buf, discarding, history)
    BY <2>2, <2>3, <2>4, <2>5, FollowsPrefix
  <2>7. QED
    BY <2>1, <2>4, <2>6
<1>3. CASE \E n \in 0..1 : Truncate(n)
  <2>0. PICK n \in 0..1 : Truncate(n)
    BY <1>3
  <2>1. /\ UNCHANGED <<handle, pos, buf, discarding, history, regrown>> /\ pc # "closed"
    BY <2>0 DEF Truncate, LogOnly, tailVars
  <2>2. handle \in Inodes /\ Len(files[handle]) \in Nat /\ pos \in Nat
    BY <1>0, <2>1 DEF TailTypes, LogTypes, Inodes, NoFile
  <2>3. /\ path \in Inodes /\ n < Len(files[path]) /\ Len(files'[path]) = n
        /\ \A f \in Inodes : f # path => files'[f] = files[f]
        /\ \A i \in 1..n : files'[path][i] = files[path][i]
        /\ upto' = [upto EXCEPT ![path] = IF n < @ THEN n ELSE @]
    BY <2>0, Truncated
  <2>4. pos <= Len(files[handle]) /\ \A i \in 1..pos : files'[handle][i] = files[handle][i]
    <3>1. CASE handle # path
      BY <1>0, <2>1, <2>2, <2>3, <3>1
    <3>2. CASE handle = path
      BY <1>0, <2>1, <2>2, <2>3, <3>2
    <3>3. QED
      BY <3>1, <3>2
  <2>5. upto[handle] = pos /\ Follows(files[handle], pos, buf, discarding, history)
    BY <1>0, <2>1, <2>4 DEF TailFollowsFile, InSync
  <2>6. upto'[handle] = pos
    <3>1. upto \in [Inodes -> Nat]
      BY DEF Offsets
    <3>2. CASE handle # path
      BY <2>2, <2>3, <2>5, <3>1, <3>2
    <3>3. CASE handle = path
      <4>1. ~(n < upto[path])
        BY <1>0, <2>1, <2>2, <2>3, <2>5, <3>3
      <4>2. QED
        BY <2>2, <2>3, <2>5, <3>1, <3>3, <4>1
    <3>4. QED
      BY <3>2, <3>3
  <2>7. buf \in Seq(Piece)
    BY DEF TailTypes
  <2>8. Follows(files'[handle], pos, buf, discarding, history)
    BY <2>2, <2>4, <2>5, <2>7, FollowsPrefix
  <2>9. QED
    BY <2>1, <2>6, <2>8
<1>4. CASE OpenFile
  <2>1. /\ handle' = path /\ files' = files /\ buf' = buf /\ upto' = [upto EXCEPT ![path] = pos']
        /\ path # NoFile /\ pc = "open"
    BY <1>4 DEF OpenFile, TailOnly, logVars
  <2>2. path \in Inodes /\ upto \in [Inodes -> Nat]
    BY <2>1 DEF LogTypes, Inodes, NoFile, Offsets
  <2>3. pos = 0 /\ buf = <<>> /\ ~discarding
    BY <2>1 DEF PollStage
  <2>4. upto'[path] = pos'
    BY <2>1, <2>2
  <2>5. PICK ps : ps = files[path]
    OBVIOUS
  <2>6. ps \in Seq(Piece)
    BY <2>2, <2>5 DEF LogTypes
  <2>7. CASE ~skip
    <3>1. pos' = 0 /\ discarding' = discarding
      BY <1>4, <2>3, <2>7 DEF OpenFile
    <3>2. QED
      BY <2>1, <2>3, <2>4, <3>1 DEF Follows
  <2>8. CASE skip
    <3>1. /\ pos' = Len(ps) /\ history' = history \cup LinesOf(ps)
          /\ Len(ps) > 0 => discarding' = ~ps[Len(ps)].end
          /\ ~(Len(ps) > 0) => discarding' = discarding
      BY <1>4, <2>5, <2>8 DEF OpenFile
    <3>2. CASE Len(ps) = 0
      <4>1. pos' = 0 /\ ~discarding'
        BY <2>3, <3>1, <3>2
      <4>2. QED
        BY <2>1, <2>3, <2>4, <4>1 DEF Follows
    <3>3. CASE Len(ps) # 0
      <4>1. PICK q \in Nat : q = Len(ps) /\ q > 0 /\ q \in DOMAIN ps
        BY <2>6, <3>3
      <4>2. pos' = q /\ (discarding' => ~ps[q].end) /\ (~discarding' => ps[q].end)
        BY <3>1, <4>1
      <4>3. ps[q].line \in history'
        <5>1. ps[q] \in ToSet(ps)
          BY <4>1 DEF ToSet
        <5>2. QED
          BY <3>1, <5>1 DEF LinesOf
      <4>4. Len(buf') = 0 /\ q - 0 = q
        BY <2>1, <2>3
      <4>5. ASSUME discarding' PROVE Discarded(ps, q, history')
        <5>1. q \in 1..q /\ \A k \in q..q : k = q
          BY <4>1
        <5>2. \A k \in q..q : ~ps[k].end
          BY <4>2, <4>5, <5>1
        <5>3. QED
          BY <4>3, <5>1, <5>2 DEF Discarded
      <4>6. Follows(ps, q, buf', discarding', history')
        BY <4>1, <4>2, <4>4, <4>5 DEF Follows
      <4>7. QED
        BY <2>1, <2>4, <2>5, <4>2, <4>6
    <3>4. QED
      BY <3>2, <3>3
  <2>9. QED
    BY <2>7, <2>8
<1>5. CASE Read
  <2>1. /\ UNCHANGED <<files, handle, history, regrown>>
        /\ upto' = [upto EXCEPT ![handle] = IF Len(files[handle]) < pos' THEN @ ELSE pos']
    BY <1>5 DEF Read, TailOnly, logVars
  <2>2. handle \in Inodes /\ Len(files[handle]) \in Nat /\ pos \in Nat /\ pos' \in Nat
    <3>1. TailTypes'
      BY <1>0, TailTypesStep
    <3>2. pos \in Nat /\ pos' \in Nat
      BY <1>0, <3>1 DEF TailTypes
    <3>3. handle \in Inodes /\ Len(files[handle]) \in Nat
      BY <1>0, <2>1 DEF TailTypes, LogTypes, Inodes, NoFile
    <3>4. QED
      BY <3>2, <3>3
  <2>3. PICK c, m, e, d, all : ReadOutcome(c, m, e, d, all)
    BY <1>5, ReadSplits
  <2>4. c \in Nat /\ pos' = pos + c
    BY <2>3 DEF ReadOutcome
  <2>5. InSync /\ ~regrown
    BY <1>0, <2>1, <2>2, <2>4 DEF InSync
  <2>6. Follows(files[handle], pos', buf', discarding', history)
    BY <1>5, <2>5, ReadFollows
  <2>7. ~(Len(files[handle]) < pos')
    BY <1>0, <2>1, <2>2
  <2>8. upto'[handle] = pos'
    BY <2>1, <2>2, <2>7 DEF Offsets
  <2>9. QED
    BY <2>1, <2>6, <2>8
<1>6. CASE FollowRotated
  BY <1>0, <1>6 DEF FollowRotated
<1>7. CASE FollowTruncated
  <2>1. /\ handle' = handle /\ pos' = 0 /\ buf' = <<>> /\ discarding' = FALSE
        /\ upto' = [upto EXCEPT ![handle] = 0]
    BY <1>7 DEF FollowTruncated
  <2>2. handle \in Inodes
    BY <1>0, <2>1 DEF TailTypes, Inodes, NoFile
  <2>3. upto'[handle] = 0
    BY <2>1, <2>2 DEF Offsets
  <2>4. QED
    BY <2>1, <2>3 DEF Follows
<1>8. QED
  BY <1>1, <1>2, <1>3, <1>4, <1>5, <1>6, <1>7 DEF Next, Collect, Renaming

-----------------------------------------------------------------------------
(* What was read is covered. *)

\* StandsAlone, piece by piece.
Alone(ps, i) == ps[i].end /\ Continues(ps, i)

\* The two definitions agree.
LEMMA StandsAlonePieces ==
  ASSUME NEW ps \in Seq(Piece), NEW i \in 1..Len(ps)
  PROVE  (ps[i].end /\ StandsAlone(ps, i)) <=> Alone(ps, i)
<1>1. PICK n \in Nat \ {0} : n = ps[i].part
  <2>1. ps[i] \in Piece
    OBVIOUS
  <2>2. QED
    BY <2>1 DEF Piece
<1>2. i \in Nat /\ Len(ps) \in Nat
  OBVIOUS
<1>3. CASE ~(n <= i)
  <2>1. ~(i >= n)
    BY <1>2, <1>3
  <2>2. QED
    BY <1>1, <1>3, <2>1 DEF StandsAlone, Alone, Continues
<1>4. CASE n <= i
  <2>1. PICK a \in 1..i : a = i - n + 1
    <3>1. i - n + 1 \in 1..i
      BY <1>2, <1>4
    <3>2. QED
      BY <3>1
  <2>2. \A j \in a..i : ps[j] \in Piece
    OBVIOUS
  <2>3. PICK l : l = SubSeq(ps, a, i)
    OBVIOUS
  <2>4. a \in Int /\ i \in Int
    OBVIOUS
  <2>5. /\ l \in Seq(Piece) /\ Len(l) = (IF a <= i THEN i - a + 1 ELSE 0)
        /\ \A j \in 1..i - a + 1 : l[j] = ps[a + j - 1]
    BY <2>2, <2>3, <2>4, SubSeqProperties
  <2>6. Len(l) = n /\ i - a + 1 = n
    BY <2>1, <2>5
  <2>7. DOMAIN l = 1..n /\ 1 \in 1..n /\ n \in 1..n
    BY <2>5, <2>6
  <2>8. \A j \in 1..n : l[j] = ps[(i - n) + j] /\ (i - n) + j \in i - n + 1 .. i
    <3> TAKE j \in 1..n
    <3>1. a + j - 1 = (i - n) + j
      BY <2>1
    <3>2. QED
      BY <1>2, <2>5, <2>6, <3>1
  <2>9. l[n] = ps[i]
    <3>1. (i - n) + n = i
      BY <1>2
    <3>2. QED
      BY <2>7, <2>8, <3>1
  <2>10. \A k \in i - n + 1 .. i : k - (i - n) \in 1..n /\ (i - n) + (k - (i - n)) = k
    BY <1>2, <1>4
  <2>11. Whole(l) <=> ps[i].end /\ \A j \in 1..n : l[j].line = l[1].line /\ l[j].part = j
    BY <2>6, <2>7, <2>9 DEF Whole
  <2>12. ASSUME \A j \in 1..n : l[j].line = l[1].line /\ l[j].part = j
         PROVE  \A k \in i - n + 1 .. i : ps[k].line = ps[i].line /\ ps[k].part = k - (i - n)
    <3> TAKE k \in i - n + 1 .. i
    <3>1. PICK j \in 1..n : j = k - (i - n) /\ (i - n) + j = k
      BY <2>10
    <3>2. l[j] = ps[k]
      BY <2>8, <3>1
    <3>3. l[j].line = l[1].line /\ l[n].line = l[1].line /\ l[j].part = j
      BY <2>7, <2>12
    <3>4. QED
      BY <2>9, <3>1, <3>2, <3>3
  <2>13. ASSUME \A k \in i - n + 1 .. i : ps[k].line = ps[i].line /\ ps[k].part = k - (i - n)
         PROVE  \A j \in 1..n : l[j].line = l[1].line /\ l[j].part = j
    <3>1. \A j \in 1..n : l[j].line = ps[i].line /\ l[j].part = ((i - n) + j) - (i - n)
      BY <2>8, <2>13
    <3>2. \A j \in 1..n : ((i - n) + j) - (i - n) = j
      BY <1>2
    <3>3. QED
      BY <2>7, <3>1, <3>2
  <2>14. StandsAlone(ps, i) <=> i >= n /\ Whole(l) /\ (i = n \/ ps[i - n].end)
    BY <1>1, <2>1, <2>3 DEF StandsAlone
  <2>15. Alone(ps, i) <=>
           /\ ps[i].end /\ n <= i
           /\ \A k \in i - n + 1 .. i : ps[k].line = ps[i].line /\ ps[k].part = k - (i - n)
           /\ n = i \/ ps[i - n].end
    BY <1>1 DEF Alone, Continues
  <2>16. i >= n
    BY <1>2, <1>4
  <2>17. QED
    BY <1>4, <2>11, <2>12, <2>13, <2>14, <2>15, <2>16
<1>5. QED
  BY <1>3, <1>4

\* Whether a line stands alone is settled by what precedes its end.
LEMMA AlonePrefix ==
  ASSUME NEW ps \in Seq(Piece), NEW qs \in Seq(Piece), NEW i \in 1..Len(ps), i \in 1..Len(qs),
         \A k \in 1..i : qs[k] = ps[k], EndsAuthLine(qs, i)
  PROVE  EndsAuthLine(ps, i) /\ ps[i].line = qs[i].line
<1>1. Alone(qs, i) /\ AuthLine(qs[i].line)
  BY StandsAlonePieces DEF EndsAuthLine
<1>2. qs[i] = ps[i] /\ i \in Nat
  OBVIOUS
<1>3. PICK n \in Nat \ {0} : n = ps[i].part
  <2>1. ps[i] \in Piece
    OBVIOUS
  <2>2. QED
    BY <2>1 DEF Piece
<1>4. n <= i
  BY <1>1, <1>2, <1>3 DEF Alone, Continues
<1>5. \A k \in i - n + 1 .. i : k \in 1..i
  BY <1>2, <1>4
<1>6. n = i \/ i - n \in 1..i
  BY <1>2, <1>4
<1>7. \A k \in i - n + 1 .. i : ps[k].line = ps[i].line /\ ps[k].part = k - (i - n)
  BY <1>1, <1>2, <1>3, <1>5 DEF Alone, Continues
<1>8. n = i \/ ps[i - n].end
  BY <1>1, <1>2, <1>3, <1>6 DEF Alone, Continues
<1>9. Alone(ps, i)
  BY <1>1, <1>2, <1>3, <1>4, <1>7, <1>8 DEF Alone, Continues
<1>10. QED
  BY <1>1, <1>2, <1>9, StandsAlonePieces DEF EndsAuthLine

\* A line standing alone that is read from its start makes the records of its kind.
LEMMA AloneIsCounted ==
  ASSUME NEW ps \in Seq(Piece), NEW i \in 1..Len(ps), EndsAuthLine(ps, i),
         NEW l \in Line, Len(l) = ps[i].part,
         \A k \in 1..Len(l) : l[k] = ps[(i - ps[i].part) + k],
         ps[i].part = Parts[ps[i].line]
  PROVE  l[1].line = ps[i].line /\ RecordCount(l) > 0
<1> USE BoundsAssumption
<1>1. Alone(ps, i) /\ AuthLine(ps[i].line)
  BY StandsAlonePieces DEF EndsAuthLine
<1>2. PICK n \in Nat \ {0} : n = ps[i].part
  <2>1. ps[i] \in Piece
    OBVIOUS
  <2>2. QED
    BY <2>1 DEF Piece
<1>3. i \in Nat /\ n <= i /\ Len(l) = n
  BY <1>1, <1>2 DEF Alone, Continues
<1>4. \A k \in 1..n : l[k].line = ps[i].line /\ l[k].part = k
  <2> TAKE k \in 1..n
  <2>1. (i - n) + k \in i - n + 1 .. i /\ ((i - n) + k) - (i - n) = k
    BY <1>3
  <2>2. ps[(i - n) + k].line = ps[i].line /\ ps[(i - n) + k].part = ((i - n) + k) - (i - n)
    BY <1>1, <1>2, <2>1 DEF Alone, Continues
  <2>3. QED
    BY <1>2, <1>3, <2>1, <2>2
<1>5. 1 \in 1..n /\ n \in 1..n /\ DOMAIN l = 1..n /\ (i - n) + n = i
  BY <1>3 DEF Line
<1>6. l[n] = ps[i]
  BY <1>2, <1>3, <1>5
<1>7. Whole(l)
  BY <1>1, <1>3, <1>4, <1>5, <1>6 DEF Whole, Alone, Continues
<1>8. l[1].line = ps[i].line /\ l[1].part = 1
  BY <1>4, <1>5
<1>9. Kind[ps[i].line].count > 0 /\ n <= MaxLine
  BY <1>1, <1>2 DEF AuthLine
<1>10. ~(Len(l) > MaxLine)
  BY <1>3, <1>9
<1>11. RecordCount(l) = Kind[ps[i].line].count
  BY <1>7, <1>8, <1>10 DEF RecordCount
<1>12. QED
  BY <1>8, <1>9, <1>11

-----------------------------------------------------------------------------
(* The lines a poll holds, step by step. *)

\* The lines of a poll have the type of lines.
LEMMA PollLinesType ==
  ASSUME TailTypes
  PROVE  PollLines \in Seq(Line) /\ Len(PollLines) \in Nat /\ DOMAIN PollLines = 1..Len(PollLines)
<1>1. PollLines \in Seq(Line)
  BY Joined DEF TailTypes, PollLines
<1>2. QED
  BY <1>1

\* Most steps leave them.
LEMMA LinesLeft ==
  ASSUME [Next]_vars, ~(Read \/ FollowFails \/ FollowRotated \/ EmitLine)
  PROVE  kept' = kept /\ batch' = batch /\ PollLines' = PollLines
<1>1. kept' = kept /\ batch' = batch
  <2>1. CASE \/ WritePiece \/ RenameAway \/ Create \/ Reopen \/ SetAccess
             \/ (\E n \in 0..1 : Truncate(n)) \/ Stop \/ UNCHANGED vars
    BY <2>1 DEF WritePiece, RenameAway, Create, Reopen, SetAccess, Truncate, LogOnly, Stop,
                vars, pollVars
  <2>2. CASE Poll \/ OpenFails \/ OpenFile \/ FollowSame \/ FollowTruncated \/ EndPoll
    BY <2>2 DEF Poll, OpenFails, OpenFile, FollowSame, FollowTruncated, EndPoll
  <2>3. QED
    BY <2>1, <2>2 DEF Next, Collect
<1>2. QED
  BY <1>1 DEF PollLines

\* A read adds its lines after those of the callers.
LEMMA ReadLines ==
  ASSUME LogTypes, TailTypes, PollStage, Read
  PROVE  /\ Len(batch') \in Nat /\ Len(PollLines') = Len(PollLines) + Len(batch')
         /\ \A k \in 1..Len(PollLines) : PollLines'[k] = PollLines[k]
         /\ \A k \in 1..Len(batch') : PollLines'[Len(PollLines) + k] = batch'[k]
<1>1. kept \in Seq(Line) /\ batch' \in Seq(Line)
  <2>1. TailTypes'
    BY TailTypesStep DEF Next, Collect
  <2>2. QED
    BY <2>1 DEF TailTypes
<1>2. PollLines = kept
  <2>1. batch = <<>>
    BY DEF Read, PollStage
  <2>2. QED
    BY <1>1, <2>1, ConcatEmptySeq DEF PollLines
<1>3. PollLines' = kept \o batch'
  <2>1. kept' = kept
    BY DEF Read
  <2>2. PollLines' = kept' \o batch'
    BY DEF PollLines
  <2>3. QED
    BY <2>1, <2>2
<1>4. PICK b \in Seq(Line) : b = batch'
  BY <1>1
<1>5. QED
  BY <1>1, <1>2, <1>3, <1>4, Joined

\* A rotation adds the flushed line.
LEMMA RotatedLines ==
  ASSUME TailTypes, FollowRotated
  PROVE  /\ Len(PollLines') = Len(PollLines) + Len(FlushPartial)
         /\ \A k \in 1..Len(PollLines) : PollLines'[k] = PollLines[k]
         /\ Len(FlushPartial) = 1 => PollLines'[Len(PollLines) + 1] = buf
<1>1. /\ kept \in Seq(Line) /\ batch \in Seq(Line) /\ FlushPartial \in Seq(Line)
      /\ Len(FlushPartial) = 1 => FlushPartial[1] = buf
  BY Flushed DEF TailTypes
<1>2. PICK fl \in Seq(Line) : fl = FlushPartial
  BY <1>1
<1>3. kept' = kept \o (batch \o fl) /\ batch' = <<>>
  BY <1>2 DEF FollowRotated, OldFileLines
<1>4. kept \o (batch \o fl) = (kept \o batch) \o fl
  <2>1. PICK S : S = Line
    OBVIOUS
  <2>2. kept \in Seq(S) /\ batch \in Seq(S) /\ fl \in Seq(S)
    BY <1>1, <1>2, <2>1
  <2>3. QED
    BY <2>2, ConcatAssociative
<1>5. kept \o batch \in Seq(Line) /\ (kept \o batch) \o fl \in Seq(Line)
  BY <1>1, Joined
<1>6. PollLines' = (kept \o batch) \o fl
  <2>1. PollLines' = kept' \o batch'
    BY DEF PollLines
  <2>2. QED
    BY <1>3, <1>4, <1>5, <2>1, ConcatEmptySeq
<1>7. PICK p \in Seq(Line) : p = kept \o batch
  BY <1>5
<1>8. /\ Len(p \o fl) = Len(p) + Len(fl)
      /\ \A k \in 1..Len(p) : (p \o fl)[k] = p[k]
      /\ \A k \in 1..Len(fl) : (p \o fl)[Len(p) + k] = fl[k]
  BY Joined
<1>9. Len(fl) = 1 => (p \o fl)[Len(p) + 1] = fl[1]
  BY <1>8
<1>10. QED
  BY <1>1, <1>2, <1>6, <1>7, <1>8, <1>9 DEF PollLines

\* A failing stat leaves the lines of the callers; the others are dropped.
LEMMA FailedLines ==
  ASSUME TailTypes, FollowFails
  PROVE  /\ Len(PollLines') \in Nat /\ Len(PollLines') <= Len(PollLines)
         /\ \A k \in 1..Len(PollLines') : PollLines'[k] = PollLines[k]
         /\ \A k \in 1..Len(PollLines) :
              k > Len(PollLines') => PollLines[k][1].line \in dropped'
<1>1. kept \in Seq(Line) /\ batch \in Seq(Line)
  BY DEF TailTypes
<1>2. PollLines' = kept
  <2>1. PollLines' = kept' \o batch' /\ kept' = kept /\ batch' = <<>>
    BY DEF PollLines, FollowFails
  <2>2. QED
    BY <1>1, <2>1, ConcatEmptySeq
<1>3. /\ Len(PollLines) = Len(kept) + Len(batch) /\ Len(kept) \in Nat /\ Len(batch) \in Nat
      /\ \A k \in 1..Len(kept) : PollLines[k] = kept[k]
      /\ \A k \in 1..Len(batch) : PollLines[Len(kept) + k] = batch[k]
  BY <1>1, Joined DEF PollLines
<1>4. ASSUME NEW k \in 1..Len(PollLines), k > Len(kept) PROVE PollLines[k][1].line \in dropped'
  <2>1. PICK j \in 1..Len(batch) : k = Len(kept) + j
    <3>1. k - Len(kept) \in 1..Len(batch) /\ k = Len(kept) + (k - Len(kept))
      BY <1>3, <1>4
    <3>2. QED
      BY <3>1
  <2>2. PICK l : l = batch[j]
    OBVIOUS
  <2>3. l \in Line /\ l \in ToSet(batch) /\ PollLines[k] = l
    BY <1>1, <1>3, <2>1, <2>2 DEF ToSet
  <2>4. 1 \in DOMAIN l
    BY <2>3 DEF Line
  <2>5. l[1].line \in LinesOf(l)
    BY <2>4 DEF LinesOf, ToSet
  <2>6. dropped' = dropped \cup UNION {LinesOf(x) : x \in ToSet(batch)}
    BY DEF FollowFails
  <2>7. QED
    BY <2>3, <2>5, <2>6
<1>5. QED
  BY <1>2, <1>3, <1>4

\* Nothing is taken back from the queue, and what is skipped or dropped stays named.
LEMMA HistoryGrows ==
  ASSUME TailTypes, OutTypes, [Next]_vars
  PROVE  /\ EmittedLines \subseteq EmittedLines' /\ history \subseteq history'
         /\ dropped \subseteq dropped'
<1>1. EmittedLines \subseteq EmittedLines'
  <2>1. CASE ~EmitLine
    <3>1. emitted' = emitted
      BY <2>1, OnlyEmitLineEmits
    <3>2. QED
      BY <3>1 DEF EmittedLines
  <2>2. CASE EmitLine
    <3>1. PICK l \in Line : Number(l)
      BY <2>2, HeadLine
    <3>2. PICK known : NumberOutcome(l, known)
      BY <3>1, LineNumbered
    <3>3. CASE RecordCount(l) = 0
      <4>1. emitted' = emitted
        BY <3>2, <3>3 DEF NumberOutcome, outVars
      <4>2. QED
        BY <4>1 DEF EmittedLines
    <3>4. CASE RecordCount(l) # 0
      <4>1. /\ emitted' \in Seq(Record) /\ Len(emitted') = Len(emitted) + RecordCount(l)
            /\ \A i \in 1..Len(emitted) : emitted'[i] = emitted[i]
        BY <3>2, <3>4 DEF NumberOutcome
      <4>2. emitted \in Seq(Record) /\ RecordCount(l) \in Nat
        BY LineFacts DEF OutTypes
      <4>3. DOMAIN emitted = 1..Len(emitted) /\ DOMAIN emitted' = 1..Len(emitted')
        BY <4>1, <4>2
      <4>4. \A i \in DOMAIN emitted : i \in DOMAIN emitted'
        BY <4>1, <4>2, <4>3
      <4>5. QED
        BY <4>1, <4>3, <4>4 DEF EmittedLines
    <3>5. QED
      BY <3>3, <3>4
  <2>3. QED
    BY <2>1, <2>2
<1>2. history \subseteq history' /\ dropped \subseteq dropped'
  <2>1. CASE \/ WritePiece \/ RenameAway \/ Create \/ Reopen \/ SetAccess
             \/ (\E n \in 0..1 : Truncate(n)) \/ Stop \/ UNCHANGED vars
    BY <2>1 DEF WritePiece, RenameAway, Create, Reopen, SetAccess, Truncate, LogOnly, Stop,
                vars, histVars
  <2>2. CASE \/ Poll \/ OpenFails \/ Read \/ FollowSame \/ FollowTruncated \/ EndPoll \/ EmitLine
             \/ FollowRotated
    BY <2>2 DEF Poll, OpenFails, Read, FollowSame, FollowTruncated, EndPoll, EmitLine,
                FollowRotated, histVars
  <2>3. CASE OpenFile
    BY <2>3 DEF OpenFile
  <2>4. CASE FollowFails
    BY <2>4 DEF FollowFails
  <2>5. QED
    BY <2>1, <2>2, <2>3, <2>4 DEF Next, Collect
<1>3. QED
  BY <1>1, <1>2

\* A line that is covered stays covered.
LEMMA CoveredStep ==
  ASSUME LogTypes, TailTypes, PollStage, OutTypes, [Next]_vars, NEW n, Covered(n)
  PROVE  Covered(n)'
<1>1. /\ EmittedLines \subseteq EmittedLines' /\ history \subseteq history'
      /\ dropped \subseteq dropped'
  BY HistoryGrows
<1>2. TailTypes'
  BY TailTypesStep
<1>3. /\ DOMAIN PollLines = 1..Len(PollLines) /\ DOMAIN PollLines' = 1..Len(PollLines')
      /\ Len(PollLines) \in Nat /\ Len(PollLines') \in Nat /\ PollLines \in Seq(Line)
  <2>1. DOMAIN PollLines = 1..Len(PollLines) /\ Len(PollLines) \in Nat /\ PollLines \in Seq(Line)
    BY PollLinesType
  <2>2. DOMAIN PollLines' = 1..Len(PollLines') /\ Len(PollLines') \in Nat
    BY <1>2, PollLinesType
  <2>3. QED
    BY <2>1, <2>2
<1>4. ASSUME n \in EmittedLines' \cup history' \cup dropped' PROVE Covered(n)'
  BY <1>4 DEF Covered
<1>5. ASSUME NEW k \in DOMAIN PollLines', PollLines'[k][1].line = n,
             RecordCount(PollLines'[k]) > 0
      PROVE  Covered(n)'
  BY <1>5 DEF Covered, RecordCount, Whole
<1>6. CASE n \in EmittedLines \cup history \cup dropped
  BY <1>1, <1>4, <1>6
<1>7. ASSUME NEW k \in DOMAIN PollLines, PollLines[k][1].line = n, RecordCount(PollLines[k]) > 0
      PROVE  Covered(n)'
  <2>1. CASE ~(Read \/ FollowFails \/ FollowRotated \/ EmitLine)
    <3>1. PollLines' = PollLines
      BY <2>1, LinesLeft
    <3>2. QED
      BY <1>5, <1>7, <3>1
  <2>2. CASE Read
    <3>1. k \in DOMAIN PollLines' /\ PollLines'[k] = PollLines[k]
      BY <1>3, <1>7, <2>2, ReadLines
    <3>2. QED
      BY <1>5, <1>7, <3>1
  <2>3. CASE FollowRotated
    <3>1. k \in DOMAIN PollLines' /\ PollLines'[k] = PollLines[k]
      BY <1>3, <1>7, <2>3, RotatedLines, Flushed
    <3>2. QED
      BY <1>5, <1>7, <3>1
  <2>4. CASE FollowFails
    <3>1. \/ k \in DOMAIN PollLines' /\ PollLines'[k] = PollLines[k]
          \/ PollLines[k][1].line \in dropped'
      BY <1>3, <1>7, <2>4, FailedLines
    <3>2. QED
      BY <1>4, <1>5, <1>7, <3>1
  <2>5. CASE EmitLine
    <3>1. /\ Len(PollLines') = Len(PollLines) - 1 /\ PollLines[1] \in Line
          /\ Number(PollLines[1])
          /\ \A j \in 1..Len(PollLines') : PollLines'[j] = PollLines[j + 1]
      BY <2>5, HeadLine
    <3>2. CASE k # 1
      <4>1. PICK j \in 1..Len(PollLines') : k = j + 1
        <5>1. k - 1 \in 1..Len(PollLines') /\ k = (k - 1) + 1
          BY <1>3, <1>7, <3>1, <3>2
        <5>2. QED
          BY <5>1
      <4>2. PollLines'[j] = PollLines[k]
        BY <3>1, <4>1
      <4>3. QED
        BY <1>3, <1>5, <1>7, <4>1, <4>2
    <3>3. CASE k = 1
      <4>1. PICK l \in Line : l = PollLines[1]
        BY <3>1
      <4>2. PICK known : NumberOutcome(l, known)
        BY <3>1, <4>1, LineNumbered
      <4>3. PICK c \in Nat : c = RecordCount(l)
        BY LineFacts
      <4>4. c # 0 /\ 1 \in 1..c
        BY <1>7, <3>3, <4>1, <4>3
      <4>5. /\ emitted' \in Seq(Record) /\ Len(emitted') = Len(emitted) + c
            /\ emitted'[Len(emitted) + 1].line = l[1].line
        BY <4>2, <4>3, <4>4 DEF NumberOutcome
      <4>6. Len(emitted) \in Nat
        BY DEF OutTypes
      <4>7. Len(emitted) + 1 \in DOMAIN emitted'
        BY <4>4, <4>5, <4>6
      <4>8. l[1].line \in EmittedLines'
        BY <4>5, <4>7 DEF EmittedLines
      <4>9. QED
        BY <1>4, <1>7, <3>3, <4>1, <4>8
    <3>4. QED
      BY <3>2, <3>3
  <2>6. QED
    BY <2>1, <2>2, <2>3, <2>4, <2>5
<1>8. QED
  BY <1>6, <1>7 DEF Covered

\* The pieces of a line standing alone, of which only the last is an end.
LEMMA AloneFacts ==
  ASSUME LogTypes, NEW f \in Inodes, NEW i \in 1..Len(files[f]), EndsAuthLine(files[f], i)
  PROVE  \E p \in 1..i :
           /\ p = files[f][i].part /\ p = Parts[files[f][i].line] /\ p <= MaxLine
           /\ \A k \in i - p + 1 .. i : files[f][k].line = files[f][i].line
           /\ \A k \in i - p + 1 .. i - 1 : ~files[f][k].end
           /\ i - p = 0 \/ files[f][i - p].end
<1> USE BoundsAssumption
<1>1. PICK ps : ps = files[f]
  OBVIOUS
<1>2. /\ ps \in Seq(Piece) /\ i \in 1..Len(ps) /\ Len(ps) \in Nat
      /\ \A k \in 1..Len(ps) : ps[k].end => ps[k].part = Parts[ps[k].line]
  <2>1. ps \in Seq(Piece) /\ i \in 1..Len(ps)
    BY <1>1 DEF LogTypes
  <2>2. \A k \in 1..Len(ps) : ps[k].end => ps[k].part = Parts[ps[k].line]
    BY <1>1 DEF LogTypes
  <2>3. Len(ps) \in Nat
    BY <2>1
  <2>4. QED
    BY <2>1, <2>2, <2>3
<1>3. Alone(ps, i) /\ AuthLine(ps[i].line)
  BY <1>1, <1>2, StandsAlonePieces DEF EndsAuthLine
<1>4. PICK p \in Nat \ {0} : p = ps[i].part
  <2>1. ps[i] \in Piece
    BY <1>2
  <2>2. QED
    BY <2>1 DEF Piece
<1>5. ps[i].end /\ p = Parts[ps[i].line] /\ p <= MaxLine
  BY <1>2, <1>3, <1>4 DEF Alone, Continues, AuthLine
<1>6. /\ p <= i /\ (i = p \/ ps[i - p].end)
      /\ \A k \in i - p + 1 .. i : ps[k].line = ps[i].line /\ ps[k].part = k - (i - p)
  BY <1>3, <1>4 DEF Alone, Continues
<1>7. ASSUME NEW k \in i - p + 1 .. i - 1, ps[k].end PROVE FALSE
  <2>1. k \in i - p + 1 .. i /\ k \in 1..Len(ps)
    BY <1>2, <1>6
  <2>2. ps[k].part = p
    BY <1>2, <1>5, <1>6, <1>7, <2>1
  <2>3. ps[k].part = k - (i - p)
    BY <1>6, <2>1
  <2>4. QED
    BY <1>2, <2>2, <2>3
<1>8. p \in 1..i /\ (i - p = 0 \/ ps[i - p].end)
  BY <1>2, <1>6
<1>9. QED
  BY <1>1, <1>4, <1>5, <1>6, <1>7, <1>8

\* A line standing alone that ends in what a read returns is among the lines read, unless
\* it is being discarded.
LEMMA ReadCovers ==
  ASSUME LogTypes, TailTypes, PollStage, TailFollowsFile, Read, InSync, ~regrown,
         NEW i \in pos + 1 .. pos', EndsAuthLine(files[handle], i),
         NEW n, n = files[handle][i].line
  PROVE  Covered(n)'
<1> USE BoundsAssumption
<1>1. PICK c, m, e, d, all : ReadOutcome(c, m, e, d, all)
  BY ReadSplits
<1>2. PICK L \in Nat : L = LineStart
  BY <1>1, ReadFromFile
<1>3. PICK ps : ps = files[handle]
  OBVIOUS
<1>4. /\ pos' = L + Len(all) /\ Len(buf) \in Nat /\ c \in Nat /\ pos = L + Len(buf)
      /\ Len(all) = Len(buf) + c /\ L + Len(all) <= Len(ps)
      /\ \A j \in 1..Len(all) : all[j] = ps[L + j]
  BY <1>1, <1>2, <1>3, ReadFromFile
<1>5. handle \in Inodes /\ ps \in Seq(Piece) /\ Len(ps) \in Nat
  BY <1>3 DEF InSync, TailTypes, LogTypes, Inodes, NoFile
<1>6. PICK v \in Nat : v = Len(all)
  BY <1>4
<1>7. i \in Nat /\ i \in 1..Len(ps) /\ i > pos
  BY <1>4, <1>5
<1>8. PICK j \in 1..v : i = L + j
  <2>1. i - L \in 1..v /\ i = L + (i - L)
    BY <1>4, <1>6
  <2>2. QED
    BY <2>1
<1>9. /\ m \in Nat /\ e \in [0..m -> 0..v] /\ e[0] = 0
      /\ \A a, b \in 0..m : a < b => e[a] < e[b]
      /\ \A k \in 1..m : all[e[k]].end /\ \A a \in e[k - 1] + 1 .. e[k] - 1 : ~all[a].end
      /\ \A a \in 1..v : all[a].end => \E k \in 1..m : e[k] = a
  BY <1>1, <1>6 DEF ReadOutcome, Splits
<1>10. all[j] = ps[i] /\ ps[i].end
  BY <1>3, <1>4, <1>6, <1>8 DEF EndsAuthLine
<1>11. PICK k \in 1..m : e[k] = j
  BY <1>9, <1>10
<1>12. PICK s \in 0..v : s = e[k - 1] /\ s < j
  <2>1. k - 1 \in 0..m /\ k \in 0..m /\ k - 1 < k
    BY <1>9
  <2>2. QED
    BY <1>9, <1>11, <2>1
<1>13. \A x \in L + s + 1 .. i - 1 : ~ps[x].end
  <2> TAKE x \in L + s + 1 .. i - 1
  <2>1. PICK a \in s + 1 .. j - 1 : x = L + a
    <3>1. x - L \in s + 1 .. j - 1 /\ x = L + (x - L)
      BY <1>8, <1>12
    <3>2. QED
      BY <3>1
  <2>2. ~all[a].end
    BY <1>9, <1>11, <1>12, <2>1
  <2>3. a \in 1..v
    <3>1. s \in Nat /\ j \in Nat /\ j <= v
      BY <1>8, <1>12
    <3>2. a \in Int /\ s + 1 <= a /\ a <= j - 1
      BY <2>1
    <3>3. QED
      BY <3>1, <3>2
  <2>4. QED
    BY <1>4, <1>6, <2>1, <2>2, <2>3
<1>14. PICK p \in 1..i : /\ p = ps[i].part /\ p = Parts[ps[i].line] /\ p <= MaxLine
                         /\ \A x \in i - p + 1 .. i : ps[x].line = ps[i].line
                         /\ \A x \in i - p + 1 .. i - 1 : ~ps[x].end
                         /\ i - p = 0 \/ ps[i - p].end
  <2>1. i \in 1..Len(files[handle]) /\ handle \in Inodes
    BY <1>3, <1>5, <1>7
  <2>2. \E p \in 1..i :
          /\ p = files[handle][i].part /\ p = Parts[files[handle][i].line] /\ p <= MaxLine
          /\ \A x \in i - p + 1 .. i : files[handle][x].line = files[handle][i].line
          /\ \A x \in i - p + 1 .. i - 1 : ~files[handle][x].end
          /\ i - p = 0 \/ files[handle][i - p].end
    BY <2>1, AloneFacts, Zenon
  <2>3. QED
    BY <1>3, <2>2
<1>15. d \in {0, 1} /\ d <= m /\ (d = 1 => discarding) /\ (d = 0 => ~discarding \/ m = 0)
  BY <1>1 DEF ReadOutcome
<1>16. Follows(ps, pos, buf, discarding, history)
  BY <1>3 DEF TailFollowsFile, Read
<1>17. CASE k <= d
  <2>1. k = 1 /\ d = 1 /\ s = 0 /\ discarding
    BY <1>9, <1>12, <1>15, <1>17
  <2>2. PICK j0 \in 1..pos : /\ \A x \in j0..pos : ~ps[x].end
                             /\ ps[j0].line \in history \/ pos - j0 >= MaxLine
    BY <1>16, <2>1 DEF Follows, Discarded
  <2>3. \A x \in j0..i - 1 : ~ps[x].end
    <3> TAKE x \in j0..i - 1
    <3>1. x \in j0..pos \/ x \in L + s + 1 .. i - 1
      BY <1>4, <1>7, <2>1, <2>2
    <3>2. QED
      BY <1>13, <2>2, <3>1
  <2>4. j0 \in i - p + 1 .. i
    <3>1. i - p \in 0..i - 1 /\ j0 <= i
      BY <1>4, <1>7, <2>2
    <3>2. ~(i - p >= j0)
      <4> SUFFICES ASSUME i - p >= j0 PROVE FALSE
        OBVIOUS
      <4>1. i - p \in j0..i - 1 /\ i - p # 0
        BY <1>4, <2>2, <3>1
      <4>2. QED
        BY <1>14, <2>3, <4>1
    <3>3. QED
      BY <1>4, <1>7, <2>2, <3>1, <3>2
  <2>5. ps[j0].line = n
    BY <1>3, <1>14, <2>4
  <2>6. ~(pos - j0 >= MaxLine)
    <3>1. pos \in Nat /\ MaxLine \in Nat /\ p \in Nat /\ j0 \in Nat
      BY <1>4
    <3>2. j0 >= i - p + 1
      BY <1>7, <2>4
    <3>3. QED
      BY <1>7, <1>14, <3>1, <3>2
  <2>7. n \in history
    BY <2>2, <2>5, <2>6
  <2>8. history' = history
    BY DEF Read
  <2>9. QED
    BY <2>7, <2>8 DEF Covered
<1>18. CASE k > d
  <2>1. L + s = 0 \/ ps[L + s].end
    <3>1. CASE k = 1
      <4>1. s = 0 /\ ~discarding
        BY <1>9, <1>12, <1>15, <1>18, <3>1
      <4>2. pos = Len(buf) \/ ps[pos - Len(buf)].end
        BY <1>16, <4>1 DEF Follows
      <4>3. pos - Len(buf) = L /\ L + s = L
        BY <1>4, <4>1
      <4>4. QED
        BY <1>4, <4>2, <4>3
    <3>2. CASE k # 1
      <4>1. k - 1 \in 1..m /\ k - 1 \in 0..m /\ 0 \in 0..m /\ 0 < k - 1
        BY <1>9, <3>2
      <4>2. all[s].end /\ e[0] < e[k - 1]
        BY <1>9, <1>12, <4>1
      <4>3. s \in 1..v
        BY <1>9, <1>12, <4>2
      <4>4. QED
        BY <1>4, <1>6, <4>2, <4>3
    <3>3. QED
      BY <3>1, <3>2
  <2>2. L + s \in 0..i - 1 /\ i - p \in 0..i - 1
    <3>1. L + s \in 0..i - 1
      BY <1>8, <1>12
    <3>2. i - p \in 0..i - 1
      BY <1>7
    <3>3. QED
      BY <3>1, <3>2
  <2>3. ~(i - p > L + s)
    <3> SUFFICES ASSUME i - p > L + s PROVE FALSE
      OBVIOUS
    <3>1. i - p \in L + s + 1 .. i - 1 /\ i - p # 0
      BY <1>12, <2>2
    <3>2. QED
      BY <1>13, <1>14, <3>1
  <2>4. ~(L + s > i - p)
    <3> SUFFICES ASSUME L + s > i - p PROVE FALSE
      OBVIOUS
    <3>1. L + s \in i - p + 1 .. i - 1 /\ L + s # 0
      <4>1. i - p \in Nat /\ i - p < L + s
        BY <1>7, <1>14
      <4>2. QED
        BY <1>7, <2>2, <4>1
    <3>2. QED
      BY <1>14, <2>1, <3>1
  <2>5. L + s = i - p
    BY <1>7, <2>2, <2>3, <2>4
  <2>6. PICK q \in 1..(m - d) : q + d = k
    <3>1. k - d \in 1..(m - d) /\ (k - d) + d = k
      BY <1>9, <1>15, <1>18
    <3>2. QED
      BY <3>1
  <2>7. PICK l : l = batch'[q]
    OBVIOUS
  <2>8. l \in Line /\ Len(l) = j - s /\ \A x \in 1..j - s : l[x] = all[s + x]
    <3>1. IsLineOf(batch'[q], all, e[q + d - 1], e[q + d])
      BY <1>1, LineRead
    <3>2. e[q + d - 1] = s /\ e[q + d] = j
      <4>1. q + d - 1 = k - 1
        BY <1>15, <2>6
      <4>2. QED
        BY <1>11, <1>12, <2>6, <4>1
    <3>3. IsLineOf(l, all, s, j)
      BY <2>7, <3>1, <3>2
    <3>4. QED
      BY <3>3 DEF IsLineOf
  <2>9. j - s = p
    <3>1. i \in Int /\ p \in Int /\ j \in Int /\ s \in Int
      BY <1>7
    <3>2. QED
      BY <1>8, <2>5, <3>1
  <2>10. \A x \in 1..Len(l) : l[x] = ps[(i - ps[i].part) + x]
    <3> TAKE x \in 1..Len(l)
    <3>1. s + x \in 1..v /\ L + (s + x) = (i - p) + x
      <4>1. x \in 1..j - s /\ x \in Nat
        BY <2>8
      <4>2. s + x \in 1..v
        BY <1>6, <1>8, <1>12, <4>1
      <4>3. L + (s + x) = (L + s) + x
        BY <1>12, <4>1
      <4>4. QED
        BY <2>5, <4>2, <4>3
    <3>2. l[x] = all[s + x] /\ all[s + x] = ps[L + (s + x)]
      BY <1>4, <1>6, <2>8, <3>1
    <3>3. QED
      BY <1>14, <3>1, <3>2
  <2>11. l[1].line = n /\ RecordCount(l) > 0
    <3>1. /\ EndsAuthLine(ps, i) /\ Len(l) = ps[i].part /\ ps[i].part = Parts[ps[i].line]
          /\ n = ps[i].line
      BY <1>3, <1>14, <2>8, <2>9
    <3>2. l[1].line = ps[i].line /\ RecordCount(l) > 0
      BY <1>5, <1>7, <2>8, <2>10, <3>1, AloneIsCounted
    <3>3. QED
      BY <3>1, <3>2
  <2>12. batch' = [x \in 1..(m - d) |-> SubSeq(all, e[x + d - 1] + 1, e[x + d])]
    BY <1>1 DEF ReadOutcome
  <2>13. Len(batch') = m - d
    BY <1>9, <1>15, <2>12
  <2>14. /\ Len(PollLines) \in Nat /\ Len(PollLines') = Len(PollLines) + Len(batch')
         /\ PollLines'[Len(PollLines) + q] = l
    BY <2>6, <2>7, <2>13, ReadLines, PollLinesType
  <2>15. Len(PollLines) + q \in DOMAIN PollLines'
    <3>1. TailTypes'
      BY TailTypesStep DEF Next, Collect
    <3>2. DOMAIN PollLines' = 1..Len(PollLines')
      BY <3>1, PollLinesType
    <3>3. QED
      BY <1>9, <1>15, <2>6, <2>13, <2>14, <3>2
  <2>16. PICK a \in DOMAIN PollLines' : PollLines'[a] = l
    BY <2>14, <2>15
  <2>17. PollLines'[a][1].line = n /\ RecordCount(PollLines'[a]) > 0
    BY <2>11, <2>16
  <2>18. QED
    BY <2>17 DEF Covered, RecordCount, Whole
<1>19. QED
  BY <1>9, <1>15, <1>17, <1>18

\* What was read stays covered, and what is read next is covered.
LEMMA ReadIsCoveredStep ==
  ASSUME LogTypes, TailTypes, OutTypes, PollStage, Offsets, TailFollowsFile, ReadIsCovered,
         [Next]_vars
  PROVE  ReadIsCovered'
<1> USE BoundsAssumption
<1> SUFFICES ASSUME ~regrown', NEW f \in Inodes, NEW i \in 1..upto'[f], EndsAuthLine(files'[f], i),
                    NEW n, n = files'[f][i].line
             PROVE  Covered(n)'
  <2>1. ReadIsCovered' <=>
          (~regrown' => \A g \in Inodes : \A j \in 1..upto'[g] :
              EndsAuthLine(files'[g], j) => Covered(files[g][j].line)')
    BY DEF ReadIsCovered, EndsAuthLine, StandsAlone, Whole, AuthLine
  <2>2. \A g \in Inodes : \A j \in 1..upto'[g] : \A x :
          (x = files'[g][j].line /\ Covered(x)') => Covered(files[g][j].line)'
    BY DEF Covered
  <2>3. QED
    BY <2>1, <2>2
<1>1. /\ LogTypes' /\ Offsets'
  BY LogTypesStep, OffsetsStep
<1>2. /\ files \in [Inodes -> Seq(Piece)] /\ files' \in [Inodes -> Seq(Piece)]
      /\ upto[f] \in Nat /\ upto'[f] \in Nat /\ upto[f] <= Len(files[f])
      /\ upto'[f] <= Len(files'[f])
  BY <1>1 DEF LogTypes, Offsets
<1>3. /\ files[f] \in Seq(Piece) /\ files'[f] \in Seq(Piece) /\ Len(files[f]) \in Nat
      /\ Len(files'[f]) \in Nat /\ i \in Nat /\ i \in 1..Len(files'[f])
  BY <1>2
<1>4. ASSUME ~regrown, i \in 1..upto[f], \A k \in 1..i : files'[f][k] = files[f][k]
      PROVE  Covered(n)'
  <2>1. PICK ps \in Seq(Piece) : ps = files[f]
    BY <1>3
  <2>2. PICK qs \in Seq(Piece) : qs = files'[f]
    BY <1>3
  <2>3. i \in 1..Len(ps) /\ i \in 1..Len(qs) /\ EndsAuthLine(qs, i)
    BY <1>2, <1>3, <1>4, <2>1, <2>2
  <2>4. \A k \in 1..i : qs[k] = ps[k]
    BY <1>4, <2>1, <2>2
  <2>5. EndsAuthLine(ps, i) /\ ps[i].line = qs[i].line
    BY <2>3, <2>4, AlonePrefix
  <2>6. Covered(n)
    BY <1>4, <2>1, <2>2, <2>5 DEF ReadIsCovered
  <2>7. QED
    BY <2>6, CoveredStep
<1>5. CASE \/ Renaming \/ Stop \/ Poll \/ OpenFails \/ FollowFails \/ FollowSame \/ EmitLine
           \/ FollowRotated \/ EndPoll \/ UNCHANGED vars
  <2>1. files' = files /\ upto' = upto /\ regrown' = regrown
    <3>1. CASE Renaming \/ Stop \/ UNCHANGED vars
      BY <3>1 DEF Renaming, RenameAway, Create, Reopen, SetAccess, Stop, histVars, logVars, vars
    <3>2. CASE \/ Poll \/ OpenFails \/ FollowFails \/ FollowSame \/ EmitLine \/ FollowRotated
               \/ EndPoll
      BY <3>2 DEF Poll, OpenFails, FollowFails, FollowSame, EmitLine, FollowRotated, EndPoll,
                  TailOnly, histVars, logVars
    <3>3. QED
      BY <1>5, <3>1, <3>2
  <2>2. QED
    BY <1>4, <2>1
<1>6. CASE WritePiece
  <2>1. upto' = upto /\ ~regrown
    BY <1>6 DEF WritePiece
  <2>2. \A k \in 1..Len(files[f]) : files'[f][k] = files[f][k]
    BY <1>6, Written
  <2>3. \A k \in 1..i : k \in 1..Len(files[f])
    BY <1>2, <1>3, <2>1
  <2>4. QED
    BY <1>4, <2>1, <2>2, <2>3
<1>7. CASE \E t \in 0..1 : Truncate(t)
  <2>1. PICK t \in 0..1 : Truncate(t)
    BY <1>7
  <2>2. regrown' = regrown
    BY <2>1 DEF Truncate
  <2>3. /\ path \in Inodes /\ Len(files'[path]) = t
        /\ \A g \in Inodes : g # path => files'[g] = files[g]
        /\ \A k \in 1..t : files'[path][k] = files[path][k]
        /\ upto' = [upto EXCEPT ![path] = IF t < @ THEN t ELSE @]
    BY <2>1, Truncated
  <2>4. upto \in [Inodes -> Nat]
    BY DEF Offsets
  <2>5. upto'[f] <= upto[f]
    <3>1. CASE f = path
      BY <1>2, <2>3, <2>4, <3>1
    <3>2. CASE f # path
      BY <1>2, <2>3, <2>4, <3>2
    <3>3. QED
      BY <3>1, <3>2
  <2>6. \A k \in 1..i : files'[f][k] = files[f][k]
    <3>1. \A k \in 1..i : k \in 1..Len(files'[f])
      BY <1>3
    <3>2. QED
      BY <2>3, <3>1
  <2>7. i \in 1..upto[f]
    BY <1>2, <2>5
  <2>8. QED
    BY <1>4, <2>2, <2>6, <2>7
<1>8. CASE OpenFile
  <2>1. /\ files' = files /\ regrown' = regrown /\ upto' = [upto EXCEPT ![path] = pos']
        /\ pc = "open" /\ path # NoFile
    BY <1>8 DEF OpenFile, TailOnly, logVars
  <2>2. path \in Inodes /\ upto \in [Inodes -> Nat]
    BY <2>1 DEF LogTypes, Inodes, NoFile, Offsets
  <2>3. CASE f # path
    <3>1. upto'[f] = upto[f]
      BY <2>1, <2>2, <2>3
    <3>2. QED
      BY <1>4, <2>1, <3>1
  <2>4. CASE f = path
    <3>1. upto'[f] = pos'
      BY <2>1, <2>2, <2>4
    <3>2. CASE ~skip
      <4>1. pos' = 0
        BY <1>8, <2>1, <3>2 DEF OpenFile, PollStage
      <4>2. QED
        BY <3>1, <4>1
    <3>3. CASE skip
      <4>1. history' = history \cup LinesOf(files[path])
        BY <1>8, <3>3 DEF OpenFile
      <4>2. i \in DOMAIN files[path]
        BY <1>3, <2>1, <2>4
      <4>3. files[path][i] \in ToSet(files[path])
        BY <4>2 DEF ToSet
      <4>4. n \in history'
        BY <2>1, <2>4, <4>1, <4>3 DEF LinesOf
      <4>5. QED
        BY <4>4 DEF Covered
    <3>4. QED
      BY <3>2, <3>3
  <2>5. QED
    BY <2>3, <2>4
<1>9. CASE FollowTruncated
  <2>1. files' = files /\ regrown' = regrown /\ upto' = [upto EXCEPT ![handle] = 0]
    BY <1>9 DEF FollowTruncated, TailOnly, logVars
  <2>2. f # handle /\ upto'[f] = upto[f]
    <3>1. upto \in [Inodes -> Nat]
      BY DEF Offsets
    <3>2. f # handle
      <4> SUFFICES ASSUME f = handle PROVE FALSE
        OBVIOUS
      <4>1. upto'[f] = 0
        BY <2>1, <3>1
      <4>2. QED
        BY <4>1
    <3>3. QED
      BY <2>1, <3>1, <3>2
  <2>3. QED
    BY <1>4, <2>1, <2>2
<1>10. CASE Read
  <2>1. /\ UNCHANGED <<files, handle, history, regrown>>
        /\ upto' = [upto EXCEPT ![handle] = IF Len(files[handle]) < pos' THEN @ ELSE pos']
    BY <1>10 DEF Read, TailOnly, logVars
  <2>2. upto \in [Inodes -> Nat]
    BY DEF Offsets
  <2>3. CASE upto'[f] = upto[f]
    BY <1>4, <2>1, <2>3
  <2>4. CASE upto'[f] # upto[f]
    <3>1. f = handle /\ ~(Len(files[handle]) < pos') /\ upto'[f] = pos'
      BY <2>1, <2>2, <2>4
    <3>2. PICK c, m, e, d, all : ReadOutcome(c, m, e, d, all)
      BY <1>10, ReadSplits
    <3>3. c \in Nat /\ pos' = pos + c /\ pos \in Nat
      BY <3>2 DEF ReadOutcome, TailTypes
    <3>4. pos <= Len(files[handle]) /\ handle # NoFile
      BY <1>3, <3>1, <3>3 DEF Inodes, NoFile
    <3>5. InSync /\ ~regrown
      BY <2>1, <3>4 DEF InSync
    <3>6. upto[f] = pos
      BY <1>10, <3>1, <3>5 DEF TailFollowsFile, Read
    <3>7. CASE i <= pos
      BY <1>3, <1>4, <2>1, <3>3, <3>5, <3>6, <3>7
    <3>8. CASE i > pos
      <4>1. i \in pos + 1 .. pos'
        BY <1>3, <3>1, <3>3, <3>8
      <4>2. EndsAuthLine(files[handle], i) /\ n = files[handle][i].line
        BY <2>1, <3>1
      <4>3. QED
        BY <1>10, <3>5, <4>1, <4>2, ReadCovers
    <3>9. QED
      BY <1>3, <3>3, <3>7, <3>8
  <2>5. QED
    BY <2>3, <2>4
<1>11. QED
  BY <1>5, <1>6, <1>7, <1>8, <1>9, <1>10 DEF Next, Collect, Renaming

\* The inductive invariant of reading.
ReadInv ==
  /\ LogTypes /\ TailTypes /\ OutTypes /\ PollStage /\ Offsets
  /\ TailFollowsFile /\ ReadIsCovered

\* It holds at the start.
LEMMA ReadInvInit == ASSUME Init PROVE ReadInv
<1> USE BoundsAssumption
<1>1. <<>> \in Seq(Piece) /\ <<>> \in Seq(Line) /\ <<>> \in Seq(Record) /\ Len(<<>>) = 0
  OBVIOUS
<1>2. \A f \in Inodes : files[f] = <<>> /\ upto[f] = 0
  BY DEF Init
<1>3. 1 \in Inodes /\ 1 < MaxFiles /\ 0 \in 0..MaxFiles /\ 1 \in 0..MaxFiles
  BY DEF Inodes
<1>4. last.line = 0 /\ last.part = 1 /\ last.end
  BY DEF Init
<1>5. LogTypes
  <2>1. files \in [Inodes -> Seq(Piece)]
    BY <1>1 DEF Init
  <2>2. \A f \in Inodes : \A i \in 1..Len(files[f]) :
          files[f][i].end => files[f][i].part = Parts[files[f][i].line]
    BY <1>1, <1>2
  <2>3. last \in [line : DOMAIN Kind \cup {0}, part : Nat \ {0}, end : BOOLEAN]
    BY DEF Init
  <2>4. /\ wfile \in Inodes /\ path \in 0..MaxFiles /\ truncs \in Nat
        /\ path = NoFile => wfile < MaxFiles
        /\ path # NoFile => path \in {wfile, wfile + 1}
    BY <1>3 DEF Init, NoFile
  <2>5. QED
    BY <1>4, <2>1, <2>2, <2>3, <2>4 DEF LogTypes
<1>6. TailTypes
  BY <1>1, <1>3 DEF Init, TailTypes, NoFile
<1>7. OutTypes
  BY <1>1 DEF Init, OutTypes
<1>8. PollStage
  BY DEF Init, PollStage
<1>9. Offsets
  <2>1. upto \in [Inodes -> Nat]
    BY DEF Init
  <2>2. QED
    BY <1>1, <1>2, <2>1 DEF Offsets
<1>10. TailFollowsFile
  BY DEF Init, TailFollowsFile, InSync
<1>11. ReadIsCovered
  BY <1>2 DEF ReadIsCovered
<1>12. QED
  BY <1>5, <1>6, <1>7, <1>8, <1>9, <1>10, <1>11 DEF ReadInv

\* Every step keeps it.
LEMMA ReadInvStep == ASSUME ReadInv, [Next]_vars PROVE ReadInv'
<1>1. LogTypes' /\ TailTypes' /\ OutTypes' /\ PollStage' /\ Offsets'
  BY LogTypesStep, TailTypesStep, OutTypesStep, PollStageStep, OffsetsStep DEF ReadInv
<1>2. TailFollowsFile' /\ ReadIsCovered'
  BY TailFollowsStep, ReadIsCoveredStep DEF ReadInv
<1>3. QED
  BY <1>1, <1>2 DEF ReadInv

\* A covered line was emitted, is in hand, or was lost in a way that is named.
LEMMA CoveredIsAccounted ==
  ASSUME TailTypes, NEW n, Covered(n)
  PROVE  n \in EmittedLines \cup Waiting \cup history \cup dropped
<1>1. CASE n \in EmittedLines \cup history \cup dropped
  BY <1>1
<1>2. ASSUME NEW k \in DOMAIN PollLines, PollLines[k][1].line = n PROVE n \in Waiting
  <2>1. PICK l : l = PollLines[k]
    OBVIOUS
  <2>2. l \in Line /\ l \in ToSet(PollLines)
    BY <2>1, PollLinesType DEF ToSet
  <2>3. l[1] \in ToSet(l)
    BY <2>2 DEF ToSet, Line
  <2>4. n \in LinesOf(l)
    BY <1>2, <2>1, <2>3 DEF LinesOf
  <2>5. QED
    BY <2>2, <2>4 DEF Waiting
<1>3. QED
  BY <1>1, <1>2 DEF Covered

\* The reading invariant holds in every reachable state.
LEMMA Reading == Spec => []ReadInv
<1>1. Init => ReadInv
  BY ReadInvInit
<1>2. ReadInv /\ [Next]_vars => ReadInv'
  BY ReadInvStep
<1>3. QED
  BY <1>1, <1>2, PTL DEF Spec

\* Every auth line _read_new_lines has gone past, in whichever file, is emitted or in hand,
\* for every interleaving of the daemon, logrotate and the poll; the losses are the named
\* ones.
THEOREM NothingReadIsLost == Spec => []ReadIsEmitted
<1>1. ASSUME ReadInv PROVE ReadIsEmitted
  <2> SUFFICES ASSUME ~regrown, NEW f \in Inodes, NEW i \in 1..upto[f],
                      files[f][i].end, AuthLine(files[f][i].line), StandsAlone(files[f], i)
               PROVE  files[f][i].line \in EmittedLines \cup Waiting \cup history \cup dropped
    BY DEF ReadIsEmitted
  <2>1. Covered(files[f][i].line)
    BY <1>1 DEF ReadInv, ReadIsCovered, EndsAuthLine
  <2>2. QED
    BY <1>1, <2>1, CoveredIsAccounted DEF ReadInv
<1>2. QED
  BY <1>1, Reading, PTL

-----------------------------------------------------------------------------
(* The log without a truncation. *)

\* Whether a piece continues its line is settled by what precedes it.
LEMMA ContinuesPrefix ==
  ASSUME NEW ps, NEW qs, NEW i \in Nat \ {0}, ps[i].part \in Nat \ {0},
         \A k \in 1..i : qs[k] = ps[k], Continues(ps, i)
  PROVE  Continues(qs, i)
<1>1. PICK n \in Nat \ {0} : n = ps[i].part
  OBVIOUS
<1>2. i \in 1..i /\ qs[i] = ps[i]
  OBVIOUS
<1>3. /\ n <= i /\ (n = i \/ ps[i - n].end)
      /\ \A k \in i - n + 1 .. i : ps[k].line = ps[i].line /\ ps[k].part = k - (i - n)
  BY <1>1 DEF Continues
<1>4. \A k \in i - n + 1 .. i : k \in 1..i
  BY <1>3
<1>5. n = i \/ i - n \in 1..i
  BY <1>3
<1>6. n = i \/ qs[i - n].end
  BY <1>3, <1>5
<1>7. \A k \in i - n + 1 .. i : qs[k].line = qs[i].line /\ qs[k].part = k - (i - n)
  BY <1>2, <1>3, <1>4
<1>8. QED
  BY <1>1, <1>2, <1>3, <1>6, <1>7 DEF Continues

\* The types of pieces, in the form the arithmetic needs.
LEMMA PieceTypes ==
  ASSUME LogTypes
  PROVE  /\ \A f \in Inodes : Len(files[f]) \in Nat /\ f \in Nat
         /\ \A f \in Inodes : \A i \in 1..Len(files[f]) :
              files[f][i].line \in Nat /\ files[f][i].part \in Nat \ {0}
         /\ last.line \in Nat /\ last.part \in Nat \ {0} /\ NextLine \in Nat
         /\ wfile \in Inodes /\ wfile \in Nat /\ path \in Nat
         /\ last.line <= NextLine
<1> USE BoundsAssumption
<1>1. last.line \in Nat /\ last.part \in Nat \ {0}
  BY DEF LogTypes
<1>2. \A f \in Inodes : \A i \in 1..Len(files[f]) :
        files[f][i].line \in Nat /\ files[f][i].part \in Nat \ {0}
  <2> TAKE f \in Inodes
  <2> TAKE i \in 1..Len(files[f])
  <2>1. files[f][i] \in Piece
    BY DEF LogTypes
  <2>2. QED
    BY <2>1 DEF Piece
<1>3. \A f \in Inodes : Len(files[f]) \in Nat /\ f \in Nat
  BY DEF LogTypes, Inodes
<1>4. NextLine \in Nat /\ last.line <= NextLine
  BY <1>1 DEF NextLine
<1>5. QED
  BY <1>1, <1>2, <1>3, <1>4 DEF LogTypes

\* The next piece continues the daemon's file.
LEMMA NextPieceContinues ==
  ASSUME LogTypes, WrittenWhole, WritePiece
  PROVE  Continues(files'[wfile], Len(files[wfile]) + 1)
<1>1. PICK ps : ps = files[wfile]
  OBVIOUS
<1>2. PICK qs : qs = files'[wfile]
  OBVIOUS
<1>3. PICK N \in Nat : N = Len(ps)
  BY <1>1 DEF LogTypes
<1>4. \A i \in 1..N : qs[i] = ps[i]
  BY <1>1, <1>2, <1>3, Written
<1>5. qs[N + 1] = NextPiece
  BY <1>1, <1>2, <1>3, Written
<1>6. /\ NextPiece.part = (IF last.end THEN 1 ELSE last.part + 1)
      /\ NextPiece.line = NextLine
  BY NextPieceFits DEF WritePiece
<1>7. last.part \in Nat \ {0}
  BY PieceTypes
<1>8. (ps = <<>>) <=> (N = 0)
  BY <1>1, <1>3 DEF LogTypes
<1>9. N # 0 => ps[N] = last /\ Continues(ps, N)
  <2>1. N # 0 => N \in 1..Len(files[wfile]) /\ wfile \in Inodes
    BY <1>1, <1>3 DEF LogTypes
  <2>2. QED
    BY <1>1, <1>3, <1>8, <2>1 DEF WrittenWhole
<1>10. CASE last.end
  <2>1. qs[N + 1].part = 1
    BY <1>5, <1>6, <1>10
  <2>2. N = 0 \/ qs[N].end
    BY <1>4, <1>9, <1>10
  <2>3. /\ 1 <= N + 1 /\ (N + 1) - 1 = N /\ \A k \in (N + 1) - 1 + 1 .. N + 1 : k = N + 1
        /\ (N + 1) - ((N + 1) - 1) = 1
    OBVIOUS
  <2>4. Continues(qs, N + 1)
    BY <2>1, <2>2, <2>3 DEF Continues
  <2>5. QED
    BY <1>1, <1>2, <1>3, <2>4
<1>11. CASE ~last.end
  <2>1. N # 0 /\ ps[N] = last /\ Continues(ps, N)
    BY <1>1, <1>8, <1>9, <1>11 DEF WrittenWhole
  <2>2. PICK q \in Nat \ {0} : q = last.part
    BY <1>7
  <2>3. /\ q <= N /\ (q = N \/ ps[N - q].end)
        /\ \A k \in N - q + 1 .. N : ps[k].line = last.line /\ ps[k].part = k - (N - q)
    BY <2>1, <2>2 DEF Continues
  <2>4. qs[N + 1].part = q + 1 /\ qs[N + 1].line = last.line
    BY <1>5, <1>6, <1>11, <2>2 DEF NextLine
  <2>5. (N + 1) - (q + 1) = N - q
    OBVIOUS
  <2>6. \A k \in N - q + 1 .. N + 1 : k = N + 1 \/ (k \in N - q + 1 .. N /\ k \in 1..N)
    BY <2>3
  <2>7. \A k \in N - q + 1 .. N + 1 : qs[k].line = qs[N + 1].line /\ qs[k].part = k - (N - q)
    <3> TAKE k \in N - q + 1 .. N + 1
    <3>1. CASE k = N + 1
      <4>1. (N + 1) - (N - q) = q + 1
        OBVIOUS
      <4>2. QED
        BY <2>4, <3>1, <4>1
    <3>2. CASE k \in N - q + 1 .. N /\ k \in 1..N
      BY <1>4, <2>3, <2>4, <3>2
    <3>3. QED
      BY <2>6, <3>1, <3>2
  <2>8. q + 1 = N + 1 \/ qs[N - q].end
    <3>1. q = N \/ N - q \in 1..N
      BY <2>3
    <3>2. QED
      BY <1>4, <2>3, <3>1
  <2>9. q + 1 <= N + 1
    BY <2>3
  <2>10. Continues(qs, N + 1)
    BY <2>4, <2>5, <2>7, <2>8, <2>9 DEF Continues
  <2>11. QED
    BY <1>1, <1>2, <1>3, <2>10
<1>12. QED
  BY <1>10, <1>11

\* What is written is written whole.
LEMMA WrittenWholeStep ==
  ASSUME LogTypes, WrittenWhole, WrittenInOrder, [Next]_vars, truncs' = truncs
  PROVE  WrittenWhole'
<1>1. CASE WritePiece
  <2>1. /\ wfile' = wfile /\ last' = NextPiece /\ Len(files'[wfile]) = Len(files[wfile]) + 1
        /\ files'[wfile][Len(files[wfile]) + 1] = NextPiece
        /\ \A f \in Inodes : f # wfile => files'[f] = files[f]
        /\ \A i \in 1..Len(files[wfile]) : files'[wfile][i] = files[wfile][i]
    BY <1>1, Written DEF WritePiece
  <2>2. wfile \in Inodes /\ Len(files[wfile]) \in Nat /\ files'[wfile] # <<>>
    <3>1. wfile \in Inodes /\ Len(files[wfile]) \in Nat
      BY PieceTypes
    <3>2. Len(files'[wfile]) # 0
      BY <2>1, <3>1
    <3>3. QED
      BY <3>1, <3>2
  <2>3. \A f \in Inodes : \A i \in 1..Len(files'[f]) : Continues(files'[f], i)
    <3> TAKE f \in Inodes
    <3> TAKE i \in 1..Len(files'[f])
    <3>1. CASE f # wfile
      <4>1. files'[f] = files[f]
        BY <2>1, <3>1
      <4>2. QED
        BY <4>1 DEF WrittenWhole
    <3>2. CASE f = wfile /\ i = Len(files[wfile]) + 1
      BY <1>1, <3>2, NextPieceContinues
    <3>3. CASE f = wfile /\ i # Len(files[wfile]) + 1
      <4>1. i \in 1..Len(files[wfile])
        BY <2>1, <2>2, <3>3
      <4>2. Continues(files[wfile], i) /\ files[wfile][i].part \in Nat \ {0} /\ i \in Nat \ {0}
        BY <2>2, <4>1, PieceTypes DEF WrittenWhole
      <4>3. \A k \in 1..i : files'[wfile][k] = files[wfile][k]
        <5>1. \A k \in 1..i : k \in 1..Len(files[wfile])
          BY <2>2, <4>1
        <5>2. QED
          BY <2>1, <5>1
      <4>4. PICK ps : ps = files[wfile]
        OBVIOUS
      <4>5. PICK qs : qs = files'[wfile]
        OBVIOUS
      <4>6. Continues(qs, i)
        BY <4>2, <4>3, <4>4, <4>5, ContinuesPrefix
      <4>7. QED
        BY <3>3, <4>5, <4>6
    <3>4. QED
      BY <3>1, <3>2, <3>3
  <2>4. QED
    BY <2>1, <2>2, <2>3 DEF WrittenWhole, Continues
<1>2. CASE Reopen
  <2>1. wfile' = path /\ last.end /\ path \notin {NoFile, wfile} /\ last' = last /\ files' = files
    BY <1>2 DEF Reopen
  <2>2. path \in Inodes /\ path > wfile
    BY <2>1, PieceTypes DEF LogTypes, Inodes, NoFile
  <2>3. Len(files[path]) = 0
    BY <2>2 DEF WrittenInOrder
  <2>4. files[path] = <<>>
    BY <2>2, <2>3 DEF LogTypes
  <2>5. QED
    BY <2>1, <2>4 DEF WrittenWhole, Continues
<1>3. CASE ~(WritePiece \/ Reopen)
  <2>1. UNCHANGED <<files, wfile, last>>
    <3>1. ~\E n \in 0..1 : Truncate(n)
      BY DEF Truncate, LogTypes
    <3>2. QED
      BY <1>3, <3>1 DEF Next, Collect, RenameAway, Create, SetAccess, Stop, LogOnly, vars, logVars,
             Poll, OpenFails, OpenFile, Read, FollowFails, FollowSame, FollowTruncated,
             FollowRotated, EmitLine, EndPoll, TailOnly
  <2>2. QED
    BY <2>1 DEF WrittenWhole, Continues
<1>4. QED
  BY <1>1, <1>2, <1>3

\* A step that leaves the files' contents leaves the daemon's place too, but for a reopen.
LEMMA LogLeft ==
  ASSUME LogTypes, [Next]_vars, truncs' = truncs, ~WritePiece
  PROVE  files' = files /\ last' = last /\ NextLine' = NextLine /\ (wfile' = wfile \/ Reopen)
<1>1. ~\E n \in 0..1 : Truncate(n)
  BY DEF Truncate, LogTypes
<1>2. UNCHANGED <<files, last>> /\ (wfile' = wfile \/ Reopen)
  <2>1. CASE RenameAway \/ Create \/ Reopen \/ SetAccess \/ Stop \/ UNCHANGED vars
    BY <2>1 DEF RenameAway, Create, Reopen, SetAccess, Stop, vars, logVars
  <2>2. CASE Collect
    BY <2>2 DEF Collect, Poll, OpenFails, OpenFile, Read, FollowFails, FollowSame,
           FollowTruncated, FollowRotated, EmitLine, EndPoll, TailOnly, logVars
  <2>3. QED
    BY <1>1, <2>1, <2>2 DEF Next
<1>3. QED
  BY <1>2 DEF NextLine

\* A reopen is of the next, empty file.
LEMMA Reopened ==
  ASSUME LogTypes, Reopen
  PROVE  /\ wfile' = path /\ path = wfile + 1 /\ path \in Inodes /\ last.end
         /\ NextLine = last.line + 1 /\ NextLine' = NextLine /\ last' = last /\ files' = files
<1>1. /\ wfile' = path /\ last.end /\ path \notin {NoFile, wfile} /\ last' = last
      /\ files' = files
  BY DEF Reopen
<1>2. path = wfile + 1 /\ path \in Inodes
  BY <1>1 DEF LogTypes, Inodes, NoFile
<1>3. QED
  BY <1>1, <1>2 DEF NextLine

\* What a write adds: a piece of the line that is next.
LEMMA WrittenNext ==
  ASSUME LogTypes, WritePiece
  PROVE  /\ wfile' = wfile /\ wfile \in Inodes /\ last'.line = NextLine
         /\ NextLine' \in Nat /\ NextLine <= NextLine' /\ (last'.end => NextLine < NextLine')
         /\ \A f \in Inodes : \A i \in 1..Len(files'[f]) :
              \/ /\ f = wfile /\ i = Len(files[wfile]) + 1
                 /\ files'[f][i].line = NextLine /\ files'[f][i] = last'
              \/ i \in 1..Len(files[f]) /\ files'[f][i] = files[f][i]
<1>1. LogTypes'
  BY LogTypesStep DEF Next
<1>2. /\ last' = NextPiece /\ wfile' = wfile
      /\ \A f \in Inodes : f # wfile => files'[f] = files[f]
      /\ Len(files'[wfile]) = Len(files[wfile]) + 1
      /\ \A i \in 1..Len(files[wfile]) : files'[wfile][i] = files[wfile][i]
      /\ files'[wfile][Len(files[wfile]) + 1] = NextPiece
  BY Written DEF WritePiece
<1>3. NextPiece.line = NextLine
  BY NextPieceFits DEF WritePiece
<1>4. NextLine' = (IF last'.end THEN last'.line + 1 ELSE last'.line)
  BY DEF NextLine
<1>5. NextLine \in Nat /\ wfile \in Inodes /\ Len(files[wfile]) \in Nat
  BY PieceTypes
<1>6. NextLine' \in Nat /\ NextLine <= NextLine' /\ (last'.end => NextLine < NextLine')
  BY <1>2, <1>3, <1>4, <1>5
<1>7. ASSUME NEW f \in Inodes, NEW i \in 1..Len(files'[f])
      PROVE  \/ /\ f = wfile /\ i = Len(files[wfile]) + 1
                /\ files'[f][i].line = NextLine /\ files'[f][i] = last'
             \/ i \in 1..Len(files[f]) /\ files'[f][i] = files[f][i]
  <2>1. CASE f # wfile
    BY <1>2, <2>1
  <2>2. CASE f = wfile /\ i = Len(files[wfile]) + 1
    BY <1>2, <1>3, <2>2
  <2>3. CASE f = wfile /\ i # Len(files[wfile]) + 1
    <3>1. i \in 1..Len(files[wfile])
      BY <1>2, <1>5, <2>3
    <3>2. QED
      BY <1>2, <2>3, <3>1
  <2>4. QED
    BY <2>1, <2>2, <2>3
<1>8. QED
  BY <1>2, <1>3, <1>5, <1>6, <1>7

\* What is written is written in order.
LEMMA WrittenInOrderStep ==
  ASSUME LogTypes, WrittenInOrder, [Next]_vars, truncs' = truncs
  PROVE  WrittenInOrder'
<1>0. LogTypes'
  BY LogTypesStep
<1>1. CASE WritePiece
  <2>1. /\ wfile' = wfile /\ wfile \in Inodes /\ last'.line = NextLine
        /\ NextLine' \in Nat /\ NextLine <= NextLine' /\ (last'.end => NextLine < NextLine')
    BY <1>1, WrittenNext
  <2>2. NextLine \in Nat /\ last.line \in Nat /\ last.line <= NextLine /\ wfile \in Nat
    BY PieceTypes
  <2>3. \A f \in Inodes : f > wfile => Len(files'[f]) = 0
    BY <1>1, <2>2, Written DEF WrittenInOrder
  <2> DEFINE New(f, i) == /\ f = wfile /\ i = Len(files[wfile]) + 1
                          /\ files'[f][i].line = NextLine /\ files'[f][i] = last'
             Old(f, i) == i \in 1..Len(files[f]) /\ files'[f][i] = files[f][i]
  <2>4. \A f \in Inodes : \A i \in 1..Len(files'[f]) : New(f, i) \/ Old(f, i)
    BY <1>1, WrittenNext
  <2>5. \A f \in Inodes : \A i : Old(f, i) =>
          /\ i \in 1..Len(files[f]) /\ files'[f][i] = files[f][i] /\ files[f][i].line \in Nat
          /\ f \in Nat /\ i \in Nat
    BY PieceTypes
  <2>6. \A f \in Inodes : \A i : New(f, i) =>
          /\ f = wfile /\ i = Len(files[wfile]) + 1 /\ Len(files[wfile]) \in Nat
          /\ files'[f][i].line = NextLine /\ (files'[f][i].end => NextLine < NextLine')
    BY <2>1, PieceTypes
  <2> HIDE DEF New, Old
  <2>7. ASSUME NEW f \in Inodes, NEW i \in 1..Len(files'[f])
        PROVE  /\ files'[f][i].line <= last'.line
               /\ files'[f][i].end \/ f < wfile' => files'[f][i].line < NextLine'
               /\ \A j \in 1..Len(files'[f]) : i < j =>
                    /\ files'[f][i].line <= files'[f][j].line
                    /\ files'[f][i].end => files'[f][i].line < files'[f][j].line
               /\ \A g \in Inodes : f < g =>
                    \A j \in 1..Len(files'[g]) : files'[f][i].line < files'[g][j].line
    <3>1. CASE New(f, i)
      <4>1. /\ f = wfile /\ i = Len(files[wfile]) + 1 /\ Len(files[wfile]) \in Nat
            /\ files'[f][i].line = NextLine /\ (files'[f][i].end => NextLine < NextLine')
        BY <2>6, <3>1
      <4>2. Len(files'[f]) = i
        BY <1>1, <4>1, Written
      <4>3. \A j \in 1..Len(files'[f]) : ~(i < j)
        BY <4>1, <4>2
      <4>4. \A g \in Inodes : f < g => Len(files'[g]) = 0 /\ g \in Nat
        BY <2>2, <2>3, <4>1 DEF Inodes
      <4>5. \A g \in Inodes : f < g => \A j \in 1..Len(files'[g]) : FALSE
        BY <4>4
      <4>6. ~(f < wfile')
        BY <2>1, <2>2, <4>1
      <4>7. QED
        BY <2>1, <2>2, <4>1, <4>3, <4>5, <4>6
    <3>2. CASE Old(f, i)
      <4>1. /\ i \in 1..Len(files[f]) /\ files'[f][i] = files[f][i] /\ files[f][i].line \in Nat
            /\ f \in Nat /\ i \in Nat
        BY <2>5, <3>2
      <4>2. PICK x \in Nat : x = files[f][i].line
        BY <4>1
      <4>3. x <= last.line /\ (files[f][i].end \/ f < wfile => x < NextLine)
        BY <4>1, <4>2 DEF WrittenInOrder
      <4>4. x <= last'.line /\ (files[f][i].end \/ f < wfile => x < NextLine')
        BY <2>1, <2>2, <4>3
      <4>5. ASSUME NEW j \in 1..Len(files'[f]), i < j
            PROVE  x <= files'[f][j].line /\ (files[f][i].end => x < files'[f][j].line)
        <5>1. CASE New(f, j)
          <6>1. files'[f][j].line = NextLine
            BY <2>6, <5>1
          <6>2. QED
            BY <2>2, <4>3, <6>1
        <5>2. CASE Old(f, j)
          <6>1. j \in 1..Len(files[f]) /\ files'[f][j] = files[f][j]
            BY <2>5, <5>2
          <6>2. QED
            BY <4>1, <4>2, <4>5, <6>1 DEF WrittenInOrder
        <5>3. QED
          BY <2>4, <5>1, <5>2
      <4>6. ASSUME NEW g \in Inodes, f < g, NEW j \in 1..Len(files'[g])
            PROVE  x < files'[g][j].line
        <5>1. CASE New(g, j)
          <6>1. files'[g][j].line = NextLine /\ g = wfile
            BY <2>6, <5>1
          <6>2. QED
            BY <4>3, <4>6, <6>1
        <5>2. CASE Old(g, j)
          <6>1. j \in 1..Len(files[g]) /\ files'[g][j] = files[g][j]
            BY <2>5, <5>2
          <6>2. QED
            BY <4>1, <4>2, <4>6, <6>1 DEF WrittenInOrder
        <5>3. QED
          BY <2>4, <5>1, <5>2
      <4>7. QED
        BY <2>1, <4>1, <4>2, <4>4, <4>5, <4>6
    <3>3. QED
      BY <2>4, <3>1, <3>2
  <2>8. QED
    BY <2>1, <2>3, <2>7 DEF WrittenInOrder
<1>2. CASE Reopen
  <2>1. /\ wfile' = wfile + 1 /\ NextLine = last.line + 1 /\ NextLine' = NextLine
        /\ last' = last /\ files' = files
    BY <1>2, Reopened
  <2>2. wfile \in Nat /\ last.line \in Nat
    BY PieceTypes
  <2>3. \A f \in Inodes : f > wfile' => f > wfile
    BY <2>1, <2>2 DEF Inodes
  <2>4. \A f \in Inodes : \A i \in 1..Len(files[f]) :
          files[f][i].line \in Nat /\ files[f][i].line <= last.line
    BY PieceTypes DEF WrittenInOrder
  <2>5. \A f \in Inodes : \A i \in 1..Len(files[f]) : files[f][i].line < NextLine
    BY <2>1, <2>2, <2>4
  <2>6. QED
    BY <2>1, <2>3, <2>5 DEF WrittenInOrder
<1>3. CASE ~(WritePiece \/ Reopen)
  <2>1. files' = files /\ last' = last /\ NextLine' = NextLine /\ wfile' = wfile
    BY <1>3, LogLeft
  <2>2. QED
    BY <2>1 DEF WrittenInOrder
<1>4. QED
  BY <1>1, <1>2, <1>3

-----------------------------------------------------------------------------
(* Where the collector stands in a log without a truncation. *)

\* The types of the collector's place, in the form the arithmetic needs.
LEMMA PlaceTypes ==
  ASSUME LogTypes, TailTypes
  PROVE  /\ handle \in Nat /\ pos \in Nat /\ Len(buf) \in Nat /\ LineStart \in Int
         /\ FirstFile \in Nat /\ (handle # NoFile => handle \in Inodes)
         /\ (path # NoFile => path \in Inodes)
<1> USE BoundsAssumption
<1>1. handle \in Nat /\ pos \in Nat /\ Len(buf) \in Nat /\ (handle # NoFile => handle \in Inodes)
  BY DEF TailTypes, Inodes, NoFile
<1>2. path \in Nat /\ wfile \in Nat /\ (path # NoFile => path \in Inodes)
  BY DEF LogTypes, Inodes, NoFile
<1>3. LineStart \in Int
  BY <1>1 DEF LineStart
<1>4. FirstFile \in Nat
  BY <1>1, <1>2 DEF FirstFile
<1>5. QED
  BY <1>1, <1>2, <1>3, <1>4

\* Without a truncation the open file is never found shorter than the offset.
LEMMA NeverTruncated == ASSUME TailTypes, Reached, FollowTruncated PROVE FALSE
<1>1. path = handle /\ handle # NoFile /\ Len(files[path]) < pos
  BY DEF FollowTruncated, SameFile
<1>2. pos <= Len(files[handle])
  BY <1>1 DEF Reached
<1>3. pos \in Nat
  BY DEF TailTypes
<1>4. QED
  BY <1>1, <1>2, <1>3

\* The offset stays within the open file, and the open file behind the path.
LEMMA ReachedStep ==
  ASSUME LogTypes, TailTypes, PollStage, Reached, [Next]_vars, truncs' = truncs
  PROVE  Reached'
<1> USE BoundsAssumption
<1>0. /\ handle \in Nat /\ wfile \in Nat /\ path \in Nat /\ pos \in Nat
      /\ (handle # NoFile => handle \in Inodes) /\ wfile \in Inodes
      /\ (path # NoFile => path \in Inodes)
  BY PieceTypes, PlaceTypes
<1>1. CASE \/ SetAccess \/ Stop \/ Poll \/ OpenFails \/ FollowFails \/ FollowSame \/ EmitLine
           \/ UNCHANGED vars
  <2>1. UNCHANGED <<files, wfile, path, handle, pos, regrown>>
    <3>1. CASE SetAccess \/ Stop \/ UNCHANGED vars
      BY <3>1 DEF SetAccess, Stop, LogOnly, tailVars, histVars, logVars, vars
    <3>2. CASE Poll \/ OpenFails \/ FollowFails \/ FollowSame \/ EmitLine
      BY <3>2 DEF Poll, OpenFails, FollowFails, FollowSame, EmitLine, TailOnly, tailVars,
                  histVars, logVars
    <3>3. QED
      BY <1>1, <3>1, <3>2
  <2>2. QED
    BY <2>1 DEF Reached
<1>2. CASE WritePiece
  <2>1. /\ UNCHANGED <<handle, pos, path, wfile>>
        /\ regrown' = (regrown \/ (wfile = handle /\ Len(files'[wfile]) = pos))
    BY <1>2 DEF WritePiece, LogOnly, tailVars
  <2>2. handle # NoFile => Len(files[handle]) \in Nat /\ Len(files'[handle]) >= Len(files[handle])
    <3>1. \A f \in Inodes : Len(files[f]) \in Nat /\ Len(files'[f]) >= Len(files[f])
      <4> TAKE f \in Inodes
      <4>1. Len(files[f]) \in Nat
        BY PieceTypes
      <4>2. CASE f = wfile
        BY <1>2, <4>1, <4>2, Written
      <4>3. CASE f # wfile
        BY <1>2, <4>1, <4>3, Written
      <4>4. QED
        BY <4>1, <4>2, <4>3
    <3>2. QED
      BY <1>0, <3>1
  <2>3. wfile = handle => Len(files'[wfile]) = Len(files[wfile]) + 1
    BY <1>2, Written
  <2>4. wfile # NoFile
    BY <1>0 DEF Inodes, NoFile
  <2>5. handle # NoFile => pos <= Len(files[handle]) /\ Len(files[handle]) \in Nat
    BY <2>2 DEF Reached
  <2>6. ~regrown'
    <3>1. ~(wfile = handle /\ Len(files'[wfile]) = pos)
      <4> SUFFICES ASSUME wfile = handle PROVE Len(files'[wfile]) # pos
        OBVIOUS
      <4>1. pos <= Len(files[wfile]) /\ Len(files[wfile]) \in Nat
        BY <2>4, <2>5
      <4>2. QED
        BY <1>0, <2>3, <4>1
    <3>2. QED
      BY <2>1, <3>1 DEF Reached
  <2>7. handle # NoFile => pos <= Len(files'[handle])
    <3> SUFFICES ASSUME handle # NoFile PROVE pos <= Len(files'[handle])
      OBVIOUS
    <3>1. Len(files[handle]) \in Nat /\ pos <= Len(files[handle])
      BY <2>5
    <3>2. CASE handle = wfile
      BY <1>0, <2>3, <3>1, <3>2
    <3>3. CASE handle # wfile
      BY <1>0, <1>2, <3>1, <3>3, Written
    <3>4. QED
      BY <3>2, <3>3
  <2>8. QED
    BY <2>1, <2>6, <2>7 DEF Reached
<1>3. CASE RenameAway
  <2>1. /\ UNCHANGED <<files, handle, pos, wfile, regrown>> /\ path' = NoFile /\ wfile = path
        /\ path # NoFile
    BY <1>3 DEF RenameAway, LogOnly, tailVars, histVars
  <2>2. QED
    BY <1>0, <2>1 DEF Reached
<1>4. CASE Create
  <2>1. /\ UNCHANGED <<files, handle, pos, wfile, regrown>> /\ path = NoFile /\ path' = wfile + 1
    BY <1>4 DEF Create, LogOnly, tailVars, histVars
  <2>2. path' # NoFile
    BY <1>0, <2>1 DEF NoFile
  <2>3. QED
    BY <1>0, <2>1, <2>2 DEF Reached
<1>5. CASE Reopen
  <2>1. UNCHANGED <<files, handle, pos, path, regrown>>
    BY <1>5 DEF Reopen, LogOnly, tailVars, histVars
  <2>2. wfile' = wfile + 1
    BY <1>5, Reopened
  <2>3. path # NoFile
    BY <1>5 DEF Reopen
  <2>4. QED
    BY <1>0, <2>1, <2>2, <2>3 DEF Reached
<1>6. CASE OpenFile
  <2>1. /\ UNCHANGED <<files, path, wfile, regrown>> /\ handle' = path /\ path # NoFile
        /\ pos' \in {Len(files[path]), pos} /\ pc = "open"
    BY <1>6 DEF OpenFile, TailOnly, logVars
  <2>2. pos = 0
    BY <2>1 DEF PollStage
  <2>3. Len(files[path]) \in Nat
    BY <1>0, <2>1, PieceTypes
  <2>4. path \in {wfile, wfile + 1}
    BY <2>1 DEF LogTypes
  <2>5. pos' <= Len(files[path])
    BY <2>1, <2>2, <2>3
  <2>6. QED
    BY <1>0, <2>1, <2>4, <2>5 DEF Reached
<1>7. CASE Read
  <2>1. UNCHANGED <<files, path, wfile, regrown, handle>>
    BY <1>7 DEF Read, TailOnly, logVars
  <2>2. handle # NoFile
    BY <1>7 DEF Read, PollStage
  <2>3. PICK c, m, e, d, all : ReadOutcome(c, m, e, d, all)
    BY <1>7, ReadSplits
  <2>4. /\ c \in Nat /\ pos' = pos + c
        /\ \A i \in 1..c : pos + i \in 1..Len(files[handle])
    BY <2>3 DEF ReadOutcome
  <2>5. pos <= Len(files[handle]) /\ Len(files[handle]) \in Nat
    BY <1>0, <2>2, PieceTypes DEF Reached
  <2>6. pos' <= Len(files[handle])
    <3>1. CASE c = 0
      BY <1>0, <2>4, <2>5, <3>1
    <3>2. CASE c # 0
      <4>1. c \in 1..c
        BY <2>4, <3>2
      <4>2. QED
        BY <2>4, <2>5, <4>1
    <3>3. QED
      BY <3>1, <3>2
  <2>7. QED
    BY <2>1, <2>6 DEF Reached
<1>8. CASE FollowRotated
  <2>1. UNCHANGED <<path, wfile, regrown>> /\ handle' = NoFile
    BY <1>8 DEF FollowRotated, TailOnly, logVars, histVars
  <2>2. QED
    BY <1>0, <2>1 DEF Reached, NoFile
<1>9. CASE EndPoll
  <2>1. UNCHANGED <<path, wfile, regrown, files, pos>> /\ handle' \in {handle, NoFile}
    BY <1>9 DEF EndPoll, TailOnly, logVars, histVars
  <2>2. CASE handle' = handle
    BY <2>1, <2>2 DEF Reached
  <2>3. CASE handle' = NoFile
    BY <1>0, <2>1, <2>3 DEF Reached, NoFile
  <2>4. QED
    BY <2>1, <2>2, <2>3
<1>10. ~\E n \in 0..1 : Truncate(n)
  BY DEF Truncate, LogTypes
<1>11. QED
  BY <1>1, <1>2, <1>3, <1>4, <1>5, <1>6, <1>7, <1>8, <1>9, <1>10, NeverTruncated DEF Next, Collect

\* A read does not move the start of the line in hand back.
LEMMA ReadPlace ==
  ASSUME LogTypes, TailTypes, TailFollowsFile, Read, InSync, ~regrown,
         NEW c, NEW m, NEW e, NEW d, NEW all, ReadOutcome(c, m, e, d, all)
  PROVE  /\ LineStart \in Nat /\ LineStart' \in Nat /\ e[m] \in Nat
         /\ LineStart + e[m] <= LineStart' /\ LineStart' <= Len(files[handle])
<1>1. /\ LineStart \in Nat /\ pos' = LineStart + Len(all)
      /\ LineStart + Len(all) <= Len(files[handle])
  BY ReadFromFile
<1>2. /\ e[m] \in 0..Len(all) /\ Len(all) \in Nat /\ buf' \in Seq(Piece)
      /\ Len(all) - e[m] > MaxLine => Len(buf') = 0
      /\ Len(all) - e[m] <= MaxLine => Len(buf') = Len(all) - e[m]
  BY RestOfRead
<1>3. LineStart' = pos' - Len(buf')
  BY DEF LineStart
<1>4. MaxLine \in Nat
  BY BoundsAssumption
<1>5. PICK E \in Nat : E = e[m] /\ E <= Len(all)
  BY <1>2
<1>6. PICK b \in Nat : b = Len(buf')
  BY <1>2
<1>7. b = 0 \/ b = Len(all) - E
  BY <1>2, <1>4, <1>5, <1>6
<1>8. Len(files[handle]) \in Nat
  BY PieceTypes, PlaceTypes DEF InSync
<1>9. PICK v \in Nat : v = Len(all)
  BY <1>2
<1>10. PICK L \in Nat : L = LineStart
  BY <1>1
<1>11. LineStart' = (L + v) - b
  BY <1>1, <1>3, <1>6, <1>9, <1>10
<1>12. (L + v) - b \in Nat /\ L + E <= (L + v) - b /\ (L + v) - b <= L + v
  BY <1>5, <1>7, <1>9
<1>13. QED
  BY <1>1, <1>5, <1>8, <1>9, <1>10, <1>11, <1>12

\* Where the lines of a read are in the file: one after the other, behind what is in hand.
LEMMA LinePlaces ==
  ASSUME LogTypes, TailTypes, PollStage, TailFollowsFile, Read, InSync, ~regrown
  PROVE  \E A, B :
           /\ \A k \in 1..Len(batch') :
                /\ A[k] \in 1..Len(files[handle]) /\ B[k] \in 1..Len(files[handle])
                /\ LineStart < A[k] /\ A[k] <= B[k] /\ B[k] <= LineStart'
                /\ batch'[k][1] = files[handle][A[k]] /\ files[handle][B[k]].end
           /\ \A j, k \in 1..Len(batch') : j < k => B[j] < A[k]
<1>1. PICK c, m, e, d, all : ReadOutcome(c, m, e, d, all)
  BY ReadSplits
<1>2. PICK L \in Nat : L = LineStart
  BY <1>1, ReadFromFile
<1>3. PICK v \in Nat : v = Len(all)
  BY <1>1, RestOfRead
<1>4. PICK F \in Nat : F = Len(files[handle])
  BY PieceTypes, PlaceTypes DEF InSync
<1>5. PICK S \in Nat : S = LineStart'
  BY <1>1, ReadPlace
<1>6. L + v <= F /\ \A i \in 1..v : all[i] = files[handle][L + i]
  BY <1>1, <1>2, <1>3, <1>4, ReadFromFile
<1>7. L + e[m] <= S /\ S <= F
  BY <1>1, <1>2, <1>4, <1>5, ReadPlace
<1>8. /\ m \in Nat /\ e \in [0..m -> 0..v] /\ d \in {0, 1} /\ d <= m
      /\ \A a, b \in 0..m : a < b => e[a] < e[b]
      /\ batch' = [k \in 1..(m - d) |-> SubSeq(all, e[k + d - 1] + 1, e[k + d])]
  BY <1>1, <1>3 DEF ReadOutcome, Splits
<1>9. PICK w \in Nat : w = m - d
  BY <1>8
<1>10. Len(batch') = w
  BY <1>8, <1>9
<1> DEFINE A == [k \in 1..w |-> L + e[k + d - 1] + 1]
           B == [k \in 1..w |-> L + e[k + d]]
<1>11. \A k \in 1..w : k + d - 1 \in 0..m /\ k + d \in 0..m
  BY <1>8, <1>9
<1>12. \A k \in 1..w : A[k] = L + e[k + d - 1] + 1 /\ B[k] = L + e[k + d]
  OBVIOUS
<1> HIDE DEF A, B
<1>13. ASSUME NEW k \in 1..w
       PROVE  /\ A[k] \in 1..F /\ B[k] \in 1..F /\ L < A[k] /\ A[k] <= B[k] /\ B[k] <= S
              /\ batch'[k][1] = files[handle][A[k]] /\ files[handle][B[k]].end
  <2>1. PICK s \in 0..v : s = e[k + d - 1]
    BY <1>8, <1>11
  <2>2. PICK t \in 0..v : t = e[k + d]
    BY <1>8, <1>11
  <2>3. s < t
    <3>1. k + d - 1 < k + d
      BY <1>8
    <3>2. QED
      BY <1>8, <1>11, <2>1, <2>2, <3>1
  <2>4. t <= e[m]
    <3>1. m \in 0..m /\ (k + d = m \/ k + d < m)
      BY <1>8, <1>9
    <3>2. k + d = m \/ e[k + d] < e[m]
      BY <1>8, <1>11, <3>1
    <3>3. e[m] \in 0..v
      BY <1>8, <3>1
    <3>4. QED
      BY <2>2, <3>2, <3>3
  <2>5. e[m] \in 0..v
    <3>1. m \in 0..m
      BY <1>8
    <3>2. QED
      BY <1>8, <3>1
  <2>6. /\ A[k] = L + s + 1 /\ B[k] = L + t
    BY <1>12, <2>1, <2>2
  <2>7. /\ L + s + 1 \in 1..F /\ L + t \in 1..F /\ L < L + s + 1 /\ L + s + 1 <= L + t
        /\ L + t <= S
    <3>1. L + t <= L + v /\ L + t <= L + e[m]
      BY <2>2, <2>4, <2>5
    <3>2. L + v <= F /\ L + e[m] <= S /\ S \in Nat /\ F \in Nat /\ e[m] \in Nat
      BY <1>6, <1>7, <2>5
    <3>3. s \in Nat /\ t \in Nat /\ L \in Nat /\ s + 1 <= t
      BY <2>1, <2>2, <2>3
    <3>4. L + t <= F /\ L + t <= S
      BY <3>1, <3>2, <3>3
    <3>5. QED
      BY <3>2, <3>3, <3>4
  <2>8. /\ Len(batch'[k]) = t - s /\ all[t].end
        /\ \A i \in 1..t - s : batch'[k][i] = all[s + i]
    <3>1. k \in 1..(m - d)
      BY <1>9
    <3>2. IsLineOf(batch'[k], all, e[k + d - 1], e[k + d])
      BY <1>1, <3>1, LineRead
    <3>3. IsLineOf(batch'[k], all, s, t)
      BY <2>1, <2>2, <3>2
    <3>4. QED
      BY <3>3 DEF IsLineOf
  <2>9. 1 \in 1..t - s /\ s + 1 \in 1..v /\ t \in 1..v
    BY <2>3
  <2>10. batch'[k][1] = files[handle][L + (s + 1)] /\ files[handle][L + t].end
    BY <1>6, <2>8, <2>9
  <2>11. L + (s + 1) = L + s + 1
    BY <2>1
  <2>12. QED
    BY <2>6, <2>7, <2>10, <2>11
<1>14. ASSUME NEW j \in 1..w, NEW k \in 1..w, j < k PROVE B[j] < A[k]
  <2>1. j + d <= k + d - 1 /\ j + d \in 0..m /\ k + d - 1 \in 0..m
    <3>1. j + d \in 0..m /\ k + d - 1 \in 0..m
      BY <1>11
    <3>2. j + d <= k + d - 1
      BY <1>8, <1>14
    <3>3. QED
      BY <3>1, <3>2
  <2>2. j + d = k + d - 1 \/ j + d < k + d - 1
    BY <1>8, <2>1
  <2>3. PICK t \in 0..v : t = e[j + d]
    BY <1>8, <2>1
  <2>4. PICK s \in 0..v : s = e[k + d - 1]
    BY <1>8, <2>1
  <2>5. t <= s
    <3>1. t = s \/ t < s
      BY <1>8, <2>1, <2>2, <2>3, <2>4
    <3>2. QED
      BY <3>1
  <2>6. B[j] = L + t /\ A[k] = L + s + 1
    BY <1>12, <2>3, <2>4
  <2>7. QED
    BY <2>5, <2>6
<1>15. QED
  BY <1>2, <1>4, <1>5, <1>10, <1>13, <1>14

\* A line that was read is behind what is read after it.
LEMMA BehindStep ==
  ASSUME LogTypes, TailTypes, PollStage, TailFollowsFile, Reached, [Next]_vars, truncs' = truncs,
         pc' # "closed", NEW n \in Nat, Behind(n)
  PROVE  Behind(n)'
<1> USE BoundsAssumption
<1>0. /\ handle \in Nat /\ wfile \in Nat /\ path \in Nat /\ pos \in Nat /\ wfile \in Inodes
      /\ (handle # NoFile => handle \in Inodes) /\ (path # NoFile => path \in Inodes)
      /\ last.line \in Nat /\ NextLine \in Nat /\ last.line <= NextLine /\ FirstFile \in Nat
      /\ \A f \in Inodes : f \in Nat /\ f # NoFile
  BY PieceTypes, PlaceTypes DEF Inodes, NoFile
<1>1. /\ n <= last.line /\ (wfile >= FirstFile => n < NextLine)
      /\ \A f \in Inodes : \A i \in 1..Len(files[f]) :
           (f >= FirstFile /\ (f = handle => i > LineStart)) => n < files[f][i].line
  BY DEF Behind
<1>2. ASSUME files' = files, last' = last, NextLine' = NextLine, wfile' = wfile,
             FirstFile' \in Nat, FirstFile <= FirstFile',
             \A f \in Inodes : \A i \in 1..Len(files[f]) :
               (f >= FirstFile' /\ (f = handle' => i > LineStart')) => (f = handle => i > LineStart)
      PROVE  Behind(n)'
  <2>1. wfile >= FirstFile' => wfile >= FirstFile
    BY <1>0, <1>2
  <2>2. \A f \in Inodes : f >= FirstFile' => f >= FirstFile
    BY <1>0, <1>2
  <2>3. \A f \in Inodes : \A i \in 1..Len(files[f]) :
          (f >= FirstFile' /\ (f = handle' => i > LineStart')) => n < files[f][i].line
    BY <1>1, <1>2, <2>2
  <2>4. QED
    BY <1>1, <1>2, <2>1, <2>3 DEF Behind
<1>3. FirstFile' = IF handle' # NoFile THEN handle'
                   ELSE IF path' # NoFile THEN path' ELSE wfile' + 1
  BY DEF FirstFile
<1>4. CASE \/ SetAccess \/ Stop \/ Poll \/ OpenFails \/ FollowFails \/ FollowSame \/ EmitLine
           \/ EndPoll \/ UNCHANGED vars
  <2>1. UNCHANGED <<files, last, wfile, path, handle, pos, buf>>
    <3>1. CASE SetAccess \/ Stop \/ UNCHANGED vars
      BY <3>1 DEF SetAccess, Stop, LogOnly, tailVars, logVars, vars
    <3>2. CASE Poll \/ OpenFails \/ FollowFails \/ FollowSame \/ EmitLine
      BY <3>2 DEF Poll, OpenFails, FollowFails, FollowSame, EmitLine, TailOnly, tailVars, logVars
    <3>3. CASE EndPoll
      BY <3>3 DEF EndPoll, TailOnly, logVars
    <3>4. QED
      BY <1>4, <3>1, <3>2, <3>3
  <2>2. FirstFile' = FirstFile /\ LineStart' = LineStart /\ NextLine' = NextLine
    BY <2>1 DEF FirstFile, LineStart, NextLine
  <2>3. QED
    BY <1>1, <2>1, <2>2 DEF Behind
<1>5. CASE WritePiece
  <2>1. UNCHANGED <<wfile, path, handle, pos, buf>>
    BY <1>5 DEF WritePiece, LogOnly, tailVars
  <2>2. FirstFile' = FirstFile /\ LineStart' = LineStart
    BY <2>1 DEF FirstFile, LineStart
  <2>3. last'.line = NextLine /\ NextLine' \in Nat /\ NextLine <= NextLine'
    BY <1>5, WrittenNext
  <2>4. n <= last'.line /\ (wfile' >= FirstFile' => n < NextLine')
    BY <1>0, <1>1, <2>1, <2>2, <2>3
  <2>5. ASSUME NEW f \in Inodes, NEW i \in 1..Len(files'[f]), f >= FirstFile,
               f = handle => i > LineStart
        PROVE  n < files'[f][i].line
    <3>1. \/ f = wfile /\ files'[f][i].line = NextLine
          \/ i \in 1..Len(files[f]) /\ files'[f][i] = files[f][i]
      BY <1>5, WrittenNext
    <3>2. QED
      BY <1>1, <2>5, <3>1
  <2>6. QED
    BY <2>1, <2>2, <2>4, <2>5 DEF Behind
<1>6. CASE RenameAway
  <2>1. /\ UNCHANGED <<files, last, wfile, handle, pos, buf>> /\ path' = NoFile /\ path = wfile
        /\ path # NoFile
    BY <1>6 DEF RenameAway, LogOnly, tailVars
  <2>2. LineStart' = LineStart /\ NextLine' = NextLine
    BY <2>1 DEF LineStart, NextLine
  <2>3. FirstFile' \in Nat /\ FirstFile <= FirstFile'
    BY <1>0, <1>3, <2>1 DEF FirstFile
  <2>4. QED
    BY <1>2, <2>1, <2>2, <2>3
<1>7. CASE Create
  <2>1. /\ UNCHANGED <<files, last, wfile, handle, pos, buf>> /\ path' = wfile + 1
        /\ path = NoFile
    BY <1>7 DEF Create, LogOnly, tailVars
  <2>2. LineStart' = LineStart /\ NextLine' = NextLine
    BY <2>1 DEF LineStart, NextLine
  <2>3. FirstFile' = FirstFile
    BY <1>0, <1>3, <2>1 DEF FirstFile, NoFile
  <2>4. FirstFile <= FirstFile
    BY <1>0
  <2>5. QED
    BY <1>0, <1>2, <2>1, <2>2, <2>3, <2>4
<1>8. CASE Reopen
  <2>1. UNCHANGED <<files, path, handle, pos, buf>>
    BY <1>8 DEF Reopen, LogOnly, tailVars
  <2>2. /\ path # NoFile /\ NextLine = last.line + 1 /\ NextLine' = NextLine /\ last' = last
    BY <1>0, <1>8, Reopened DEF Reopen
  <2>3. LineStart' = LineStart /\ FirstFile' = FirstFile
    BY <1>3, <2>1, <2>2 DEF LineStart, FirstFile
  <2>4. n < NextLine
    BY <1>0, <1>1, <2>2
  <2>5. QED
    BY <1>1, <2>1, <2>2, <2>3, <2>4 DEF Behind
<1>9. CASE OpenFile
  <2>1. /\ UNCHANGED <<files, last, wfile, path>> /\ handle' = path /\ path # NoFile
        /\ pc = "open"
    BY <1>9 DEF OpenFile, TailOnly, logVars
  <2>2. handle = NoFile /\ NextLine' = NextLine
    BY <2>1 DEF PollStage, NextLine
  <2>3. FirstFile' = FirstFile
    BY <1>3, <2>1, <2>2 DEF FirstFile
  <2>4. FirstFile <= FirstFile /\ \A f \in Inodes : f # handle
    BY <1>0, <2>2
  <2>5. QED
    BY <1>0, <1>2, <2>1, <2>2, <2>3, <2>4
<1>10. CASE Read
  <2>1. UNCHANGED <<files, last, wfile, path, handle>>
    BY <1>10 DEF Read, TailOnly, logVars
  <2>2. FirstFile' = FirstFile /\ NextLine' = NextLine /\ FirstFile <= FirstFile
    BY <1>0, <2>1 DEF FirstFile, NextLine
  <2>3. InSync /\ ~regrown
    BY <1>10 DEF Read, PollStage, InSync, Reached
  <2>4. PICK c, m, e, d, all : ReadOutcome(c, m, e, d, all)
    BY <1>10, ReadSplits
  <2>5. LineStart \in Nat /\ LineStart' \in Nat /\ LineStart <= LineStart'
    BY <1>10, <2>3, <2>4, ReadPlace
  <2>6. \A i \in Nat : i > LineStart' => i > LineStart
    BY <2>5
  <2>7. \A f \in Inodes : \A i \in 1..Len(files[f]) : i \in Nat
    OBVIOUS
  <2>8. QED
    BY <1>0, <1>2, <2>1, <2>2, <2>6, <2>7
<1>11. CASE FollowRotated
  <2>1. /\ UNCHANGED <<files, last, wfile, path>> /\ handle' = NoFile /\ pc = "follow"
        /\ path \notin {NoFile, handle}
    BY <1>11 DEF FollowRotated, TailOnly, logVars, SameFile
  <2>2. handle # NoFile /\ FirstFile = handle /\ FirstFile' = path /\ NextLine' = NextLine
    BY <1>3, <2>1 DEF PollStage, FirstFile, NextLine
  <2>3. handle < path
    BY <1>0, <2>1 DEF Reached
  <2>4. \A f \in Inodes : f >= path => f # handle
    BY <1>0, <2>3
  <2>5. FirstFile <= FirstFile'
    BY <1>0, <2>2, <2>3
  <2>6. QED
    BY <1>0, <1>2, <2>1, <2>2, <2>4, <2>5
<1>12. ~\E t \in 0..1 : Truncate(t)
  BY DEF Truncate, LogTypes
<1>13. QED
  BY <1>4, <1>5, <1>6, <1>7, <1>8, <1>9, <1>10, <1>11, <1>12, NeverTruncated DEF Next, Collect

\* TakenInOrder after a step, with the lines named.
LEMMA TakenAfter ==
  ASSUME \A i \in 1..Len(emitted') : \A x : x = emitted'[i].line => Behind(x)',
         \A k \in 1..Len(PollLines') : \A x : x = PollLines'[k][1].line => Behind(x)',
         \A i \in 1..Len(emitted') : \A k \in 1..Len(PollLines') :
           emitted'[i].line < PollLines'[k][1].line,
         \A j, k \in 1..Len(PollLines') :
           j < k => PollLines'[j][1].line < PollLines'[k][1].line
  PROVE  TakenInOrder'
<1>1. \A i \in 1..Len(emitted') : Behind(emitted[i].line)'
  BY DEF Behind
<1>2. \A k \in 1..Len(PollLines') : Behind(PollLines[k][1].line)'
  BY DEF Behind
<1>3. QED
  BY <1>1, <1>2 DEF TakenInOrder

\* The lines held and emitted have numbers.
LEMMA LineNumbers ==
  ASSUME TailTypes, OutTypes
  PROVE  /\ \A i \in 1..Len(emitted) :
              emitted[i].line \in Nat /\ emitted[i].line \in DOMAIN Kind /\ emitted[i].rec \in Nat
         /\ \A k \in 1..Len(PollLines) :
              PollLines[k] \in Line /\ PollLines[k][1].line \in Nat
         /\ Len(emitted) \in Nat /\ Len(PollLines) \in Nat
<1> USE BoundsAssumption
<1>1. emitted \in Seq(Record) /\ PollLines \in Seq(Line)
  BY PollLinesType DEF OutTypes
<1>2. \A i \in 1..Len(emitted) : emitted[i] \in Record
  BY <1>1
<1>3. \A k \in 1..Len(PollLines) : PollLines[k] \in Line
  BY <1>1
<1>4. \A n \in DOMAIN Kind : n \in Nat
  OBVIOUS
<1>5. \A k \in 1..Len(PollLines) : PollLines[k][1].line \in Nat
  BY <1>3, <1>4, LineFacts
<1>6. \A i \in 1..Len(emitted) :
        emitted[i].line \in Nat /\ emitted[i].line \in DOMAIN Kind /\ emitted[i].rec \in Nat
  BY <1>2, <1>4 DEF Record
<1>7. QED
  BY <1>1, <1>3, <1>5, <1>6

\* When a step adds lines to the poll, they come after those already taken.
LEMMA TakenGrows ==
  ASSUME LogTypes, TailTypes, OutTypes, PollStage, TailFollowsFile, Reached, TakenInOrder,
         [Next]_vars, truncs' = truncs, pc' # "closed", emitted' = emitted,
         \A k \in 1..Len(PollLines) : PollLines'[k] = PollLines[k],
         \A k \in 1..Len(PollLines') : k > Len(PollLines) =>
           \A x : x = PollLines'[k][1].line =>
             Behind(x)' /\ \A n \in Nat : Behind(n) => n < x,
         \A j, k \in 1..Len(PollLines') : j < k /\ j > Len(PollLines) =>
           PollLines'[j][1].line < PollLines'[k][1].line
  PROVE  TakenInOrder'
<1>1. /\ \A i \in 1..Len(emitted) : emitted[i].line \in Nat
      /\ \A k \in 1..Len(PollLines) : PollLines[k][1].line \in Nat
      /\ Len(emitted) \in Nat /\ Len(PollLines) \in Nat
  BY LineNumbers
<1>2. /\ \A i \in 1..Len(emitted) : Behind(emitted[i].line)
      /\ \A k \in 1..Len(PollLines) : Behind(PollLines[k][1].line)
      /\ \A i \in 1..Len(emitted) : \A k \in 1..Len(PollLines) :
           emitted[i].line < PollLines[k][1].line
      /\ \A j, k \in 1..Len(PollLines) : j < k => PollLines[j][1].line < PollLines[k][1].line
  BY DEF TakenInOrder
<1>3. \A k \in 1..Len(PollLines') : k \in Nat /\ (k > Len(PollLines) \/ k \in 1..Len(PollLines))
  BY <1>1
<1>4. \A i \in 1..Len(emitted') : \A x : x = emitted'[i].line => Behind(x)'
  <2> SUFFICES ASSUME NEW i \in 1..Len(emitted'), NEW x, x = emitted'[i].line PROVE Behind(x)'
    OBVIOUS
  <2>1. i \in 1..Len(emitted) /\ x = emitted[i].line
    OBVIOUS
  <2>2. x \in Nat /\ Behind(x)
    BY <1>1, <1>2, <2>1
  <2>3. QED
    BY <2>2, BehindStep
<1>5. \A k \in 1..Len(PollLines') : \A x : x = PollLines'[k][1].line => Behind(x)'
  <2> SUFFICES ASSUME NEW k \in 1..Len(PollLines'), NEW x, x = PollLines'[k][1].line
               PROVE  Behind(x)'
    OBVIOUS
  <2>1. CASE k > Len(PollLines)
    BY <2>1
  <2>2. CASE k \in 1..Len(PollLines)
    <3>1. x \in Nat /\ Behind(x)
      BY <1>1, <1>2, <2>2
    <3>2. QED
      BY <3>1, BehindStep
  <2>3. QED
    BY <1>3, <2>1, <2>2
<1>6. \A i \in 1..Len(emitted') : \A k \in 1..Len(PollLines') :
        emitted'[i].line < PollLines'[k][1].line
  <2> TAKE i \in 1..Len(emitted')
  <2> TAKE k \in 1..Len(PollLines')
  <2>1. i \in 1..Len(emitted) /\ emitted'[i] = emitted[i]
    OBVIOUS
  <2>2. CASE k > Len(PollLines)
    <3>1. PICK x : x = PollLines'[k][1].line
      OBVIOUS
    <3>2. \A n \in Nat : Behind(n) => n < x
      BY <2>2, <3>1
    <3>3. QED
      BY <1>1, <1>2, <2>1, <3>1, <3>2
  <2>3. CASE k \in 1..Len(PollLines)
    BY <1>2, <2>1, <2>3
  <2>4. QED
    BY <1>3, <2>2, <2>3
<1>7. \A j, k \in 1..Len(PollLines') : j < k => PollLines'[j][1].line < PollLines'[k][1].line
  <2> SUFFICES ASSUME NEW j \in 1..Len(PollLines'), NEW k \in 1..Len(PollLines'), j < k
               PROVE  PollLines'[j][1].line < PollLines'[k][1].line
    OBVIOUS
  <2>1. CASE j > Len(PollLines)
    BY <2>1
  <2>2. CASE j \in 1..Len(PollLines) /\ k > Len(PollLines)
    <3>1. PICK x : x = PollLines'[k][1].line
      OBVIOUS
    <3>2. \A n \in Nat : Behind(n) => n < x
      BY <2>2, <3>1
    <3>3. PollLines'[j] = PollLines[j] /\ Behind(PollLines[j][1].line)
      BY <1>2, <2>2
    <3>4. QED
      BY <1>1, <2>2, <3>1, <3>2, <3>3
  <2>3. CASE j \in 1..Len(PollLines) /\ k \in 1..Len(PollLines)
    BY <1>2, <2>3
  <2>4. QED
    BY <1>3, <2>1, <2>2, <2>3
<1>8. QED
  BY <1>4, <1>5, <1>6, <1>7, TakenAfter

\* A read takes its lines in order.
LEMMA ReadTakes ==
  ASSUME LogTypes, TailTypes, OutTypes, PollStage, TailFollowsFile, WrittenInOrder, Reached,
         TakenInOrder, Read
  PROVE  TakenInOrder'
<1>0. [Next]_vars /\ truncs' = truncs /\ pc' # "closed" /\ emitted' = emitted
  <2>1. [Next]_vars
    BY DEF Next, Collect
  <2>2. QED
    BY <2>1 DEF Read, TailOnly, logVars, outVars
<1>1. UNCHANGED <<files, last, wfile, path, handle>>
  BY DEF Read, TailOnly, logVars
<1>2. InSync /\ ~regrown /\ handle # NoFile
  BY DEF Read, PollStage, InSync, Reached
<1>3. FirstFile = handle /\ FirstFile' = handle /\ NextLine' = NextLine
  BY <1>1, <1>2 DEF FirstFile, NextLine
<1>4. PICK A, B :
        /\ \A k \in 1..Len(batch') :
             /\ A[k] \in 1..Len(files[handle]) /\ B[k] \in 1..Len(files[handle])
             /\ LineStart < A[k] /\ A[k] <= B[k] /\ B[k] <= LineStart'
             /\ batch'[k][1] = files[handle][A[k]] /\ files[handle][B[k]].end
        /\ \A j, k \in 1..Len(batch') : j < k => B[j] < A[k]
  BY <1>2, LinePlaces
<1>5. /\ handle \in Inodes /\ handle \in Nat /\ wfile \in Nat /\ LineStart \in Int
      /\ Len(files[handle]) \in Nat /\ NextLine \in Nat /\ last.line \in Nat
      /\ \A f \in Inodes : \A i \in 1..Len(files[f]) : files[f][i].line \in Nat
      /\ \A f \in Inodes : f \in Nat
  BY <1>2, PieceTypes, PlaceTypes
<1>6. /\ Len(batch') \in Nat /\ Len(PollLines') = Len(PollLines) + Len(batch')
      /\ \A k \in 1..Len(PollLines) : PollLines'[k] = PollLines[k]
      /\ \A k \in 1..Len(batch') : PollLines'[Len(PollLines) + k] = batch'[k]
      /\ Len(PollLines) \in Nat
  BY ReadLines, PollLinesType
<1>7. LineStart' \in Int
  <2>1. pos' \in Nat /\ Len(buf') \in Nat
    BY <1>0, TailTypesStep DEF TailTypes
  <2>2. QED
    BY <2>1 DEF LineStart
<1>8. ASSUME NEW k \in 1..Len(batch'), NEW x, x = files[handle][A[k]].line
      PROVE  /\ x \in Nat /\ Behind(x)' /\ \A n \in Nat : Behind(n) => n < x
             /\ \A i \in 1..Len(files[handle]) : i > B[k] => x < files[handle][i].line
  <2>1. PICK a \in 1..Len(files[handle]) : a = A[k] /\ LineStart < a
    BY <1>4
  <2>2. PICK b \in 1..Len(files[handle]) :
          b = B[k] /\ a <= b /\ b <= LineStart' /\ files[handle][b].end
    BY <1>4, <2>1
  <2>3. PICK y \in Nat : y = files[handle][b].line
    BY <1>5
  <2>4. x \in Nat /\ x = files[handle][a].line
    BY <1>5, <1>8, <2>1
  <2>5. x <= y
    <3>1. CASE a = b
      BY <2>3, <2>4, <3>1
    <3>2. CASE a < b
      BY <1>5, <2>3, <2>4, <3>2 DEF WrittenInOrder
    <3>3. QED
      BY <1>5, <2>2, <3>1, <3>2
  <2>6. y <= last.line /\ y < NextLine
    BY <1>5, <2>2, <2>3 DEF WrittenInOrder
  <2>7. \A i \in 1..Len(files[handle]) : i > b => y < files[handle][i].line
    BY <1>5, <2>2, <2>3 DEF WrittenInOrder
  <2>8. \A f \in Inodes : handle < f =>
          \A i \in 1..Len(files[f]) : x < files[f][i].line
    BY <1>5, <2>4 DEF WrittenInOrder
  <2>9. ASSUME NEW i \in 1..Len(files[handle]), i > b
        PROVE  x < files[handle][i].line
    <3>1. PICK z \in Nat : z = files[handle][i].line
      BY <1>5
    <3>2. y < z
      BY <2>7, <2>9, <3>1
    <3>3. x < z
      BY <2>4, <2>5, <3>2
    <3>4. QED
      BY <3>1, <3>3
  <2>10. x <= last.line /\ x < NextLine
    <3>1. last.line \in Nat /\ NextLine \in Nat /\ x \in Nat
      BY <1>5, <2>4
    <3>2. QED
      BY <2>3, <2>5, <2>6, <3>1
  <2>11. ASSUME NEW f \in Inodes, NEW i \in 1..Len(files[f]), f >= handle,
                f = handle => i > LineStart'
         PROVE  x < files[f][i].line
    <3>1. CASE f = handle
      <4>1. i > b
        BY <1>5, <1>7, <2>2, <2>11, <3>1
      <4>2. QED
        BY <2>9, <3>1, <4>1
    <3>2. CASE f # handle
      <4>1. handle < f
        BY <1>5, <2>11, <3>2
      <4>2. QED
        BY <2>8, <4>1
    <3>3. QED
      BY <3>1, <3>2
  <2>12. Behind(x)'
    BY <1>1, <1>3, <2>10, <2>11 DEF Behind
  <2>13. ASSUME NEW n \in Nat, Behind(n) PROVE n < x
    <3>1. handle >= FirstFile /\ a > LineStart
      BY <1>3, <1>5, <2>1
    <3>2. QED
      BY <1>5, <2>4, <2>13, <3>1 DEF Behind
  <2>14. QED
    BY <2>2, <2>4, <2>9, <2>12, <2>13
<1>9. ASSUME NEW k \in 1..Len(PollLines'), k > Len(PollLines)
      PROVE  \E q \in 1..Len(batch') : k = Len(PollLines) + q /\ PollLines'[k] = batch'[q]
  <2>1. k - Len(PollLines) \in 1..Len(batch') /\ k = Len(PollLines) + (k - Len(PollLines))
    BY <1>6, <1>9
  <2>2. QED
    BY <1>6, <2>1
<1>10. \A k \in 1..Len(PollLines') : k > Len(PollLines) =>
         \A x : x = PollLines'[k][1].line => Behind(x)' /\ \A n \in Nat : Behind(n) => n < x
  <2> SUFFICES ASSUME NEW k \in 1..Len(PollLines'), k > Len(PollLines),
                      NEW x, x = PollLines'[k][1].line
               PROVE  Behind(x)' /\ \A n \in Nat : Behind(n) => n < x
    OBVIOUS
  <2>1. PICK q \in 1..Len(batch') : PollLines'[k] = batch'[q]
    BY <1>9
  <2>2. x = files[handle][A[q]].line
    BY <1>4, <2>1
  <2>3. QED
    BY <1>8, <2>2
<1>11. \A j, k \in 1..Len(PollLines') : j < k /\ j > Len(PollLines) =>
         PollLines'[j][1].line < PollLines'[k][1].line
  <2> SUFFICES ASSUME NEW j \in 1..Len(PollLines'), NEW k \in 1..Len(PollLines'), j < k,
                      j > Len(PollLines)
               PROVE  PollLines'[j][1].line < PollLines'[k][1].line
    OBVIOUS
  <2>1. PICK p \in 1..Len(batch') : j = Len(PollLines) + p /\ PollLines'[j] = batch'[p]
    BY <1>9
  <2>2. k > Len(PollLines)
    BY <1>6
  <2>3. PICK q \in 1..Len(batch') : k = Len(PollLines) + q /\ PollLines'[k] = batch'[q]
    BY <1>9, <2>2
  <2>4. p < q
    BY <1>6, <2>1, <2>3
  <2>5. /\ B[p] < A[q] /\ A[q] \in 1..Len(files[handle])
        /\ PollLines'[j][1] = files[handle][A[p]] /\ PollLines'[k][1] = files[handle][A[q]]
        /\ B[p] \in Nat
    <3>1. B[p] < A[q]
      BY <1>4, <2>4
    <3>2. A[q] \in 1..Len(files[handle]) /\ B[p] \in 1..Len(files[handle])
      BY <1>4
    <3>3. batch'[p][1] = files[handle][A[p]] /\ batch'[q][1] = files[handle][A[q]]
      BY <1>4
    <3>4. B[p] \in Nat
      BY <1>5, <3>2
    <3>5. QED
      BY <2>1, <2>3, <3>1, <3>2, <3>3, <3>4
  <2>6. A[q] > B[p]
    BY <2>5
  <2>7. files[handle][A[p]].line < files[handle][A[q]].line
    BY <1>8, <2>5, <2>6
  <2>8. QED
    BY <2>5, <2>7
<1>12. QED
  BY <1>0, <1>6, <1>10, <1>11, TakenGrows

\* A rotation takes the flushed line last.
LEMMA RotationTakes ==
  ASSUME LogTypes, TailTypes, OutTypes, PollStage, TailFollowsFile, WrittenInOrder, Reached,
         TakenInOrder, FollowRotated
  PROVE  TakenInOrder'
<1>0. [Next]_vars /\ truncs' = truncs /\ pc' # "closed" /\ emitted' = emitted
  <2>1. [Next]_vars
    BY DEF Next, Collect
  <2>2. QED
    BY <2>1 DEF FollowRotated, TailOnly, logVars, outVars
<1>1. /\ UNCHANGED <<files, last, wfile, path>> /\ handle' = NoFile /\ pc = "follow"
      /\ path \notin {NoFile, handle}
  BY DEF FollowRotated, TailOnly, logVars, SameFile
<1>2. InSync /\ ~regrown /\ handle # NoFile
  BY <1>1 DEF PollStage, InSync, Reached
<1>3. FirstFile = handle /\ FirstFile' = path /\ NextLine' = NextLine
  BY <1>1, <1>2 DEF FirstFile, NextLine
<1>4. /\ handle \in Inodes /\ handle \in Nat /\ wfile \in Nat /\ path \in Nat
      /\ LineStart \in Int /\ pos \in Nat /\ Len(buf) \in Nat
      /\ Len(files[handle]) \in Nat /\ NextLine \in Nat /\ last.line \in Nat
      /\ \A f \in Inodes : \A i \in 1..Len(files[f]) : files[f][i].line \in Nat
      /\ \A f \in Inodes : f \in Nat /\ f # NoFile
  BY <1>2, PieceTypes, PlaceTypes DEF Inodes, NoFile
<1>5. handle < path
  BY <1>1, <1>4 DEF Reached
<1>6. /\ Len(PollLines') = Len(PollLines) + Len(FlushPartial)
      /\ \A k \in 1..Len(PollLines) : PollLines'[k] = PollLines[k]
      /\ Len(FlushPartial) = 1 => PollLines'[Len(PollLines) + 1] = buf
      /\ Len(FlushPartial) \in {0, 1} /\ (Len(FlushPartial) = 1 => buf # <<>>)
      /\ Len(PollLines) \in Nat
  BY RotatedLines, Flushed, PollLinesType
<1>7. ASSUME NEW x, buf # <<>>, x = buf[1].line
      PROVE  Behind(x)' /\ \A n \in Nat : Behind(n) => n < x
  <2>1. Follows(files[handle], pos, buf, discarding, history) /\ pos <= Len(files[handle])
    BY <1>1, <1>2 DEF TailFollowsFile, InSync
  <2>2. 1 \in 1..Len(buf) /\ Len(buf) <= pos
    BY <1>4, <1>7, <2>1 DEF Follows, TailTypes
  <2>3. PICK a \in Nat : a = pos - Len(buf) + 1 /\ a = LineStart + 1
    <3>1. pos - Len(buf) + 1 \in Nat /\ pos - Len(buf) + 1 = LineStart + 1
      BY <1>4, <2>2 DEF LineStart
    <3>2. QED
      BY <3>1
  <2>4. buf[1] = files[handle][a]
    BY <2>1, <2>2, <2>3 DEF Follows
  <2>5. a \in 1..Len(files[handle]) /\ a > LineStart
    BY <1>4, <2>1, <2>2, <2>3
  <2>6. x \in Nat /\ x = files[handle][a].line
    BY <1>4, <1>7, <2>4, <2>5
  <2>7. x <= last.line /\ (handle < wfile => x < NextLine)
    BY <1>4, <2>5, <2>6 DEF WrittenInOrder
  <2>8. \A f \in Inodes : handle < f => \A i \in 1..Len(files[f]) : x < files[f][i].line
    BY <1>4, <2>5, <2>6 DEF WrittenInOrder
  <2>9. wfile >= path => handle < wfile
    BY <1>4, <1>5
  <2>10. \A f \in Inodes : f >= path => handle < f
    BY <1>4, <1>5
  <2>11. Behind(x)'
    BY <1>1, <1>3, <2>7, <2>8, <2>9, <2>10 DEF Behind
  <2>12. ASSUME NEW n \in Nat, Behind(n) PROVE n < x
    <3>1. handle >= FirstFile
      BY <1>3, <1>4
    <3>2. QED
      BY <1>4, <2>5, <2>6, <2>12, <3>1 DEF Behind
  <2>13. QED
    BY <2>11, <2>12
<1>8. \A k \in 1..Len(PollLines') : k > Len(PollLines) =>
        k = Len(PollLines) + 1 /\ PollLines'[k] = buf /\ buf # <<>>
  <2> SUFFICES ASSUME NEW k \in 1..Len(PollLines'), k > Len(PollLines)
               PROVE  k = Len(PollLines) + 1 /\ PollLines'[k] = buf /\ buf # <<>>
    OBVIOUS
  <2>0. PICK fl \in {0, 1} : fl = Len(FlushPartial) /\ Len(PollLines') = Len(PollLines) + fl
    BY <1>6
  <2>1. Len(FlushPartial) = 1 /\ k = Len(PollLines) + 1
    BY <1>6, <2>0
  <2>2. QED
    BY <1>6, <2>1
<1>9. \A k \in 1..Len(PollLines') : k > Len(PollLines) =>
        \A x : x = PollLines'[k][1].line => Behind(x)' /\ \A n \in Nat : Behind(n) => n < x
  <2> SUFFICES ASSUME NEW k \in 1..Len(PollLines'), k > Len(PollLines),
                      NEW x, x = PollLines'[k][1].line
               PROVE  Behind(x)' /\ \A n \in Nat : Behind(n) => n < x
    OBVIOUS
  <2>1. buf # <<>> /\ x = buf[1].line
    BY <1>8
  <2>2. QED
    BY <1>7, <2>1
<1>10. \A j, k \in 1..Len(PollLines') : j < k /\ j > Len(PollLines) =>
         PollLines'[j][1].line < PollLines'[k][1].line
  <2> SUFFICES ASSUME NEW j \in 1..Len(PollLines'), NEW k \in 1..Len(PollLines'), j < k,
                      j > Len(PollLines)
               PROVE  FALSE
    OBVIOUS
  <2>1. j = Len(PollLines) + 1 /\ k > Len(PollLines)
    BY <1>6, <1>8
  <2>2. k = Len(PollLines) + 1
    BY <1>8, <2>1
  <2>3. QED
    BY <1>6, <2>1, <2>2
<1>11. QED
  BY <1>0, <1>6, <1>9, <1>10, TakenGrows

\* EmitLine puts the first line's records on the queue, behind all the others.
LEMMA EmitTakes ==
  ASSUME LogTypes, TailTypes, OutTypes, PollStage, TailFollowsFile, Reached, TakenInOrder, EmitLine
  PROVE  TakenInOrder'
<1>0. [Next]_vars /\ truncs' = truncs /\ pc' # "closed"
  <2>1. [Next]_vars
    BY DEF Next, Collect
  <2>2. QED
    BY <2>1 DEF EmitLine, TailOnly, logVars
<1>1. /\ Len(PollLines) \in Nat \ {0} /\ PollLines[1] \in Line /\ Number(PollLines[1])
      /\ Len(PollLines') = Len(PollLines) - 1
      /\ \A k \in 1..Len(PollLines') : PollLines'[k] = PollLines[k + 1]
  BY HeadLine
<1>2. PICK l \in Line : l = PollLines[1]
  BY <1>1
<1>3. PICK known : NumberOutcome(l, known)
  BY <1>1, <1>2, LineNumbered
<1>4. PICK c \in Nat : c = RecordCount(l)
  BY LineFacts
<1>5. /\ \A i \in 1..Len(emitted) : emitted[i].line \in Nat
      /\ \A k \in 1..Len(PollLines) : PollLines[k][1].line \in Nat
      /\ Len(emitted) \in Nat /\ Len(PollLines) \in Nat
  BY LineNumbers
<1>6. \A i \in 1..Len(emitted') :
        \/ i \in 1..Len(emitted) /\ emitted'[i].line = emitted[i].line
        \/ emitted'[i].line = l[1].line
  <2>1. CASE c = 0
    BY <1>3, <1>4, <2>1 DEF NumberOutcome, outVars
  <2>2. CASE c # 0
    <3> TAKE i \in 1..Len(emitted')
    <3>1. /\ Len(emitted') = Len(emitted) + c
          /\ \A j \in 1..Len(emitted) : emitted'[j] = emitted[j]
          /\ \A j \in 1..c : emitted'[Len(emitted) + j].line = l[1].line
      BY <1>3, <1>4, <2>2 DEF NumberOutcome
    <3>2. CASE i \in 1..Len(emitted)
      BY <3>1, <3>2
    <3>3. CASE i \notin 1..Len(emitted)
      <4>1. i - Len(emitted) \in 1..c /\ i = Len(emitted) + (i - Len(emitted))
        BY <1>5, <3>1, <3>3
      <4>2. QED
        BY <3>1, <4>1
    <3>4. QED
      BY <3>2, <3>3
  <2>3. QED
    BY <2>1, <2>2
<1>7. /\ \A i \in 1..Len(emitted) : Behind(emitted[i].line)
      /\ \A k \in 1..Len(PollLines) : Behind(PollLines[k][1].line)
      /\ \A i \in 1..Len(emitted) : \A k \in 1..Len(PollLines) :
           emitted[i].line < PollLines[k][1].line
      /\ \A j, k \in 1..Len(PollLines) : j < k => PollLines[j][1].line < PollLines[k][1].line
  BY DEF TakenInOrder
<1>8. \A k \in 1..Len(PollLines') :
        /\ k + 1 \in 1..Len(PollLines) /\ 1 < k + 1 /\ PollLines'[k] = PollLines[k + 1]
  BY <1>1
<1>9. 1 \in 1..Len(PollLines)
  BY <1>1
<1>10. \A i \in 1..Len(emitted') : \A x : x = emitted'[i].line => Behind(x)'
  <2> SUFFICES ASSUME NEW i \in 1..Len(emitted'), NEW x, x = emitted'[i].line PROVE Behind(x)'
    OBVIOUS
  <2>1. x \in Nat /\ Behind(x)
    BY <1>2, <1>5, <1>6, <1>7, <1>9
  <2>2. QED
    BY <1>0, <2>1, BehindStep
<1>11. \A k \in 1..Len(PollLines') : \A x : x = PollLines'[k][1].line => Behind(x)'
  <2> SUFFICES ASSUME NEW k \in 1..Len(PollLines'), NEW x, x = PollLines'[k][1].line
               PROVE  Behind(x)'
    OBVIOUS
  <2>1. x \in Nat /\ Behind(x)
    BY <1>5, <1>7, <1>8
  <2>2. QED
    BY <1>0, <2>1, BehindStep
<1>12. \A i \in 1..Len(emitted') : \A k \in 1..Len(PollLines') :
         emitted'[i].line < PollLines'[k][1].line
  <2> TAKE i \in 1..Len(emitted')
  <2> TAKE k \in 1..Len(PollLines')
  <2>1. CASE i \in 1..Len(emitted) /\ emitted'[i].line = emitted[i].line
    BY <1>7, <1>8, <2>1
  <2>2. CASE emitted'[i].line = l[1].line
    BY <1>2, <1>7, <1>8, <1>9, <2>2
  <2>3. QED
    BY <1>6, <2>1, <2>2
<1>13. \A j, k \in 1..Len(PollLines') : j < k => PollLines'[j][1].line < PollLines'[k][1].line
  <2> SUFFICES ASSUME NEW j \in 1..Len(PollLines'), NEW k \in 1..Len(PollLines'), j < k
               PROVE  PollLines'[j][1].line < PollLines'[k][1].line
    OBVIOUS
  <2>1. j + 1 < k + 1
    BY <1>1
  <2>2. QED
    BY <1>7, <1>8, <2>1
<1>14. QED
  BY <1>10, <1>11, <1>12, <1>13, TakenAfter

\* Lines are taken in the order they were written, at every step.
LEMMA TakenInOrderStep ==
  ASSUME LogTypes, TailTypes, OutTypes, PollStage, TailFollowsFile, WrittenInOrder, Reached,
         TakenInOrder, [Next]_vars, truncs' = truncs, pc' # "closed"
  PROVE  TakenInOrder'
<1>1. CASE Read
  BY <1>1, ReadTakes
<1>2. CASE FollowRotated
  BY <1>2, RotationTakes
<1>3. CASE EmitLine
  BY <1>3, EmitTakes
<1>4. CASE ~(Read \/ FollowRotated \/ EmitLine)
  <2>1. emitted' = emitted
    BY <1>4, OnlyEmitLineEmits
  <2>2. Len(PollLines') \in Nat /\ Len(PollLines') <= Len(PollLines) /\ Len(PollLines) \in Nat
        /\ \A k \in 1..Len(PollLines') : PollLines'[k] = PollLines[k]
    <3>1. Len(PollLines) \in Nat
      BY PollLinesType
    <3>2. CASE FollowFails
      BY <3>1, <3>2, FailedLines
    <3>3. CASE ~FollowFails
      <4>1. PollLines' = PollLines
        BY <1>4, <3>3, LinesLeft
      <4>2. QED
        BY <3>1, <4>1
    <3>4. QED
      BY <3>2, <3>3
  <2>3. \A k \in 1..Len(PollLines') : k \in 1..Len(PollLines) /\ PollLines'[k] = PollLines[k]
    BY <2>2
  <2>4. /\ \A i \in 1..Len(emitted) : emitted[i].line \in Nat
        /\ \A k \in 1..Len(PollLines) : PollLines[k][1].line \in Nat
    BY LineNumbers
  <2>5. \A i \in 1..Len(emitted') : \A x : x = emitted'[i].line => Behind(x)'
    <3> SUFFICES ASSUME NEW i \in 1..Len(emitted'), NEW x, x = emitted'[i].line PROVE Behind(x)'
      OBVIOUS
    <3>1. x \in Nat /\ Behind(x)
      BY <2>1, <2>4 DEF TakenInOrder
    <3>2. QED
      BY <3>1, BehindStep
  <2>6. \A k \in 1..Len(PollLines') : \A x : x = PollLines'[k][1].line => Behind(x)'
    <3> SUFFICES ASSUME NEW k \in 1..Len(PollLines'), NEW x, x = PollLines'[k][1].line
                 PROVE  Behind(x)'
      OBVIOUS
    <3>1. x \in Nat /\ Behind(x)
      BY <2>3, <2>4 DEF TakenInOrder
    <3>2. QED
      BY <3>1, BehindStep
  <2>7. \A i \in 1..Len(emitted') : \A k \in 1..Len(PollLines') :
          emitted'[i].line < PollLines'[k][1].line
    BY <2>1, <2>3 DEF TakenInOrder
  <2>8. \A j, k \in 1..Len(PollLines') : j < k => PollLines'[j][1].line < PollLines'[k][1].line
    BY <2>3 DEF TakenInOrder
  <2>9. QED
    BY <2>5, <2>6, <2>7, <2>8, TakenAfter
<1>5. QED
  BY <1>1, <1>2, <1>3, <1>4

-----------------------------------------------------------------------------
(* Order and numbering of the records. *)

\* The records a line adds to the queue.
Adds(l, known, c) ==
  /\ l \in Line /\ c \in Nat /\ c = RecordCount(l) /\ c # 0 /\ known \in [Keys -> Nat]
  /\ Key(l) \in Keys /\ l[1].line \in DOMAIN Kind /\ l[1].line \in Nat
  /\ Kind[l[1].line].ts = seenTs => known = seen
  /\ seenTs' = Kind[l[1].line].ts /\ seen' = [known EXCEPT ![Key(l)] = @ + c]
  /\ emitted' \in Seq(Record) /\ Len(emitted') = Len(emitted) + c
  /\ \A i \in 1..Len(emitted) : emitted'[i] = emitted[i] /\ emitted[i].line < l[1].line
  /\ \A r \in 1..c : /\ emitted'[Len(emitted) + r].line = l[1].line
                     /\ emitted'[Len(emitted) + r].rec = r
                     /\ emitted'[Len(emitted) + r].id.ts = Kind[l[1].line].ts
                     /\ emitted'[Len(emitted) + r].id.key = Key(l)
                     /\ emitted'[Len(emitted) + r].id.occurrence = known[Key(l)] + r - 1
  /\ \A i \in 1..Len(emitted') :
       i \in 1..Len(emitted) \/ \E r \in 1..c : i = Len(emitted) + r

\* EmitLine adds the records of a line behind the others, or nothing.
LEMMA EmitAdds ==
  ASSUME TailTypes, OutTypes, TakenInOrder, EmitLine
  PROVE  UNCHANGED outVars \/ \E l, known, c : Adds(l, known, c)
<1> USE BoundsAssumption
<1>1. Len(PollLines) \in Nat \ {0} /\ PollLines[1] \in Line /\ Number(PollLines[1])
  BY HeadLine
<1>2. PICK l \in Line : l = PollLines[1]
  BY <1>1
<1>3. PICK known : NumberOutcome(l, known)
  BY <1>1, <1>2, LineNumbered
<1>4. PICK c \in Nat : c = RecordCount(l)
  BY LineFacts
<1>5. Key(l) \in Keys /\ l[1].line \in DOMAIN Kind /\ l[1].line \in Nat
  BY LineFacts
<1>6. CASE c = 0
  BY <1>3, <1>4, <1>6 DEF NumberOutcome
<1>7. CASE c # 0
  <2>1. \A i \in 1..Len(emitted) : emitted[i].line < l[1].line
    <3>1. 1 \in 1..Len(PollLines)
      BY <1>1
    <3>2. QED
      BY <1>2, <3>1 DEF TakenInOrder
  <2>2. /\ known \in [Keys -> Nat] /\ (Kind[l[1].line].ts = seenTs => known = seen)
        /\ seenTs' = Kind[l[1].line].ts
        /\ seen' = [known EXCEPT ![Key(l)] = @ + c]
        /\ emitted' \in Seq(Record) /\ Len(emitted') = Len(emitted) + c
        /\ \A i \in 1..Len(emitted) : emitted'[i] = emitted[i]
        /\ \A r \in 1..c : /\ emitted'[Len(emitted) + r].line = l[1].line
                           /\ emitted'[Len(emitted) + r].rec = r
                           /\ emitted'[Len(emitted) + r].id.ts = Kind[l[1].line].ts
                           /\ emitted'[Len(emitted) + r].id.key = Key(l)
                           /\ emitted'[Len(emitted) + r].id.occurrence = known[Key(l)] + r - 1
    BY <1>3, <1>4, <1>7 DEF NumberOutcome
  <2>3. Len(emitted) \in Nat
    BY LineNumbers
  <2>4. \A i \in 1..Len(emitted') :
          i \in 1..Len(emitted) \/ \E r \in 1..c : i = Len(emitted) + r
    <3> TAKE i \in 1..Len(emitted')
    <3>1. CASE i > Len(emitted)
      <4>1. i - Len(emitted) \in 1..c /\ i = Len(emitted) + (i - Len(emitted))
        BY <2>2, <2>3, <3>1
      <4>2. QED
        BY <4>1
    <3>2. CASE ~(i > Len(emitted))
      BY <2>3, <3>2
    <3>3. QED
      BY <3>1, <3>2
  <2>5. Adds(l, known, c)
    BY <1>4, <1>5, <1>7, <2>1, <2>2, <2>4 DEF Adds
  <2>6. QED
    BY <2>5
<1>8. QED
  BY <1>6, <1>7

\* The records stay in the order of the lines.
LEMMA EmittedInOrderStep ==
  ASSUME TailTypes, OutTypes, truncs = 0, EmittedInOrder, pc # "closed" => TakenInOrder,
         [Next]_vars
  PROVE  EmittedInOrder'
<1>1. emitted \in Seq(Record) /\ DOMAIN emitted = 1..Len(emitted) /\ Len(emitted) \in Nat
  BY DEF OutTypes
<1>2. \A i, j \in 1..Len(emitted) : i < j =>
        \/ emitted[i].line < emitted[j].line
        \/ emitted[i].line = emitted[j].line /\ emitted[i].rec < emitted[j].rec
  BY <1>1 DEF EmittedInOrder
<1>3. CASE emitted' = emitted
  BY <1>1, <1>2, <1>3 DEF EmittedInOrder
<1>4. CASE emitted' # emitted
  <2>1. EmitLine
    BY <1>4, OnlyEmitLineEmits
  <2>2. TakenInOrder
    BY <2>1 DEF EmitLine
  <2>3. PICK l, known, c : Adds(l, known, c)
    BY <1>4, <2>1, <2>2, EmitAdds DEF outVars
  <2>4. /\ emitted' \in Seq(Record) /\ c \in Nat
        /\ \A i \in 1..Len(emitted) : emitted'[i] = emitted[i] /\ emitted[i].line < l[1].line
        /\ \A r \in 1..c : /\ emitted'[Len(emitted) + r].line = l[1].line
                           /\ emitted'[Len(emitted) + r].rec = r
        /\ \A i \in 1..Len(emitted') :
             i \in 1..Len(emitted) \/ \E r \in 1..c : i = Len(emitted) + r
    BY <2>3 DEF Adds
  <2>5. DOMAIN emitted' = 1..Len(emitted')
    BY <2>4
  <2>6. ASSUME NEW i \in 1..Len(emitted'), NEW j \in 1..Len(emitted'), i < j
        PROVE  \/ emitted'[i].line < emitted'[j].line
               \/ emitted'[i].line = emitted'[j].line /\ emitted'[i].rec < emitted'[j].rec
    <3>1. CASE i \in 1..Len(emitted) /\ j \in 1..Len(emitted)
      BY <1>2, <2>4, <2>6, <3>1
    <3>2. CASE i \in 1..Len(emitted) /\ \E r \in 1..c : j = Len(emitted) + r
      BY <2>4, <3>2
    <3>3. CASE \E r \in 1..c : i = Len(emitted) + r
      <4>1. PICK r \in 1..c : i = Len(emitted) + r
        BY <3>3
      <4>2. j \notin 1..Len(emitted)
        BY <1>1, <2>6, <4>1
      <4>3. PICK s \in 1..c : j = Len(emitted) + s
        BY <2>4, <4>2
      <4>4. r < s
        BY <1>1, <2>6, <4>1, <4>3
      <4>5. QED
        BY <2>4, <4>1, <4>3, <4>4
    <3>4. QED
      BY <2>4, <3>1, <3>2, <3>3
  <2>7. QED
    BY <2>5, <2>6 DEF EmittedInOrder
<1>5. QED
  BY <1>3, <1>4

\* The records of the present timestamp are those the counts know.
LEMMA SameTimeIsSeen ==
  ASSUME TailTypes, OutTypes, truncs = 0, EmittedInOrder, TimesDoNotReturn, Numbered,
         NEW l, NEW known, NEW c, Adds(l, known, c),
         NEW i \in 1..Len(emitted), emitted[i].id.ts = Kind[l[1].line].ts
  PROVE  Kind[l[1].line].ts = seenTs /\ known = seen
         /\ emitted[i].id.occurrence < seen[emitted[i].id.key]
<1>1. /\ \A j \in 1..Len(emitted) : emitted[j].line < l[1].line
      /\ l[1].line \in DOMAIN Kind /\ l[1].line \in Nat
      /\ Kind[l[1].line].ts = seenTs => known = seen
  BY DEF Adds
<1>2. emitted \in Seq(Record) /\ DOMAIN emitted = 1..Len(emitted) /\ Len(emitted) \in Nat
  BY DEF OutTypes
<1>3. PICK N \in 1..Len(emitted) : N = Len(emitted)
  <2>1. Len(emitted) \in 1..Len(emitted)
    BY <1>2
  <2>2. QED
    BY <2>1
<1>4. emitted # <<>>
  BY <1>2
<1>5. /\ seenTs = Kind[emitted[N].line].ts /\ emitted[i].id.ts = Kind[emitted[i].line].ts
      /\ emitted[i].id.ts = seenTs => emitted[i].id.occurrence < seen[emitted[i].id.key]
  BY <1>3, <1>4 DEF Numbered
<1>6. /\ emitted[i].line \in DOMAIN Kind /\ emitted[N].line \in DOMAIN Kind
      /\ emitted[i].line \in Nat /\ emitted[N].line \in Nat
  BY LineNumbers
<1>7. i = N \/ i < N
  BY <1>2, <1>3
<1>8. emitted[i].line = emitted[N].line \/ emitted[i].line < emitted[N].line
  BY <1>2, <1>7 DEF EmittedInOrder
<1>9. Kind[emitted[N].line].ts = Kind[emitted[i].line].ts
  <2>1. CASE emitted[i].line = emitted[N].line
    BY <2>1
  <2>2. CASE emitted[i].line < emitted[N].line
    BY <1>1, <1>5, <1>6, <2>2 DEF TimesDoNotReturn
  <2>3. QED
    BY <1>8, <2>1, <2>2
<1>10. QED
  BY <1>1, <1>5, <1>9

\* The counts keep up with the records, and no id is given twice.
LEMMA NumberedStep ==
  ASSUME TailTypes, OutTypes, truncs = 0, EmittedInOrder, pc # "closed" => Reached /\ TakenInOrder,
         TimesDoNotReturn, Numbered, DistinctIds, [Next]_vars
  PROVE  Numbered' /\ DistinctIds'
<1>1. emitted \in Seq(Record) /\ DOMAIN emitted = 1..Len(emitted) /\ Len(emitted) \in Nat
  BY DEF OutTypes
<1>2. \A i, j \in 1..Len(emitted) : emitted[i].id = emitted[j].id => i = j
  BY <1>1 DEF DistinctIds
<1>3. CASE UNCHANGED outVars
  <2>1. emitted' = emitted /\ seenTs' = seenTs /\ seen' = seen
    BY <1>3 DEF outVars
  <2>2. DistinctIds'
    BY <1>1, <1>2, <2>1 DEF DistinctIds
  <2>3. Numbered'
    BY <2>1 DEF Numbered
  <2>4. QED
    BY <2>2, <2>3
<1>4. CASE ~UNCHANGED outVars
  <2>1. EmitLine
    <3> SUFFICES ASSUME ~EmitLine PROVE FALSE
      OBVIOUS
    <3>1. FollowTruncated
      BY <1>4, OnlyEmitLineEmits DEF outVars
    <3>2. Reached
      BY <3>1 DEF FollowTruncated
    <3>3. QED
      BY <3>1, <3>2, NeverTruncated
  <2>2. TakenInOrder
    BY <2>1 DEF EmitLine
  <2>3. PICK l, known, c : Adds(l, known, c)
    BY <1>4, <2>1, <2>2, EmitAdds
  <2>4. PICK t : t = Kind[l[1].line].ts
    OBVIOUS
  <2>5. PICK key \in Keys : key = Key(l)
    BY <2>3 DEF Adds
  <2>6. /\ c \in Nat /\ c # 0 /\ known \in [Keys -> Nat]
        /\ seenTs' = t /\ seen' = [known EXCEPT ![key] = @ + c]
        /\ emitted' \in Seq(Record) /\ Len(emitted') = Len(emitted) + c
        /\ \A i \in 1..Len(emitted) : emitted'[i] = emitted[i]
        /\ \A i \in 1..Len(emitted') :
             i \in 1..Len(emitted) \/ \E r \in 1..c : i = Len(emitted) + r
    BY <2>3, <2>4, <2>5 DEF Adds
  <2>7. \A r \in 1..c : /\ emitted'[Len(emitted) + r].line = l[1].line
                        /\ emitted'[Len(emitted) + r].id.ts = t
                        /\ emitted'[Len(emitted) + r].id.key = key
                        /\ emitted'[Len(emitted) + r].id.occurrence = known[key] + r - 1
    BY <2>3, <2>4, <2>5 DEF Adds
  <2>8. PICK v \in Nat : v = known[key]
    BY <2>6
  <2>9. \A i \in 1..Len(emitted) : emitted[i].id.ts = t =>
          known = seen /\ emitted[i].id.occurrence < known[emitted[i].id.key]
    BY <2>3, <2>4, SameTimeIsSeen
  <2>10. \A i \in 1..Len(emitted) : emitted[i].id.key \in Keys /\ emitted[i].id.occurrence \in Nat
    <3> TAKE i \in 1..Len(emitted)
    <3>1. emitted[i] \in Record
      BY <1>1
    <3>2. QED
      BY <3>1 DEF Record
  <2>11. \A k \in Keys : known[k] \in Nat /\ seen'[k] \in Nat /\ known[k] <= seen'[k]
    <3> TAKE k \in Keys
    <3>1. known[k] \in Nat
      BY <2>6
    <3>2. CASE k = key
      <4>1. seen'[k] = known[k] + c
        BY <2>6, <3>2
      <4>2. QED
        BY <2>6, <3>1, <4>1
    <3>3. CASE k # key
      <4>1. seen'[k] = known[k]
        BY <2>6, <3>3
      <4>2. QED
        BY <3>1, <4>1
    <3>4. QED
      BY <3>2, <3>3
  <2>12. seen'[key] = v + c
    BY <2>6, <2>8
  <2>13. Len(emitted') \in 1..Len(emitted') /\ DOMAIN emitted' = 1..Len(emitted')
    BY <1>1, <2>6
  <2>14. emitted'[Len(emitted')].line = l[1].line
    <3>1. c \in 1..c
      BY <2>6
    <3>2. QED
      BY <2>6, <2>7, <3>1
  <2>15. ASSUME NEW i \in 1..Len(emitted')
         PROVE  /\ emitted'[i].id.ts = Kind[emitted'[i].line].ts
                /\ emitted'[i].id.ts = t =>
                     emitted'[i].id.occurrence < seen'[emitted'[i].id.key]
    <3>1. CASE i \in 1..Len(emitted)
      <4>1. emitted'[i] = emitted[i] /\ emitted[i].id.ts = Kind[emitted[i].line].ts
        BY <2>6, <3>1 DEF Numbered
      <4>2. PICK k \in Keys : k = emitted[i].id.key
        BY <2>10, <3>1
      <4>3. PICK o \in Nat : o = emitted[i].id.occurrence
        BY <2>10, <3>1
      <4>4. ASSUME emitted[i].id.ts = t PROVE o < seen'[k]
        <5>1. o < known[k]
          BY <2>9, <3>1, <4>2, <4>3, <4>4
        <5>2. known[k] \in Nat /\ seen'[k] \in Nat /\ known[k] <= seen'[k]
          BY <2>11
        <5>3. QED
          BY <5>1, <5>2
      <4>5. QED
        BY <4>1, <4>2, <4>3, <4>4
    <3>2. CASE \E r \in 1..c : i = Len(emitted) + r
      <4>1. PICK r \in 1..c : i = Len(emitted) + r
        BY <3>2
      <4>2. /\ emitted'[i].line = l[1].line /\ emitted'[i].id.ts = t
            /\ emitted'[i].id.key = key /\ emitted'[i].id.occurrence = v + r - 1
        BY <2>7, <2>8, <4>1
      <4>3. v + r - 1 < v + c
        BY <2>6, <2>8
      <4>4. QED
        BY <2>4, <2>12, <4>2, <4>3
    <3>3. QED
      BY <2>6, <3>1, <3>2
  <2>16. Numbered'
    BY <2>4, <2>6, <2>14, <2>15 DEF Numbered
  <2>17. ASSUME NEW i \in 1..Len(emitted), NEW r \in 1..c,
                emitted[i].id = emitted'[Len(emitted) + r].id
         PROVE  FALSE
    <3>1. /\ emitted[i].id.ts = t /\ emitted[i].id.key = key
          /\ emitted[i].id.occurrence = v + r - 1
      BY <2>7, <2>8, <2>17
    <3>2. emitted[i].id.occurrence < v
      BY <2>8, <2>9, <3>1
    <3>3. QED
      BY <2>6, <2>8, <3>1, <3>2
  <2>18. ASSUME NEW i \in 1..Len(emitted'), NEW j \in 1..Len(emitted'),
                emitted'[i].id = emitted'[j].id
         PROVE  i = j
    <3>1. CASE i \in 1..Len(emitted) /\ j \in 1..Len(emitted)
      BY <1>2, <2>6, <2>18, <3>1
    <3>2. CASE i \in 1..Len(emitted) /\ \E r \in 1..c : j = Len(emitted) + r
      BY <2>6, <2>17, <2>18, <3>2
    <3>3. CASE j \in 1..Len(emitted) /\ \E r \in 1..c : i = Len(emitted) + r
      BY <2>6, <2>17, <2>18, <3>3
    <3>4. CASE (\E r \in 1..c : i = Len(emitted) + r) /\ \E r \in 1..c : j = Len(emitted) + r
      <4>1. PICK r \in 1..c : i = Len(emitted) + r
        BY <3>4
      <4>2. PICK s \in 1..c : j = Len(emitted) + s
        BY <3>4
      <4>3. v + r - 1 = v + s - 1
        BY <2>7, <2>8, <2>18, <4>1, <4>2
      <4>4. r = s
        BY <2>6, <4>3
      <4>5. QED
        BY <4>1, <4>2, <4>4
    <3>5. QED
      BY <2>6, <3>1, <3>2, <3>3, <3>4
  <2>19. DistinctIds'
    BY <2>13, <2>18 DEF DistinctIds
  <2>20. QED
    BY <2>16, <2>19
<1>5. QED
  BY <1>3, <1>4

\* Truncations are counted, and a closed collector stays closed.
LEMMA CountedTruncations ==
  ASSUME LogTypes, [Next]_vars
  PROVE  /\ truncs' = truncs \/ truncs' > 0
         /\ pc = "closed" => pc' = "closed"
<1>1. CASE \E n \in 0..1 : Truncate(n)
  <2>1. PICK n \in 0..1 : Truncate(n)
    BY <1>1
  <2>2. truncs' = truncs + 1 /\ pc # "closed"
    BY <2>1 DEF Truncate, LogOnly
  <2>3. QED
    BY <2>2 DEF LogTypes
<1>2. CASE WritePiece \/ RenameAway \/ Create \/ Reopen \/ SetAccess \/ Stop \/ UNCHANGED vars
  BY <1>2 DEF WritePiece, RenameAway, Create, Reopen, SetAccess, LogOnly, Stop, vars, logVars,
              pollVars
<1>3. CASE Collect
  <2>1. truncs' = truncs
    BY <1>3 DEF Collect, Poll, OpenFails, OpenFile, Read, FollowFails, FollowSame,
           FollowTruncated, FollowRotated, EmitLine, EndPoll, TailOnly, logVars
  <2>2. pc # "closed"
    BY <1>3 DEF Collect, Poll, OpenFails, OpenFile, Read, FollowFails, FollowSame,
           FollowTruncated, FollowRotated, EmitLine, EndPoll
  <2>3. QED
    BY <2>1, <2>2
<1>4. QED
  BY <1>1, <1>2, <1>3 DEF Next

\* Without a truncation, order and numbering are kept.
LEMMA UntruncatedStep ==
  ASSUME ReadInv, Untruncated, [Next]_vars
  PROVE  Untruncated'
<1> SUFFICES ASSUME truncs' = 0 PROVE Untruncated'
  BY DEF Untruncated
<1>1. /\ LogTypes /\ TailTypes /\ OutTypes /\ PollStage /\ TailFollowsFile
  BY DEF ReadInv
<1>2. truncs' = truncs /\ truncs = 0 /\ (pc' # "closed" => pc # "closed")
  BY <1>1, CountedTruncations DEF LogTypes
<1>3. /\ WrittenWhole /\ WrittenInOrder /\ EmittedInOrder /\ DistinctIds
      /\ pc # "closed" => Reached /\ TakenInOrder
      /\ TimesDoNotReturn => Numbered
  BY <1>2 DEF Untruncated
<1>4. WrittenWhole' /\ WrittenInOrder'
  BY <1>1, <1>2, <1>3, WrittenWholeStep, WrittenInOrderStep
<1>5. EmittedInOrder'
  BY <1>1, <1>2, <1>3, EmittedInOrderStep
<1>6. pc' # "closed" => Reached' /\ TakenInOrder'
  <2> SUFFICES ASSUME pc' # "closed" PROVE Reached' /\ TakenInOrder'
    OBVIOUS
  <2>1. Reached /\ TakenInOrder
    BY <1>2, <1>3
  <2>2. QED
    BY <1>1, <1>2, <1>3, <2>1, ReachedStep, TakenInOrderStep
<1>7. (TimesDoNotReturn => Numbered') /\ DistinctIds'
  <2>1. CASE TimesDoNotReturn
    BY <1>1, <1>2, <1>3, <2>1, NumberedStep
  <2>2. CASE ~TimesDoNotReturn
    BY <2>2 DEF DistinctIds, TimesDoNotReturn
  <2>3. QED
    BY <2>1, <2>2
<1>8. TimesDoNotReturn' <=> TimesDoNotReturn
  BY DEF TimesDoNotReturn
<1>9. QED
  BY <1>4, <1>5, <1>6, <1>7, <1>8 DEF Untruncated

\* They hold at the start.
LEMMA UntruncatedInit == ASSUME Init PROVE Untruncated
<1> USE BoundsAssumption
<1>1. \A f \in Inodes : files[f] = <<>> /\ Len(files[f]) = 0
  BY DEF Init
<1>2. 1 \in Inodes /\ wfile = 1 /\ last.end /\ handle = NoFile /\ NoFile = 0
  BY DEF Init, Inodes, NoFile
<1>3. emitted = <<>> /\ Len(emitted) = 0 /\ DOMAIN emitted = {}
  BY DEF Init
<1>4. PollLines = <<>> /\ Len(PollLines) = 0
  <2>1. kept = <<>> /\ batch = <<>> /\ <<>> \in Seq(Line)
    BY DEF Init
  <2>2. QED
    BY <2>1, ConcatEmptySeq DEF PollLines
<1>5. WrittenWhole
  BY <1>1, <1>2 DEF WrittenWhole
<1>6. WrittenInOrder
  BY <1>1 DEF WrittenInOrder
<1>7. EmittedInOrder /\ DistinctIds
  BY <1>3 DEF EmittedInOrder, DistinctIds
<1>8. Numbered
  BY <1>3 DEF Numbered
<1>9. TakenInOrder
  BY <1>3, <1>4 DEF TakenInOrder
<1>10. Reached
  <2>1. ~regrown /\ path \in {0, 1}
    BY DEF Init, NoFile
  <2>2. QED
    BY <1>2, <2>1 DEF Reached
<1>11. QED
  BY <1>5, <1>6, <1>7, <1>8, <1>9, <1>10 DEF Untruncated

\* Order and numbering hold in every reachable state without a truncation.
LEMMA Ordering == Spec => []Untruncated
<1>1. Init => Untruncated
  BY UntruncatedInit
<1>2. ReadInv /\ Untruncated /\ [Next]_vars => Untruncated'
  BY UntruncatedStep
<1>3. QED
  BY <1>1, <1>2, Reading, PTL DEF Spec

\* The records go onto the queue in the order their lines were written, each once: the new
\* file's lines never overtake the old one's in _follow_rotation, and no line is read twice.
THEOREM RecordsInOrder == Spec => []EmittedInOrder
<1>1. ASSUME Untruncated PROVE EmittedInOrder
  <2>1. CASE truncs = 0
    BY <1>1, <2>1 DEF Untruncated
  <2>2. CASE truncs # 0
    BY <2>2 DEF EmittedInOrder
  <2>3. QED
    BY <2>1, <2>2
<1>2. QED
  BY <1>1, Ordering, PTL

\* _number gives every record an id of its own, for any mix of identical lines, repeat
\* summaries, cut lines and rotations, as long as equal timestamps are contiguous.
THEOREM IdsAreDistinct == Spec => []DistinctIds
<1>1. ASSUME Untruncated PROVE DistinctIds
  <2>1. CASE truncs = 0
    BY <1>1, <2>1 DEF Untruncated
  <2>2. CASE truncs # 0
    BY <2>2 DEF DistinctIds
  <2>3. QED
    BY <2>1, <2>2
<1>2. QED
  BY <1>1, Ordering, PTL

-----------------------------------------------------------------------------
(* The final pass. *)

\* Every line the final pass owes ends within reach of one read of the open file.
WithinReach ==
  \A n \in owed : AuthLine(n) /\
    \E i \in pos + 1 .. pos + MaxRead :
      /\ i \in 1..Len(files[handle])
      /\ files[handle][i].end /\ files[handle][i].line = n

\* A read of a log without a truncation covers every auth line within its reach.
LEMMA ReadCoversOwed ==
  ASSUME ReadInv, truncs = 0, Untruncated, Read, WithinReach, NEW n \in owed
  PROVE  Covered(n)'
<1> USE BoundsAssumption
<1>1. /\ LogTypes /\ TailTypes /\ PollStage /\ TailFollowsFile
  BY DEF ReadInv
<1>2. WrittenWhole /\ Reached /\ pc = "read"
  BY DEF Untruncated, Read
<1>3. InSync /\ ~regrown /\ handle # NoFile
  BY <1>1, <1>2 DEF PollStage, InSync, Reached
<1>4. PICK i \in pos + 1 .. pos + MaxRead :
        /\ i \in 1..Len(files[handle]) /\ files[handle][i].end /\ files[handle][i].line = n
  BY DEF WithinReach
<1>5. AuthLine(n)
  BY DEF WithinReach
<1>6. handle \in Inodes /\ pos \in Nat /\ Len(files[handle]) \in Nat /\ files[handle] \in Seq(Piece)
  BY <1>1, <1>3, PlaceTypes, PieceTypes DEF LogTypes
<1>7. EndsAuthLine(files[handle], i)
  <2>1. PICK ps \in Seq(Piece) : ps = files[handle]
    BY <1>6
  <2>2. i \in 1..Len(ps) /\ Alone(ps, i)
    BY <1>2, <1>4, <1>6, <2>1 DEF Alone, WrittenWhole
  <2>3. StandsAlone(ps, i)
    BY <2>2, StandsAlonePieces
  <2>4. QED
    BY <1>4, <1>5, <2>1, <2>3 DEF EndsAuthLine
<1>8. PICK c, m, e, d, all : ReadOutcome(c, m, e, d, all)
  BY <1>1, ReadSplits
<1>9. c \in Nat /\ pos' = pos + c /\ (c = MaxRead \/ pos + c >= Len(files[handle]))
  BY <1>8 DEF ReadOutcome
<1>10. i \in pos + 1 .. pos'
  BY <1>4, <1>6, <1>9
<1>11. QED
  BY <1>1, <1>3, <1>4, <1>7, <1>10, ReadCovers

\* What one read reaches stays within reach while the log grows and the poll goes on.
LEMMA ReachStays ==
  ASSUME LogTypes, TailTypes, WithinReach, handle # NoFile, [Next]_vars, truncs' = truncs,
         owed' = owed, handle' = handle, pos' = pos
  PROVE  WithinReach'
<1> USE BoundsAssumption
<1>1. handle \in Inodes /\ Len(files[handle]) \in Nat /\ pos \in Nat
  BY PlaceTypes, PieceTypes
<1>2. \A i \in 1..Len(files[handle]) :
        i \in 1..Len(files'[handle]) /\ files'[handle][i] = files[handle][i]
  <2>1. CASE ~WritePiece
    <3>1. files' = files
      BY <2>1, LogLeft
    <3>2. QED
      BY <3>1
  <2>2. CASE WritePiece /\ handle # wfile
    BY <1>1, <2>2, Written
  <2>3. CASE WritePiece /\ handle = wfile
    <3>1. /\ Len(files'[handle]) = Len(files[handle]) + 1
          /\ \A i \in 1..Len(files[handle]) : files'[handle][i] = files[handle][i]
      BY <2>3, Written
    <3>2. QED
      BY <1>1, <3>1
  <2>4. QED
    BY <2>1, <2>2, <2>3
<1>3. QED
  BY <1>2 DEF WithinReach, AuthLine

\* What the final pass owes is covered, or within reach of the read still to come.
OwedStage ==
  \/ \A n \in owed : Covered(n)
  \/ /\ handle # NoFile /\ WithinReach
     /\ (pc \in {"idle", "emit", "raised"} /\ ~final) \/ pc = "read"

\* The two ways to state it.
LEMMA OwedStages == OwedIsReached <=> owed = {} \/ (truncs = 0 /\ stopping /\ OwedStage)
BY DEF OwedIsReached, OwedStage, WithinReach

\* Every step brings the final pass nearer to what it owes.
LEMMA OwedStep ==
  ASSUME ReadInv, Untruncated, OwedIsReached, [Next]_vars
  PROVE  OwedIsReached'
<1> USE BoundsAssumption
<1>1. LogTypes /\ TailTypes /\ OutTypes /\ PollStage
  BY DEF ReadInv
<1> SUFFICES ASSUME owed' # {} PROVE truncs' = 0 /\ stopping' /\ OwedStage'
  BY DEF OwedIsReached, OwedStage, WithinReach
<1>2. CASE Stop
  <2>1. /\ ~stopping /\ stopping' /\ UNCHANGED <<files, handle, pos, pc, final, truncs>>
        /\ handle # NoFile /\ pc # "follow" /\ truncs = 0
        /\ Len(files[handle]) - pos \in 0..MaxRead
        /\ owed' = {n \in LinesAfter(handle, pos) : AuthLine(n)}
    BY <1>2 DEF Stop, logVars, tailVars, pollVars
  <2>2. (pc \in {"idle", "emit", "raised"} /\ ~final) \/ pc = "read"
    BY <1>1, <2>1 DEF PollStage
  <2>3. handle \in Inodes /\ Len(files[handle]) \in Nat /\ pos \in Nat
    BY <1>1, <2>1, PlaceTypes, PieceTypes
  <2>4. ASSUME NEW n \in owed'
        PROVE  AuthLine(n) /\ \E i \in pos + 1 .. pos + MaxRead :
                 /\ i \in 1..Len(files[handle])
                 /\ files[handle][i].end /\ files[handle][i].line = n
    <3>1. AuthLine(n) /\ n \in LinesAfter(handle, pos)
      BY <2>1
    <3>2. PICK i \in pos + 1 .. Len(files[handle]) :
            files[handle][i].end /\ files[handle][i].line = n
      BY <3>1 DEF LinesAfter
    <3>3. i \in pos + 1 .. pos + MaxRead /\ i \in 1..Len(files[handle])
      BY <2>1, <2>3
    <3>4. QED
      BY <3>1, <3>2, <3>3
  <2>5. WithinReach'
    BY <2>1, <2>4 DEF WithinReach, AuthLine
  <2>6. QED
    BY <2>1, <2>2, <2>5 DEF OwedStage
<1>3. CASE ~Stop
  <2>1. owed' = owed /\ stopping' = stopping /\ truncs' = truncs
    <3>1. CASE \E n \in 0..1 : Truncate(n)
      BY <3>1 DEF Truncate
    <3>2. CASE WritePiece \/ RenameAway \/ Create \/ Reopen \/ SetAccess \/ UNCHANGED vars
      BY <3>2 DEF WritePiece, RenameAway, Create, Reopen, SetAccess, vars, logVars, stopVars
    <3>3. CASE Collect
      BY <3>3 DEF Collect, Poll, OpenFails, OpenFile, Read, FollowFails, FollowSame,
             FollowTruncated, FollowRotated, EmitLine, EndPoll, TailOnly, logVars, stopVars
    <3>4. QED
      BY <1>3, <3>1, <3>2, <3>3 DEF Next
  <2>2. truncs = 0 /\ stopping /\ OwedStage
    BY <2>1, OwedStages
  <2>3. CASE \A n \in owed : Covered(n)
    <3>1. \A n \in owed : Covered(n)'
      BY <1>1, <2>3, CoveredStep
    <3>2. QED
      BY <2>1, <2>2, <3>1 DEF OwedStage
  <2>4. CASE /\ handle # NoFile /\ WithinReach
             /\ (pc \in {"idle", "emit", "raised"} /\ ~final) \/ pc = "read"
    <3>1. CASE Read
      <4>1. \A n \in owed : Covered(n)'
        BY <2>2, <2>4, <3>1, ReadCoversOwed
      <4>2. QED
        BY <2>1, <2>2, <4>1 DEF OwedStage
    <3>2. CASE ~Read
      <4>1. /\ handle' = handle /\ pos' = pos
            /\ (pc' \in {"idle", "emit", "raised"} /\ ~final') \/ pc' = "read"
        <5>1. CASE \/ WritePiece \/ RenameAway \/ Create \/ Reopen \/ SetAccess \/ UNCHANGED vars
                   \/ \E n \in 0..1 : Truncate(n)
          <6>1. UNCHANGED <<handle, pos, pc, final>>
            BY <5>1 DEF WritePiece, RenameAway, Create, Reopen, SetAccess, Truncate, LogOnly,
                        vars, tailVars, pollVars
          <6>2. QED
            BY <2>4, <6>1
        <5>2. CASE Poll
          <6>1. UNCHANGED <<handle, pos>> /\ pc' = "read"
            BY <2>4, <5>2 DEF Poll, tailVars
          <6>2. QED
            BY <6>1
        <5>3. CASE EmitLine
          <6>1. UNCHANGED <<handle, pos, pc, final>>
            BY <5>3 DEF EmitLine
          <6>2. QED
            BY <2>4, <6>1
        <5>4. CASE EndPoll
          <6>1. pc \in {"raised", "emit"}
            BY <5>4 DEF EndPoll
          <6>2. ~final
            BY <2>4, <6>1
          <6>3. handle' = handle /\ pos' = pos /\ pc' = "idle" /\ final' = final
            BY <5>4, <6>2 DEF EndPoll
          <6>4. QED
            BY <6>2, <6>3
        <5>5. CASE \/ OpenFails \/ OpenFile \/ FollowFails \/ FollowSame \/ FollowRotated
                   \/ FollowTruncated
          <6>1. pc \in {"open", "follow"}
            BY <5>5 DEF OpenFails, OpenFile, FollowFails, FollowSame, FollowRotated,
                        FollowTruncated
          <6>2. QED
            BY <2>4, <6>1
        <5>6. QED
          BY <1>3, <3>2, <5>1, <5>2, <5>3, <5>4, <5>5 DEF Next, Collect
      <4>2. WithinReach'
        BY <1>1, <2>1, <2>4, <4>1, ReachStays
      <4>3. QED
        BY <2>1, <2>2, <2>4, <4>1, <4>2 DEF OwedStage
    <3>3. QED
      BY <3>1, <3>2
  <2>5. QED
    BY <2>2, <2>3, <2>4 DEF OwedStage
<1>4. QED
  BY <1>2, <1>3

\* The pass that _drain_once makes after a stop request delivers every auth line that one
\* read of the open file reaches, whatever the daemon and logrotate do meanwhile.
THEOREM FinalPassDelivers == Spec => []FinalPassCatchesUp
<1>1. Init => OwedIsReached
  BY DEF Init, OwedIsReached
<1>2. ReadInv /\ Untruncated /\ OwedIsReached /\ [Next]_vars => OwedIsReached'
  BY OwedStep
<1>3. ASSUME ReadInv, OwedIsReached PROVE FinalPassCatchesUp
  <2> SUFFICES ASSUME pc = "closed", NEW n \in owed
               PROVE  n \in EmittedLines \cup history \cup dropped
    BY DEF FinalPassCatchesUp
  <2>1. Covered(n)
    BY <1>3, OwedStages DEF OwedStage
  <2>2. kept = <<>> /\ batch = <<>>
    BY <1>3 DEF ReadInv, PollStage
  <2>3. DOMAIN PollLines = {}
    <3>1. <<>> \in Seq(Line)
      OBVIOUS
    <3>2. PollLines = <<>>
      BY <2>2, <3>1, ConcatEmptySeq DEF PollLines
    <3>3. QED
      BY <3>2
  <2>4. QED
    BY <2>1, <2>3 DEF Covered
<1>4. QED
  BY <1>1, <1>2, <1>3, Reading, Ordering, PTL DEF Spec

\* A poll reads and follows only an open file, and one about to end without a file has
\* already reported it.
PollKnowsItsFile ==
  /\ pc \in {"read", "follow"} => handle # NoFile
  /\ pc \in {"emit", "raised"} /\ handle = NoFile => ~source

\* Every step of the log, of a stop request and of the poll keeps this.
LEMMA PollStep == ASSUME PollKnowsItsFile, [Next]_vars PROVE PollKnowsItsFile'
<1>1. CASE \/ WritePiece \/ RenameAway \/ Create \/ Reopen \/ SetAccess
           \/ (\E n \in 0..1 : Truncate(n)) \/ Stop \/ UNCHANGED vars
  <2>1. UNCHANGED <<pc, handle, source>>
    BY <1>1 DEF WritePiece, RenameAway, Create, Reopen, SetAccess, Truncate, Stop, LogOnly,
                vars, tailVars, pollVars
  <2>2. QED
    BY <2>1 DEF PollKnowsItsFile
<1>2. CASE Poll
  BY <1>2 DEF Poll, PollKnowsItsFile, tailVars
<1>3. CASE OpenFails
  BY <1>3 DEF OpenFails, PollKnowsItsFile
<1>4. CASE OpenFile
  BY <1>4 DEF OpenFile, PollKnowsItsFile
<1>5. CASE Read
  <2>1. pc = "read" /\ pc' \in {"follow", "emit"} /\ handle' = handle
    BY <1>5 DEF Read
  <2>2. QED
    BY <2>1 DEF PollKnowsItsFile
<1>6. CASE FollowFails \/ FollowSame \/ FollowTruncated
  <2>1. pc = "follow" /\ pc' \in {"emit", "raised"} /\ handle' = handle
    BY <1>6 DEF FollowFails, FollowSame, FollowTruncated, tailVars
  <2>2. QED
    BY <2>1 DEF PollKnowsItsFile
<1>7. CASE FollowRotated
  BY <1>7 DEF FollowRotated, PollKnowsItsFile
<1>8. CASE EmitLine
  BY <1>8 DEF EmitLine, PollKnowsItsFile
<1>9. CASE EndPoll
  <2>1. pc' \in {"idle", "closed"}
    BY <1>9 DEF EndPoll
  <2>2. QED
    BY <2>1 DEF PollKnowsItsFile
<1>10. QED
  BY <1>1, <1>2, <1>3, <1>4, <1>5, <1>6, <1>7, <1>8, <1>9 DEF Next, Collect

\* A poll of _drain_once that ends without an open file leaves source_available false,
\* whichever of the open, the stat and the rotation failed.
THEOREM BlindnessIsReported == Spec => BlindIsReported
<1> DEFINE B == (pc # "idle" /\ pc' = "idle") => (source' => handle' # NoFile)
<1>1. Init => PollKnowsItsFile
  BY DEF Init, PollKnowsItsFile
<1>2. ASSUME PollKnowsItsFile, [Next]_vars PROVE B
  <2> SUFFICES ASSUME pc # "idle", pc' = "idle" PROVE source' => handle' # NoFile
    OBVIOUS
  <2>1. EndPoll
    BY <1>2 DEF Next, Collect, WritePiece, RenameAway, Create, Reopen, SetAccess, Truncate, Stop,
                LogOnly, vars, pollVars, Poll, OpenFails, OpenFile, Read, FollowFails,
                FollowSame, FollowTruncated, FollowRotated, EmitLine
  <2>2. /\ pc \in {"emit", "raised"} /\ handle' = handle
        /\ source' => source \/ (pc = "emit" /\ handle # NoFile)
    BY <2>1 DEF EndPoll
  <2>3. QED
    BY <1>2, <2>2 DEF PollKnowsItsFile
<1>3. QED
  BY <1>1, <1>2, PollStep, PTL DEF Spec, BlindIsReported
=============================================================================
