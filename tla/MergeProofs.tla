---------------------------- MODULE MergeProofs ----------------------------
(***************************************************************************)
(* Proofs about the merges of json-processing, for files and channels of   *)
(* any length:                                                             *)
(*   - the two-way merge writes the union of the sound beginnings of its   *)
(*     inputs and stops at the line of a flaw;                             *)
(*   - an import accounts for every entry of the directories, and          *)
(*     merge-old keeps every old line and adds only files that are sound;  *)
(*   - a merge into two outputs writes outputs that ascend, have no holes  *)
(*     and nothing twice, fails for a cause, reports what it did, and      *)
(*     leaves nothing behind when it is aborted.                           *)
(* Each part ends with its theorems.                                       *)
(***************************************************************************)
EXTENDS JobProofs, TwoWayMerge, LegacyMerge, DualMerge

-----------------------------------------------------------------------------
(* The inductive invariant of a two-way merge *)

Merging == stage \in {"open", "merge"}

\* Every line taken is sound, and the digest of the last is remembered.
TakenAreSound ==
    \A s \in Side :
      /\ SoundTo(s, number[s])
      /\ last[s] = IF number[s] = 0 THEN NoDigest ELSE file[s][number[s]].digest

\* A line that sorts after the one before it on its side sorts after all that were taken.
NextIsAfterAll ==
    \A s, t \in Side : Ready(s) /\ ~ OutOfOrder(s) => last[t] < Head1(s).digest

\* A side that goes on with a flaw was the last to be taken from.
FlawFollowsLast ==
    \A s, t \in Side : ~ Spent(s) /\ (Spoiled(s) \/ OutOfOrder(s)) => last[t] <= last[s]

\* All that was written was taken, and while nothing has failed all that was taken is written.
WrittenWasTaken ==
    \A i \in DOMAIN merged.lines :
      \E s \in Side : \E n \in 1 .. number[s] : file[s][n] = merged.lines[i]
TakenIsWritten ==
    \A s \in Side : \A n \in 1 .. number[s] : file[s][n].digest \in Digests(merged.lines)
NoneIsAfterLast ==
    \A i \in DOMAIN merged.lines : \E t \in Side : merged.lines[i].digest <= last[t]

\* Up to the last digest written nothing that is sound is missing, and none is longer than it was.
OutputHasNoHoles ==
    \A s \in Side : \A n \in Sound(s) : \A i \in DOMAIN merged.lines :
      /\ file[s][n].digest <= merged.lines[i].digest => file[s][n].digest \in Digests(merged.lines)
      /\ file[s][n].digest = merged.lines[i].digest
           => TextSize[merged.lines[i].text] <= TextSize[file[s][n].text]
OutputAscends ==
    \A i, j \in DOMAIN merged.lines : i < j => merged.lines[i].digest < merged.lines[j].digest

TakenFrom(s, d) == \E n \in 1 .. number[s] : file[s][n].digest = d
BothAreListed ==
    {summary.both[i] : i \in DOMAIN summary.both} =
      {d \in Digests(merged.lines) : \A s \in Side : TakenFrom(s, d)}

TwoWayInv ==
    /\ TwoWayTypeOK
    /\ WrittenWasTaken
    /\ OutputHasNoHoles
    /\ OutputAscends
    /\ MergeStopsAtFlaw
    /\ Merging => /\ failure = NoError
                  /\ outcome = NoError
                  /\ NextIsAfterAll
                  /\ FlawFollowsLast
                  /\ NoneIsAfterLast
    /\ failure = NoError => TakenAreSound /\ TakenIsWritten /\ BothAreListed
    /\ stage \in {"finish", "done"} /\ failure = NoError /\ outcome = NoError => \A s \in Side : Spent(s)
    /\ stage = "done" /\ outcome = NoError => failure = NoError
    /\ stage = "finish" => outcome = NoError

-----------------------------------------------------------------------------
(* Lines and sides *)

LEMMA Heads ==
    ASSUME TwoWayTypeOK, NEW s \in Side
    PROVE  /\ number[s] \in Nat /\ Len(file[s]) \in Nat /\ number[s] <= Len(file[s])
           /\ last[s] \in Nat
           /\ file[s] \in Seq(Line \cup {Unparsed, Unreadable})
           /\ Spent(s) \/ Spoiled(s) \/ Ready(s)
           /\ ~ Spent(s) => number[s] + 1 \in 1 .. Len(file[s])
           /\ Ready(s) => Head1(s) \in Line /\ Head1(s).digest \in Nat /\ Head1(s).digest > 0
           /\ Spoiled(s) => Head1(s) \notin Line
           /\ ~ Spent(s) /\ Head1(s) \in Line => Ready(s)
<1>1. file[s] \in MergeFiles /\ number[s] \in Nat /\ number[s] <= Len(file[s]) /\ last[s] \in Nat
    BY DEF TwoWayTypeOK
<1>2. file[s] \in Seq(Line \cup {Unparsed, Unreadable})
    BY <1>1, TwoWayAssumption
<1>3. Len(file[s]) \in Nat
    BY <1>2
<1>4. ~ Spent(s) => number[s] + 1 \in 1 .. Len(file[s])
    BY <1>1, <1>3 DEF Spent
<1>5. ~ Spent(s) => Head1(s) \in Line \cup {Unparsed, Unreadable}
    BY <1>2, <1>4 DEF Head1
<1>6. \A x \in Line : x.digest \in Nat /\ x.digest > 0
    BY DEF Line
<1>7. Spoiled(s) => Head1(s) \notin Line
    BY TwoWayAssumption DEF Spoiled
<1>8. Ready(s) => Head1(s) \in Line
    BY <1>5 DEF Ready, Spoiled
<1>9. ~ Spent(s) /\ Head1(s) \in Line => Ready(s)
    BY TwoWayAssumption DEF Ready, Spoiled
<1> QED BY <1>1, <1>2, <1>3, <1>4, <1>6, <1>7, <1>8, <1>9 DEF Ready

\* The same, as a formula that holds of the next state too.
HeadsTyped ==
    \A s \in Side : /\ Ready(s) => Head1(s) \in Line /\ Head1(s).digest \in Nat
                    /\ Spent(s) \/ Spoiled(s) \/ Ready(s)
                    /\ ~ Spent(s) => number[s] + 1 \in 1 .. Len(file[s])
LEMMA HeadsAlways == TwoWayTypeOK => HeadsTyped
BY Heads DEF HeadsTyped

\* The lines of an output are lines with digests.
LEMMA OutputTyped ==
    ASSUME TwoWayTypeOK
    PROVE  /\ merged.lines \in Seq(Line)
           /\ \A i \in DOMAIN merged.lines :
                merged.lines[i].digest \in Nat /\ TextSize[merged.lines[i].text] \in Nat
           /\ \A x \in Line : x.digest \in Nat /\ TextSize[x.text] \in Nat
<1>1. merged.lines \in Seq(Line)
    BY DEF TwoWayTypeOK, WriterType
<1>2. \A x \in Line : x.digest \in Nat /\ TextSize[x.text] \in Nat
    BY TwoWayAssumption DEF Line
<1> QED BY <1>1, <1>2

-----------------------------------------------------------------------------
(* A line taken from the sides that are due *)

\* The digest due sorts after all that were taken, and only the sides that are due have it next.
LEMMA DueFacts ==
    ASSUME TwoWayInv, stage = "merge", NoFlaw, NEW t \in Due, \A s \in Due : ~ OutOfOrder(s),
           NEW d, d = Head1(t).digest
    PROVE  /\ Due \subseteq Side
           /\ d \in Nat /\ d > 0
           /\ \A s \in Due : /\ Ready(s) /\ Head1(s) \in Line /\ Head1(s).digest = d
                              /\ number[s] + 1 \in 1 .. Len(file[s])
           /\ \A s \in Side \ Due : Spent(s) \/ (Ready(s) /\ d < Head1(s).digest)
           /\ \A s \in Side : last[s] < d
           /\ \A i \in DOMAIN merged.lines : merged.lines[i].digest < d
<1> USE DEF TwoWayInv
<1>1. Due \subseteq Side /\ \A s \in Due : Ready(s) /\ \A u \in Side : Ready(u) => Head1(s).digest <= Head1(u).digest
    BY DEF Due
<1>2. d \in Nat /\ d > 0
    BY <1>1, Heads
<1>3. \A s \in Due : /\ Ready(s) /\ Head1(s) \in Line /\ Head1(s).digest = d
                      /\ number[s] + 1 \in 1 .. Len(file[s])
  <2> SUFFICES ASSUME NEW s \in Due
               PROVE  /\ Ready(s) /\ Head1(s) \in Line /\ Head1(s).digest = d
                      /\ number[s] + 1 \in 1 .. Len(file[s])
      OBVIOUS
  <2>1. Ready(s) /\ ~ Spent(s) /\ s \in Side /\ t \in Side /\ Ready(t)
      BY <1>1 DEF Ready
  <2>2. Head1(s) \in Line /\ Head1(s).digest \in Nat /\ number[s] + 1 \in 1 .. Len(file[s])
      BY <2>1, Heads
  <2>3. Head1(s).digest <= d /\ d <= Head1(s).digest
      BY <1>1, <2>1
  <2> QED BY <1>2, <2>1, <2>2, <2>3
<1>4. \A s \in Side \ Due : Spent(s) \/ (Ready(s) /\ d < Head1(s).digest)
  <2> SUFFICES ASSUME NEW s \in Side \ Due, ~ Spent(s)
               PROVE  Ready(s) /\ d < Head1(s).digest
      OBVIOUS
  <2>1. Ready(s)
      BY Heads DEF NoFlaw
  <2>2. Head1(s).digest \in Nat
      BY <2>1, Heads
  <2>3. PICK u \in Side : Ready(u) /\ ~ (Head1(s).digest <= Head1(u).digest)
      BY <2>1 DEF Due
  <2>4. Head1(u).digest \in Nat
      BY <2>3, Heads
  <2>5. d <= Head1(u).digest
      BY <1>1, <2>3
  <2> QED BY <1>2, <2>1, <2>2, <2>3, <2>4, <2>5
<1>5. \A s \in Side : last[s] < d
    BY <1>1 DEF NextIsAfterAll, Merging
<1>6. \A i \in DOMAIN merged.lines : merged.lines[i].digest < d
  <2> SUFFICES ASSUME NEW i \in DOMAIN merged.lines PROVE merged.lines[i].digest < d
      OBVIOUS
  <2>1. PICK u \in Side : merged.lines[i].digest <= last[u]
      BY DEF NoneIsAfterLast, Merging
  <2> QED BY <1>2, <1>5, <2>1, Heads, OutputTyped
<1> QED BY <1>1, <1>2, <1>3, <1>4, <1>5, <1>6

\* Of the lines that both sides have, a sound one with the digest due is the next of its side.
LEMMA SoundAndDue ==
    ASSUME TwoWayInv, stage = "merge", NoFlaw, NEW t \in Due, \A s \in Due : ~ OutOfOrder(s),
           NEW d, d = Head1(t).digest, NEW s \in Side, NEW n \in Sound(s)
    PROVE  /\ file[s][n] \in Line
           /\ n <= number[s] => file[s][n].digest \in Digests(merged.lines) /\ file[s][n].digest < d
           /\ n > number[s] /\ file[s][n].digest <= d => s \in Due /\ n = number[s] + 1
<1> USE DEF TwoWayInv
<1>1. /\ n \in 1 .. Len(file[s]) /\ file[s][n] \in Line
      /\ \A j \in 1 .. n : file[s][j] \in Line
      /\ \A j \in 1 .. n - 1 : file[s][j].digest < file[s][n].digest
  <2>1. n \in 1 .. Len(file[s]) /\ SoundTo(s, n)
      BY DEF Sound
  <2>2. n \in 1 .. n
      BY <2>1
  <2> QED BY <2>1, <2>2 DEF SoundTo
<1>2. number[s] \in Nat /\ Len(file[s]) \in Nat /\ last[s] \in Nat
    BY Heads
<1>3. \A x \in Line : x.digest \in Nat
    BY OutputTyped
<1>4. ASSUME n <= number[s]
      PROVE  file[s][n].digest \in Digests(merged.lines) /\ file[s][n].digest < d
  <2>1. n \in 1 .. number[s]
      BY <1>1, <1>2, <1>4
  <2>2. file[s][n].digest \in Digests(merged.lines)
      BY <2>1 DEF TakenIsWritten, Merging
  <2>3. PICK i \in DOMAIN merged.lines : merged.lines[i].digest = file[s][n].digest
      BY <2>2 DEF Digests
  <2> QED BY <2>2, <2>3, DueFacts
<1>5. ASSUME n > number[s], file[s][n].digest <= d
      PROVE  s \in Due /\ n = number[s] + 1
  <2>1. number[s] + 1 \in 1 .. n /\ ~ Spent(s)
      BY <1>1, <1>2, <1>5 DEF Spent
  <2>2. Head1(s) \in Line
      BY <1>1, <2>1 DEF Head1
  <2>3. d <= Head1(s).digest
      BY <1>3, <2>1, <2>2, DueFacts
  <2>4. n # number[s] + 1 => Head1(s).digest < file[s][n].digest
      BY <1>1, <1>2, <2>1 DEF Head1
  <2>5. n = number[s] + 1
      BY <1>1, <1>3, <1>5, <2>2, <2>3, <2>4, DueFacts
  <2>6. Head1(s).digest <= d
      BY <1>5, <2>5 DEF Head1
  <2>7. s \in Due
      BY <1>3, <2>1, <2>2, <2>6, DueFacts
  <2> QED BY <2>5, <2>7
<1> QED BY <1>1, <1>4, <1>5

\* Whatever is taken, the next lines stand to the last digests as before.
LEMMA AfterTaking ==
    ASSUME TwoWayInv, stage = "merge", NoFlaw, NEW t \in Due, \A s \in Due : ~ OutOfOrder(s),
           NEW d, d = Head1(t).digest, Advance(Due), UNCHANGED file, TwoWayTypeOK',
           last' = [s \in Side |-> IF s \in Due THEN Head1(s).digest ELSE last[s]]
    PROVE  /\ \A s \in Due : number'[s] = number[s] + 1 /\ last'[s] = d
           /\ \A s \in Side \ Due : number'[s] = number[s] /\ last'[s] = last[s]
           /\ NextIsAfterAll' /\ FlawFollowsLast' /\ TakenAreSound'
<1> USE DEF TwoWayInv
<1>1. \A s \in Side : number[s] \in Nat /\ Len(file[s]) \in Nat /\ last[s] \in Nat /\ number[s] <= Len(file[s])
    BY Heads
<1>2. /\ \A s \in Due : number'[s] = number[s] + 1 /\ last'[s] = d
      /\ \A s \in Side \ Due : number'[s] = number[s] /\ last'[s] = last[s]
    BY <1>1, DueFacts DEF Advance
<1>3. HeadsTyped'
    BY HeadsAlways, PTL
<1>4. \A s \in Side : last'[s] \in Nat /\ number'[s] \in Nat
    BY DEF TwoWayTypeOK
<1>5. \A s \in Side \ Due : (Spent(s) <=> Spent(s)') /\ Head1(s)' = Head1(s) /\ (Ready(s) <=> Ready(s)')
                             /\ (Spoiled(s) <=> Spoiled(s)')
    BY <1>2 DEF Spent, Head1, Ready, Spoiled
<1>6. \A s \in Side : last'[s] <= d /\ last[s] < d
    BY <1>1, <1>2, DueFacts
<1>7. NextIsAfterAll'
  <2> SUFFICES ASSUME NEW s \in Side, NEW u \in Side, Ready(s)', ~ OutOfOrder(s)'
               PROVE  last'[u] < Head1(s)'.digest
      BY DEF NextIsAfterAll
  <2>1. Head1(s)'.digest \in Nat
      BY <1>3 DEF HeadsTyped
  <2>2. CASE s \in Due
    <3>1. last'[s] < Head1(s)'.digest
        BY <1>4, <2>1 DEF OutOfOrder
    <3> QED BY <1>2, <1>4, <1>6, <2>1, <2>2, <3>1, DueFacts
  <2>3. CASE s \notin Due
    <3>1. d < Head1(s).digest
        BY <1>5, <2>3, DueFacts DEF Ready
    <3> QED BY <1>4, <1>5, <1>6, <2>1, <2>3, <3>1, DueFacts
  <2> QED BY <2>2, <2>3
<1>8. FlawFollowsLast'
  <2> SUFFICES ASSUME NEW s \in Side, NEW u \in Side, ~ Spent(s)', Spoiled(s)' \/ OutOfOrder(s)'
               PROVE  last'[u] <= last'[s]
      BY DEF FlawFollowsLast
  <2>1. CASE s \in Due
      BY <1>2, <1>6, <2>1
  <2>2. CASE s \notin Due
    <3>1. ~ Spent(s) /\ ~ Spoiled(s) /\ Ready(s) /\ d < Head1(s).digest
        BY <1>5, <2>2, DueFacts DEF Ready, NoFlaw
    <3>2. Head1(s)'.digest <= last'[s] /\ Head1(s)'.digest = Head1(s).digest /\ last'[s] = last[s]
        BY <1>2, <1>5, <2>2, <3>1 DEF OutOfOrder
    <3>3. Head1(s).digest \in Nat
        BY <3>1, Heads
    <3> QED BY <1>1, <1>6, <3>1, <3>2, <3>3, DueFacts
  <2> QED BY <2>1, <2>2
<1>9. TakenAreSound'
  <2> SUFFICES ASSUME NEW s \in Side
               PROVE  /\ SoundTo(s, number[s])'
                      /\ last'[s] = IF number'[s] = 0 THEN NoDigest ELSE file'[s][number'[s]].digest
      BY DEF TakenAreSound
  <2>1. SoundTo(s, number[s]) /\ last[s] = IF number[s] = 0 THEN NoDigest ELSE file[s][number[s]].digest
      BY DEF TakenAreSound, Merging
  <2>2. CASE s \notin Due
      BY <1>2, <2>1, <2>2 DEF SoundTo
  <2>3. CASE s \in Due
    <3>1. number'[s] = number[s] + 1 /\ last'[s] = d /\ d = file[s][number[s] + 1].digest
          /\ file[s][number[s] + 1] \in Line
        BY <1>2, <2>3, DueFacts DEF Head1
    <3>2. \A j \in 1 .. number[s] : file[s][j].digest < d
      <4>1. TAKE j \in 1 .. number[s]
      <4>2. number[s] \in 1 .. number[s] /\ number[s] # 0
          BY <1>1
      <4>3. j = number[s] \/ j \in 1 .. number[s] - 1
          BY <1>1
      <4>4. file[s][j] \in Line /\ (j = number[s] \/ file[s][j].digest < file[s][number[s]].digest)
          BY <2>1, <4>2, <4>3 DEF SoundTo
      <4>5. file[s][j].digest \in Nat /\ last[s] = file[s][number[s]].digest
          BY <2>1, <4>2, <4>4, OutputTyped
      <4>6. file[s][j].digest <= last[s]
          BY <1>1, <4>4, <4>5
      <4> QED BY <1>1, <1>6, <4>5, <4>6, DueFacts
    <3>3. ASSUME NEW i \in 1 .. number[s] + 1
          PROVE  /\ file[s][i] \in Line
                 /\ \A j \in 1 .. i - 1 : file[s][j].digest < file[s][i].digest
      <4>1. CASE i = number[s] + 1
          BY <1>1, <3>1, <3>2, <4>1
      <4>2. CASE i # number[s] + 1
        <5>1. i \in 1 .. number[s]
            BY <1>1, <4>2
        <5> QED BY <2>1, <5>1 DEF SoundTo
      <4> QED BY <4>1, <4>2
    <3>4. SoundTo(s, number[s])'
        BY <3>1, <3>3 DEF SoundTo
    <3> QED BY <1>1, <3>1, <3>4
  <2> QED BY <2>2, <2>3
<1> QED BY <1>2, <1>7, <1>8, <1>9

\* Appending adds one to what a sequence holds.
LEMMA RangeOfAppend ==
    ASSUME NEW T, NEW q \in Seq(T), NEW x \in T, NEW r, r = Append(q, x)
    PROVE  {r[i] : i \in DOMAIN r} = {q[i] : i \in DOMAIN q} \cup {x}
<1>1. /\ DOMAIN r = 1 .. Len(q) + 1 /\ DOMAIN q = 1 .. Len(q) /\ Len(q) \in Nat
      /\ r[Len(q) + 1] = x /\ \A i \in DOMAIN q : r[i] = q[i]
    OBVIOUS
<1>2. Len(q) + 1 \in DOMAIN r /\ \A i \in DOMAIN q : i \in DOMAIN r
    BY <1>1
<1>3. \A i \in DOMAIN r : i \in DOMAIN q \/ i = Len(q) + 1
    BY <1>1
<1> QED BY <1>1, <1>2, <1>3

\* Writing adds a line at the end.
LEMMA WrittenFacts ==
    ASSUME NEW w \in WriterType(Line), NEW x \in Line
    PROVE  /\ Written(w, x) \in WriterType(Line)
           /\ Written(w, x).lines = Append(w.lines, x)
<1>1. x.digest \in Nat
    BY DEF Line
<1>2. w.lines \in Seq(Line) /\ Append(w.lines, x) \in Seq(Line)
    BY DEF WriterType
<1>3. [w EXCEPT !.lines = Append(w.lines, x)] \in WriterType(Line)
    BY <1>2 DEF WriterType
<1> QED BY <1>1, <1>2 DEF WriterType, Written

\* What is written has the digest due, comes from a side that is due, and is no longer than either.
LEMMA ValueIsDue ==
    ASSUME TwoWayInv, stage = "merge", NoFlaw, NEW t \in Due, \A s \in Due : ~ OutOfOrder(s),
           NEW d, d = Head1(t).digest
    PROVE  /\ Value(Due) \in Line /\ Value(Due).digest = d
           /\ \E s \in Due : Value(Due) = Head1(s)
           /\ \A s \in Due : TextSize[Value(Due).text] <= TextSize[Head1(s).text]
<1>1. Due \subseteq Side /\ \A s \in Due : Head1(s) \in Line /\ Head1(s).digest = d
    BY DueFacts
<1>2. \A s \in Due : TextSize[Head1(s).text] \in Nat
    BY <1>1, OutputTyped DEF TwoWayInv
<1>3. Side = {"first", "second"}
    BY DEF Side
<1>4. CASE "first" \in Due /\ "second" \in Due
  <2>1. Due = Side
      BY <1>1, <1>3, <1>4
  <2>2. CASE TextSize[Head1("first").text] < TextSize[Head1("second").text]
    <3>1. Value(Due) = Head1("first")
        BY <2>1, <2>2 DEF Value
    <3> QED BY <1>1, <1>2, <1>3, <1>4, <2>2, <3>1
  <2>3. CASE ~ (TextSize[Head1("first").text] < TextSize[Head1("second").text])
    <3>1. Value(Due) = Head1("second")
        BY <1>4, <2>1, <2>3 DEF Value
    <3> QED BY <1>1, <1>2, <1>3, <1>4, <2>3, <3>1
  <2> QED BY <2>2, <2>3
<1>5. CASE ~ ("first" \in Due /\ "second" \in Due)
  <2>1. Due # Side /\ \A s \in Due : s = t
      BY <1>1, <1>3, <1>5
  <2>2. Value(Due) = Head1(t)
      BY <1>1, <1>3, <2>1 DEF Value
  <2> QED BY <1>1, <1>2, <2>1, <2>2
<1> QED BY <1>4, <1>5

\* A digest is listed when both sides had it.
LEMMA SummaryFacts ==
    ASSUME TwoWayTypeOK, NEW t \in Due
    PROVE  /\ Summarised(Due) \in SummaryType
           /\ Summarised(Due).both = IF Due = Side THEN Append(summary.both, Head1("first").digest)
                                     ELSE summary.both
<1>1. Due \in {{"first"}, {"second"}, Side} /\ Side # {"first"} /\ Side # {"second"} /\ {"first"} # {"second"}
    BY DEF Due, Side
<1>2. summary \in SummaryType
    BY DEF TwoWayTypeOK
<1>3. \A s \in Due : Head1(s).digest \in Nat /\ number[s] + 1 \in Nat
    BY Heads DEF Due
<1>4. CASE Due = {"first"}
    BY <1>1, <1>2, <1>4 DEF Summarised, SummaryType
<1>5. CASE Due = {"second"}
    BY <1>1, <1>2, <1>5 DEF Summarised, SummaryType
<1>6. CASE Due = Side
  <2> DEFINE one == Head1("first")
             pair == <<one.digest, number["first"] + 1, number["second"] + 1>>
             added == IF one.text = Head1("second").text THEN summary.collisions
                      ELSE summary.collisions \cup {pair}
  <2>1. one.digest \in Nat /\ pair \in Nat \X Nat \X Nat
      BY <1>3, <1>6 DEF Side
  <2>2. added \in SUBSET (Nat \X Nat \X Nat)
      BY <1>2, <2>1 DEF SummaryType
  <2>3. Summarised(Due) = [summary EXCEPT !.both = Append(summary.both, one.digest), !.collisions = added]
      BY <1>1, <1>6 DEF Summarised
  <2> HIDE DEF added
  <2>4. summary.both \in Seq(Nat) /\ Append(summary.both, one.digest) \in Seq(Nat)
      BY <1>2, <2>1 DEF SummaryType
  <2> QED BY <1>2, <1>6, <2>2, <2>3, <2>4 DEF SummaryType
<1> QED BY <1>1, <1>4, <1>5, <1>6

\* Every step keeps the types, and the list of the digests both sides had.
LEMMA TypesKept ==
    ASSUME TwoWayInv, [TwoWayNext]_twoWayVars
    PROVE  TwoWayTypeOK'
<1> USE DEF TwoWayInv
<1>1. \A s \in Side : /\ number[s] \in Nat /\ Len(file[s]) \in Nat /\ number[s] <= Len(file[s])
                      /\ last[s] \in Nat
                      /\ ~ Spent(s) => number[s] + 1 <= Len(file[s])
                      /\ Ready(s) => ~ Spent(s) /\ Head1(s) \in Line /\ Head1(s).digest \in Nat
                      /\ Spoiled(s) => ~ Spent(s)
    BY Heads DEF Ready, Spoiled
<1>2. ASSUME NEW S \in SUBSET Side, Advance(S), \A s \in S : ~ Spent(s), UNCHANGED file
      PROVE  number' \in [Side -> Nat] /\ \A s \in Side : number'[s] <= Len(file'[s])
    BY <1>1, <1>2 DEF Advance
<1>3. CASE OpenTwo
    BY <1>3 DEF OpenTwo, TwoWayTypeOK
<1>4. ASSUME NEW s \in Side, Surface(s) PROVE TwoWayTypeOK'
  <2>1. number' \in [Side -> Nat] /\ \A u \in Side : number'[u] <= Len(file'[u])
      BY <1>1, <1>2, <1>4 DEF Surface, Fail
  <2> QED BY <1>4, <2>1 DEF Surface, Fail, TwoWayTypeOK
<1>5. ASSUME NEW s \in Side, Unsorted(s) PROVE TwoWayTypeOK'
  <2>1. \A u \in Due : u \in Side /\ Ready(u) /\ ~ Spent(u) /\ Head1(u).digest \in Nat
      BY <1>1 DEF Due
  <2>2. PICK due \in SUBSET Due :
          /\ Advance(due \cup {s})
          /\ last' = [u \in Side |-> IF u \in due THEN Head1(u).digest ELSE last[u]]
      BY <1>5 DEF Unsorted
  <2>3. due \cup {s} \in SUBSET Side /\ (\A u \in due \cup {s} : ~ Spent(u)) /\ UNCHANGED file
      BY <1>5, <2>1 DEF Unsorted, Fail
  <2>4. number' \in [Side -> Nat] /\ \A u \in Side : number'[u] <= Len(file'[u])
      BY <1>2, <2>2, <2>3
  <2>5. last' \in [Side -> Nat]
      BY <1>1, <2>1, <2>2
  <2> QED BY <1>5, <2>4, <2>5 DEF Unsorted, Fail, TwoWayTypeOK
<1>6. ASSUME NEW wrote \in BOOLEAN, TakeDue(wrote) PROVE TwoWayTypeOK'
  <2> PICK t \in Due : TRUE
      BY <1>6 DEF TakeDue
  <2>1. \A u \in Due : u \in Side /\ Ready(u) /\ ~ Spent(u) /\ Head1(u).digest \in Nat
      BY <1>1 DEF Due
  <2>2. number' \in [Side -> Nat] /\ \A u \in Side : number'[u] <= Len(file'[u])
      BY <1>2, <1>6, <2>1 DEF TakeDue
  <2>3. last' \in [Side -> Nat]
      BY <1>1, <1>6, <2>1 DEF TakeDue
  <2>4. Value(Due) \in Line /\ Value(Due).digest \in Nat
      BY <1>6, ValueIsDue, DueFacts DEF TakeDue
  <2>5. merged \in WriterType(Line) /\ Written(merged, Value(Due)) \in WriterType(Line)
      BY <2>4, WrittenFacts DEF TwoWayTypeOK
  <2>6. Summarised(Due) \in SummaryType
      BY SummaryFacts
  <2> QED BY <1>6, <2>2, <2>3, <2>5, <2>6 DEF TakeDue, TwoWayTypeOK
<1>7. CASE Exhausted
    BY <1>7 DEF Exhausted, TwoWayTypeOK
<1>8. ASSUME NEW end \in Outcomes, FinishMerged(end) PROVE TwoWayTypeOK'
    BY <1>8 DEF FinishMerged, Finished, FinishError, Outcomes, PreferLoopError, TwoWayTypeOK, WriterType, NoError
<1>9. CASE UNCHANGED twoWayVars
    BY <1>9 DEF twoWayVars, TwoWayTypeOK
<1> QED BY <1>3, <1>4, <1>5, <1>6, <1>7, <1>8, <1>9 DEF TwoWayNext

-----------------------------------------------------------------------------
(* The steps *)

LEMMA TakeKeeps ==
    ASSUME TwoWayInv, NEW wrote \in BOOLEAN, TakeDue(wrote), TwoWayTypeOK'
    PROVE  TwoWayInv'
<1> USE DEF TwoWayInv
<1> PICK t \in Due : TRUE
    BY DEF TakeDue
<1> PICK d : d = Head1(t).digest
    OBVIOUS
<1>1. /\ stage = "merge" /\ NoFlaw /\ (\A s \in Due : ~ OutOfOrder(s)) /\ d = Head1(t).digest
      /\ Advance(Due) /\ UNCHANGED file /\ outcome' = outcome
      /\ last' = [s \in Side |-> IF s \in Due THEN Head1(s).digest ELSE last[s]]
    BY DEF TakeDue
<1>2. /\ Due \subseteq Side
      /\ d \in Nat /\ d > 0
      /\ \A s \in Due : /\ Ready(s) /\ Head1(s) \in Line /\ Head1(s).digest = d
                         /\ number[s] + 1 \in 1 .. Len(file[s])
      /\ \A s \in Side \ Due : Spent(s) \/ (Ready(s) /\ d < Head1(s).digest)
      /\ \A s \in Side : last[s] < d
      /\ \A i \in DOMAIN merged.lines : merged.lines[i].digest < d
    BY <1>1, DueFacts
<1>3. /\ \A s \in Due : number'[s] = number[s] + 1 /\ last'[s] = d
      /\ \A s \in Side \ Due : number'[s] = number[s] /\ last'[s] = last[s]
      /\ NextIsAfterAll' /\ FlawFollowsLast' /\ TakenAreSound'
    BY <1>1, AfterTaking
<1>4. \A s \in Side : number[s] \in Nat /\ Len(file[s]) \in Nat /\ last[s] \in Nat
    BY Heads
<1>5. merged.lines \in Seq(Line) /\ \A x \in Line : x.digest \in Nat /\ TextSize[x.text] \in Nat
    BY OutputTyped
<1>6. \A s \in Side : \A n \in Sound(s) :
        /\ n \in Nat /\ file[s][n] \in Line
        /\ n <= number[s] => file[s][n].digest \in Digests(merged.lines) /\ file[s][n].digest < d
        /\ n > number[s] /\ file[s][n].digest <= d => s \in Due /\ n = number[s] + 1
    BY <1>1, SoundAndDue DEF Sound
<1>7. Sound("first")' = Sound("first") /\ Sound("second")' = Sound("second")
      /\ \A s \in Side : Sound(s)' = Sound(s)
    BY <1>1 DEF Sound, SoundTo
<1>8. failure = NoError /\ Merging /\ outcome = NoError
    BY <1>1 DEF Merging
<1>12. ASSUME NEW s \in Due
       PROVE  /\ s \in Side /\ number'[s] \in 1 .. number'[s]
              /\ file'[s][number'[s]] = Head1(s) /\ Head1(s).digest = d
  <2>1. number'[s] = number[s] + 1 /\ number[s] \in Nat /\ file' = file /\ Head1(s).digest = d /\ s \in Side
      BY <1>1, <1>2, <1>3, <1>4
  <2> QED BY <2>1 DEF Head1
<1>9. CASE ~ wrote
  <2>1. failure' = "Io" /\ stage' = "finish" /\ UNCHANGED <<merged, summary>>
      BY <1>9 DEF TakeDue
  <2>2. WrittenWasTaken'
    <3>1. \A s \in Side : number'[s] >= number[s] /\ number'[s] \in Nat
        BY <1>2, <1>3, <1>4
    <3> QED BY <1>1, <1>4, <2>1, <3>1 DEF WrittenWasTaken
  <2>3. OutputHasNoHoles' /\ OutputAscends'
      BY <1>1, <1>7, <2>1 DEF OutputHasNoHoles, OutputAscends
  <2> QED BY <1>1, <1>8, <2>1, <2>2, <2>3 DEF MergeStopsAtFlaw, Merging, NoError
<1>10. CASE wrote
  <2> PICK v, out : v = Value(Due) /\ out = merged.lines
      OBVIOUS
  <2>1. merged' = Written(merged, v) /\ summary' = Summarised(Due) /\ UNCHANGED <<failure, stage>>
      BY <1>10 DEF TakeDue
  <2>2. /\ v \in Line /\ v.digest = d
        /\ \E s \in Due : v = Head1(s)
        /\ \A s \in Due : TextSize[v.text] <= TextSize[Head1(s).text]
      BY <1>1, ValueIsDue
  <2>3. merged'.lines = Append(out, v)
      BY <2>1, <2>2, WrittenFacts DEF TwoWayTypeOK
  <2>4. /\ DOMAIN merged'.lines = 1 .. Len(out) + 1 /\ DOMAIN out = 1 .. Len(out) /\ Len(out) \in Nat
        /\ merged'.lines[Len(out) + 1] = v
        /\ \A i \in DOMAIN out : merged'.lines[i] = out[i] /\ i \in DOMAIN merged'.lines
        /\ \A i \in DOMAIN merged'.lines : i \in DOMAIN out \/ i = Len(out) + 1
      BY <1>5, <2>2, <2>3
  <2>5. Digests(merged.lines)' = Digests(merged.lines) \cup {d}
      BY <2>2, <2>4 DEF Digests
  <2>6. WrittenWasTaken'
    <3> SUFFICES ASSUME NEW i \in DOMAIN merged'.lines
                 PROVE  \E s \in Side : \E n \in 1 .. number'[s] : file'[s][n] = merged'.lines[i]
        BY DEF WrittenWasTaken
    <3>1. CASE i \in DOMAIN out
      <4>1. PICK s \in Side : \E n \in 1 .. number[s] : file[s][n] = out[i]
          BY <3>1 DEF WrittenWasTaken
      <4>2. PICK n \in 1 .. number[s] : file[s][n] = out[i]
          BY <4>1
      <4>3. n \in 1 .. number'[s]
          BY <1>2, <1>3, <1>4
      <4> QED BY <1>1, <2>4, <3>1, <4>2, <4>3
    <3>2. CASE i = Len(out) + 1
      <4>1. PICK s \in Due : v = Head1(s)
          BY <2>2
      <4>2. s \in Side /\ number'[s] \in 1 .. number'[s] /\ file'[s][number'[s]] = merged'.lines[i]
          BY <1>12, <2>4, <3>2, <4>1
      <4> QED BY <4>2
    <3> QED BY <2>4, <3>1, <3>2
  <2>7. OutputAscends'
    <3> SUFFICES ASSUME NEW i \in DOMAIN merged'.lines, NEW j \in DOMAIN merged'.lines, i < j
                 PROVE  merged'.lines[i].digest < merged'.lines[j].digest
        BY DEF OutputAscends
    <3>1. i \in DOMAIN out
        BY <2>4
    <3>2. CASE j \in DOMAIN out
        BY <2>4, <3>1, <3>2 DEF OutputAscends
    <3>3. CASE j = Len(out) + 1
        BY <1>2, <2>2, <2>4, <3>1, <3>3
    <3> QED BY <2>4, <3>2, <3>3
  <2>8. OutputHasNoHoles'
    <3> SUFFICES ASSUME NEW s \in Side, NEW n \in Sound(s), NEW i \in DOMAIN merged'.lines
                 PROVE  /\ file[s][n].digest <= merged'.lines[i].digest
                             => file[s][n].digest \in Digests(merged.lines)'
                        /\ file[s][n].digest = merged'.lines[i].digest
                             => TextSize[merged'.lines[i].text] <= TextSize[file[s][n].text]
        BY <1>1, <1>7 DEF OutputHasNoHoles
    <3>1. CASE i \in DOMAIN out
        BY <2>4, <2>5, <3>1 DEF OutputHasNoHoles
    <3>2. CASE i = Len(out) + 1
      <4>1. merged'.lines[i] = v
          BY <2>4, <3>2
      <4>2. ASSUME file[s][n].digest <= d
            PROVE  file[s][n].digest \in Digests(merged.lines)'
        <5>1. CASE n <= number[s]
            BY <1>6, <2>5, <5>1
        <5>2. CASE n > number[s]
            BY <1>2, <1>6, <2>5, <4>2, <5>2 DEF Head1
        <5> QED BY <1>4, <1>6, <5>1, <5>2
      <4>3. ASSUME file[s][n].digest = d
            PROVE  TextSize[v.text] <= TextSize[file[s][n].text]
        <5>1. n > number[s]
            BY <1>2, <1>4, <1>6, <4>3
        <5>2. s \in Due /\ n = number[s] + 1
            BY <1>2, <1>6, <4>3, <5>1
        <5> QED BY <2>2, <5>2 DEF Head1
      <4> QED BY <2>2, <4>1, <4>2, <4>3
    <3> QED BY <2>4, <3>1, <3>2
  <2>9. NoneIsAfterLast'
    <3> SUFFICES ASSUME NEW i \in DOMAIN merged'.lines
                 PROVE  \E u \in Side : merged'.lines[i].digest <= last'[u]
        BY DEF NoneIsAfterLast
    <3>1. merged'.lines[i].digest <= d
        BY <1>2, <1>5, <2>2, <2>4
    <3> QED BY <1>2, <1>3, <3>1
  <2>10. TakenIsWritten'
    <3> SUFFICES ASSUME NEW s \in Side, NEW n \in 1 .. number'[s]
                 PROVE  file[s][n].digest \in Digests(merged.lines)'
        BY <1>1 DEF TakenIsWritten
    <3>1. CASE n \in 1 .. number[s]
        BY <2>5, <3>1, <1>8 DEF TakenIsWritten
    <3>2. CASE n \notin 1 .. number[s]
      <4>1. s \in Due /\ n = number[s] + 1
          BY <1>3, <1>4, <3>2
      <4> QED BY <1>2, <2>5, <4>1 DEF Head1
    <3> QED BY <3>1, <3>2
  <2>11. BothAreListed'
    <3>1. {summary'.both[i] : i \in DOMAIN summary'.both} =
            {summary.both[i] : i \in DOMAIN summary.both} \cup (IF Due = Side THEN {d} ELSE {})
      <4>1. CASE Due = Side
        <5>1. "first" \in Due /\ Side # {"first"} /\ Side # {"second"}
            BY <4>1 DEF Side
        <5>2. summary'.both = Append(summary.both, d)
            BY <1>2, <2>1, <4>1, <5>1, SummaryFacts
        <5>3. summary.both \in Seq(Nat)
            BY DEF TwoWayTypeOK, SummaryType
        <5>4. {summary'.both[i] : i \in DOMAIN summary'.both} =
                {summary.both[i] : i \in DOMAIN summary.both} \cup {d}
          <6>1. d \in Nat
              BY <1>2
          <6>2. PICK after, before : after = summary'.both /\ before = summary.both
              OBVIOUS
          <6>3. before \in Seq(Nat) /\ d \in Nat /\ after = Append(before, d)
              BY <5>2, <5>3, <6>1, <6>2
          <6>4. {after[i] : i \in DOMAIN after} = {before[i] : i \in DOMAIN before} \cup {d}
              BY ONLY <6>3, RangeOfAppend
          <6> QED BY <6>2, <6>4, ZenonT(30)
        <5> QED BY <4>1, <5>4
      <4>2. CASE Due # Side
        <5>1. summary'.both = summary.both
            BY <1>2, <2>1, <4>2, SummaryFacts
        <5> QED BY <4>2, <5>1
      <4> QED BY <4>1, <4>2
    <3>2. \A s \in Side : \A x \in Digests(merged.lines) : TakenFrom(s, x)' <=> TakenFrom(s, x)
      <4> SUFFICES ASSUME NEW s \in Side, NEW x \in Digests(merged.lines)
                   PROVE  TakenFrom(s, x)' <=> TakenFrom(s, x)
          OBVIOUS
      <4>1. x # d
          BY <1>2, <1>5 DEF Digests
      <4>2. \A n \in 1 .. number'[s] : n \in 1 .. number[s] \/ file[s][n].digest = d
          BY <1>2, <1>3, <1>4 DEF Head1
      <4>3. \A n \in 1 .. number[s] : n \in 1 .. number'[s]
          BY <1>2, <1>3, <1>4
      <4> QED BY <1>1, <4>1, <4>2, <4>3 DEF TakenFrom
    <3>3. \A s \in Side : TakenFrom(s, d)' <=> s \in Due
      <4> SUFFICES ASSUME NEW s \in Side PROVE TakenFrom(s, d)' <=> s \in Due
          OBVIOUS
      <4>1. ASSUME s \in Due PROVE TakenFrom(s, d)'
        <5>1. number'[s] \in 1 .. number'[s] /\ file'[s][number'[s]].digest = d
            BY <1>12, <4>1
        <5> QED BY <5>1 DEF TakenFrom
      <4>2. ASSUME s \notin Due PROVE ~ TakenFrom(s, d)'
        <5>1. \A n \in 1 .. number[s] : file[s][n].digest \in Digests(merged.lines)
            BY <1>8 DEF TakenIsWritten
        <5>2. d \notin Digests(merged.lines)
            BY <1>2 DEF Digests
        <5> QED BY <1>1, <1>3, <4>2, <5>1, <5>2 DEF TakenFrom
      <4> QED BY <4>1, <4>2
    <3>4. (\A s \in Side : TakenFrom(s, d)') <=> Due = Side
        BY <1>2, <3>3
    <3>5. {summary.both[i] : i \in DOMAIN summary.both} =
            {x \in Digests(merged.lines) : \A s \in Side : TakenFrom(s, x)}
        BY <1>8 DEF BothAreListed
    <3>6. {x \in Digests(merged.lines)' : \A s \in Side : TakenFrom(s, x)'} =
            {x \in Digests(merged.lines) : \A s \in Side : TakenFrom(s, x)}
               \cup (IF Due = Side THEN {d} ELSE {})
      <4>1. d \notin Digests(merged.lines)
          BY <1>2 DEF Digests
      <4> QED BY <2>5, <3>2, <3>4, <4>1
    <3>7. {x \in Digests(merged.lines)' : \A s \in Side : TakenFrom(s, x)'} =
            {summary'.both[i] : i \in DOMAIN summary'.both}
        BY <3>1, <3>5, <3>6
    <3> QED BY <3>7 DEF BothAreListed
  <2>12. stage' = "merge" /\ failure' = NoError /\ outcome' = NoError /\ MergeStopsAtFlaw'
      BY <1>1, <1>8, <2>1 DEF MergeStopsAtFlaw, NoError
  <2> QED BY <1>3, <2>6, <2>7, <2>8, <2>9, <2>10, <2>11, <2>12 DEF Merging
<1> QED BY <1>9, <1>10

\* A side that goes on with a flaw ends the merge, whatever the other side has done.
LEMMA FlawKeeps ==
    ASSUME TwoWayInv, stage = "merge", TwoWayTypeOK', NEW s \in Side, ~ Spent(s),
           Spoiled(s) \/ (Ready(s) /\ OutOfOrder(s)),
           NEW reason \in {"Order", "InvalidLine", "ReadIo"}, Fail(reason, s),
           last'[s] = last[s], number'[s] = number[s] + 1, \A u \in Side : number'[u] >= number[u]
    PROVE  TwoWayInv'
<1> USE DEF TwoWayInv
<1>1. /\ failure' = reason /\ reason # NoError /\ culprit' = s /\ stage' = "finish"
      /\ file' = file /\ merged' = merged /\ summary' = summary /\ outcome' = outcome
      /\ outcome = NoError
    BY DEF Fail, NoError, Merging
<1>2. \A u \in Side : number[u] \in Nat /\ Len(file[u]) \in Nat /\ last[u] \in Nat /\ number'[u] \in Nat
    BY Heads DEF TwoWayTypeOK
<1>3. TakenAreSound /\ FlawFollowsLast /\ NoneIsAfterLast
    BY DEF Merging
<1>4. WrittenWasTaken'
  <2> SUFFICES ASSUME NEW i \in DOMAIN merged.lines
               PROVE  \E u \in Side : \E n \in 1 .. number'[u] : file[u][n] = merged.lines[i]
      BY <1>1 DEF WrittenWasTaken
  <2>1. PICK u \in Side : \E n \in 1 .. number[u] : file[u][n] = merged.lines[i]
      BY DEF WrittenWasTaken
  <2>2. \A n \in 1 .. number[u] : n \in 1 .. number'[u]
      BY <1>2
  <2> QED BY <2>1, <2>2
<1>5. OutputHasNoHoles' /\ OutputAscends'
    BY <1>1 DEF OutputHasNoHoles, OutputAscends, Sound, SoundTo
<1>6. number'[s] \notin Sound(s)
  <2> SUFFICES ASSUME number[s] + 1 \in Sound(s) PROVE FALSE
      OBVIOUS
  <2> PICK n : n = number[s] + 1
      OBVIOUS
  <2>1. n \in 1 .. n /\ SoundTo(s, n)
      BY <1>2 DEF Sound
  <2>2. Head1(s) \in Line /\ \A j \in 1 .. n - 1 : file[s][j].digest < Head1(s).digest
      BY <2>1 DEF SoundTo, Head1
  <2>3. Ready(s) /\ Head1(s).digest \in Nat /\ Head1(s).digest > 0 /\ Head1(s).digest <= last[s]
      BY <2>2, Heads DEF OutOfOrder
  <2>4. number[s] # 0 /\ last[s] = file[s][number[s]].digest
      BY <1>2, <1>3, <2>3 DEF TakenAreSound, NoDigest
  <2>5. number[s] \in 1 .. n - 1
      BY <1>2, <2>4
  <2>6. last[s] < Head1(s).digest
      BY <2>2, <2>4, <2>5
  <2> QED BY <1>2, <2>3, <2>6
<1>7. \A n \in 1 .. number[s] : n \in Sound(s)
  <2> TAKE n \in 1 .. number[s]
  <2>1. n \in 1 .. Len(file[s]) /\ \A i \in 1 .. n : i \in 1 .. number[s]
      BY <1>2, Heads
  <2>2. SoundTo(s, number[s])
      BY <1>3 DEF TakenAreSound
  <2> QED BY <2>1, <2>2 DEF Sound, SoundTo
<1>8. \A i \in DOMAIN merged.lines : merged.lines[i].digest <= last[s]
  <2> SUFFICES ASSUME NEW i \in DOMAIN merged.lines PROVE merged.lines[i].digest <= last[s]
      OBVIOUS
  <2>1. PICK u \in Side : merged.lines[i].digest <= last[u]
      BY <1>3 DEF NoneIsAfterLast
  <2>2. last[u] <= last[s]
      BY <1>3 DEF FlawFollowsLast
  <2> QED BY <1>2, <2>1, <2>2, OutputTyped
<1>9. MergeStopsAtFlaw'
  <2>1. Sound(culprit)' = Sound(s)
      BY <1>1 DEF Sound, SoundTo
  <2>2. number'[culprit'] = number[s] + 1 /\ last'[culprit'] = last[s]
      BY <1>1
  <2>3. number'[culprit'] \notin Sound(culprit)'
      BY <1>1, <1>6, <2>1
  <2>4. \A n \in 1 .. number'[culprit'] - 1 : n \in Sound(culprit)'
    <3>1. 1 .. number'[culprit'] - 1 = 1 .. number[s]
        BY <1>2, <2>2
    <3> QED BY <1>7, <2>1, <3>1
  <2>5. \A i \in DOMAIN merged'.lines : merged'.lines[i].digest <= last'[culprit']
      BY <1>1, <1>8, <2>2
  <2> QED BY <2>3, <2>4, <2>5 DEF MergeStopsAtFlaw
<1> QED BY <1>1, <1>4, <1>5, <1>9 DEF Merging

\* The inductive invariant holds at the start, is kept by every step, and implies the property.
LEMMA TwoWayInitially == TwoWayInit => TwoWayInv
<1> SUFFICES ASSUME TwoWayInit PROVE TwoWayInv
    OBVIOUS
<1> USE DEF TwoWayInit, NewWriter, NoError, NoDigest
<1>1. file \in [Side -> MergeFiles] /\ \A s \in Side : Len(file[s]) \in Nat
    BY TwoWayAssumption
<1>2. <<>> \in Seq(Line) /\ <<>> \in Seq(Nat) /\ DOMAIN merged.lines = {} /\ DOMAIN summary.both = {}
    OBVIOUS
<1>3. TwoWayTypeOK
    BY <1>1, <1>2 DEF TwoWayTypeOK, SummaryType, WriterType, Side
<1>4. HeadsTyped
    BY <1>3, HeadsAlways
<1>5. \A s \in Side : Ready(s) => 0 < Head1(s).digest
    BY <1>3, Heads
<1>6. NextIsAfterAll /\ FlawFollowsLast /\ NoneIsAfterLast
    BY <1>2, <1>5 DEF NextIsAfterAll, FlawFollowsLast, NoneIsAfterLast
<1>7. TakenAreSound /\ TakenIsWritten
    BY DEF TakenAreSound, TakenIsWritten, SoundTo
<1>8. BothAreListed
    BY <1>2 DEF BothAreListed, Digests
<1>9. WrittenWasTaken /\ OutputHasNoHoles /\ OutputAscends /\ MergeStopsAtFlaw
    BY <1>2 DEF WrittenWasTaken, OutputHasNoHoles, OutputAscends, MergeStopsAtFlaw
<1> QED BY <1>3, <1>6, <1>7, <1>8, <1>9 DEF TwoWayInv, Merging

LEMMA TwoWayKept == TwoWayInv /\ [TwoWayNext]_twoWayVars => TwoWayInv'
<1> SUFFICES ASSUME TwoWayInv, [TwoWayNext]_twoWayVars PROVE TwoWayInv'
    OBVIOUS
<1>1. TwoWayTypeOK'
    BY TypesKept
<1>2. \A s \in Side : number[s] \in Nat /\ (Spoiled(s) => ~ Spent(s)) /\ (Ready(s) => ~ Spent(s))
    BY Heads DEF TwoWayInv, Spoiled, Ready
<1> DEFINE unmoved == UNCHANGED <<file, number, last, merged, summary, failure>>
           held == /\ (WrittenWasTaken /\ OutputHasNoHoles /\ OutputAscends)'
                   /\ NextIsAfterAll' <=> NextIsAfterAll
                   /\ FlawFollowsLast' <=> FlawFollowsLast
                   /\ NoneIsAfterLast' <=> NoneIsAfterLast
                   /\ (TakenAreSound /\ TakenIsWritten /\ BothAreListed)'
                        <=> TakenAreSound /\ TakenIsWritten /\ BothAreListed
                   /\ \A s \in Side : Spent(s)' <=> Spent(s)
<1>3. ASSUME UNCHANGED <<file, number, last, summary, failure>>, merged'.lines = merged.lines,
             culprit' = culprit
      PROVE  held /\ MergeStopsAtFlaw'
    BY <1>3 DEF WrittenWasTaken, OutputHasNoHoles, OutputAscends, NextIsAfterAll, FlawFollowsLast,
         NoneIsAfterLast, TakenAreSound, TakenIsWritten, BothAreListed, Digests, TakenFrom, Sound, SoundTo,
         Spent, Ready, Spoiled, Head1, OutOfOrder, MergeStopsAtFlaw, TwoWayInv
<1>4. CASE OpenTwo
  <2>1. held /\ MergeStopsAtFlaw'
      BY <1>3, <1>4 DEF OpenTwo
  <2> QED BY <1>1, <1>4, <2>1 DEF OpenTwo, TwoWayInv, Merging, NoError
<1>5. ASSUME NEW s \in Side, Surface(s) PROVE TwoWayInv'
  <2>1. number'[s] = number[s] + 1 /\ \A u \in Side : number'[u] >= number[u]
      BY <1>2, <1>5 DEF Surface, Advance
  <2> QED BY <1>1, <1>2, <1>5, <2>1, FlawKeeps DEF Surface, Fail
<1>6. ASSUME NEW s \in Side, Unsorted(s) PROVE TwoWayInv'
  <2>1. PICK due : /\ s \notin due
                     /\ Advance(due \cup {s})
                     /\ last' = [u \in Side |-> IF u \in due THEN Head1(u).digest ELSE last[u]]
      BY <1>6 DEF Unsorted
  <2>2. number'[s] = number[s] + 1 /\ last'[s] = last[s] /\ \A u \in Side : number'[u] >= number[u]
      BY <1>2, <2>1 DEF Advance
  <2>3. stage = "merge" /\ Ready(s) /\ OutOfOrder(s) /\ Fail("Order", s)
      BY <1>6 DEF Unsorted, Due
  <2> QED BY <1>1, <1>2, <2>2, <2>3, FlawKeeps
<1>7. ASSUME NEW wrote \in BOOLEAN, TakeDue(wrote) PROVE TwoWayInv'
    BY <1>1, <1>7, TakeKeeps
<1>8. CASE Exhausted
  <2>1. held /\ MergeStopsAtFlaw'
      BY <1>3, <1>8 DEF Exhausted
  <2> QED BY <1>1, <1>8, <2>1 DEF Exhausted, TwoWayInv, Merging, NoError
<1>9. ASSUME NEW end \in Outcomes, FinishMerged(end) PROVE TwoWayInv'
  <2>1. merged'.lines = merged.lines
      BY <1>9 DEF FinishMerged, Finished, TwoWayInv, TwoWayTypeOK, WriterType
  <2>2. held /\ MergeStopsAtFlaw'
      BY <1>3, <1>9, <2>1 DEF FinishMerged
  <2> QED BY <1>1, <1>9, <2>2 DEF FinishMerged, FinishError, PreferLoopError, TwoWayInv, Merging, NoError
<1>10. CASE UNCHANGED twoWayVars
  <2>1. held /\ MergeStopsAtFlaw'
      BY <1>3, <1>10 DEF twoWayVars
  <2> QED BY <1>1, <1>10, <2>1 DEF twoWayVars, TwoWayInv, Merging, NoError
<1> QED BY <1>4, <1>5, <1>6, <1>7, <1>8, <1>9, <1>10 DEF TwoWayNext

\* What is known of the output amounts to the property: once all was taken, all was sound.
LEMMA TwoWayImplies == TwoWayInv => MergeIsSound
<1> SUFFICES ASSUME TwoWayInv PROVE MergedIsUnion
    BY DEF TwoWayInv, MergeIsSound
<1> DEFINE out == merged.lines
           Has(d) == \E i \in DOMAIN out : out[i].digest = d
<1>1. \A d : Has(d) <=> d \in Digests(merged.lines)
    BY DEF Digests
<1>2. \A s \in Side : \A n \in Sound(s) : \A i \in DOMAIN out :
        /\ file[s][n].digest <= out[i].digest => Has(file[s][n].digest)
        /\ file[s][n].digest = out[i].digest => TextSize[out[i].text] <= TextSize[file[s][n].text]
    BY <1>1 DEF TwoWayInv, OutputHasNoHoles
<1>3. ASSUME Succeeded
      PROVE  /\ \A s \in Side : \A n \in DOMAIN file[s] : n \in Sound(s) /\ Has(file[s][n].digest)
             /\ {summary.both[i] : i \in DOMAIN summary.both} =
                  {d \in {out[i].digest : i \in DOMAIN out} :
                     \A s \in Side : \E n \in DOMAIN file[s] : file[s][n].digest = d}
  <2>1. failure = NoError /\ TakenAreSound /\ TakenIsWritten /\ BothAreListed
        /\ \A s \in Side : Spent(s)
      BY <1>3 DEF Succeeded, TwoWayInv
  <2>2. \A s \in Side : /\ Len(file[s]) \in Nat /\ DOMAIN file[s] = 1 .. Len(file[s])
                        /\ number[s] = Len(file[s])
      BY <2>1, Heads DEF TwoWayInv, Spent
  <2>3. \A s \in Side : \A n \in DOMAIN file[s] : n \in Sound(s)
      BY <2>1, <2>2 DEF TakenAreSound, Sound, SoundTo
  <2>4. \A s \in Side : \A n \in DOMAIN file[s] : Has(file[s][n].digest)
      BY <1>1, <2>1, <2>2 DEF TakenIsWritten
  <2>5. \A s \in Side : \A d : TakenFrom(s, d) <=> \E n \in DOMAIN file[s] : file[s][n].digest = d
      BY <2>2 DEF TakenFrom
  <2> QED BY <2>1, <2>3, <2>4, <2>5 DEF BothAreListed, Digests
<1> QED BY <1>2, <1>3 DEF TwoWayInv, OutputAscends, WrittenWasTaken, MergedIsUnion

\* A merge of two files gives their union as far as both are sound, whatever they hold, wherever it
\* stops and whatever fails (process/merge.rs: MergeIter, merge_into, merge_zst).
THEOREM TwoWayMergeIsSound == TwoWaySpec => []MergeIsSound
<1>1. TwoWaySpec => []TwoWayInv
    BY TwoWayInitially, TwoWayKept, PTL DEF TwoWaySpec
<1> QED BY <1>1, TwoWayImplies, PTL

-----------------------------------------------------------------------------
(* The inductive invariant of merge-old *)

EntriesOf(t) == UNION {t.directories[d] : d \in DOMAIN t.directories}
FilesOf(t) == {e \in EntriesOf(t) : IsLegacyItem(e)}
SoundOf(t) == {e \in FilesOf(t) : e.digest = e.found}
SkippedOf(t) == {e.path : e \in {x \in EntriesOf(t) : x.kind # "dir"} \ FilesOf(t)}
WrongOf(t) == {<<e.digest, e.found>> : e \in {x \in FilesOf(t) : x.digest # x.found}}
ImportType(t) == [paths : Seq(SoundOf(t)), skipped : SUBSET SkippedOf(t), invalid : SUBSET WrongOf(t)]
CopyLine == [digest : Nat, from : {"input", "file"}]

LegacyTypes ==
    /\ LegacyTypeOK
    /\ bases \in Seq(DOMAIN tree.directories)
    /\ stack \in Seq(SUBSET EntriesOf(tree))
    /\ imported \in ImportType(tree)
    /\ old \in [Output -> Seq(OldLine \cup {BadLine})]

\* r is what is left of g.
RestOf(g, r) == Len(r) <= Len(g) /\ \A k \in DOMAIN r : r[k] = g[Len(g) - Len(r) + k]

\* What became of an entry of a directory that was opened: what it leads to was opened too.
Settled(im, D, e) ==
    /\ e.kind = "dir" => e.to \in D
    /\ e.kind # "dir" /\ ~ IsLegacyItem(e) => e.path \in im.skipped
    /\ IsLegacyItem(e) /\ e.found = e.digest => \E i \in DOMAIN im.paths : im.paths[i] = e
    /\ IsLegacyItem(e) /\ e.found # e.digest => <<e.digest, e.found>> \in im.invalid
Waits(q, e) == \E i \in DOMAIN q : e \in q[i]

\* The directories of D were opened, the bases that are not in b among them; their entries are
\* settled or wait in q.
WalkedTo(t, b, q, im, D) ==
    /\ \A i \in 1 .. Len(t.bases) - Len(b) : t.bases[i] \in D
    /\ \A d \in D : \A e \in t.directories[d] : Settled(im, D, e) \/ Waits(q, e)
NothingIsLeft ==
    visit = "walk" =>
      /\ RestOf(tree.bases, bases)
      /\ \E D \in SUBSET DOMAIN tree.directories : WalkedTo(tree, bases, stack, imported, D)

LinesIn(w) == {w.lines[i] : i \in DOMAIN w.lines}
ReadOf(g, r) == {g[i] : i \in 1 .. Len(g) - Len(r)}
AscendingLines(q) == \A i, j \in DOMAIN q : i < j => q[i].digest < q[j].digest
Readable(g) == \A o \in Output : \A i \in DOMAIN g[o] : g[o][i] # BadLine

\* A writer that has what was read of a file, and nothing that belongs behind what was not.
Copies(w, g, r) ==
    /\ {l \in LinesIn(w) : l.from = "input"} = ReadOf(g, r)
    /\ AscendingLines(w.lines)
    /\ w.last_written = IF w.lines = <<>> THEN NoDigest ELSE w.lines[Len(w.lines)].digest
    /\ \A l \in LinesIn(w), k \in DOMAIN r : l.digest <= r[k].digest
\* What it has besides are files of the output o that neither of the old files has.
AddsOnly(w, t, g, o) ==
    \A l \in LinesIn(w) : l.from = "file" =>
      /\ \A p \in Output : \A i \in DOMAIN g[p] : g[p][i].digest # l.digest
      /\ \E e \in SoundOf(t) : e.digest = l.digest /\ e.belongs = o

ReadersAdvance ==
    \A o \in Output : /\ RestOf(given[o], old[o])
                      /\ \A i \in 1 .. Len(given[o]) - Len(old[o]) : given[o][i] # BadLine
CopiesAreRight ==
    Readable(given) =>
      \A o \in Output : /\ Copies(copies[o], given[o], old[o])
                        /\ AddsOnly(copies[o], tree, given, o)
PathsAreNext ==
    /\ visit \in {"open", "merge"} => AscendingLines(imported.paths)
    /\ visit = "merge" /\ Readable(given) =>
         \A o \in Output : \A l \in LinesIn(copies[o]), k \in DOMAIN imported.paths :
           l.digest < imported.paths[k].digest
EndsInOrder ==
    /\ visit \in {"walk", "open"} => old = given /\ copies = [o \in Output |-> NewWriter]
    /\ visit \in {"walk", "open", "merge", "drain", "finish flat"} =>
         \A o \in Output : copies[o].output = "open"
    /\ visit = "finish data" => copies["flat"].output = "published" /\ copies["data"].output = "open"
    /\ visit \in {"finish flat", "finish data"} => \A o \in Output : old[o] = <<>>
    /\ \A o \in Output : Visible(copies[o]) => \A p \in Output : old[p] = <<>>
    /\ Visible(copies["data"]) => copies["flat"].output = "published"
    /\ visit = "done" =>
         (mergeOld = NoError <=> \A o \in Output : copies[o].output = "published")

LegacyInv ==
    /\ LegacyTypes
    /\ NothingIsLeft
    /\ WalkAccountsForAll
    /\ ReadersAdvance
    /\ CopiesAreRight
    /\ PathsAreNext
    /\ EndsInOrder

-----------------------------------------------------------------------------
(* The walk *)

LEMMA TreeTyped ==
    LegacyTypes =>
      /\ IsTree(tree)
      /\ \A d \in DOMAIN tree.directories : \A e \in tree.directories[d] :
           /\ e \in EntriesOf(tree) /\ e.kind \in {"file", "dir", "symlink", "typeless"}
           /\ e.digest \in Nat /\ e.found \in Nat
           /\ e.kind = "dir" => e.to \in DOMAIN tree.directories \cup {0}
<1> SUFFICES ASSUME LegacyTypes
             PROVE  /\ IsTree(tree)
                    /\ \A d \in DOMAIN tree.directories : \A e \in tree.directories[d] :
                         /\ e \in EntriesOf(tree) /\ e.kind \in {"file", "dir", "symlink", "typeless"}
                         /\ e.digest \in Nat /\ e.found \in Nat
                         /\ e.kind = "dir" => e.to \in DOMAIN tree.directories \cup {0}
    OBVIOUS
<1>1. IsTree(tree)
    BY LegacyAssumption DEF LegacyTypes, LegacyTypeOK
<1>2. \A d \in DOMAIN tree.directories : \A e \in tree.directories[d] :
        /\ e.kind \in {"file", "dir", "symlink", "typeless"}
        /\ e.digest \in Nat /\ e.found \in Nat
        /\ e.kind = "dir" => e.to \in DOMAIN tree.directories \cup {0}
    BY <1>1 DEF IsTree
<1>3. \A d \in DOMAIN tree.directories : \A e \in tree.directories[d] : e \in EntriesOf(tree)
    BY DEF EntriesOf
<1> QED BY <1>1, <1>2, <1>3

\* What is settled stays so when more is opened and reported.
LEMMA SettledGrows ==
    ASSUME NEW im, NEW more, NEW D, NEW E, NEW e,
           \A i \in DOMAIN im.paths : \E j \in DOMAIN more.paths : more.paths[j] = im.paths[i],
           im.skipped \subseteq more.skipped, im.invalid \subseteq more.invalid, D \subseteq E,
           Settled(im, D, e)
    PROVE  Settled(more, E, e)
BY DEF Settled

LEMMA OneIsPushed ==
    ASSUME NEW S, NEW q \in Seq(SUBSET S), NEW d \in SUBSET S, NEW p, p = Append(q, d)
    PROVE  /\ p \in Seq(SUBSET S)
           /\ \A x : Waits(q, x) \/ x \in d => Waits(p, x)
<1>1. /\ p \in Seq(SUBSET S) /\ Len(q) + 1 \in DOMAIN p /\ p[Len(q) + 1] = d
      /\ \A i \in DOMAIN q : i \in DOMAIN p /\ p[i] = q[i]
    OBVIOUS
<1> QED BY <1>1 DEF Waits

\* The walk has gone from D on to more, and from im on to more reports.
LEMMA WalkGoesOn ==
    ASSUME NEW t, NEW b, NEW c, NEW q, NEW p, NEW im, NEW more,
           NEW D, NEW E, WalkedTo(t, b, q, im, D), D \subseteq E,
           \A i \in DOMAIN im.paths : \E j \in DOMAIN more.paths : more.paths[j] = im.paths[i],
           im.skipped \subseteq more.skipped, im.invalid \subseteq more.invalid,
           \A i \in 1 .. Len(t.bases) - Len(c) : i \in 1 .. Len(t.bases) - Len(b) \/ t.bases[i] \in E,
           \A x : Waits(q, x) => Waits(p, x) \/ Settled(more, E, x),
           \A d \in E \ D : \A e \in t.directories[d] : Waits(p, e)
    PROVE  WalkedTo(t, c, p, more, E)
<1>1. \A i \in 1 .. Len(t.bases) - Len(c) : t.bases[i] \in E
    BY DEF WalkedTo
<1>2. ASSUME NEW d \in E, NEW e \in t.directories[d]
      PROVE  Settled(more, E, e) \/ Waits(p, e)
  <2>1. CASE d \in D
    <3>1. Settled(im, D, e) \/ Waits(q, e)
        BY <2>1 DEF WalkedTo
    <3>2. Settled(im, D, e) => Settled(more, E, e)
        BY SettledGrows
    <3> QED BY <3>1, <3>2
  <2>2. CASE d \notin D
      BY <2>2
  <2> QED BY <2>1, <2>2
<1> QED BY <1>1, <1>2 DEF WalkedTo

LEMMA NextRest ==
    ASSUME NEW S, NEW g \in Seq(S), NEW r \in Seq(S), r # <<>>, RestOf(g, r)
    PROVE  /\ RestOf(g, Tail(r)) /\ Head(r) = g[Len(g) - Len(Tail(r))] /\ Tail(r) \in Seq(S) /\ Head(r) \in S
           /\ \A i \in 1 .. Len(g) - Len(Tail(r)) : i \in 1 .. Len(g) - Len(r) \/ i = Len(g) - Len(Tail(r))
<1>1. PICK m \in Nat, n \in Nat \ {0} : m = Len(g) /\ n = Len(r) /\ n <= m
    BY DEF RestOf
<1>2. PICK s \in Seq(S) : /\ s = Tail(r) /\ Len(s) = n - 1 /\ Head(r) = r[1] /\ Head(r) \in S /\ 1 \in DOMAIN r
                          /\ \A k \in DOMAIN s : k + 1 \in DOMAIN r /\ s[k] = r[k + 1] /\ k \in Nat
  <2>1. /\ Tail(r) \in Seq(S) /\ Len(Tail(r)) = n - 1 /\ Head(r) = r[1] /\ Head(r) \in S /\ 1 \in DOMAIN r
        /\ \A k \in DOMAIN Tail(r) : k + 1 \in DOMAIN r /\ Tail(r)[k] = r[k + 1] /\ k \in Nat \ {0}
      BY <1>1, Tails
  <2> QED BY <2>1
<1>3. \A k \in DOMAIN r : r[k] = g[m - n + k]
    BY <1>1 DEF RestOf
<1>4. r[1] = g[m - (n - 1)]
  <2>1. m - n + 1 = m - (n - 1)
      BY <1>1
  <2> QED BY <1>2, <1>3, <2>1
<1>5. ASSUME NEW k \in DOMAIN s
      PROVE  s[k] = g[m - (n - 1) + k]
  <2>1. k \in Nat /\ k + 1 \in DOMAIN r /\ s[k] = r[k + 1]
      BY <1>2
  <2>2. r[k + 1] = g[m - n + (k + 1)]
      BY <1>3, <2>1
  <2>3. m - n + (k + 1) = m - (n - 1) + k
      BY <1>1, <2>1
  <2> QED BY <2>1, <2>2, <2>3
<1>6. n - 1 <= m
    BY <1>1
<1>7. \A i \in 1 .. m - (n - 1) : i \in 1 .. m - n \/ i = m - (n - 1)
    BY <1>1
<1> QED BY <1>1, <1>2, <1>4, <1>5, <1>6, <1>7 DEF RestOf

LEMMA BasesTyped ==
    LegacyTypes => /\ tree.bases \in Seq(DOMAIN tree.directories) /\ bases \in Seq(DOMAIN tree.directories)
                   /\ stack \in Seq(SUBSET EntriesOf(tree)) /\ imported \in ImportType(tree)
                   /\ \A d \in DOMAIN tree.directories : tree.directories[d] \in SUBSET EntriesOf(tree)
<1> SUFFICES ASSUME LegacyTypes
             PROVE  /\ tree.bases \in Seq(DOMAIN tree.directories)
                    /\ \A d \in DOMAIN tree.directories : tree.directories[d] \in SUBSET EntriesOf(tree)
    BY DEF LegacyTypes
<1>1. IsTree(tree)
    BY TreeTyped
<1> QED BY <1>1 DEF IsTree, EntriesOf

LEMMA OpenBaseLeavesNothing ==
    ASSUME LegacyTypes, NothingIsLeft, NEW ok \in BOOLEAN, OpenBase(ok)
    PROVE  NothingIsLeft' /\ stack' \in Seq(SUBSET EntriesOf(tree)) /\ bases' \in Seq(DOMAIN tree.directories)
<1>1. /\ visit = "walk" /\ stack = <<>> /\ bases # <<>> /\ bases' = Tail(bases)
      /\ tree' = tree /\ imported' = imported
    BY DEF OpenBase
<1>2. /\ tree.bases \in Seq(DOMAIN tree.directories) /\ bases \in Seq(DOMAIN tree.directories)
      /\ \A d \in DOMAIN tree.directories : tree.directories[d] \in SUBSET EntriesOf(tree)
    BY BasesTyped
<1>3. RestOf(tree.bases, bases)
    BY <1>1 DEF NothingIsLeft
<1>4. /\ RestOf(tree.bases, Tail(bases)) /\ Head(bases) = tree.bases[Len(tree.bases) - Len(Tail(bases))]
      /\ Tail(bases) \in Seq(DOMAIN tree.directories) /\ Head(bases) \in DOMAIN tree.directories
      /\ \A i \in 1 .. Len(tree.bases) - Len(Tail(bases)) :
           i \in 1 .. Len(tree.bases) - Len(bases) \/ i = Len(tree.bases) - Len(Tail(bases))
    BY <1>1, <1>2, <1>3, NextRest
<1>5. CASE ok
  <2>1. stack' = <<tree.directories[Head(bases)]>> /\ visit' = visit
      BY <1>5 DEF OpenBase
  <2>2. PICK D \in SUBSET DOMAIN tree.directories : WalkedTo(tree, bases, stack, imported, D)
      BY <1>1 DEF NothingIsLeft
  <2>3. PICK E \in SUBSET DOMAIN tree.directories : E = D \cup {Head(bases)}
      BY <1>4
  <2>4. PICK p : p = <<tree.directories[Head(bases)]>>
      OBVIOUS
  <2>5. \A x : ~ Waits(stack, x)
      BY <1>1 DEF Waits
  <2>6. \A d \in E \ D : \A e \in tree.directories[d] : Waits(p, e)
      BY <2>3, <2>4 DEF Waits
  <2>7. \A i \in 1 .. Len(tree.bases) - Len(Tail(bases)) :
          i \in 1 .. Len(tree.bases) - Len(bases) \/ tree.bases[i] \in E
      BY <1>4, <2>3
  <2>8. WalkedTo(tree, Tail(bases), p, imported, E)
    <3>1. D \subseteq E /\ \A x : Waits(stack, x) => Waits(p, x) \/ Settled(imported, E, x)
        BY <2>3, <2>5
    <3>2. \A i \in DOMAIN imported.paths : \E j \in DOMAIN imported.paths : imported.paths[j] = imported.paths[i]
        OBVIOUS
    <3> QED BY <2>2, <2>6, <2>7, <3>1, <3>2, WalkGoesOn, ZenonT(30)
  <2>9. NothingIsLeft'
      BY <1>1, <1>4, <2>1, <2>4, <2>8 DEF NothingIsLeft
  <2>10. stack' \in Seq(SUBSET EntriesOf(tree))
      BY <1>2, <1>4, <2>1
  <2> QED BY <1>1, <1>4, <2>9, <2>10
<1>6. CASE ~ ok
  <2>1. visit' = "done" /\ stack' = stack
      BY <1>6 DEF OpenBase, GiveUp
  <2> QED BY <1>1, <1>4, <2>1, BasesTyped DEF NothingIsLeft
<1> QED BY <1>5, <1>6

LEMMA LeaveLeavesNothing ==
    ASSUME LegacyTypes, NothingIsLeft, LeaveDirectory
    PROVE  NothingIsLeft' /\ stack' \in Seq(SUBSET EntriesOf(tree))
<1>1. /\ visit = "walk" /\ visit' = visit /\ stack # <<>> /\ stack[Len(stack)] = {}
      /\ stack' = SubSeq(stack, 1, Len(stack) - 1)
      /\ tree' = tree /\ bases' = bases /\ imported' = imported
    BY DEF LeaveDirectory, Top
<1>2. stack \in Seq(SUBSET EntriesOf(tree))
    BY BasesTyped
<1>3. PICK p \in Seq(SUBSET EntriesOf(tree)) : p = SubSeq(stack, 1, Len(stack) - 1)
    BY <1>1, <1>2
<1>4. \A i \in DOMAIN stack : i = Len(stack) \/ (i \in DOMAIN p /\ p[i] = stack[i])
    BY <1>1, <1>2, <1>3
<1>5. \A x : Waits(stack, x) => Waits(p, x)
    BY <1>1, <1>4 DEF Waits
<1>6. PICK D \in SUBSET DOMAIN tree.directories : WalkedTo(tree, bases, stack, imported, D)
    BY <1>1 DEF NothingIsLeft
<1>7. WalkedTo(tree, bases, p, imported, D)
    BY <1>5, <1>6 DEF WalkedTo
<1> QED BY <1>1, <1>3, <1>6, <1>7 DEF NothingIsLeft

LEMMA NextEntryLeavesNothing ==
    ASSUME LegacyTypes, NothingIsLeft, NEW entry, NextEntry(entry)
    PROVE  /\ NothingIsLeft' /\ stack' \in Seq(SUBSET EntriesOf(tree)) /\ imported' \in ImportType(tree)
           /\ visit' \in {"walk", "done"} /\ (visit' = "done" => mergeOld' \in {"OtherIo", "FileIo"})
           /\ (visit' = "walk" => mergeOld' = mergeOld)
<1>1. /\ visit = "walk" /\ stack # <<>> /\ entry \in stack[Len(stack)]
      /\ tree' = tree /\ bases' = bases
    BY DEF NextEntry, Top
<1>2. /\ stack \in Seq(SUBSET EntriesOf(tree)) /\ imported \in ImportType(tree)
    BY BasesTyped
<1>3. PICK p \in Seq(SUBSET EntriesOf(tree)) :
        /\ p = Taken(entry)
        /\ \A x : Waits(stack, x) /\ x # entry => Waits(p, x)
  <2>1. PICK p : p = [stack EXCEPT ![Len(stack)] = @ \ {entry}]
      OBVIOUS
  <2>2. PICK S, q : S = EntriesOf(tree) /\ q = stack /\ q \in Seq(SUBSET S)
      BY <1>2
  <2>3. /\ p \in Seq(SUBSET S) /\ DOMAIN p = DOMAIN q
        /\ \A i \in DOMAIN q : p[i] = q[i] \/ p[i] = q[i] \ {entry}
    <3>1. q[Len(q)] \ {entry} \in SUBSET S
        BY <1>1, <2>2
    <3> QED BY <1>1, <2>1, <2>2, <3>1
  <2>4. \A x : Waits(q, x) /\ x # entry => Waits(p, x)
      BY <2>3 DEF Waits
  <2> QED BY <2>1, <2>2, <2>3, <2>4 DEF Taken
<1>4. /\ entry \in EntriesOf(tree) /\ entry.kind \in {"file", "dir", "symlink", "typeless"}
      /\ entry.digest \in Nat /\ entry.found \in Nat
      /\ entry.kind = "dir" => entry.to \in DOMAIN tree.directories \cup {0}
  <2>1. entry \in EntriesOf(tree)
    <3>1. stack[Len(stack)] \in SUBSET EntriesOf(tree)
        BY <1>1, <1>2
    <3> QED BY <1>1, <3>1
  <2>2. PICK d \in DOMAIN tree.directories : entry \in tree.directories[d]
      BY <2>1 DEF EntriesOf
  <2> QED BY <2>1, <2>2, TreeTyped
<1>5. PICK D \in SUBSET DOMAIN tree.directories : WalkedTo(tree, bases, stack, imported, D)
    BY <1>1 DEF NothingIsLeft
<1>6. RestOf(tree.bases, bases)
    BY <1>1 DEF NothingIsLeft
<1>7. /\ imported.paths \in Seq(SoundOf(tree)) /\ imported.skipped \in SUBSET SkippedOf(tree)
      /\ imported.invalid \in SUBSET WrongOf(tree)
      /\ imported = [paths |-> imported.paths, skipped |-> imported.skipped, invalid |-> imported.invalid]
    BY <1>2 DEF ImportType
\* The entry is settled, and nothing else changes.
<1>8. ASSUME NEW more \in ImportType(tree), stack' = p, imported' = more, visit' = visit, mergeOld' = mergeOld,
             imported.skipped \subseteq more.skipped, imported.invalid \subseteq more.invalid,
             \A i \in DOMAIN imported.paths : \E j \in DOMAIN more.paths : more.paths[j] = imported.paths[i],
             Settled(more, D, entry)
      PROVE  /\ NothingIsLeft' /\ stack' \in Seq(SUBSET EntriesOf(tree)) /\ imported' \in ImportType(tree)
             /\ visit' \in {"walk", "done"} /\ (visit' = "done" => mergeOld' \in {"OtherIo", "FileIo"})
             /\ (visit' = "walk" => mergeOld' = mergeOld)
  <2>1. \A x : Waits(stack, x) => Waits(p, x) \/ Settled(more, D, x)
      BY <1>3, <1>8
  <2>2. WalkedTo(tree, bases, p, more, D)
    <3>1. D \subseteq D /\ \A d \in D \ D : \A e \in tree.directories[d] : Waits(p, e)
        OBVIOUS
    <3>2. \A i \in 1 .. Len(tree.bases) - Len(bases) :
            i \in 1 .. Len(tree.bases) - Len(bases) \/ tree.bases[i] \in D
        OBVIOUS
    <3> QED BY <1>5, <1>8, <2>1, <3>1, <3>2, WalkGoesOn
  <2>3. NothingIsLeft'
      BY <1>1, <1>6, <1>8, <2>2 DEF NothingIsLeft
  <2> QED BY <1>1, <1>8, <2>3
<1>9. ASSUME visit' = "done", mergeOld' \in {"OtherIo", "FileIo"}, stack' = p, imported' = imported
      PROVE  /\ NothingIsLeft' /\ stack' \in Seq(SUBSET EntriesOf(tree)) /\ imported' \in ImportType(tree)
             /\ visit' \in {"walk", "done"} /\ (visit' = "done" => mergeOld' \in {"OtherIo", "FileIo"})
             /\ (visit' = "walk" => mergeOld' = mergeOld)
    BY <1>2, <1>9 DEF NothingIsLeft
<1>10. CASE entry.kind = "typeless" \/ (entry.kind = "dir" /\ entry.to = 0)
    BY <1>3, <1>9, <1>10 DEF NextEntry, GiveUp, IsLegacyItem
<1>11. CASE entry.kind = "dir" /\ entry.to # 0
  <2>1. stack' = Append(p, tree.directories[entry.to]) /\ imported' = imported /\ visit' = visit /\ mergeOld' = mergeOld
      BY <1>3, <1>11 DEF NextEntry, IsLegacyItem
  <2>2. PICK E \in SUBSET DOMAIN tree.directories : E = D \cup {entry.to} /\ entry.to \in DOMAIN tree.directories
      BY <1>4, <1>11
  <2>3. PICK q : q = Append(p, tree.directories[entry.to])
      OBVIOUS
  <2>4. tree.directories[entry.to] \in SUBSET EntriesOf(tree)
      BY <2>2 DEF EntriesOf
  <2>5. /\ q \in Seq(SUBSET EntriesOf(tree))
        /\ \A x : Waits(p, x) \/ x \in tree.directories[entry.to] => Waits(q, x)
    <3>1. PICK S, d : S = EntriesOf(tree) /\ d = tree.directories[entry.to]
        OBVIOUS
    <3>2. p \in Seq(SUBSET S) /\ d \in SUBSET S /\ q = Append(p, d)
        BY <2>3, <2>4, <3>1
    <3>3. q \in Seq(SUBSET S) /\ \A x : Waits(p, x) \/ x \in d => Waits(q, x)
        BY <3>2, OneIsPushed
    <3> QED BY <3>1, <3>3
  <2>6. Settled(imported, E, entry)
      BY <1>11, <2>2 DEF Settled, IsLegacyItem
  <2>7. \A x : Waits(stack, x) => Waits(q, x) \/ Settled(imported, E, x)
      BY <1>3, <2>5, <2>6
  <2>8. D \subseteq E /\ \A d \in E \ D : \A e \in tree.directories[d] : Waits(q, e)
      BY <2>2, <2>5
  <2>9. WalkedTo(tree, bases, q, imported, E)
    <3>1. \A i \in 1 .. Len(tree.bases) - Len(bases) :
            i \in 1 .. Len(tree.bases) - Len(bases) \/ tree.bases[i] \in E
        OBVIOUS
    <3>2. \A i \in DOMAIN imported.paths : \E j \in DOMAIN imported.paths : imported.paths[j] = imported.paths[i]
        OBVIOUS
    <3> QED BY <1>5, <2>7, <2>8, <3>1, <3>2, WalkGoesOn
  <2>10. NothingIsLeft'
      BY <1>1, <1>6, <2>1, <2>3, <2>9 DEF NothingIsLeft
  <2> QED BY <1>1, <1>2, <2>1, <2>3, <2>5, <2>10
<1>12. CASE entry.kind = "symlink" \/ (entry.kind = "file" /\ ~ IsLegacyItem(entry))
  <2>1. /\ stack' = p /\ imported' = [imported EXCEPT !.skipped = @ \cup {entry.path}]
        /\ visit' = visit /\ mergeOld' = mergeOld
      BY <1>3, <1>12 DEF NextEntry, IsLegacyItem
  <2>2. entry.path \in SkippedOf(tree)
      BY <1>4, <1>12 DEF SkippedOf, FilesOf, IsLegacyItem
  <2>3. PICK more : more = [imported EXCEPT !.skipped = @ \cup {entry.path}]
      OBVIOUS
  <2>4. /\ more \in ImportType(tree) /\ more.paths = imported.paths /\ more.invalid = imported.invalid
        /\ more.skipped = imported.skipped \cup {entry.path}
      BY <1>7, <2>2, <2>3 DEF ImportType
  <2>5. Settled(more, D, entry)
      BY <1>12, <2>4 DEF Settled, IsLegacyItem
  <2>6. \A i \in DOMAIN imported.paths : \E j \in DOMAIN more.paths : more.paths[j] = imported.paths[i]
      BY <2>4
  <2>7. imported.skipped \subseteq more.skipped /\ imported.invalid \subseteq more.invalid
      BY <2>4
  <2> QED BY <1>8, <2>1, <2>3, <2>4, <2>5, <2>6, <2>7
<1>13. CASE IsLegacyItem(entry)
  <2>1. entry.kind = "file" /\ entry \in FilesOf(tree) /\ entry.digest # 0
      BY <1>4, <1>13 DEF IsLegacyItem, FilesOf
  <2>2. stack' = p
      BY <1>3, <1>13, <2>1 DEF NextEntry
  <2>3. CASE entry.found = 0
      BY <1>9, <1>13, <2>1, <2>2, <2>3 DEF NextEntry, GiveUp
  <2>4. CASE entry.found = entry.digest
    <3>1. imported' = [imported EXCEPT !.paths = Append(@, entry)] /\ visit' = visit /\ mergeOld' = mergeOld
        BY <1>13, <2>1, <2>4 DEF NextEntry
    <3>2. PICK q : q = Append(imported.paths, entry)
        OBVIOUS
    <3>3. entry \in SoundOf(tree)
        BY <2>1, <2>4 DEF SoundOf
    <3>4. /\ q \in Seq(SoundOf(tree)) /\ Len(imported.paths) + 1 \in DOMAIN q /\ q[Len(imported.paths) + 1] = entry
          /\ \A i \in DOMAIN imported.paths : i \in DOMAIN q /\ q[i] = imported.paths[i]
        BY <1>7, <3>2, <3>3, Appended
    <3>5. PICK more : more = [imported EXCEPT !.paths = q]
        OBVIOUS
    <3>6. /\ more \in ImportType(tree) /\ more.paths = q /\ more.invalid = imported.invalid
          /\ more.skipped = imported.skipped
        BY <1>7, <3>4, <3>5 DEF ImportType
    <3>7. Settled(more, D, entry)
        BY <1>13, <2>1, <2>4, <3>4, <3>6 DEF Settled
    <3>8. \A i \in DOMAIN imported.paths : \E j \in DOMAIN more.paths : more.paths[j] = imported.paths[i]
        BY <3>4, <3>6
    <3>9. imported.skipped \subseteq more.skipped /\ imported.invalid \subseteq more.invalid
        BY <3>6
    <3>10. imported' = more
        BY <3>1, <3>2, <3>5
    <3> QED BY <1>8, <2>2, <3>1, <3>6, <3>7, <3>8, <3>9, <3>10
  <2>5. CASE entry.found \notin {0, entry.digest}
    <3>1. /\ imported' = [imported EXCEPT !.invalid = @ \cup {<<entry.digest, entry.found>>}]
          /\ visit' = visit /\ mergeOld' = mergeOld
        BY <1>13, <2>1, <2>5 DEF NextEntry
    <3>2. <<entry.digest, entry.found>> \in WrongOf(tree)
        BY <2>1, <2>5 DEF WrongOf
    <3>3. PICK more : more = [imported EXCEPT !.invalid = @ \cup {<<entry.digest, entry.found>>}]
        OBVIOUS
    <3>4. /\ more \in ImportType(tree) /\ more.paths = imported.paths /\ more.skipped = imported.skipped
          /\ more.invalid = imported.invalid \cup {<<entry.digest, entry.found>>}
        BY <1>7, <3>2, <3>3 DEF ImportType
    <3>5. Settled(more, D, entry)
        BY <1>13, <2>1, <2>5, <3>4 DEF Settled
    <3>6. \A i \in DOMAIN imported.paths : \E j \in DOMAIN more.paths : more.paths[j] = imported.paths[i]
        BY <3>4
    <3>7. imported.skipped \subseteq more.skipped /\ imported.invalid \subseteq more.invalid
        BY <3>4
    <3> QED BY <1>8, <2>2, <3>1, <3>3, <3>4, <3>5, <3>6, <3>7
  <2> QED BY <2>3, <2>4, <2>5
<1> QED BY <1>4, <1>10, <1>11, <1>12, <1>13

\* What is merged are the files found, the first of each digest, in the order of the digests.
LEMMA SortedOnceFacts ==
    ASSUME NEW S, NEW p \in Seq(S), \A x \in S : x.digest \in Nat
    PROVE  /\ SortedOnce(p) \in Seq(S) /\ AscendingLines(SortedOnce(p))
           /\ \A j \in DOMAIN p : \E i \in DOMAIN SortedOnce(p) : SortedOnce(p)[i].digest = p[j].digest
<1> DEFINE firsts == {i \in DOMAIN p : \A j \in 1 .. i - 1 : p[j].digest # p[i].digest}
           g == [i \in firsts |-> p[i].digest]
           n == Cardinality(firsts)
           F == {g[i] : i \in firsts}
           Lines == {p[i] : i \in firsts}
<1>1. /\ DOMAIN p = 1 .. Len(p) /\ Len(p) \in Nat /\ firsts \subseteq 1 .. Len(p) /\ Lines \subseteq S
      /\ \A i \in DOMAIN p : p[i] \in S /\ p[i].digest \in Nat
    OBVIOUS
<1>2. IsFiniteSet(firsts) /\ n \in Nat
  <2>1. IsFiniteSet(1 .. Len(p))
      BY <1>1, FS_Interval
  <2> QED BY <1>1, <2>1, FS_Subset, FS_CardinalityType
<1>3. \A i, j \in firsts : p[i].digest = p[j].digest => i = j
  <2> TAKE i \in firsts, j \in firsts
  <2>1. i \in Nat \ {0} /\ j \in Nat \ {0}
      BY <1>1
  <2>2. i < j => i \in 1 .. j - 1
      BY <2>1
  <2>3. j < i => j \in 1 .. i - 1
      BY <2>1
  <2> QED BY <2>1, <2>2, <2>3
<1>4. F \in SUBSET Nat /\ g \in [firsts -> F]
    BY <1>1
<1>5. g \in Surjection(firsts, F) /\ g \in Injection(firsts, F)
  <2>1. \A i \in firsts : g[i] = p[i].digest
      OBVIOUS
  <2>2. \A i, j \in firsts : g[i] = g[j] => i = j
      BY <1>3, <2>1
  <2>3. DOMAIN g = firsts /\ \A d \in F : \E i \in firsts : g[i] = d
      OBVIOUS
  <2> HIDE DEF g, F, firsts
  <2> QED BY <1>4, <2>2, <2>3 DEF Surjection, Injection, IsInjective
<1>6. IsFiniteSet(F) /\ Cardinality(F) = n
  <2> HIDE DEF g, F, firsts
  <2> QED BY <1>2, <1>5, FS_Surjection DEF n
<1>7. PICK s \in [1 .. n -> F] : NumbersAscend(s)
  <2> HIDE DEF g, F, firsts, n
  <2> QED BY <1>4, <1>6, FiniteIsListed
<1>8. \E t \in [1 .. n -> Lines] : \A i, j \in DOMAIN t : i < j => t[i].digest < t[j].digest
  <2> DEFINE t == [k \in 1 .. n |-> p[CHOOSE i \in firsts : p[i].digest = s[k]]]
  <2>1. \A k \in 1 .. n : \E i \in firsts : p[i].digest = s[k]
    <3> TAKE k \in 1 .. n
    <3>1. s[k] \in F
        OBVIOUS
    <3> QED BY <3>1
  <2>2. \A k \in 1 .. n : t[k] \in Lines /\ t[k].digest = s[k]
    <3> TAKE k \in 1 .. n
    <3>1. PICK i \in firsts : i = CHOOSE j \in firsts : p[j].digest = s[k]
        BY <2>1
    <3>2. p[i].digest = s[k]
        BY <2>1, <3>1
    <3>3. t[k] = p[i]
        BY <3>1
    <3> QED BY <3>2, <3>3
  <2>3. t \in [1 .. n -> Lines] /\ DOMAIN t = 1 .. n
      BY <2>2
  <2> HIDE DEF t, Lines, n, firsts, F
  <2>4. \A i, j \in DOMAIN t : i < j => t[i].digest < t[j].digest
      BY <1>7, <2>2, <2>3 DEF NumbersAscend
  <2> QED BY <2>3, <2>4
<1>9. PICK q \in [1 .. n -> Lines] : /\ q = SortedOnce(p)
                                     /\ \A i, j \in DOMAIN q : i < j => q[i].digest < q[j].digest
  <2>1. SortedOnce(p) = CHOOSE t \in [1 .. n -> Lines] : \A i, j \in DOMAIN t : i < j => t[i].digest < t[j].digest
      BY DEF SortedOnce
  <2> HIDE DEF Lines, n, firsts
  <2> QED BY <1>8, <2>1
<1>10. q \in Seq(S) /\ DOMAIN q = 1 .. n /\ AscendingLines(q)
  <2> HIDE DEF n, Lines
  <2> QED BY <1>1, <1>2, <1>9 DEF AscendingLines
<1> DEFINE h == [k \in 1 .. n |-> q[k].digest]
<1>11. h \in [1 .. n -> F]
  <2> SUFFICES ASSUME NEW k \in 1 .. n PROVE q[k].digest \in F
      OBVIOUS
  <2>1. q[k] \in Lines
      OBVIOUS
  <2>2. PICK i \in firsts : q[k] = p[i]
      BY <2>1
  <2> QED BY <2>2
<1>12. \A i, j \in 1 .. n : h[i] = h[j] => i = j
  <2> TAKE i \in 1 .. n, j \in 1 .. n
  <2>1. h[i] \in Nat /\ h[j] \in Nat /\ i \in Nat /\ j \in Nat
    <3> HIDE DEF n, F, h
    <3>1. n \in Nat /\ F \subseteq Nat
        BY <1>2, <1>4
    <3>2. h[i] \in F /\ h[j] \in F
        BY <1>11
    <3>3. i \in Nat /\ j \in Nat
        BY ONLY <3>1, i \in 1 .. n, j \in 1 .. n
    <3> QED BY ONLY <3>1, <3>2, <3>3
  <2>2. h[i] = q[i].digest /\ h[j] = q[j].digest
      OBVIOUS
  <2>3. (i < j => q[i].digest < q[j].digest) /\ (j < i => q[j].digest < q[i].digest)
      BY <1>9, <1>10
  <2> HIDE DEF n, F, h
  <2> QED BY <2>1, <2>2, <2>3
<1>13. h \in Surjection(1 .. n, F)
  <2> HIDE DEF n, F
  <2>1. IsFiniteSet(1 .. n) /\ Cardinality(1 .. n) = n
      BY <1>2, FS_Interval
  <2>2. DOMAIN h = 1 .. n
      OBVIOUS
  <2> HIDE DEF h
  <2>3. h \in Injection(1 .. n, F)
      BY <1>11, <1>12, <2>2 DEF Injection, IsInjective
  <2> QED BY <1>6, <2>1, <2>3, FS_Injection
<1>14. ASSUME NEW j \in DOMAIN p
       PROVE  \E i \in DOMAIN q : q[i].digest = p[j].digest
  <2>1. PICK m \in {i \in DOMAIN p : p[i].digest = p[j].digest} :
          \A i \in {x \in DOMAIN p : p[x].digest = p[j].digest} : m <= i
    <3>1. {i \in DOMAIN p : p[i].digest = p[j].digest} \in SUBSET Nat
        BY <1>1
    <3> QED BY <3>1, NatHasLeast
  <2>2. m \in firsts
    <3>1. m \in Nat /\ m \in DOMAIN p /\ p[m].digest = p[j].digest
        BY <1>1
    <3>2. \A i \in 1 .. m - 1 : p[i].digest # p[m].digest
      <4> SUFFICES ASSUME NEW i \in 1 .. m - 1, p[i].digest = p[j].digest PROVE FALSE
          BY <3>1
      <4>1. i \in DOMAIN p /\ ~ m <= i
          BY <1>1, <3>1
      <4> QED BY <2>1, <4>1
    <3> QED BY <3>1, <3>2
  <2>3. p[j].digest \in F
      BY <2>2
  <2>4. PICK k \in 1 .. n : h[k] = p[j].digest
    <3> HIDE DEF h, F, n
    <3> QED BY <1>13, <2>3 DEF Surjection
  <2> QED BY <1>10, <2>4
<1> HIDE DEF n, h, F, firsts, Lines, g
<1> QED BY <1>9, <1>10, <1>14

\* A walk that is over has opened every directory.
LEMMA WalkIsOver ==
    ASSUME LegacyTypes, NothingIsLeft, visit = "walk", stack = <<>>, bases = <<>>
    PROVE  \A e \in EntriesOf(tree) : Settled(imported, DOMAIN tree.directories, e)
<1>1. PICK D \in SUBSET DOMAIN tree.directories : WalkedTo(tree, bases, stack, imported, D)
    BY DEF NothingIsLeft
<1>2. \A x : ~ Waits(stack, x)
    BY DEF Waits
<1>3. \A d \in D : \A e \in tree.directories[d] : Settled(imported, D, e)
    BY <1>1, <1>2 DEF WalkedTo
<1>4. \A i \in DOMAIN tree.bases : tree.bases[i] \in D
  <2>1. Len(tree.bases) \in Nat /\ DOMAIN tree.bases = 1 .. Len(tree.bases) /\ Len(bases) = 0
      BY BasesTyped
  <2>2. 1 .. Len(tree.bases) - Len(bases) = DOMAIN tree.bases
      BY <2>1
  <2> QED BY <1>1, <2>2 DEF WalkedTo
<1>5. \A d \in D : \A e \in tree.directories[d] : e.kind = "dir" /\ e.to # 0 => e.to \in D
    BY <1>3 DEF Settled
<1>6. D = DOMAIN tree.directories
  <2>1. IsTree(tree)
      BY TreeTyped
  <2> QED BY <1>4, <1>5, <2>1 DEF IsTree
<1> QED BY <1>3, <1>6 DEF EntriesOf

Accounts(t, im) ==
    /\ im.skipped = SkippedOf(t) /\ im.invalid = WrongOf(t)
    /\ {im.paths[i] : i \in DOMAIN im.paths} \subseteq SoundOf(t)
    /\ {e.digest : e \in {im.paths[i] : i \in DOMAIN im.paths}} = {e.digest : e \in SoundOf(t)}
    /\ AscendingLines(im.paths)
LEMMA AccountsOfWalk == (visit = "open" => Accounts(tree, imported)) => WalkAccountsForAll
<1> SUFFICES ASSUME visit = "open", Accounts(tree, imported) PROVE WalkAccountsForAll
    BY DEF WalkAccountsForAll
<1> QED BY Zenon DEF Accounts, WalkAccountsForAll, SkippedOf, WrongOf, SoundOf, FilesOf, EntriesOf, AscendingLines

\* SortedOnce, of what was imported.
LEMMA ImportedAccounts ==
    ASSUME LegacyTypes, NothingIsLeft, Imported
    PROVE  /\ WalkAccountsForAll' /\ imported' \in ImportType(tree) /\ AscendingLines(imported'.paths)
           /\ visit' = "open"
<1>1. /\ visit = "walk" /\ stack = <<>> /\ bases = <<>> /\ visit' = "open" /\ tree' = tree
      /\ imported' = [imported EXCEPT !.paths = SortedOnce(imported.paths)]
    BY DEF Imported
<1>2. /\ imported.paths \in Seq(SoundOf(tree)) /\ imported.skipped \in SUBSET SkippedOf(tree)
      /\ imported.invalid \in SUBSET WrongOf(tree)
      /\ imported = [paths |-> imported.paths, skipped |-> imported.skipped, invalid |-> imported.invalid]
    BY BasesTyped DEF ImportType
<1>3. \A e \in EntriesOf(tree) : Settled(imported, DOMAIN tree.directories, e)
    BY <1>1, WalkIsOver
<1>4. \A e \in SoundOf(tree) : e.digest \in Nat
    BY TreeTyped DEF SoundOf, FilesOf, EntriesOf
<1>5. PICK q \in Seq(SoundOf(tree)) :
        /\ q = SortedOnce(imported.paths) /\ AscendingLines(q)
        /\ \A j \in DOMAIN imported.paths : \E i \in DOMAIN q : q[i].digest = imported.paths[j].digest
  <2>1. PICK S, p : S = SoundOf(tree) /\ p = imported.paths
      OBVIOUS
  <2>2. p \in Seq(S) /\ \A x \in S : x.digest \in Nat
      BY <1>2, <1>4, <2>1, Zenon
  <2>3. /\ SortedOnce(p) \in Seq(S) /\ AscendingLines(SortedOnce(p))
        /\ \A j \in DOMAIN p : \E i \in DOMAIN SortedOnce(p) : SortedOnce(p)[i].digest = p[j].digest
      BY ONLY <2>2, SortedOnceFacts
  <2> QED BY <2>1, <2>3, Zenon
<1>6. PICK more : more = imported'
    OBVIOUS
<1>7. /\ more \in ImportType(tree) /\ more.paths = q /\ more.skipped = imported.skipped
      /\ more.invalid = imported.invalid
    BY <1>1, <1>2, <1>5, <1>6 DEF ImportType
<1>8. more.skipped = SkippedOf(tree)
  <2>1. \A x \in SkippedOf(tree) : x \in imported.skipped
      BY <1>3 DEF SkippedOf, FilesOf, Settled
  <2> QED BY <1>2, <1>7, <2>1
<1>9. more.invalid = WrongOf(tree)
  <2>1. \A x \in WrongOf(tree) : x \in imported.invalid
      BY <1>3 DEF WrongOf, FilesOf, Settled
  <2> QED BY <1>2, <1>7, <2>1
<1>10. {q[i] : i \in DOMAIN q} \subseteq SoundOf(tree)
    BY <1>5
<1>11. {e.digest : e \in {q[i] : i \in DOMAIN q}} = {e.digest : e \in SoundOf(tree)}
  <2>1. ASSUME NEW e \in SoundOf(tree) PROVE \E i \in DOMAIN q : q[i].digest = e.digest
    <3>1. e \in EntriesOf(tree) /\ IsLegacyItem(e) /\ e.found = e.digest
        BY DEF SoundOf, FilesOf
    <3>2. PICK j \in DOMAIN imported.paths : imported.paths[j] = e
        BY <1>3, <3>1 DEF Settled
    <3> QED BY <1>5, <3>2
  <2>2. \A i \in DOMAIN q : q[i] \in SoundOf(tree)
      BY <1>10
  <2>3. \A d : (\E i \in DOMAIN q : d = q[i].digest) <=> (\E e \in SoundOf(tree) : d = e.digest)
      BY <2>1, <2>2, Zenon
  <2>4. \A d : d \in {e.digest : e \in {q[i] : i \in DOMAIN q}} <=> \E i \in DOMAIN q : d = q[i].digest
      BY Zenon
  <2>5. \A d : d \in {e.digest : e \in SoundOf(tree)} <=> \E e \in SoundOf(tree) : d = e.digest
      BY Zenon
  <2>6. \A d : d \in {e.digest : e \in {q[i] : i \in DOMAIN q}} <=> d \in {e.digest : e \in SoundOf(tree)}
      BY <2>3, <2>4, <2>5
  <2> QED BY <2>6, Zenon
<1>12. Accounts(tree, more)
    BY <1>5, <1>7, <1>8, <1>9, <1>10, <1>11, ZenonT(30) DEF Accounts
<1>13. WalkAccountsForAll'
  <2>1. (visit = "open" => Accounts(tree, imported))'
      BY <1>1, <1>6, <1>12
  <2> QED BY <2>1, AccountsOfWalk, PTL
<1> QED BY <1>1, <1>5, <1>6, <1>7, <1>13

-----------------------------------------------------------------------------
(* What the writers are given *)

CopyWriter == WriterType(CopyLine)
Tied(w) == w.last_written = IF w.lines = <<>> THEN NoDigest ELSE w.lines[Len(w.lines)].digest

\* A line above all of a writer's.
LEMMA HigherLine ==
    ASSUME NEW v \in CopyWriter, AscendingLines(v.lines), NEW x \in CopyLine,
           \A l \in LinesIn(v) : l.digest < x.digest
    PROVE  /\ Written(v, x) \in CopyWriter /\ Written(v, x).output = v.output
           /\ AscendingLines(Written(v, x).lines) /\ Tied(Written(v, x))
           /\ LinesIn(Written(v, x)) = LinesIn(v) \cup {x}
<1>1. PICK q \in Seq(CopyLine) : q = v.lines
    BY DEF CopyWriter, WriterType
<1>2. x.digest \in Nat
    BY DEF CopyLine
<1>3. PICK p : p = Append(q, x)
    OBVIOUS
<1>4. /\ p \in Seq(CopyLine) /\ p # <<>> /\ Len(p) = Len(q) + 1 /\ p[Len(q) + 1] = x
      /\ \A i \in DOMAIN q : i \in DOMAIN p /\ p[i] = q[i]
      /\ \A i \in DOMAIN p : i \in DOMAIN q \/ i = Len(q) + 1
      /\ Len(q) + 1 \in DOMAIN p
    BY <1>3, Appended
<1>5. PICK u \in CopyWriter : u = Written(v, x) /\ u.lines = p /\ u.last_written = x.digest /\ u.output = v.output
  <2>1. Written(v, x) = [v EXCEPT !.lines = p, !.last_written = x.digest]
      BY <1>1, <1>3 DEF Written
  <2> QED BY <1>2, <1>4, <2>1 DEF CopyWriter, WriterType
<1>6. LinesIn(u) = LinesIn(v) \cup {x}
  <2>1. \A i \in DOMAIN p : p[i] \in {q[j] : j \in DOMAIN q} \cup {x}
      BY <1>4
  <2>2. \A i \in DOMAIN q : q[i] \in {p[j] : j \in DOMAIN p}
      BY <1>4
  <2>3. x \in {p[j] : j \in DOMAIN p}
      BY <1>4
  <2>4. {p[i] : i \in DOMAIN p} = {q[i] : i \in DOMAIN q} \cup {x}
      BY ONLY <2>1, <2>2, <2>3
  <2>5. LinesIn(u) = {p[i] : i \in DOMAIN p} /\ LinesIn(v) = {q[i] : i \in DOMAIN q}
      BY <1>1, <1>5 DEF LinesIn
  <2> QED BY ONLY <2>4, <2>5
<1>7. AscendingLines(p)
  <2> SUFFICES ASSUME NEW i \in DOMAIN p, NEW j \in DOMAIN p, i < j
               PROVE  p[i].digest < p[j].digest
      BY DEF AscendingLines
  <2>1. i \in DOMAIN q
      BY <1>4
  <2>2. CASE j \in DOMAIN q
      BY <1>1, <1>4, <2>1, <2>2 DEF AscendingLines
  <2>3. CASE j = Len(q) + 1
    <3>1. p[i] \in LinesIn(v)
        BY <1>1, <1>4, <2>1 DEF LinesIn
    <3> QED BY <1>4, <2>3, <3>1
  <2> QED BY <1>4, <2>2, <2>3
<1>8. Tied(u)
    BY <1>4, <1>5 DEF Tied
<1> QED BY <1>5, <1>6, <1>7, <1>8

\* A line of an old file that belongs behind a writer's lines.
LEMMA OldLineFollows ==
    ASSUME NEW v \in CopyWriter, AscendingLines(v.lines), Tied(v), NEW x \in OldLine,
           \A l \in LinesIn(v) : l.digest <= x.digest /\ (l.from = "file" => l.digest # x.digest),
           NEW u, u = IF Repeats(v, x.digest) THEN v ELSE Written(v, x)
    PROVE  /\ u \in CopyWriter /\ u.output = v.output
           /\ AscendingLines(u.lines) /\ Tied(u) /\ LinesIn(u) = LinesIn(v) \cup {x}
<1>1. PICK q \in Seq(CopyLine) : q = v.lines
    BY DEF CopyWriter, WriterType
<1>2. x.digest \in Nat \ {0} /\ x \in CopyLine /\ x.from = "input"
    BY DEF OldLine, CopyLine
<1>3. \A i \in DOMAIN q : q[i] \in LinesIn(v) /\ q[i].digest \in Nat /\ q[i] \in CopyLine
  <2> TAKE i \in DOMAIN q
  <2>1. q[i] \in CopyLine
      OBVIOUS
  <2>2. q[i].digest \in Nat
      BY <2>1 DEF CopyLine
  <2>3. q[i] \in LinesIn(v)
      BY <1>1 DEF LinesIn
  <2> QED BY <2>1, <2>2, <2>3
<1>4. CASE Repeats(v, x.digest)
  <2>1. q # <<>> /\ q[Len(q)].digest = x.digest
      BY <1>1, <1>2, <1>4 DEF Repeats, Tied, NoDigest
  <2>2. Len(q) \in DOMAIN q
      BY <2>1
  <2>3. PICK l \in CopyLine : l = q[Len(q)] /\ l \in LinesIn(v)
      BY <1>3, <2>2
  <2>4. l.from = "input" /\ l.digest = x.digest
      BY <2>1, <2>3 DEF CopyLine
  <2>5. l = x
      BY <1>2, <2>4 DEF CopyLine
  <2> QED BY <1>4, <2>3, <2>5
<1>5. CASE ~ Repeats(v, x.digest)
  <2>1. \A l \in LinesIn(v) : l.digest < x.digest
    <3> SUFFICES ASSUME NEW i \in DOMAIN q PROVE q[i].digest < x.digest
        BY <1>1 DEF LinesIn
    <3>1. q # <<>> /\ Len(q) \in DOMAIN q /\ i <= Len(q) /\ i \in Nat /\ Len(q) \in Nat
        OBVIOUS
    <3>2. q[Len(q)].digest # x.digest
        BY <1>1, <1>5, <3>1 DEF Repeats, Tied
    <3>3. PICK m \in Nat, n \in Nat, k \in Nat : m = q[i].digest /\ n = q[Len(q)].digest /\ k = x.digest
        BY <1>2, <1>3, <3>1
    <3>4. n < k
        BY <1>3, <3>1, <3>2, <3>3
    <3>5. i < Len(q) => m < n
        BY <1>1, <3>1, <3>3 DEF AscendingLines
    <3>6. i = Len(q) => m = n
        BY <3>3
    <3> QED BY <3>1, <3>3, <3>4, <3>5, <3>6
  <2> QED BY <1>2, <1>5, <2>1, HigherLine
<1> QED BY <1>4, <1>5

LEMMA WrittenSteps ==
    ASSUME NEW w \in CopyWriter, NEW q \in Seq(OldLine)
    PROVE  \E after \in [0 .. Len(q) -> CopyWriter] :
             /\ after[0] = w /\ WrittenAll(w, q) = after[Len(q)]
             /\ \A n \in 1 .. Len(q) : after[n] =
                  IF Repeats(after[n - 1], q[n].digest) THEN after[n - 1] ELSE Written(after[n - 1], q[n])
<1> DEFINE N == Len(q)
           Body(v, n) == IF Repeats(v, q[n].digest) THEN v ELSE Written(v, q[n])
           G == [p \in Nat \X CopyWriter |-> IF p[1] \in 1 .. N THEN Body(p[2], p[1]) ELSE p[2]]
<1>1. \A n \in 1 .. N, v \in CopyWriter : Body(v, n) \in CopyWriter
  <2> TAKE n \in 1 .. N, v \in CopyWriter
  <2>1. PICK x \in CopyLine : x = q[n] /\ x.digest \in Nat
    <3>1. q[n] \in OldLine
        OBVIOUS
    <3> QED BY <3>1 DEF OldLine, CopyLine
  <2>2. Append(v.lines, x) \in Seq(CopyLine)
    <3>1. v.lines \in Seq(CopyLine)
        BY DEF CopyWriter, WriterType
    <3> QED BY <3>1
  <2>3. [v EXCEPT !.lines = Append(v.lines, x), !.last_written = x.digest] \in CopyWriter
      BY <2>1, <2>2 DEF CopyWriter, WriterType
  <2> QED BY <2>1, <2>3 DEF Written
<1> HIDE DEF Body
<1>2. G \in [Nat \X CopyWriter -> CopyWriter]
    BY <1>1
<1>3. N \in Nat
    OBVIOUS
<1>4. \A n \in 1 .. N, v \in CopyWriter : G[<<n, v>>] = Body(v, n)
    OBVIOUS
<1> HIDE DEF G, N
<1>5. PICK f \in [0 .. N -> CopyWriter] : f[0] = w /\ Steps(f, G, N)
    BY <1>2, <1>3, StepsExist
<1>6. f = [n \in 0 .. N |-> IF n = 0 THEN w ELSE Body(f[n - 1], n)]
  <2>1. ASSUME NEW n \in 0 .. N
        PROVE  f[n] = IF n = 0 THEN w ELSE Body(f[n - 1], n)
    <3>1. CASE n = 0
        BY <3>1, <1>5
    <3>2. CASE n # 0
      <4>1. n \in 1 .. N /\ n - 1 \in 0 .. N
          BY <1>3, <3>2
      <4> QED BY <4>1, <3>2, <1>4, <1>5 DEF Steps
    <3> QED BY <3>1, <3>2
  <2> QED BY <2>1
<1> DEFINE after == CHOOSE g : g = [n \in 0 .. N |-> IF n = 0 THEN w ELSE Body(g[n - 1], n)]
<1>7. after = [n \in 0 .. N |-> IF n = 0 THEN w ELSE Body(after[n - 1], n)]
    BY <1>6
<1>8. WrittenAll(w, q) = after[N]
  <2>1. WrittenAll(w, q) =
          (CHOOSE g : g = [n \in 0 .. N |-> IF n = 0 THEN w
                                            ELSE IF Repeats(g[n - 1], q[n].digest) THEN g[n - 1]
                                            ELSE Written(g[n - 1], q[n])])[N]
      BY DEF WrittenAll, N
  <2> QED BY <2>1 DEF Body
<1> HIDE DEF after
<1>9. after[0] = w /\ \A n \in 1 .. N : after[n] = Body(after[n - 1], n)
    BY <1>3, <1>7
<1>10. \A n \in 0 .. N : after[n] \in CopyWriter
  <2> DEFINE T == {n \in Nat : n <= N => after[n] \in CopyWriter}
  <2>1. 0 \in T
      BY <1>9
  <2>2. ASSUME NEW n \in Nat, n \in T PROVE n + 1 \in T
    <3> SUFFICES ASSUME n + 1 <= N PROVE after[n + 1] \in CopyWriter
        OBVIOUS
    <3>1. after[n] \in CopyWriter
        BY <2>2, <1>3
    <3>2. n + 1 \in 1 .. N /\ (n + 1) - 1 = n
        BY <1>3
    <3> QED BY <3>1, <3>2, <1>1, <1>9
  <2> HIDE DEF T
  <2>3. Nat \subseteq T
      BY <2>1, <2>2, NatFromZero
  <2> QED BY <2>3, <1>3 DEF T
<1>11. after \in [0 .. N -> CopyWriter]
    BY <1>7, <1>10
<1> QED BY <1>8, <1>9, <1>11 DEF Body, N

\* Lines of an old file, sorted, that belong behind a writer's.
LEMMA WrittenAllFacts ==
    ASSUME NEW w \in CopyWriter, NEW q \in Seq(OldLine), AscendingLines(w.lines), Tied(w),
           \A l \in LinesIn(w) : \A k \in DOMAIN q :
             l.digest <= q[k].digest /\ (l.from = "file" => l.digest # q[k].digest),
           \A i, j \in DOMAIN q : i < j => q[i].digest <= q[j].digest
    PROVE  /\ WrittenAll(w, q) \in CopyWriter /\ WrittenAll(w, q).output = w.output
           /\ AscendingLines(WrittenAll(w, q).lines) /\ Tied(WrittenAll(w, q))
           /\ LinesIn(WrittenAll(w, q)) = LinesIn(w) \cup {q[k] : k \in DOMAIN q}
<1> DEFINE N == Len(q)
<1>1. PICK after \in [0 .. N -> CopyWriter] :
        /\ after[0] = w /\ WrittenAll(w, q) = after[N]
        /\ \A n \in 1 .. N : after[n] =
             IF Repeats(after[n - 1], q[n].digest) THEN after[n - 1] ELSE Written(after[n - 1], q[n])
    BY WrittenSteps
<1>2. N \in Nat /\ DOMAIN q = 1 .. N /\ \A k \in 1 .. N : q[k] \in OldLine
    OBVIOUS
<1> DEFINE Done(n) == /\ after[n].output = w.output /\ AscendingLines(after[n].lines) /\ Tied(after[n])
                      /\ LinesIn(after[n]) = LinesIn(w) \cup {q[k] : k \in 1 .. n}
           T == {n \in Nat : n <= N => Done(n)}
<1> HIDE DEF N
<1>3. 0 \in T
  <2>1. {q[k] : k \in 1 .. 0} = {}
      OBVIOUS
  <2> QED BY <1>1, <2>1
<1>4. ASSUME NEW n \in Nat, n \in T PROVE n + 1 \in T
  <2> SUFFICES ASSUME n + 1 <= N PROVE Done(n + 1)
      OBVIOUS
  <2>1. n + 1 \in 1 .. N /\ (n + 1) - 1 = n /\ n \in 0 .. N
      BY <1>2
  <2>2. Done(n)
      BY <1>4, <2>1
  <2>3. PICK x \in OldLine : x = q[n + 1]
      BY <1>2, <2>1
  <2>4. PICK v \in CopyWriter : v = after[n]
      BY <2>1
  <2>5. PICK u : u = after[n + 1]
      OBVIOUS
  <2>6. u = IF Repeats(v, x.digest) THEN v ELSE Written(v, x)
    <3>1. after[n + 1] = IF Repeats(after[(n + 1) - 1], q[n + 1].digest) THEN after[(n + 1) - 1]
                         ELSE Written(after[(n + 1) - 1], q[n + 1])
        BY <1>1, <2>1
    <3> QED BY <2>1, <2>3, <2>4, <2>5, <3>1
  <2>7. \A l \in LinesIn(v) : l.digest <= x.digest /\ (l.from = "file" => l.digest # x.digest)
    <3> TAKE l \in LinesIn(v)
    <3>1. CASE l \in LinesIn(w)
        BY <1>2, <2>1, <2>3, <3>1
    <3>2. CASE l \in {q[k] : k \in 1 .. n}
      <4>1. PICK k \in 1 .. n : l = q[k]
          BY <3>2
      <4>2. k \in DOMAIN q /\ n + 1 \in DOMAIN q /\ k < n + 1
          BY <1>2, <2>1
      <4>3. l.digest <= x.digest /\ l \in OldLine
          BY <1>2, <2>3, <4>1, <4>2
      <4> QED BY <4>3 DEF OldLine
    <3> QED BY <2>2, <2>4, <3>1, <3>2
  <2>8. AscendingLines(v.lines) /\ Tied(v) /\ v.output = w.output
        /\ LinesIn(v) = LinesIn(w) \cup {q[k] : k \in 1 .. n}
      BY <2>2, <2>4
  <2>9. /\ u.output = v.output /\ AscendingLines(u.lines) /\ Tied(u) /\ LinesIn(u) = LinesIn(v) \cup {x}
    <3>1. v \in CopyWriter /\ x \in OldLine /\ AscendingLines(v.lines) /\ Tied(v)
        BY <2>8
    <3> QED BY ONLY <3>1, <2>6, <2>7, OldLineFollows
  <2>10. {q[k] : k \in 1 .. n + 1} = {q[k] : k \in 1 .. n} \cup {x}
    <3>1. \A k \in 1 .. n + 1 : k \in 1 .. n \/ k = n + 1
        OBVIOUS
    <3>2. n + 1 \in 1 .. n + 1 /\ \A k \in 1 .. n : k \in 1 .. n + 1
        OBVIOUS
    <3> QED BY <2>3, <3>1, <3>2
  <2> QED BY <2>5, <2>8, <2>9, <2>10
<1>5. Done(N)
  <2> HIDE DEF T, Done
  <2>1. N \in T
      BY <1>2, <1>3, <1>4, NatFromZero
  <2> QED BY <1>2, <2>1 DEF T
<1>6. after[N] \in CopyWriter
    BY <1>2
<1> QED BY <1>1, <1>2, <1>5, <1>6

\* A writer's output is opened and finished elsewhere.
LEMMA WrittenAllStaysOpen ==
    ASSUME NEW w \in CopyWriter, NEW q \in Seq(OldLine)
    PROVE  WrittenAll(w, q) \in CopyWriter /\ WrittenAll(w, q).output = w.output
<1> DEFINE N == Len(q)
<1>1. PICK after \in [0 .. N -> CopyWriter] :
        /\ after[0] = w /\ WrittenAll(w, q) = after[N]
        /\ \A n \in 1 .. N : after[n] =
             IF Repeats(after[n - 1], q[n].digest) THEN after[n - 1] ELSE Written(after[n - 1], q[n])
    BY WrittenSteps
<1>2. N \in Nat
    OBVIOUS
<1> DEFINE T == {n \in Nat : n <= N => after[n].output = w.output}
<1> HIDE DEF N
<1>3. 0 \in T
    BY <1>1
<1>4. ASSUME NEW n \in Nat, n \in T PROVE n + 1 \in T
  <2> SUFFICES ASSUME n + 1 <= N PROVE after[n + 1].output = w.output
      OBVIOUS
  <2>1. n + 1 \in 1 .. N /\ (n + 1) - 1 = n /\ n \in 0 .. N
      BY <1>2
  <2>2. PICK v \in CopyWriter : v = after[n] /\ v.output = w.output
      BY <1>4, <2>1
  <2>3. after[n + 1] = IF Repeats(v, q[n + 1].digest) THEN v ELSE Written(v, q[n + 1])
    <3>1. after[n + 1] = IF Repeats(after[(n + 1) - 1], q[n + 1].digest) THEN after[(n + 1) - 1]
                         ELSE Written(after[(n + 1) - 1], q[n + 1])
        BY <1>1, <2>1
    <3> QED BY <2>1, <2>2, <3>1
  <2>4. Written(v, q[n + 1]).output = v.output
      BY DEF Written, CopyWriter, WriterType
  <2> QED BY <2>2, <2>3, <2>4
<1>5. N \in T
  <2> HIDE DEF T
  <2> QED BY <1>2, <1>3, <1>4, NatFromZero
<1> QED BY <1>1, <1>2, <1>5

-----------------------------------------------------------------------------
(* What is read of the old files *)

ElementsOf(q) == {q[k] : k \in DOMAIN q}

\* r is cut behind its first c lines.
IsCut(r, c, q, s) ==
    /\ Len(q) = c /\ \A k \in 1 .. c : q[k] = r[k]
    /\ Len(s) = Len(r) - c /\ \A k \in 1 .. Len(r) - c : s[k] = r[c + k]

LEMMA CutExists ==
    ASSUME NEW S, NEW r \in Seq(S), NEW c \in 0 .. Len(r)
    PROVE  \E q \in Seq(S), s \in Seq(S) :
             q = SubSeq(r, 1, c) /\ s = SubSeq(r, c + 1, Len(r)) /\ IsCut(r, c, q, s)
<1>0. Len(r) \in Nat /\ c \in Nat /\ c <= Len(r)
    OBVIOUS
<1>1. SubSeq(r, 1, c) \in Seq(S) /\ Len(SubSeq(r, 1, c)) = c /\ \A k \in 1 .. c : SubSeq(r, 1, c)[k] = r[k]
    BY <1>0
<1>2. /\ SubSeq(r, c + 1, Len(r)) \in Seq(S) /\ Len(SubSeq(r, c + 1, Len(r))) = Len(r) - c
      /\ \A k \in 1 .. Len(r) - c : SubSeq(r, c + 1, Len(r))[k] = r[c + k]
  <2>1. c + 1 \in 1 .. Len(r) + 1
      BY <1>0
  <2> QED BY <1>0, <2>1
<1>3. PICK q \in Seq(S) : q = SubSeq(r, 1, c) /\ Len(q) = c /\ \A k \in 1 .. c : q[k] = r[k]
    BY <1>1
<1>4. PICK s \in Seq(S) : /\ s = SubSeq(r, c + 1, Len(r)) /\ Len(s) = Len(r) - c
                         /\ \A k \in 1 .. Len(r) - c : s[k] = r[c + k]
    BY <1>2
<1>5. IsCut(r, c, q, s)
    BY <1>3, <1>4 DEF IsCut
<1> QED BY <1>3, <1>4, <1>5, Zenon

\* The first c lines of what is left of a file are read.
LEMMA ReadOn ==
    ASSUME NEW S, NEW g \in Seq(S), NEW r \in Seq(S), RestOf(g, r), NEW c \in 0 .. Len(r),
           NEW q \in Seq(S), NEW s \in Seq(S), IsCut(r, c, q, s)
    PROVE  /\ RestOf(g, s)
           /\ DOMAIN q = 1 .. c /\ \A k \in DOMAIN q : k \in DOMAIN r /\ q[k] = r[k]
           /\ \A k \in DOMAIN s : k \in Nat \ {0} /\ c + k \in DOMAIN r /\ s[k] = r[c + k]
           /\ \A i \in 1 .. Len(g) - Len(s) :
                i \in 1 .. Len(g) - Len(r) \/ \E k \in DOMAIN q : g[i] = q[k]
           /\ ReadOf(g, s) = ReadOf(g, r) \cup ElementsOf(q)
<1>0. /\ Len(g) \in Nat /\ Len(r) \in Nat /\ Len(r) <= Len(g) /\ c \in Nat /\ c <= Len(r)
      /\ \A k \in DOMAIN r : r[k] = g[Len(g) - Len(r) + k]
    BY DEF RestOf
<1>1. PICK m \in Nat, n \in Nat : m = Len(g) /\ n = Len(r) /\ n <= m /\ c \in Nat /\ c <= n
    BY ONLY <1>0
<1>2. DOMAIN q = 1 .. c /\ \A k \in DOMAIN q : k \in DOMAIN r /\ q[k] = r[k]
    BY <1>1 DEF IsCut
<1>3. /\ Len(s) = n - c
      /\ \A k \in DOMAIN s : k \in Nat \ {0} /\ c + k \in DOMAIN r /\ s[k] = r[c + k]
    BY <1>1 DEF IsCut
<1>4. \A k \in DOMAIN r : r[k] = g[m - n + k]
    BY <1>0, <1>1
<1>5. RestOf(g, s)
  <2>1. n - c <= m
      BY <1>1
  <2>2. ASSUME NEW k \in DOMAIN s PROVE s[k] = g[m - (n - c) + k]
    <3>1. s[k] = g[m - n + (c + k)] /\ k \in Nat
        BY <1>3, <1>4
    <3>2. m - n + (c + k) = m - (n - c) + k
        BY <1>1, <3>1
    <3> QED BY <3>1, <3>2
  <2> QED BY <1>1, <1>3, <2>1, <2>2 DEF RestOf
<1>6. ASSUME NEW i \in 1 .. m - (n - c)
      PROVE  i \in 1 .. m - n \/ \E k \in DOMAIN q : g[i] = q[k]
  <2>1. ASSUME i \notin 1 .. m - n PROVE \E k \in DOMAIN q : g[i] = q[k]
    <3>1. PICK k \in 1 .. c : i = m - n + k
      <4>1. i - (m - n) \in 1 .. c /\ i = m - n + (i - (m - n))
          BY <1>1, <2>1
      <4> QED BY <4>1
    <3>2. k \in DOMAIN q
        BY <1>2
    <3>3. q[k] = g[m - n + k]
        BY <1>2, <1>4, <3>2
    <3> QED BY <3>1, <3>2, <3>3
  <2> QED BY <2>1
<1>7. /\ \A i \in 1 .. m - n : i \in 1 .. m - (n - c)
      /\ \A k \in 1 .. c : m - n + k \in 1 .. m - (n - c)
    BY <1>1
<1>8. ReadOf(g, s) = ReadOf(g, r) \cup ElementsOf(q)
  <2>1. ReadOf(g, s) = {g[i] : i \in 1 .. m - (n - c)} /\ ReadOf(g, r) = {g[i] : i \in 1 .. m - n}
      BY <1>1, <1>3 DEF ReadOf
  <2>2. \A k \in DOMAIN q : q[k] = g[m - n + k]
      BY <1>2, <1>4
  <2>3. \A k \in DOMAIN q : m - n + k \in 1 .. m - (n - c)
      BY <1>2, <1>7
  <2>4. {g[i] : i \in 1 .. m - (n - c)} \subseteq {g[i] : i \in 1 .. m - n} \cup ElementsOf(q)
      BY <1>6 DEF ElementsOf
  <2>5. {g[i] : i \in 1 .. m - n} \subseteq {g[i] : i \in 1 .. m - (n - c)}
      BY <1>7
  <2>6. {q[k] : k \in DOMAIN q} \subseteq {g[i] : i \in 1 .. m - (n - c)}
    <3>1. \A k \in DOMAIN q : q[k] \in {g[i] : i \in 1 .. m - (n - c)}
        BY <2>2, <2>3
    <3> QED BY ONLY <3>1
  <2> QED BY <2>1, <2>4, <2>5, <2>6, Zenon DEF ElementsOf
<1> QED BY <1>1, <1>2, <1>3, <1>5, <1>6, <1>8


\* copy_through stops behind the digest itself, or before the first line above it or not readable.
LEMMA CopiedStops ==
    ASSUME NEW r \in Seq(OldLine \cup {BadLine}), NEW d \in Nat
    PROVE  /\ Copied(r, d) \in 0 .. Len(r)
           /\ \A i \in 1 .. Copied(r, d) : r[i] # BadLine /\ r[i].digest <= d
           /\ \A i \in 1 .. Copied(r, d) : i < Copied(r, d) => r[i].digest # d
           /\ Copied(r, d) < Len(r) =>
                \/ r[Copied(r, d) + 1] = BadLine
                \/ ~ (r[Copied(r, d) + 1].digest <= d)
                \/ Copied(r, d) > 0 /\ r[Copied(r, d)].digest = d
<1> DEFINE Goes(n) == \A i \in 1 .. n : r[i] # BadLine /\ r[i].digest <= d /\ (i < n => r[i].digest # d)
           goes == {n \in 0 .. Len(r) : Goes(n)}
<1>1. PICK N \in Nat : N = Len(r)
    OBVIOUS
<1>2. 0 \in goes
    BY <1>1
<1>3. \E n \in goes : \A m \in goes : m <= n
  <2> HIDE DEF Goes
  <2>1. IsFiniteSet(goes)
    <3>1. IsFiniteSet(0 .. Len(r))
        BY <1>1, FS_Interval
    <3> QED BY <3>1, FS_Subset
  <2>2. goes \in SUBSET Int
      BY <1>1
  <2> HIDE DEF goes
  <2> QED BY <1>2, <2>1, <2>2, FiniteHasEnds
<1>4. PICK c : c = Copied(r, d)
    OBVIOUS
<1>5. c \in goes /\ \A m \in goes : m <= c
    BY <1>3, <1>4 DEF Copied
<1>6. ASSUME c < Len(r)
      PROVE  r[c + 1] = BadLine \/ ~ (r[c + 1].digest <= d) \/ (c > 0 /\ r[c].digest = d)
  <2>1. c + 1 \in 0 .. Len(r) /\ ~ (c + 1 <= c) /\ c \in Nat
      BY <1>1, <1>5, <1>6
  <2>2. ~ Goes(c + 1)
      BY <1>5, <2>1
  <2>3. PICK i \in 1 .. c + 1 : ~ (r[i] # BadLine /\ r[i].digest <= d /\ (i < c + 1 => r[i].digest # d))
      BY <2>2
  <2>4. CASE i = c + 1
      BY <2>1, <2>3, <2>4
  <2>5. CASE i # c + 1
    <3>1. i \in 1 .. c /\ i < c + 1 /\ c > 0
        BY <2>1, <2>5
    <3>2. r[i] # BadLine /\ r[i].digest <= d /\ (i < c => r[i].digest # d)
        BY <1>5, <3>1
    <3>3. r[i].digest = d /\ ~ (i < c)
        BY <2>3, <3>1, <3>2
    <3>4. i = c
        BY <2>1, <3>1, <3>3
    <3> QED BY <3>1, <3>3, <3>4
  <2> QED BY <2>4, <2>5
<1> QED BY <1>1, <1>4, <1>5, <1>6


SortedFile(g) == \A i, j \in DOMAIN g : i < j => g[i].digest <= g[j].digest

LEMMA RestIsSorted ==
    ASSUME NEW g \in Seq(OldLine), SortedFile(g), NEW r \in Seq(OldLine), RestOf(g, r)
    PROVE  /\ SortedFile(r)
           /\ \A k \in DOMAIN r : \E i \in DOMAIN g : g[i] = r[k]
<1>0. /\ Len(g) \in Nat /\ Len(r) \in Nat /\ Len(r) <= Len(g)
      /\ \A k \in DOMAIN r : r[k] = g[Len(g) - Len(r) + k]
    BY DEF RestOf
<1>1. PICK m \in Nat, n \in Nat : m = Len(g) /\ n = Len(r) /\ n <= m
    BY ONLY <1>0
<1>2. \A k \in DOMAIN r : m - n + k \in DOMAIN g /\ r[k] = g[m - n + k] /\ k \in Nat
    BY <1>0, <1>1
<1>3. ASSUME NEW i \in DOMAIN r, NEW j \in DOMAIN r, i < j PROVE r[i].digest <= r[j].digest
  <2>1. m - n + i < m - n + j
      BY <1>1, <1>2, <1>3
  <2> QED BY <1>2, <2>1 DEF SortedFile
<1> QED BY <1>2, <1>3 DEF SortedFile

\* A writer is given the next lines of its file.
LEMMA CopyGoesOn ==
    ASSUME NEW g \in Seq(OldLine), SortedFile(g), NEW r \in Seq(OldLine), RestOf(g, r),
           NEW c \in 0 .. Len(r), NEW q \in Seq(OldLine), NEW s \in Seq(OldLine), IsCut(r, c, q, s),
           NEW w \in CopyWriter, Copies(w, g, r),
           \A l \in LinesIn(w) : l.from = "file" => \A i \in DOMAIN g : g[i].digest # l.digest,
           NEW u, u = WrittenAll(w, q)
    PROVE  /\ u \in CopyWriter /\ u.output = w.output /\ Copies(u, g, s)
           /\ LinesIn(u) = LinesIn(w) \cup ElementsOf(q)
           /\ \A l \in LinesIn(u) : l.from = "file" => l \in LinesIn(w)
<1>1. /\ DOMAIN q = 1 .. c /\ \A k \in DOMAIN q : k \in DOMAIN r /\ q[k] = r[k]
      /\ \A k \in DOMAIN s : k \in Nat \ {0} /\ c + k \in DOMAIN r /\ s[k] = r[c + k]
      /\ ReadOf(g, s) = ReadOf(g, r) \cup ElementsOf(q)
    BY ReadOn
<1>2. /\ SortedFile(r) /\ \A k \in DOMAIN r : \E i \in DOMAIN g : g[i] = r[k]
    BY RestIsSorted
<1>3. \A l \in LinesIn(w), k \in DOMAIN q :
        l.digest <= q[k].digest /\ (l.from = "file" => l.digest # q[k].digest)
  <2> TAKE l \in LinesIn(w), k \in DOMAIN q
  <2>1. k \in DOMAIN r /\ q[k] = r[k]
      BY <1>1
  <2>2. l.digest <= r[k].digest
      BY <2>1 DEF Copies
  <2>3. PICK i \in DOMAIN g : g[i] = r[k]
      BY <1>2, <2>1
  <2> QED BY <2>1, <2>2, <2>3
<1>4. \A i, j \in DOMAIN q : i < j => q[i].digest <= q[j].digest
    BY <1>1, <1>2 DEF SortedFile
<1>5. AscendingLines(w.lines) /\ Tied(w)
    BY DEF Copies, Tied
<1>6. /\ u \in CopyWriter /\ u.output = w.output /\ AscendingLines(u.lines) /\ Tied(u)
      /\ LinesIn(u) = LinesIn(w) \cup ElementsOf(q)
    BY <1>1, <1>3, <1>4, <1>5, WrittenAllFacts DEF ElementsOf
<1>7. \A k \in DOMAIN q : q[k] \in OldLine /\ q[k].from = "input"
  <2>1. \A k \in DOMAIN q : q[k] \in OldLine
      OBVIOUS
  <2>2. \A x \in OldLine : x.from = "input"
      BY DEF OldLine
  <2> QED BY <2>1, <2>2
<1>8. {l \in LinesIn(u) : l.from = "input"} = ReadOf(g, s)
  <2>1. {l \in LinesIn(w) : l.from = "input"} = ReadOf(g, r)
      BY DEF Copies
  <2> QED BY <1>1, <1>6, <1>7, <2>1 DEF ElementsOf
<1>9. \A l \in LinesIn(u), k \in DOMAIN s : l.digest <= s[k].digest
  <2> TAKE l \in LinesIn(u), k \in DOMAIN s
  <2>1. k \in Nat \ {0} /\ c + k \in DOMAIN r /\ s[k] = r[c + k]
      BY <1>1
  <2>2. CASE l \in LinesIn(w)
      BY <2>1, <2>2 DEF Copies
  <2>3. CASE l \in ElementsOf(q)
    <3>1. PICK j \in DOMAIN q : l = q[j]
        BY <2>3 DEF ElementsOf
    <3>2. j \in DOMAIN r /\ q[j] = r[j] /\ j < c + k
        BY <1>1, <2>1, <3>1
    <3> QED BY <1>2, <2>1, <3>1, <3>2 DEF SortedFile
  <2> QED BY <1>6, <2>2, <2>3
<1>10. Copies(u, g, s)
    BY <1>6, <1>8, <1>9 DEF Copies, Tied
<1>11. \A l \in LinesIn(u) : l.from = "file" => l \in LinesIn(w)
    BY <1>6, <1>7 DEF ElementsOf
<1> QED BY <1>6, <1>10, <1>11

\* The line of a file found is given to a writer whose lines, and what follows, are on either side.
LEMMA FileIsAdded ==
    ASSUME NEW g, NEW s, NEW v \in CopyWriter, Copies(v, g, s), NEW d \in Nat \ {0},
           \A l \in LinesIn(v) : l.digest < d, \A k \in DOMAIN s : d <= s[k].digest,
           NEW u, u = IF Repeats(v, d) THEN v ELSE Written(v, NewLine(d))
    PROVE  /\ u \in CopyWriter /\ u.output = v.output /\ Copies(u, g, s)
           /\ LinesIn(u) = LinesIn(v) \cup {NewLine(d)}
<1>1. PICK x \in CopyLine : x = NewLine(d) /\ x.digest = d /\ x.from = "file"
    BY DEF NewLine, CopyLine
<1>2. ~ Repeats(v, d)
  <2>1. PICK q \in Seq(CopyLine) : q = v.lines
      BY DEF CopyWriter, WriterType
  <2>2. v.last_written = IF q = <<>> THEN NoDigest ELSE q[Len(q)].digest
      BY <2>1 DEF Copies
  <2>3. CASE q = <<>>
      BY <2>2, <2>3 DEF Repeats, NoDigest
  <2>4. CASE q # <<>>
    <3>1. Len(q) \in DOMAIN q
        BY <2>4
    <3>2. q[Len(q)] \in LinesIn(v)
        BY <2>1, <3>1 DEF LinesIn
    <3>3. PICK n \in Nat : n = q[Len(q)].digest
      <4>1. q[Len(q)] \in CopyLine
          BY <2>1, <3>1
      <4> QED BY <4>1 DEF CopyLine
    <3>4. n < d
        BY <3>2, <3>3
    <3> QED BY <2>2, <2>4, <3>3, <3>4 DEF Repeats
  <2> QED BY <2>3, <2>4
<1>3. u = Written(v, x)
    BY <1>1, <1>2
<1>4. /\ u \in CopyWriter /\ u.output = v.output /\ AscendingLines(u.lines) /\ Tied(u)
      /\ LinesIn(u) = LinesIn(v) \cup {x}
    BY <1>1, <1>3, HigherLine DEF Copies
<1>5. {l \in LinesIn(u) : l.from = "input"} = {l \in LinesIn(v) : l.from = "input"}
    BY <1>1, <1>4
<1>6. \A l \in LinesIn(u), k \in DOMAIN s : l.digest <= s[k].digest
    BY <1>1, <1>4 DEF Copies
<1> QED BY <1>1, <1>4, <1>5, <1>6 DEF Copies, Tied


\* Both files are copied up to the digest of a file found.
LEMMA UpToDigest ==
    ASSUME NEW g \in Seq(OldLine), SortedFile(g), NEW r \in Seq(OldLine), RestOf(g, r), NEW d \in Nat \ {0},
           NEW c, c = Copied(r, d), NEW q \in Seq(OldLine), NEW s \in Seq(OldLine), IsCut(r, c, q, s),
           NEW w \in CopyWriter, Copies(w, g, r),
           \A l \in LinesIn(w) : l.from = "file" => \A i \in DOMAIN g : g[i].digest # l.digest,
           \A l \in LinesIn(w) : l.digest < d,
           NEW u, u = WrittenAll(w, q)
    PROVE  /\ u \in CopyWriter /\ Copies(u, g, s)
           /\ \A l \in LinesIn(u) : l.from = "file" => l \in LinesIn(w)
           /\ \A l \in LinesIn(u) : l.digest <= d
           /\ ~ Present(r, d) => /\ \A l \in LinesIn(u) : l.digest < d
                                 /\ \A k \in DOMAIN s : d < s[k].digest
                                 /\ \A i \in DOMAIN g : g[i].digest # d
<1>1. /\ c \in 0 .. Len(r) /\ Len(r) \in Nat
      /\ \A i \in 1 .. c : r[i].digest <= d
      /\ \A i \in 1 .. c : i < c => r[i].digest # d
      /\ c < Len(r) => r[c + 1] = BadLine \/ ~ (r[c + 1].digest <= d) \/ (c > 0 /\ r[c].digest = d)
  <2>1. r \in Seq(OldLine \cup {BadLine})
    <3>1. OldLine \subseteq OldLine \cup {BadLine}
        OBVIOUS
    <3> QED BY ONLY <3>1, r \in Seq(OldLine), SeqWidens
  <2>2. d \in Nat /\ Len(r) \in Nat
      OBVIOUS
  <2>3. /\ Copied(r, d) \in 0 .. Len(r)
        /\ \A i \in 1 .. Copied(r, d) : r[i] # BadLine /\ r[i].digest <= d
        /\ \A i \in 1 .. Copied(r, d) : i < Copied(r, d) => r[i].digest # d
        /\ Copied(r, d) < Len(r) =>
             \/ r[Copied(r, d) + 1] = BadLine
             \/ ~ (r[Copied(r, d) + 1].digest <= d)
             \/ Copied(r, d) > 0 /\ r[Copied(r, d)].digest = d
      BY ONLY <2>1, <2>2, CopiedStops
  <2> QED BY <2>2, <2>3
<1>2. /\ DOMAIN q = 1 .. c /\ \A k \in DOMAIN q : q[k] = r[k] /\ k \in DOMAIN r /\ k \in 1 .. c
      /\ \A k \in DOMAIN s : k \in Nat \ {0} /\ c + k \in DOMAIN r /\ s[k] = r[c + k]
      /\ \A i \in 1 .. Len(g) - Len(s) : i \in 1 .. Len(g) - Len(r) \/ \E k \in DOMAIN q : g[i] = q[k]
      /\ RestOf(g, s) /\ ReadOf(g, s) = ReadOf(g, r) \cup ElementsOf(q)
    BY <1>1, ReadOn
<1>3. /\ u \in CopyWriter /\ Copies(u, g, s) /\ LinesIn(u) = LinesIn(w) \cup ElementsOf(q)
      /\ \A l \in LinesIn(u) : l.from = "file" => l \in LinesIn(w)
    BY <1>1, CopyGoesOn
<1>4. /\ SortedFile(r) /\ \A k \in DOMAIN r : r[k] \in OldLine
    BY RestIsSorted
<1>5. \A k \in DOMAIN r : r[k].digest \in Nat /\ r[k] # BadLine
  <2>1. \A x \in OldLine : x.digest \in Nat /\ x # BadLine
      BY LegacyAssumption DEF OldLine
  <2> QED BY <1>4, <2>1
<1>6. \A l \in LinesIn(w) : l.digest \in Nat
  <2>1. PICK p \in Seq(CopyLine) : p = w.lines
      BY DEF CopyWriter, WriterType
  <2>2. \A i \in DOMAIN p : p[i] \in CopyLine
      OBVIOUS
  <2>3. \A x \in CopyLine : x.digest \in Nat
      BY DEF CopyLine
  <2> QED BY <2>1, <2>2, <2>3 DEF LinesIn
<1>7. \A l \in LinesIn(u) : l.digest <= d
  <2> TAKE l \in LinesIn(u)
  <2>1. CASE l \in LinesIn(w)
      BY <1>6, <2>1
  <2>2. CASE l \in ElementsOf(q)
      BY <1>1, <1>2, <2>2 DEF ElementsOf
  <2> QED BY <1>3, <2>1, <2>2
<1>8. ASSUME ~ Present(r, d)
      PROVE  /\ \A l \in LinesIn(u) : l.digest < d
             /\ \A k \in DOMAIN s : d < s[k].digest
             /\ \A i \in DOMAIN g : g[i].digest # d
  <2>1. c > 0 => r[c].digest # d
      BY <1>8 DEF Present
  <2>2. \A k \in 1 .. c : r[k].digest # d
    <3> TAKE k \in 1 .. c
    <3>1. k < c \/ (k = c /\ c > 0)
        BY <1>1
    <3> QED BY <1>1, <2>1, <3>1
  <2>3. \A l \in LinesIn(u) : l.digest < d
    <3> TAKE l \in LinesIn(u)
    <3>1. CASE l \in LinesIn(w)
        BY <3>1
    <3>2. CASE l \in ElementsOf(q)
      <4>1. PICK k \in DOMAIN q : l = q[k]
          BY <3>2 DEF ElementsOf
      <4>2. l.digest = r[k].digest /\ r[k].digest <= d /\ r[k].digest # d /\ r[k].digest \in Nat
          BY <1>1, <1>2, <1>5, <2>2, <4>1
      <4> QED BY <4>2
    <3> QED BY <1>3, <3>1, <3>2
  <2>4. \A k \in DOMAIN s : d < s[k].digest
    <3> TAKE k \in DOMAIN s
    <3>1. k \in Nat \ {0} /\ c + k \in DOMAIN r /\ s[k] = r[c + k]
        BY <1>2
    <3>2. c < Len(r) /\ c + 1 \in DOMAIN r /\ (c + 1 = c + k \/ c + 1 < c + k)
        BY <1>1, <3>1
    <3>3. d < r[c + 1].digest /\ r[c + 1].digest \in Nat
        BY <1>1, <1>5, <2>1, <3>2
    <3>4. r[c + 1].digest <= r[c + k].digest /\ r[c + k].digest \in Nat
        BY <1>4, <1>5, <3>1, <3>2, <3>3 DEF SortedFile
    <3> QED BY <3>1, <3>3, <3>4
  <2>5. ASSUME NEW i \in DOMAIN g PROVE g[i].digest # d
    <3>0. Len(g) \in Nat /\ Len(s) \in Nat /\ Len(s) <= Len(g) /\ DOMAIN s = 1 .. Len(s)
          /\ \A k \in DOMAIN s : s[k] = g[Len(g) - Len(s) + k]
        BY <1>2 DEF RestOf
    <3>1. CASE i \in 1 .. Len(g) - Len(s)
      <4>1. g[i] \in ReadOf(g, s)
          BY <3>1 DEF ReadOf
      <4>2. g[i] \in LinesIn(u)
          BY <1>3, <4>1 DEF Copies
      <4> QED BY <2>3, <4>2
    <3>2. CASE i \notin 1 .. Len(g) - Len(s)
      <4>1. i - (Len(g) - Len(s)) \in 1 .. Len(s) /\ i = Len(g) - Len(s) + (i - (Len(g) - Len(s)))
          BY <3>0, <3>2
      <4>2. PICK k \in 1 .. Len(s) : i = Len(g) - Len(s) + k
          BY <4>1
      <4>3. g[i] = s[k] /\ d < s[k].digest
          BY <2>4, <3>0, <4>2
      <4> QED BY <4>3
    <3> QED BY <3>1, <3>2
  <2> QED BY <2>3, <2>4, <2>5
<1> QED BY <1>3, <1>7, <1>8


LEMMA OldTyped ==
    ASSUME LegacyTypes, NEW o \in Output
    PROVE  /\ given[o] \in Seq(OldLine \cup {BadLine}) /\ old[o] \in Seq(OldLine \cup {BadLine})
           /\ copies[o] \in CopyWriter
           /\ Readable(given) => given[o] \in Seq(OldLine) /\ SortedFile(given[o])
           /\ Readable(given) /\ RestOf(given[o], old[o]) => old[o] \in Seq(OldLine)
<1>1. given \in [Output -> OldFiles] /\ copies \in [Output -> CopyWriter]
      /\ old \in [Output -> Seq(OldLine \cup {BadLine})]
    BY DEF LegacyTypes, LegacyTypeOK, CopyWriter, CopyLine
<1>2. given[o] \in OldFiles /\ OldFiles \subseteq Seq(OldLine \cup {BadLine})
    BY <1>1, LegacyAssumption
<1>3. PICK g \in Seq(OldLine \cup {BadLine}) : g = given[o]
    BY <1>2
<1>4. ASSUME Readable(given) PROVE g \in Seq(OldLine) /\ SortedFile(g)
  <2>1. \A i \in DOMAIN g : g[i] # BadLine
      BY <1>3, <1>4 DEF Readable
  <2>2. \A i \in 1 .. Len(g) : g[i] \in OldLine
      BY <2>1
  <2>3. g \in Seq(OldLine)
      BY <2>2, SeqNarrows
  <2>4. \A i, j \in DOMAIN g : i < j /\ BadLine \notin {g[i], g[j]} => g[i].digest <= g[j].digest
      BY <1>2, <1>3, LegacyAssumption
  <2> QED BY <2>1, <2>3, <2>4 DEF SortedFile
<1>5. ASSUME Readable(given), RestOf(given[o], old[o]) PROVE old[o] \in Seq(OldLine)
  <2>1. PICK r \in Seq(OldLine \cup {BadLine}) : r = old[o]
      BY <1>1
  <2>2. g \in Seq(OldLine)
      BY <1>4, <1>5
  <2>3. \A k \in 1 .. Len(r) : r[k] \in OldLine
    <3>0. /\ Len(g) \in Nat /\ Len(r) \in Nat /\ Len(r) <= Len(g)
          /\ \A k \in DOMAIN r : r[k] = g[Len(g) - Len(r) + k]
        BY <1>3, <1>5, <2>1 DEF RestOf
    <3> TAKE k \in 1 .. Len(r)
    <3>1. Len(g) - Len(r) + k \in 1 .. Len(g)
        BY <3>0
    <3>2. r[k] = g[Len(g) - Len(r) + k]
        BY <3>0
    <3> QED BY <2>2, <3>1, <3>2
  <2> QED BY <2>1, <2>3, SeqNarrows
<1> QED BY <1>1, <1>3, <1>4, <1>5

LEMMA PathTyped ==
    ASSUME LegacyTypes, imported.paths # <<>>
    PROVE  /\ Head(imported.paths) \in SoundOf(tree) /\ Head(imported.paths).digest \in Nat \ {0}
           /\ Head(imported.paths) = imported.paths[1] /\ 1 \in DOMAIN imported.paths
           /\ imported.paths \in Seq(SoundOf(tree))
<1>1. imported.paths \in Seq(SoundOf(tree))
    BY BasesTyped DEF ImportType
<1>2. PICK f \in SoundOf(tree) : f = Head(imported.paths)
    BY <1>1, Tails
<1>3. f \in EntriesOf(tree) /\ IsLegacyItem(f)
    BY <1>2 DEF SoundOf, FilesOf
<1>4. PICK d \in DOMAIN tree.directories : f \in tree.directories[d]
    BY <1>3 DEF EntriesOf
<1>5. f.digest \in Nat /\ f.digest # 0
    BY <1>3, <1>4, TreeTyped DEF IsLegacyItem
<1> QED BY <1>1, <1>2, <1>5, Tails

\* With q of the old lines read up to d, s are left and u is the writer.
MergedTo(o, d, q, s, u) ==
    /\ q = SubSeq(old[o], 1, Copied(old[o], d))
    /\ s = SubSeq(old[o], Copied(old[o], d) + 1, Len(old[o]))
    /\ u = WrittenAll(copies[o], q) /\ u.output = copies[o].output
    /\ RestOf(given[o], s)
    /\ \A i \in 1 .. Len(given[o]) - Len(s) : given[o][i] # BadLine
    /\ Readable(given) =>
         /\ Copies(u, given[o], s)
         /\ AddsOnly(u, tree, given, o)
         /\ \A l \in LinesIn(u) : l.digest <= d
         /\ ~ Present(old[o], d) => /\ \A l \in LinesIn(u) : l.digest < d
                                    /\ \A k \in DOMAIN s : d < s[k].digest
                                    /\ \A i \in DOMAIN given[o] : given[o][i].digest # d

LEMMA OneIsMerged ==
    ASSUME LegacyTypes, ReadersAdvance, CopiesAreRight, PathsAreNext, visit = "merge",
           imported.paths # <<>>, NEW d, d = Head(imported.paths).digest, NEW o \in Output
    PROVE  \E q \in Seq(OldLine), s \in Seq(OldLine \cup {BadLine}), u \in CopyWriter :
             MergedTo(o, d, q, s, u)
<1>0. PICK S : S = OldLine \cup {BadLine}
    OBVIOUS
<1>1. given[o] \in Seq(S) /\ old[o] \in Seq(S) /\ copies[o] \in CopyWriter
    BY <1>0, OldTyped
<1> PICK g \in Seq(S) : g = given[o]
    BY <1>1
<1> PICK r \in Seq(S) : r = old[o]
    BY <1>1
<1> PICK w \in CopyWriter : w = copies[o]
    BY <1>1
<1>2. d \in Nat \ {0} /\ 1 \in DOMAIN imported.paths /\ imported.paths[1].digest = d
    BY PathTyped
<1>3. PICK c \in 0 .. Len(r) : c = Copied(r, d) /\ \A i \in 1 .. c : r[i] # BadLine
  <2>1. r \in Seq(OldLine \cup {BadLine}) /\ d \in Nat
      BY <1>0, <1>2
  <2>2. /\ Copied(r, d) \in 0 .. Len(r)
        /\ \A i \in 1 .. Copied(r, d) : r[i] # BadLine /\ r[i].digest <= d
      BY ONLY <2>1, CopiedStops
  <2> QED BY <2>2
<1>4. PICK q \in Seq(S), s \in Seq(S) :
        q = SubSeq(r, 1, c) /\ s = SubSeq(r, c + 1, Len(r)) /\ IsCut(r, c, q, s)
    BY <1>1, <1>3, CutExists
<1>5. RestOf(g, r) /\ \A i \in 1 .. Len(g) - Len(r) : g[i] # BadLine
    BY DEF ReadersAdvance
<1>6. /\ RestOf(g, s) /\ DOMAIN q = 1 .. c /\ \A k \in DOMAIN q : q[k] = r[k]
      /\ \A i \in 1 .. Len(g) - Len(s) : i \in 1 .. Len(g) - Len(r) \/ \E k \in DOMAIN q : g[i] = q[k]
  <2>1. /\ g \in Seq(S) /\ r \in Seq(S) /\ RestOf(g, r) /\ c \in 0 .. Len(r)
        /\ q \in Seq(S) /\ s \in Seq(S) /\ IsCut(r, c, q, s)
      BY <1>4, <1>5
  <2> QED BY ONLY <2>1, ReadOn
<1>7. \A k \in 1 .. Len(q) : q[k] \in OldLine
  <2>1. \A k \in DOMAIN q : q[k] \in S /\ q[k] # BadLine
      BY <1>3, <1>4, <1>6, SMTT(30)
  <2> QED BY <1>0, <1>4, <2>1, DOMAIN q = 1 .. Len(q)
<1>8. q \in Seq(OldLine)
    BY <1>4, <1>7, SeqNarrows
<1>9. PICK u \in CopyWriter : u = WrittenAll(w, q) /\ u.output = w.output
    BY <1>8, WrittenAllStaysOpen
<1>10. \A i \in 1 .. Len(g) - Len(s) : g[i] # BadLine
    BY <1>3, <1>5, <1>6, ZenonT(30)
<1>11. ASSUME Readable(given)
       PROVE  /\ Copies(u, g, s) /\ AddsOnly(u, tree, given, o)
              /\ \A l \in LinesIn(u) : l.digest <= d
              /\ ~ Present(r, d) => /\ \A l \in LinesIn(u) : l.digest < d
                                    /\ \A k \in DOMAIN s : d < s[k].digest
                                    /\ \A i \in DOMAIN g : g[i].digest # d
  <2>1. g \in Seq(OldLine) /\ SortedFile(g) /\ r \in Seq(OldLine)
      BY <1>5, <1>11, OldTyped
  <2>2. \A k \in 1 .. Len(s) : s[k] \in OldLine
    <3>1. s \in Seq(OldLine)
        BY <1>3, <1>4, <2>1
    <3> QED BY <3>1
  <2>3. s \in Seq(OldLine)
      BY <1>4, <2>2, SeqNarrows
  <2>4. Copies(w, g, r) /\ AddsOnly(w, tree, given, o)
      BY <1>11 DEF CopiesAreRight
  <2>5. \A l \in LinesIn(w) : l.from = "file" => \A i \in DOMAIN g : g[i].digest # l.digest
      BY <2>4 DEF AddsOnly
  <2>6. \A l \in LinesIn(w) : l.digest < d
      BY <1>2, <1>11 DEF PathsAreNext
  <2>7. /\ Copies(u, g, s) /\ \A l \in LinesIn(u) : l.from = "file" => l \in LinesIn(w)
        /\ \A l \in LinesIn(u) : l.digest <= d
        /\ ~ Present(r, d) => /\ \A l \in LinesIn(u) : l.digest < d
                              /\ \A k \in DOMAIN s : d < s[k].digest
                              /\ \A i \in DOMAIN g : g[i].digest # d
    <3>1. /\ g \in Seq(OldLine) /\ SortedFile(g) /\ r \in Seq(OldLine) /\ RestOf(g, r)
          /\ d \in Nat \ {0} /\ c = Copied(r, d) /\ q \in Seq(OldLine) /\ s \in Seq(OldLine)
          /\ IsCut(r, c, q, s) /\ w \in CopyWriter /\ Copies(w, g, r) /\ u = WrittenAll(w, q)
        BY <1>2, <1>3, <1>4, <1>5, <1>8, <1>9, <2>1, <2>3, <2>4
    <3> QED BY ONLY <3>1, <2>5, <2>6, UpToDigest
  <2>8. AddsOnly(u, tree, given, o)
      BY <2>4, <2>7 DEF AddsOnly
  <2> QED BY <2>7, <2>8
<1>12. s \in Seq(OldLine \cup {BadLine}) /\ q = SubSeq(old[o], 1, Copied(old[o], d))
       /\ s = SubSeq(old[o], Copied(old[o], d) + 1, Len(old[o]))
    BY <1>0, <1>3, <1>4
<1>13. u = WrittenAll(copies[o], q) /\ u.output = copies[o].output
    BY <1>9
<1>14. RestOf(given[o], s) /\ \A i \in 1 .. Len(given[o]) - Len(s) : given[o][i] # BadLine
    BY <1>6, <1>10
<1>15. Readable(given) =>
         /\ Copies(u, given[o], s) /\ AddsOnly(u, tree, given, o)
         /\ \A l \in LinesIn(u) : l.digest <= d
         /\ ~ Present(old[o], d) => /\ \A l \in LinesIn(u) : l.digest < d
                                    /\ \A k \in DOMAIN s : d < s[k].digest
                                    /\ \A i \in DOMAIN given[o] : given[o][i].digest # d
    BY <1>11
<1>16. MergedTo(o, d, q, s, u)
    BY <1>12, <1>13, <1>14, <1>15 DEF MergedTo
<1> QED BY <1>8, <1>12, <1>16


LEMMA WrittenTyped ==
    ASSUME NEW v \in CopyWriter, NEW x \in CopyLine
    PROVE  Written(v, x) \in CopyWriter /\ Written(v, x).output = v.output
<1>1. x.digest \in Nat
    BY DEF CopyLine
<1>2. PICK q \in Seq(CopyLine) : q = v.lines
    BY DEF CopyWriter, WriterType
<1>3. Append(q, x) \in Seq(CopyLine)
    OBVIOUS
<1>4. Written(v, x) = [v EXCEPT !.lines = Append(q, x), !.last_written = x.digest]
    BY <1>2 DEF Written
<1> QED BY <1>1, <1>3, <1>4 DEF CopyWriter, WriterType

\* What a file found makes of the two writers and files.
LEMMA MergeFileSteps ==
    ASSUME LegacyTypes, NEW readable \in BOOLEAN, MergeFile(readable)
    PROVE  /\ visit = "merge" /\ imported.paths # <<>>
           /\ UNCHANGED <<tree, bases, stack, visit, mergeOld, given>>
           /\ imported' = [imported EXCEPT !.paths = Tail(@)]
           /\ copies' = [o \in Output |-> copies'[o]] /\ old' = [o \in Output |-> old'[o]]
           /\ \A o \in Output : \A d, u : 
                d = Head(imported.paths).digest /\ u = WrittenAll(copies[o], SubSeq(old[o], 1, Copied(old[o], d)))
                  => /\ old'[o] = SubSeq(old[o], Copied(old[o], d) + 1, Len(old[o]))
                     /\ copies'[o] =
                          IF /\ \A p \in Output : ~ Present(old[p], d)
                             /\ readable /\ Head(imported.paths).belongs = o /\ ~ Repeats(u, d)
                          THEN Written(u, NewLine(d)) ELSE u
<1>1. /\ visit = "merge" /\ imported.paths # <<>>
      /\ UNCHANGED <<tree, bases, stack, visit, mergeOld, given>>
      /\ imported' = [imported EXCEPT !.paths = Tail(@)]
    BY DEF MergeFile
<1>2. PICK f, d : f = Head(imported.paths) /\ d = f.digest
    OBVIOUS
<1>3. PICK through : through = [o \in Output |-> WrittenAll(copies[o], SubSeq(old[o], 1, Copied(old[o], d)))]
    OBVIOUS
<1>4. /\ copies' = [o \in Output |->
           IF (\A p \in Output : ~ Present(old[p], d)) /\ readable /\ f.belongs = o /\ ~ Repeats(through[o], d)
           THEN Written(through[o], NewLine(d)) ELSE through[o]]
      /\ old' = [o \in Output |-> SubSeq(old[o], Copied(old[o], d) + 1, Len(old[o]))]
    BY <1>2, <1>3, Zenon DEF MergeFile
<1>5. \A o \in Output : through[o] = WrittenAll(copies[o], SubSeq(old[o], 1, Copied(old[o], d)))
    BY <1>3
<1>6. \A o \in Output :
        /\ old'[o] = SubSeq(old[o], Copied(old[o], d) + 1, Len(old[o]))
        /\ copies'[o] =
             IF (\A p \in Output : ~ Present(old[p], d)) /\ readable /\ f.belongs = o /\ ~ Repeats(through[o], d)
             THEN Written(through[o], NewLine(d)) ELSE through[o]
    BY <1>4, Zenon
<1>7. copies' = [o \in Output |-> copies'[o]] /\ old' = [o \in Output |-> old'[o]]
    BY <1>4
<1>8. ASSUME NEW o \in Output, NEW e, NEW u, e = Head(imported.paths).digest,
             u = WrittenAll(copies[o], SubSeq(old[o], 1, Copied(old[o], e)))
      PROVE  /\ old'[o] = SubSeq(old[o], Copied(old[o], e) + 1, Len(old[o]))
             /\ copies'[o] =
                  IF /\ \A p \in Output : ~ Present(old[p], e)
                     /\ readable /\ Head(imported.paths).belongs = o /\ ~ Repeats(u, e)
                  THEN Written(u, NewLine(e)) ELSE u
  <2>1. e = d /\ u = through[o]
      BY <1>2, <1>5, <1>8
  <2> QED BY <1>2, <1>6, <2>1
<1> QED BY <1>1, <1>7, <1>8


LEMMA OneMerged ==
    ASSUME LegacyTypes, ReadersAdvance, CopiesAreRight, PathsAreNext,
           NEW readable \in BOOLEAN, MergeFile(readable), NEW d, d = Head(imported.paths).digest,
           NEW o \in Output, NEW v, v = copies'[o], NEW s, s = old'[o]
    PROVE  /\ v \in CopyWriter /\ v.output = copies[o].output /\ s \in Seq(OldLine \cup {BadLine})
           /\ RestOf(given[o], s) /\ \A i \in 1 .. Len(given[o]) - Len(s) : given[o][i] # BadLine
           /\ Readable(given) => /\ Copies(v, given[o], s) /\ AddsOnly(v, tree, given, o)
                                 /\ \A l \in LinesIn(v) : l.digest <= d
<1>1. visit = "merge" /\ imported.paths # <<>>
    BY MergeFileSteps
<1>a. PICK q \in Seq(OldLine), r \in Seq(OldLine \cup {BadLine}), u \in CopyWriter : MergedTo(o, d, q, r, u)
    BY <1>1, OneIsMerged
<1>2. /\ q = SubSeq(old[o], 1, Copied(old[o], d))
      /\ r = SubSeq(old[o], Copied(old[o], d) + 1, Len(old[o]))
      /\ u = WrittenAll(copies[o], q) /\ u.output = copies[o].output
      /\ RestOf(given[o], r) /\ \A i \in 1 .. Len(given[o]) - Len(r) : given[o][i] # BadLine
      /\ Readable(given) =>
           /\ Copies(u, given[o], r) /\ AddsOnly(u, tree, given, o)
           /\ \A l \in LinesIn(u) : l.digest <= d
           /\ ~ Present(old[o], d) => /\ \A l \in LinesIn(u) : l.digest < d
                                      /\ \A k \in DOMAIN r : d < r[k].digest
                                      /\ \A i \in DOMAIN given[o] : given[o][i].digest # d
    BY <1>a DEF MergedTo
<1> DEFINE New == \A p \in Output : ~ Present(old[p], d)
<1>3. /\ s = r
      /\ v = IF New /\ readable /\ Head(imported.paths).belongs = o /\ ~ Repeats(u, d)
             THEN Written(u, NewLine(d)) ELSE u
    BY <1>2, MergeFileSteps, SMTT(30)
<1>4. d \in Nat \ {0} /\ Head(imported.paths) \in SoundOf(tree)
    BY <1>1, PathTyped
<1>5. CASE New /\ readable /\ Head(imported.paths).belongs = o /\ ~ Repeats(u, d)
  <2>1. PICK x \in CopyLine : x = NewLine(d) /\ x.digest = d /\ x.from = "file"
    <3>1. d \in Nat
        BY <1>4
    <3>2. NewLine(d) = [digest |-> d, from |-> "file"] /\ [digest |-> d, from |-> "file"] \in CopyLine
        BY ONLY <3>1 DEF NewLine, CopyLine
    <3> QED BY ONLY <3>2
  <2>2. v = Written(u, x)
      BY <1>3, <1>5, <2>1
  <2>3. v \in CopyWriter /\ v.output = u.output
      BY <2>2, WrittenTyped
  <2>4. ASSUME Readable(given)
        PROVE  /\ Copies(v, given[o], r) /\ AddsOnly(v, tree, given, o)
               /\ \A l \in LinesIn(v) : l.digest <= d
    <3>1. /\ Copies(u, given[o], r) /\ AddsOnly(u, tree, given, o)
          /\ \A l \in LinesIn(u) : l.digest < d /\ l.digest <= d
          /\ \A k \in DOMAIN r : d < r[k].digest
        BY <1>2, <1>5, <2>4
    <3>2. \A k \in DOMAIN r : d <= r[k].digest
      <4>1. r \in Seq(OldLine)
        <5>1. old[o] \in Seq(OldLine) /\ Len(old[o]) \in Nat
          <6>1. RestOf(given[o], old[o])
              BY DEF ReadersAdvance
          <6> QED BY <2>4, <6>1, OldTyped
        <5>2. \A k \in 1 .. Len(r) : r[k] \in OldLine
          <6>1. given[o] \in Seq(OldLine)
              BY <2>4, OldTyped
          <6>2. /\ Len(given[o]) \in Nat /\ Len(r) \in Nat /\ Len(r) <= Len(given[o])
                /\ \A k \in DOMAIN r : r[k] = given[o][Len(given[o]) - Len(r) + k]
              BY <1>2, <6>1 DEF RestOf
          <6> TAKE k \in 1 .. Len(r)
          <6>3. Len(given[o]) - Len(r) + k \in 1 .. Len(given[o]) /\ k \in DOMAIN r
              BY <6>2
          <6> QED BY <6>1, <6>2, <6>3
        <5> QED BY <5>2, SeqNarrows
      <4>2. \A k \in DOMAIN r : r[k] \in OldLine
          BY <4>1
      <4>3. \A x1 \in OldLine : x1.digest \in Nat
          BY DEF OldLine
      <4> QED BY <1>4, <3>1, <4>2, <4>3
    <3>3. /\ Copies(v, given[o], r) /\ LinesIn(v) = LinesIn(u) \cup {NewLine(d)}
      <4>1. \A l \in LinesIn(u) : l.digest < d
          BY <3>1
      <4>2. v = IF Repeats(u, d) THEN u ELSE Written(u, NewLine(d))
          BY <1>3, <1>5
      <4> QED BY <1>4, <3>1, <3>2, <4>1, <4>2, FileIsAdded
    <3>4. \A p \in Output : \A i \in DOMAIN given[p] : given[p][i].digest # d
      <4> TAKE p \in Output
      <4>1. ~ Present(old[p], d)
          BY <1>5
      <4>2. PICK q1, s1, u1 : MergedTo(p, d, q1, s1, u1)
          BY <1>1, OneIsMerged
      <4> QED BY <2>4, <4>1, <4>2 DEF MergedTo
    <3>5. \E e \in SoundOf(tree) : e.digest = d /\ e.belongs = o
        BY <1>4, <1>5
    <3>6. AddsOnly(v, tree, given, o)
      <4>1. \A l \in LinesIn(v) : l \in LinesIn(u) \/ l.digest = d
          BY <2>1, <3>3
      <4> QED BY <3>1, <3>4, <3>5, <4>1 DEF AddsOnly
    <3>7. \A l \in LinesIn(v) : l.digest <= d
      <4>1. \A l \in LinesIn(v) : l \in LinesIn(u) \/ l.digest = d
          BY <2>1, <3>3
      <4> QED BY <1>4, <3>1, <4>1
    <3> QED BY <3>3, <3>6, <3>7
  <2> QED BY <1>2, <1>3, <2>3, <2>4
<1>6. CASE ~ (New /\ readable /\ Head(imported.paths).belongs = o /\ ~ Repeats(u, d))
  <2>1. v = u
      BY <1>3, <1>6
  <2> QED BY <1>2, <1>3, <2>1
<1> QED BY <1>5, <1>6


LEMMA MergeFileKeeps ==
    ASSUME LegacyInv, NEW readable \in BOOLEAN, MergeFile(readable)
    PROVE  LegacyInv'
<1>1. /\ LegacyTypes /\ ReadersAdvance /\ CopiesAreRight /\ PathsAreNext /\ EndsInOrder /\ LegacyTypeOK
    BY DEF LegacyInv, LegacyTypes
<1>2. /\ visit = "merge" /\ imported.paths # <<>>
      /\ tree' = tree /\ bases' = bases /\ stack' = stack /\ visit' = visit /\ mergeOld' = mergeOld /\ given' = given
      /\ imported' = [imported EXCEPT !.paths = Tail(@)]
      /\ copies' = [o \in Output |-> copies'[o]] /\ old' = [o \in Output |-> old'[o]]
    BY <1>1, MergeFileSteps
<1>3. PICK d \in Nat \ {0} : d = Head(imported.paths).digest
    BY <1>1, <1>2, PathTyped
<1>4. \A o \in Output :
        /\ copies'[o] \in CopyWriter /\ copies'[o].output = copies[o].output
        /\ old'[o] \in Seq(OldLine \cup {BadLine})
        /\ RestOf(given[o], old'[o])
        /\ \A i \in 1 .. Len(given[o]) - Len(old'[o]) : given[o][i] # BadLine
        /\ Readable(given) => /\ Copies(copies'[o], given[o], old'[o]) /\ AddsOnly(copies'[o], tree, given, o)
                              /\ \A l \in LinesIn(copies'[o]) : l.digest <= d
    BY <1>1, <1>3, OneMerged
<1>5. copies' \in [Output -> CopyWriter] /\ old' \in [Output -> Seq(OldLine \cup {BadLine})]
    BY <1>2, <1>4
<1>6. /\ imported.paths \in Seq(SoundOf(tree)) /\ imported.paths[1].digest = d
      /\ Tail(imported.paths) \in Seq(SoundOf(tree))
      /\ \A k \in DOMAIN Tail(imported.paths) :
           k + 1 \in DOMAIN imported.paths /\ Tail(imported.paths)[k] = imported.paths[k + 1] /\ k \in Nat \ {0}
      /\ 1 \in DOMAIN imported.paths
  <2>1. PICK q \in Seq(SoundOf(tree)) : q = imported.paths
      BY <1>1, BasesTyped DEF ImportType
  <2> QED BY <1>2, <1>3, <2>1, Tails
<1>7. imported' \in ImportType(tree) /\ imported'.paths = Tail(imported.paths)
  <2>1. imported \in ImportType(tree)
      BY <1>1, BasesTyped
  <2> QED BY <1>2, <1>6, <2>1 DEF ImportType
<1>8. LegacyTypes'
  <2>1. LegacyTypeOK'
      BY <1>1, <1>2, <1>5 DEF LegacyTypeOK, CopyWriter, CopyLine
  <2> QED BY <1>1, <1>2, <1>5, <1>7, <2>1 DEF LegacyTypes
<1>9. NothingIsLeft' /\ WalkAccountsForAll'
    BY <1>2 DEF NothingIsLeft, WalkAccountsForAll
<1>10. ReadersAdvance' /\ CopiesAreRight'
    BY <1>2, <1>4 DEF ReadersAdvance, CopiesAreRight
<1>11. PathsAreNext'
  <2>1. AscendingLines(imported.paths)
      BY <1>1, <1>2 DEF PathsAreNext
  <2>2. AscendingLines(Tail(imported.paths))
    <3>1. ASSUME NEW i \in DOMAIN Tail(imported.paths), NEW j \in DOMAIN Tail(imported.paths), i < j
          PROVE  Tail(imported.paths)[i].digest < Tail(imported.paths)[j].digest
      <4>1. i + 1 < j + 1
          BY <1>6, <3>1
      <4> QED BY <1>6, <2>1, <3>1, <4>1 DEF AscendingLines
    <3> QED BY <3>1 DEF AscendingLines
  <2>3. ASSUME Readable(given), NEW o \in Output, NEW l \in LinesIn(copies'[o]), NEW k \in DOMAIN Tail(imported.paths)
        PROVE  l.digest < Tail(imported.paths)[k].digest
    <3>1. l.digest <= d
        BY <1>4, <2>3
    <3>2. d < imported.paths[k + 1].digest
      <4>1. 1 < k + 1
          BY <1>6
      <4> QED BY <1>6, <2>1, <4>1 DEF AscendingLines
    <3>3. l.digest \in Nat
      <4>1. PICK w \in CopyWriter : w = copies'[o]
          BY <1>4
      <4>2. PICK q \in Seq(CopyLine) : q = w.lines
          BY DEF CopyWriter, WriterType
      <4>3. PICK i \in DOMAIN q : l = q[i]
          BY <4>1, <4>2 DEF LinesIn
      <4>4. l \in CopyLine
          BY <4>3
      <4> QED BY <4>4 DEF CopyLine
    <3>4. imported.paths[k + 1].digest \in Nat
      <4>1. PICK q \in Seq(SoundOf(tree)), f \in SoundOf(tree) : q = imported.paths /\ f = q[k + 1]
          BY <1>6
      <4>2. \A e \in EntriesOf(tree) : e.digest \in Nat
          BY <1>1, TreeTyped DEF EntriesOf
      <4> QED BY <4>1, <4>2 DEF SoundOf, FilesOf
    <3>5. PICK a \in Nat, b \in Nat : a = l.digest /\ b = imported.paths[k + 1].digest
        BY <3>3, <3>4
    <3>6. a < b
        BY <3>1, <3>2, <3>5
    <3> QED BY <1>6, <3>5, <3>6
  <2> QED BY <1>2, <1>7, <2>2, <2>3 DEF PathsAreNext
<1>12. EndsInOrder'
  <2>1. \A o \in Output : copies'[o].output = "open"
      BY <1>1, <1>2, <1>4 DEF EndsInOrder
  <2> QED BY <1>2, <2>1 DEF EndsInOrder, Output, Visible
<1> QED BY <1>8, <1>9, <1>10, <1>11, <1>12 DEF LegacyInv


LEMMA DrainKeeps ==
    ASSUME LegacyInv, DrainOld
    PROVE  LegacyInv'
<1>1. /\ LegacyTypes /\ ReadersAdvance /\ CopiesAreRight /\ PathsAreNext /\ EndsInOrder /\ LegacyTypeOK
    BY DEF LegacyInv, LegacyTypes
<1>2. /\ visit = "drain"
      /\ tree' = tree /\ bases' = bases /\ stack' = stack /\ imported' = imported /\ given' = given
    BY DEF DrainOld
<1>3. \A o \in Output : copies[o].output = "open"
    BY <1>1, <1>2 DEF EndsInOrder
<1>4. CASE \E o \in Output : \E i \in DOMAIN old[o] : old[o][i] = BadLine
  <2>1. visit' = "done" /\ mergeOld' = "Read" /\ old' = old /\ copies' = copies
      BY <1>4 DEF DrainOld, GiveUp
  <2>2. LegacyTypes'
      BY <1>1, <1>2, <2>1 DEF LegacyTypes, LegacyTypeOK
  <2>3. EndsInOrder'
      BY <1>2, <1>3, <2>1 DEF EndsInOrder, Output, Visible, NoError
  <2>4. NothingIsLeft' /\ WalkAccountsForAll' /\ PathsAreNext'
      BY <2>1 DEF NothingIsLeft, WalkAccountsForAll, PathsAreNext
  <2>5. ReadersAdvance' /\ CopiesAreRight'
      BY <1>1, <1>2, <2>1 DEF ReadersAdvance, CopiesAreRight
  <2> QED BY <2>2, <2>3, <2>4, <2>5 DEF LegacyInv
<1>5. CASE ~ \E o \in Output : \E i \in DOMAIN old[o] : old[o][i] = BadLine
  <2>1. /\ copies' = [o \in Output |-> WrittenAll(copies[o], old[o])]
        /\ old' = [o \in Output |-> <<>>]
        /\ visit' = "finish flat" /\ mergeOld' = mergeOld
      BY <1>5, Zenon DEF DrainOld
  <2>2. \A o \in Output : copies'[o] = WrittenAll(copies[o], old[o]) /\ old'[o] = <<>>
      BY <2>1
  <2>3. ASSUME NEW o \in Output
        PROVE  /\ copies'[o] \in CopyWriter /\ copies'[o].output = "open"
               /\ RestOf(given[o], <<>>)
               /\ \A i \in 1 .. Len(given[o]) - Len(<<>>) : given[o][i] # BadLine
               /\ Readable(given) => Copies(copies'[o], given[o], <<>>) /\ AddsOnly(copies'[o], tree, given, o)
    <3>1. PICK S : S = OldLine \cup {BadLine}
        OBVIOUS
    <3>2. given[o] \in Seq(S) /\ old[o] \in Seq(S) /\ copies[o] \in CopyWriter
        BY <1>1, <3>1, OldTyped
    <3> PICK g \in Seq(S) : g = given[o]
        BY <3>2
    <3> PICK r \in Seq(S) : r = old[o]
        BY <3>2
    <3> PICK w \in CopyWriter : w = copies[o]
        BY <3>2
    <3>3. RestOf(g, r) /\ \A i \in 1 .. Len(g) - Len(r) : g[i] # BadLine
        BY <1>1 DEF ReadersAdvance
    <3>4. r \in Seq(OldLine)
      <4>1. \A k \in 1 .. Len(r) : r[k] \in OldLine
        <5>1. \A k \in DOMAIN r : r[k] # BadLine /\ r[k] \in S
            BY <1>5
        <5> QED BY <3>1, <5>1
      <4> QED BY <4>1, SeqNarrows
    <3>5. PICK e \in Seq(S) : e = <<>> /\ Len(e) = 0
      <4>1. <<>> \in Seq(S) /\ Len(<<>>) = 0
          BY ONLY TRUE
      <4> QED BY ONLY <4>1
    <3>6. PICK c \in 0 .. Len(r) : c = Len(r)
        OBVIOUS
    <3>7. IsCut(r, c, r, e)
        BY <3>5, <3>6 DEF IsCut
    <3>8. /\ RestOf(g, e)
          /\ \A i \in 1 .. Len(g) - Len(e) : i \in 1 .. Len(g) - Len(r) \/ \E k \in DOMAIN r : g[i] = r[k]
        BY ONLY <3>3, <3>7, g \in Seq(S), r \in Seq(S), e \in Seq(S), c \in 0 .. Len(r), ReadOn
    <3>9. \A i \in 1 .. Len(g) - Len(e) : g[i] # BadLine
        BY <1>5, <3>3, <3>8
    <3>10. PICK u \in CopyWriter : u = WrittenAll(w, r) /\ u.output = w.output
        BY <3>4, WrittenAllStaysOpen
    <3>11. ASSUME Readable(given) PROVE Copies(u, g, e) /\ AddsOnly(u, tree, given, o)
      <4>1. g \in Seq(OldLine) /\ SortedFile(g) /\ e \in Seq(OldLine)
          BY <1>1, <3>5, <3>11, OldTyped
      <4>2. Copies(w, g, r) /\ AddsOnly(w, tree, given, o)
          BY <1>1, <3>11 DEF CopiesAreRight
      <4>3. \A l \in LinesIn(w) : l.from = "file" => \A i \in DOMAIN g : g[i].digest # l.digest
          BY <4>2 DEF AddsOnly
      <4>4. Copies(u, g, e) /\ \A l \in LinesIn(u) : l.from = "file" => l \in LinesIn(w)
        <5>1. /\ g \in Seq(OldLine) /\ SortedFile(g) /\ r \in Seq(OldLine) /\ RestOf(g, r)
              /\ c \in 0 .. Len(r) /\ e \in Seq(OldLine) /\ IsCut(r, c, r, e)
              /\ w \in CopyWriter /\ Copies(w, g, r) /\ u = WrittenAll(w, r)
            BY <3>3, <3>4, <3>7, <3>10, <4>1, <4>2
        <5> QED BY ONLY <5>1, <4>3, CopyGoesOn
      <4> QED BY <4>2, <4>4 DEF AddsOnly
    <3> QED BY <1>3, <2>2, <3>5, <3>8, <3>9, <3>10, <3>11
  <2>4. copies' \in [Output -> CopyWriter] /\ old' \in [Output -> Seq(OldLine \cup {BadLine})]
    <3>1. \A o \in Output : old'[o] \in Seq(OldLine \cup {BadLine})
      <4>1. PICK S : S = OldLine \cup {BadLine}
          OBVIOUS
      <4>2. <<>> \in Seq(S)
          BY ONLY TRUE
      <4> QED BY <2>2, <4>1, <4>2
    <3>2. copies' = [o \in Output |-> copies'[o]] /\ old' = [o \in Output |-> old'[o]]
        BY <2>1
    <3> QED BY <2>3, <3>1, <3>2
  <2>5. LegacyTypes'
    <3>1. LegacyTypeOK'
        BY <1>1, <1>2, <2>1, <2>4 DEF LegacyTypeOK, CopyWriter, CopyLine
    <3> QED BY <1>1, <1>2, <2>4, <3>1 DEF LegacyTypes
  <2>6. NothingIsLeft' /\ WalkAccountsForAll' /\ PathsAreNext'
      BY <2>1 DEF NothingIsLeft, WalkAccountsForAll, PathsAreNext
  <2>7. ReadersAdvance' /\ CopiesAreRight'
      BY <1>2, <2>2, <2>3 DEF ReadersAdvance, CopiesAreRight
  <2>8. EndsInOrder'
      BY <2>1, <2>2, <2>3 DEF EndsInOrder, Output, Visible
  <2> QED BY <2>5, <2>6, <2>7, <2>8 DEF LegacyInv
<1> QED BY <1>4, <1>5

\* Steps that leave the files and the walk as they are.
LEMMA EndsKeep ==
    ASSUME LegacyInv,
           UNCHANGED <<tree, bases, stack, imported, old, copies, given>>,
           \/ visit = "open" /\ visit' = "merge" /\ mergeOld' = mergeOld
           \/ visit = "merge" /\ imported.paths = <<>> /\ visit' = "drain" /\ mergeOld' = mergeOld
           \/ visit \in {"open", "merge", "drain"} /\ visit' = "done" /\ mergeOld' = "Io"
    PROVE  LegacyInv'
<1>1. /\ LegacyTypes /\ ReadersAdvance /\ CopiesAreRight /\ PathsAreNext /\ EndsInOrder /\ LegacyTypeOK
    BY DEF LegacyInv, LegacyTypes
<1>2. LegacyTypes'
    BY <1>1 DEF LegacyTypes, LegacyTypeOK
<1>3. NothingIsLeft' /\ WalkAccountsForAll'
    BY DEF NothingIsLeft, WalkAccountsForAll
<1>4. ReadersAdvance' /\ CopiesAreRight'
    BY <1>1 DEF ReadersAdvance, CopiesAreRight
<1>5. PathsAreNext'
  <2>1. CASE visit = "open" /\ visit' = "merge"
    <3>1. \A o \in Output : LinesIn(copies[o]) = {}
        BY <1>1, <2>1 DEF EndsInOrder, NewWriter, LinesIn
    <3> QED BY <1>1, <2>1, <3>1 DEF PathsAreNext
  <2>2. CASE visit' \in {"drain", "done"}
      BY <2>2 DEF PathsAreNext
  <2> QED BY <2>1, <2>2
<1>6. EndsInOrder'
    BY <1>1 DEF EndsInOrder, Output, NoError
<1> QED BY <1>2, <1>3, <1>4, <1>5, <1>6 DEF LegacyInv


\* What a writer has does not depend on its output.
LEMMA CopiesAlike ==
    ASSUME NEW v, NEW w, v.lines = w.lines, v.last_written = w.last_written
    PROVE  /\ \A g, r : Copies(w, g, r) => Copies(v, g, r)
           /\ \A t, g, o : AddsOnly(w, t, g, o) => AddsOnly(v, t, g, o)
           /\ LinesIn(v) = LinesIn(w)
<1>1. LinesIn(v) = LinesIn(w)
    BY DEF LinesIn
<1> QED BY <1>1 DEF Copies, AddsOnly

LEMMA FinishOldKeeps ==
    ASSUME LegacyInv, NEW o \in Output, NEW end \in Outcomes, FinishOld(o, end)
    PROVE  LegacyInv'
<1>1. /\ LegacyTypes /\ ReadersAdvance /\ CopiesAreRight /\ PathsAreNext /\ EndsInOrder /\ LegacyTypeOK
    BY DEF LegacyInv, LegacyTypes
<1>2. /\ (o = "flat" /\ visit = "finish flat") \/ (o = "data" /\ visit = "finish data")
      /\ tree' = tree /\ bases' = bases /\ stack' = stack /\ imported' = imported /\ old' = old /\ given' = given
      /\ copies' = [copies EXCEPT ![o] = Finished(@, end)]
    BY DEF FinishOld, Output
<1>3. \/ end # "published" /\ visit' = "done" /\ mergeOld' = "Io"
      \/ end = "published" /\ o = "flat" /\ visit' = "finish data" /\ mergeOld' = mergeOld
      \/ end = "published" /\ o = "data" /\ visit' = "done" /\ mergeOld' = NoError
    BY DEF FinishOld, FinishError, GiveUp, Output
<1>4. PICK cs \in [Output -> CopyWriter] : cs = copies
    BY <1>1 DEF LegacyTypeOK, CopyWriter, CopyLine
<1>5. PICK w \in CopyWriter : w = cs[o]
    BY <1>4
<1>6. PICK v \in CopyWriter : /\ v = Finished(w, end) /\ v.lines = w.lines /\ v.last_written = w.last_written
                             /\ v.output = end
  <2>1. /\ [w EXCEPT !.output = end] \in CopyWriter
        /\ [w EXCEPT !.output = end].lines = w.lines /\ [w EXCEPT !.output = end].output = end
        /\ [w EXCEPT !.output = end].last_written = w.last_written
      BY DEF CopyWriter, WriterType
  <2> QED BY <2>1 DEF Finished
<1>7. PICK ds \in [Output -> CopyWriter] :
        ds = copies' /\ ds[o] = v /\ \A p \in Output : p # o => ds[p] = cs[p]
  <2>1. copies' = [cs EXCEPT ![o] = v]
      BY <1>2, <1>4, <1>5, <1>6
  <2> QED BY <2>1
<1>8. \A p \in Output : ds[p].lines = cs[p].lines /\ ds[p].last_written = cs[p].last_written
    BY <1>5, <1>6, <1>7
<1>9. LegacyTypes'
  <2>1. LegacyTypeOK'
      BY <1>1, <1>2, <1>3, <1>7 DEF LegacyTypeOK, CopyWriter, CopyLine, NoError
  <2> QED BY <1>1, <1>2, <2>1 DEF LegacyTypes
<1>10. NothingIsLeft' /\ WalkAccountsForAll' /\ PathsAreNext'
    BY <1>3 DEF NothingIsLeft, WalkAccountsForAll, PathsAreNext
<1>11. ReadersAdvance'
    BY <1>1, <1>2 DEF ReadersAdvance
<1>12. CopiesAreRight'
  <2>1. ASSUME Readable(given), NEW p \in Output
        PROVE  Copies(ds[p], given[p], old[p]) /\ AddsOnly(ds[p], tree, given, p)
    <3>1. Copies(cs[p], given[p], old[p]) /\ AddsOnly(cs[p], tree, given, p)
        BY <1>1, <1>4, <2>1 DEF CopiesAreRight
    <3> QED BY <1>8, <3>1, CopiesAlike
  <2> QED BY <1>2, <1>7, <2>1 DEF CopiesAreRight
<1>13. EndsInOrder'
  <2>1. /\ \A p \in Output : old[p] = <<>>
        /\ o = "flat" => cs["flat"].output = "open" /\ cs["data"].output = "open"
        /\ o = "data" => cs["flat"].output = "published" /\ cs["data"].output = "open"
      BY <1>1, <1>2, <1>4 DEF EndsInOrder, Output
  <2>2. /\ o = "flat" => ds["flat"].output = v.output /\ ds["data"].output = "open"
        /\ o = "data" => ds["flat"].output = "published" /\ ds["data"].output = v.output
      BY <1>7, <2>1 DEF Output
  <2>3. \A p \in Output : copies'[p] = ds[p] /\ p \in {"flat", "data"}
      BY <1>7 DEF Output
  <2>4. copies'["flat"].output = ds["flat"].output /\ copies'["data"].output = ds["data"].output
      BY <1>7
  <2>5. (end = "published" /\ o = "flat") => visit' = "finish data" /\ ds["flat"].output = "published" /\ ds["data"].output = "open"
      BY <1>3, <1>6, <2>2
  <2>6. (end = "published" /\ o = "data") => /\ visit' = "done" /\ mergeOld' = NoError
                              /\ ds["flat"].output = "published" /\ ds["data"].output = "published"
      BY <1>3, <1>6, <2>2
  <2>7. (end # "published" /\ o = "flat") => /\ visit' = "done" /\ mergeOld' = "Io"
                                /\ ds["flat"].output = end /\ ds["data"].output = "open"
      BY <1>3, <1>6, <2>2
  <2>8. (end # "published" /\ o = "data") => /\ visit' = "done" /\ mergeOld' = "Io"
                                /\ ds["flat"].output = "published" /\ ds["data"].output = end
      BY <1>3, <1>6, <2>2
  <2>9. \A p \in Output : old'[p] = <<>>
      BY <1>2, <2>1
  <2> QED BY <1>2, <2>4, <2>5, <2>6, <2>7, <2>8, <2>9 DEF EndsInOrder, Output, Visible, NoError
<1> QED BY <1>9, <1>10, <1>11, <1>12, <1>13 DEF LegacyInv

\* Steps of the walk.
LEMMA WalkKeeps ==
    ASSUME LegacyInv, visit = "walk", tree' = tree, old' = old, copies' = copies, given' = given,
           visit' \in {"walk", "done"}, visit' = "walk" => mergeOld' = mergeOld,
           visit' = "done" => mergeOld' \in {"OtherIo", "FileIo"},
           NothingIsLeft', stack' \in Seq(SUBSET EntriesOf(tree)), bases' \in Seq(DOMAIN tree.directories),
           imported' \in ImportType(tree),
           \A i \in DOMAIN stack' : \E d \in DOMAIN tree.directories : stack'[i] \subseteq tree.directories[d]
    PROVE  LegacyInv'
<1>1. /\ LegacyTypes /\ ReadersAdvance /\ CopiesAreRight /\ PathsAreNext /\ EndsInOrder /\ LegacyTypeOK
    BY DEF LegacyInv, LegacyTypes
<1>2. LegacyTypes'
  <2>1. LegacyTypeOK'
      BY <1>1 DEF LegacyTypeOK
  <2> QED BY <1>1, <2>1 DEF LegacyTypes
<1>3. WalkAccountsForAll' /\ PathsAreNext'
    BY DEF WalkAccountsForAll, PathsAreNext
<1>4. ReadersAdvance' /\ CopiesAreRight'
    BY <1>1 DEF ReadersAdvance, CopiesAreRight
<1>5. EndsInOrder'
  <2>1. \A o \in Output : copies[o].output = "open"
      BY <1>1 DEF EndsInOrder
  <2> QED BY <1>1, <2>1 DEF EndsInOrder, Output, NoError
<1> QED BY <1>2, <1>3, <1>4, <1>5 DEF LegacyInv


LEMMA OpenBaseKeeps ==
    ASSUME LegacyInv, NEW ok \in BOOLEAN, OpenBase(ok)
    PROVE  LegacyInv'
<1>1. LegacyTypes /\ NothingIsLeft
    BY DEF LegacyInv
<1>2. /\ visit = "walk" /\ stack = <<>> /\ bases # <<>>
      /\ tree' = tree /\ imported' = imported /\ old' = old /\ copies' = copies /\ given' = given
    BY DEF OpenBase
<1>3. NothingIsLeft' /\ stack' \in Seq(SUBSET EntriesOf(tree)) /\ bases' \in Seq(DOMAIN tree.directories)
    BY <1>1, OpenBaseLeavesNothing
<1>4. imported' \in ImportType(tree) /\ Head(bases) \in DOMAIN tree.directories
    BY <1>1, <1>2, BasesTyped, Tails
<1>5. /\ visit' \in {"walk", "done"} /\ (visit' = "walk" => mergeOld' = mergeOld)
      /\ (visit' = "done" => mergeOld' \in {"OtherIo", "FileIo"})
      /\ stack' = <<tree.directories[Head(bases)]>> \/ stack' = <<>>
    BY <1>2 DEF OpenBase, GiveUp
<1>6. \A i \in DOMAIN stack' : \E d \in DOMAIN tree.directories : stack'[i] \subseteq tree.directories[d]
  <2>1. PICK d \in DOMAIN tree.directories : d = Head(bases)
      BY <1>4
  <2> PICK x : x = tree.directories[d]
      OBVIOUS
  <2>2. CASE stack' = <<x>>
      BY <2>1, <2>2
  <2>3. CASE stack' = <<>>
      BY <2>3
  <2> QED BY <1>5, <2>1, <2>2, <2>3
<1> QED BY <1>2, <1>3, <1>4, <1>5, <1>6, WalkKeeps

LEMMA LeaveKeeps ==
    ASSUME LegacyInv, LeaveDirectory
    PROVE  LegacyInv'
<1>1. LegacyTypes /\ NothingIsLeft /\ LegacyTypeOK
    BY DEF LegacyInv, LegacyTypes
<1>2. /\ visit = "walk" /\ visit' = visit /\ mergeOld' = mergeOld /\ stack # <<>>
      /\ stack' = SubSeq(stack, 1, Len(stack) - 1)
      /\ tree' = tree /\ bases' = bases /\ imported' = imported
      /\ old' = old /\ copies' = copies /\ given' = given
    BY DEF LeaveDirectory
<1>3. NothingIsLeft' /\ stack' \in Seq(SUBSET EntriesOf(tree))
    BY <1>1, LeaveLeavesNothing
<1>4. imported' \in ImportType(tree) /\ bases' \in Seq(DOMAIN tree.directories)
    BY <1>1, <1>2, BasesTyped
<1>5. \A i \in DOMAIN stack' : i \in DOMAIN stack /\ stack'[i] = stack[i]
  <2>1. PICK q \in Seq(SUBSET EntriesOf(tree)) : q = stack
      BY <1>1, BasesTyped
  <2> QED BY <1>2, <2>1
<1>6. \A i \in DOMAIN stack' : \E d \in DOMAIN tree.directories : stack'[i] \subseteq tree.directories[d]
  <2>1. \A i \in DOMAIN stack : \E d \in DOMAIN tree.directories : stack[i] \subseteq tree.directories[d]
      BY <1>1 DEF LegacyTypeOK
  <2> QED BY <1>5, <2>1
<1> QED BY <1>2, <1>3, <1>4, <1>6, WalkKeeps

\* The directories on the stack, when one entry is taken and when another directory is pushed.
LEMMA StackStaysInTree ==
    ASSUME NEW S, NEW q \in Seq(SUBSET S), q # <<>>, NEW F,
           \A i \in DOMAIN q : \E d \in DOMAIN F : q[i] \subseteq F[d], NEW e,
           NEW p, p = [q EXCEPT ![Len(q)] = @ \ {e}]
    PROVE  /\ \A i \in DOMAIN p : \E d \in DOMAIN F : p[i] \subseteq F[d]
           /\ p \in Seq(SUBSET S)
<1>1. q[Len(q)] \ {e} \in SUBSET S
    OBVIOUS
<1>2. /\ p \in Seq(SUBSET S) /\ DOMAIN p = DOMAIN q
      /\ \A i \in DOMAIN q : p[i] = q[i] \/ p[i] = q[i] \ {e}
    BY <1>1
<1>3. ASSUME NEW i \in DOMAIN p PROVE \E d \in DOMAIN F : p[i] \subseteq F[d]
  <2>1. PICK d \in DOMAIN F : q[i] \subseteq F[d]
      BY <1>2
  <2>2. p[i] \subseteq q[i]
      BY <1>2
  <2> QED BY <2>1, <2>2
<1> QED BY <1>2, <1>3

LEMMA EntryKeeps ==
    ASSUME LegacyInv, NEW entry, NextEntry(entry)
    PROVE  LegacyInv'
<1>1. LegacyTypes /\ NothingIsLeft /\ LegacyTypeOK
    BY DEF LegacyInv, LegacyTypes
<1>2. /\ visit = "walk" /\ stack # <<>>
      /\ tree' = tree /\ bases' = bases /\ old' = old /\ copies' = copies /\ given' = given
      /\ \/ stack' = Taken(entry)
         \/ entry.kind = "dir" /\ entry.to # 0 /\ stack' = Append(Taken(entry), tree.directories[entry.to])
  <2>1. /\ visit = "walk" /\ stack # <<>> /\ entry \in stack[Len(stack)]
        /\ tree' = tree /\ bases' = bases /\ old' = old /\ copies' = copies /\ given' = given
      BY DEF NextEntry, Top
  <2>2. entry.kind \in {"file", "dir", "symlink", "typeless"}
    <3>1. stack \in Seq(SUBSET EntriesOf(tree))
        BY <1>1, BasesTyped
    <3>2. stack[Len(stack)] \in SUBSET EntriesOf(tree)
        BY <2>1, <3>1
    <3>3. PICK d \in DOMAIN tree.directories : entry \in tree.directories[d]
        BY <2>1, <3>2 DEF EntriesOf
    <3> QED BY <1>1, <3>3, TreeTyped
  <2>3. \/ stack' = Taken(entry)
        \/ entry.kind = "dir" /\ entry.to # 0 /\ stack' = Append(Taken(entry), tree.directories[entry.to])
    <3>1. CASE entry.kind = "typeless" \/ (entry.kind = "dir" /\ entry.to = 0)
        BY <3>1 DEF NextEntry, IsLegacyItem
    <3>2. CASE entry.kind = "dir" /\ entry.to # 0
        BY <3>2 DEF NextEntry, IsLegacyItem
    <3>3. CASE entry.kind = "symlink" \/ (entry.kind = "file" /\ ~ IsLegacyItem(entry))
        BY <3>3 DEF NextEntry, IsLegacyItem
    <3>4. CASE IsLegacyItem(entry)
        BY <3>4 DEF NextEntry, IsLegacyItem
    <3> QED BY <2>2, <3>1, <3>2, <3>3, <3>4
  <2> QED BY <2>1, <2>3
<1>3. /\ NothingIsLeft' /\ stack' \in Seq(SUBSET EntriesOf(tree)) /\ imported' \in ImportType(tree)
      /\ visit' \in {"walk", "done"} /\ (visit' = "done" => mergeOld' \in {"OtherIo", "FileIo"})
      /\ (visit' = "walk" => mergeOld' = mergeOld)
    BY <1>1, NextEntryLeavesNothing
<1>4. bases' \in Seq(DOMAIN tree.directories) /\ stack \in Seq(SUBSET EntriesOf(tree))
    BY <1>1, <1>2, BasesTyped
<1>5. PICK p \in Seq(SUBSET EntriesOf(tree)) :
        /\ p = Taken(entry)
        /\ \A i \in DOMAIN p : \E d \in DOMAIN tree.directories : p[i] \subseteq tree.directories[d]
  <2>1. PICK p : p = [stack EXCEPT ![Len(stack)] = @ \ {entry}]
      OBVIOUS
  <2>2. \A i \in DOMAIN stack : \E d \in DOMAIN tree.directories : stack[i] \subseteq tree.directories[d]
      BY <1>1 DEF LegacyTypeOK
  <2>3. PICK S, F, q : S = EntriesOf(tree) /\ F = tree.directories /\ q = stack /\ q \in Seq(SUBSET S)
      BY <1>4
  <2>4. /\ \A i \in DOMAIN p : \E d \in DOMAIN F : p[i] \subseteq F[d]
        /\ p \in Seq(SUBSET S)
    <3>1. \A i \in DOMAIN q : \E d \in DOMAIN F : q[i] \subseteq F[d]
        BY <2>2, <2>3
    <3>2. q # <<>> /\ p = [q EXCEPT ![Len(q)] = @ \ {entry}]
        BY <1>2, <2>1, <2>3
    <3> QED BY <2>3, <3>1, <3>2, StackStaysInTree
  <2> QED BY <2>1, <2>3, <2>4 DEF Taken
<1>6. \A i \in DOMAIN stack' : \E d \in DOMAIN tree.directories : stack'[i] \subseteq tree.directories[d]
  <2>1. CASE stack' = p
      BY <1>5, <2>1
  <2>2. CASE entry.kind = "dir" /\ entry.to # 0 /\ stack' = Append(p, tree.directories[entry.to])
    <3>1. entry.to \in DOMAIN tree.directories
      <4>1. PICK x \in SUBSET EntriesOf(tree) : x = stack[Len(stack)] /\ entry \in x
        <5>1. stack[Len(stack)] \in SUBSET EntriesOf(tree)
            BY <1>2, <1>4
        <5> QED BY <5>1 DEF NextEntry, Top
      <4>2. PICK d \in DOMAIN tree.directories : entry \in tree.directories[d]
          BY <4>1 DEF EntriesOf
      <4> QED BY <1>1, <2>2, <4>2, TreeTyped
    <3>2. PICK x : x = tree.directories[entry.to] /\ stack' = Append(p, x)
        BY <2>2
    <3>3. \A i \in DOMAIN Append(p, x) : (i \in DOMAIN p /\ Append(p, x)[i] = p[i]) \/ Append(p, x)[i] = x
        OBVIOUS
    <3> QED BY <1>5, <3>1, <3>2, <3>3
  <2> QED BY <1>2, <1>5, <2>1, <2>2
<1> QED BY <1>2, <1>3, <1>4, <1>6, WalkKeeps


LEMMA ImportedKeeps ==
    ASSUME LegacyInv, Imported
    PROVE  LegacyInv'
<1>1. /\ LegacyTypes /\ NothingIsLeft /\ LegacyTypeOK /\ ReadersAdvance /\ CopiesAreRight /\ EndsInOrder
    BY DEF LegacyInv, LegacyTypes
<1>2. /\ visit = "walk" /\ visit' = "open" /\ tree' = tree /\ bases' = bases /\ stack' = stack
      /\ old' = old /\ copies' = copies /\ given' = given /\ mergeOld' = mergeOld
    BY DEF Imported
<1>3. WalkAccountsForAll' /\ imported' \in ImportType(tree) /\ AscendingLines(imported'.paths)
    BY <1>1, ImportedAccounts
<1>4. LegacyTypes'
  <2>1. LegacyTypeOK'
      BY <1>1, <1>2 DEF LegacyTypeOK
  <2> QED BY <1>1, <1>2, <1>3, <2>1 DEF LegacyTypes
<1>5. NothingIsLeft' /\ PathsAreNext'
    BY <1>2, <1>3 DEF NothingIsLeft, PathsAreNext
<1>6. ReadersAdvance' /\ CopiesAreRight'
    BY <1>1, <1>2 DEF ReadersAdvance, CopiesAreRight
<1>7. EndsInOrder'
    BY <1>1, <1>2 DEF EndsInOrder
<1> QED BY <1>3, <1>4, <1>5, <1>6, <1>7 DEF LegacyInv

LEMMA LegacyStarts == LegacyInit => LegacyInv
<1> SUFFICES ASSUME LegacyInit PROVE LegacyInv
    OBVIOUS
<1>1. /\ tree \in Trees /\ bases = tree.bases /\ stack = <<>> /\ given \in [Output -> OldFiles] /\ old = given
      /\ copies = [o \in Output |-> NewWriter] /\ visit = "walk" /\ mergeOld = NoError
      /\ imported = [paths |-> <<>>, skipped |-> {}, invalid |-> {}]
    BY DEF LegacyInit
<1>2. NewWriter \in CopyWriter /\ NewWriter.output = "open" /\ NewWriter.lines = <<>>
      /\ NewWriter.last_written = NoDigest
    BY DEF NewWriter, CopyWriter, WriterType, NoDigest
<1>3. copies \in [Output -> CopyWriter] /\ \A o \in Output : copies[o] = NewWriter
    BY <1>1, <1>2
<1>4. IsTree(tree) /\ tree.bases \in Seq(DOMAIN tree.directories)
    BY <1>1, LegacyAssumption DEF IsTree
<1>5. LegacyTypes
  <2>1. LegacyTypeOK
      BY <1>1, <1>3 DEF LegacyTypeOK, CopyWriter, CopyLine
  <2>2. imported \in ImportType(tree)
      BY <1>1 DEF ImportType
  <2>3. old \in [Output -> Seq(OldLine \cup {BadLine})]
    <3>1. PICK T : T = Seq(OldLine \cup {BadLine}) /\ OldFiles \subseteq T
        BY LegacyAssumption
    <3> QED BY <1>1, <3>1
  <2>4. stack \in Seq(SUBSET EntriesOf(tree))
      BY <1>1
  <2> QED BY <1>1, <1>4, <2>1, <2>2, <2>3, <2>4 DEF LegacyTypes
<1>6. NothingIsLeft
  <2>1. Len(tree.bases) \in Nat
      BY <1>4
  <2>2. RestOf(tree.bases, bases)
      BY <1>1, <1>4, <2>1 DEF RestOf
  <2>3. 1 .. Len(tree.bases) - Len(bases) = {}
      BY <1>1, <2>1
  <2>4. WalkedTo(tree, bases, stack, imported, {})
      BY <2>3 DEF WalkedTo
  <2> QED BY <2>2, <2>4 DEF NothingIsLeft
<1>7. ReadersAdvance /\ CopiesAreRight
  <2>1. ASSUME NEW o \in Output
        PROVE  /\ RestOf(given[o], old[o]) /\ ReadOf(given[o], old[o]) = {}
               /\ 1 .. Len(given[o]) - Len(old[o]) = {}
    <3>1. PICK g \in Seq(OldLine \cup {BadLine}) : g = given[o] /\ g = old[o]
        BY <1>1, LegacyAssumption
    <3>2. Len(g) \in Nat /\ 1 .. Len(g) - Len(g) = {}
        OBVIOUS
    <3>3. RestOf(g, g) /\ ReadOf(g, g) = {}
        BY <3>2 DEF RestOf, ReadOf
    <3> QED BY <3>1, <3>2, <3>3
  <2>2. \A o \in Output : LinesIn(copies[o]) = {}
      BY <1>2, <1>3 DEF LinesIn
  <2>3. \A o \in Output : AscendingLines(copies[o].lines)
      BY <1>2, <1>3 DEF AscendingLines
  <2>4. ReadersAdvance
      BY <2>1 DEF ReadersAdvance
  <2>5. CopiesAreRight
      BY <1>2, <1>3, <2>1, <2>2, <2>3 DEF CopiesAreRight, Copies, AddsOnly
  <2> QED BY <2>4, <2>5
<1>8. WalkAccountsForAll /\ PathsAreNext
    BY <1>1 DEF WalkAccountsForAll, PathsAreNext
<1>9. EndsInOrder
  <2>1. /\ visit = "walk" /\ old = given /\ copies = [o \in Output |-> NewWriter]
        /\ \A o \in Output : copies[o].output = "open"
      BY <1>1, <1>2, <1>3
  <2> QED BY <2>1 DEF EndsInOrder, Output, Visible
<1> QED BY <1>5, <1>6, <1>7, <1>8, <1>9 DEF LegacyInv

LEMMA LegacyStutters ==
    ASSUME LegacyInv, UNCHANGED legacyVars
    PROVE  LegacyInv'
<1>1. /\ LegacyTypes /\ NothingIsLeft /\ WalkAccountsForAll /\ ReadersAdvance /\ CopiesAreRight
      /\ PathsAreNext /\ EndsInOrder
    BY DEF LegacyInv
<1>2. UNCHANGED <<tree, bases, stack, imported, old, copies, visit, mergeOld, given>>
    BY DEF legacyVars
<1>3. LegacyTypes'
    BY <1>1, <1>2 DEF LegacyTypes, LegacyTypeOK
<1>4. NothingIsLeft' /\ WalkAccountsForAll'
    BY <1>1, <1>2 DEF NothingIsLeft, WalkAccountsForAll
<1>5. ReadersAdvance' /\ CopiesAreRight'
    BY <1>1, <1>2 DEF ReadersAdvance, CopiesAreRight
<1>6. PathsAreNext' /\ EndsInOrder'
    BY <1>1, <1>2 DEF PathsAreNext, EndsInOrder
<1> QED BY <1>3, <1>4, <1>5, <1>6 DEF LegacyInv

\* With every line read, a published output has the lines of its file and what was added.
LEMMA LegacyInvKeeps == LegacyInv => LegacyIsKept
<1> SUFFICES ASSUME LegacyInv PROVE LegacyIsKept
    OBVIOUS
<1>1. /\ LegacyTypes /\ LegacyTypeOK /\ WalkAccountsForAll
      /\ ReadersAdvance /\ CopiesAreRight /\ EndsInOrder
    BY DEF LegacyInv, LegacyTypes
<1> DEFINE Lines(o) == {copies[o].lines[i] : i \in DOMAIN copies[o].lines}
           Old(o) == {given[o][i] : i \in DOMAIN given[o]}
<1>2. ASSUME NEW o \in Output, Visible(copies[o])
      PROVE  /\ \A p \in Output : BadLine \notin Old(p)
             /\ Old(o) = {l \in Lines(o) : l.from = "input"}
             /\ \A i, j \in DOMAIN copies[o].lines : i < j => copies[o].lines[i].digest < copies[o].lines[j].digest
             /\ \A l \in Lines(o) : l.from = "file" =>
                  /\ \A p \in Output : \A k \in Old(p) : k.digest # l.digest
                  /\ \E d \in DOMAIN tree.directories : \E e \in tree.directories[d] :
                       IsLegacyItem(e) /\ e.digest = l.digest /\ e.found = l.digest /\ e.belongs = o
  <2>1. \A p \in Output : old[p] = <<>>
      BY <1>1, <1>2 DEF EndsInOrder
  <2>2. \A p \in Output : \A i \in DOMAIN given[p] : given[p][i] # BadLine
    <3> TAKE p \in Output
    <3>1. PICK S, g : g = given[p] /\ g \in Seq(S)
        BY <1>1, OldTyped
    <3>2. 1 .. Len(given[p]) - Len(old[p]) = DOMAIN given[p]
      <4>1. Len(g) \in Nat /\ DOMAIN g = 1 .. Len(g) /\ Len(<<>>) = 0
          BY <3>1
      <4>2. 1 .. Len(g) - 0 = DOMAIN g
          BY <4>1
      <4> QED BY <2>1, <3>1, <4>1, <4>2
    <3> QED BY <1>1, <3>2 DEF ReadersAdvance
  <2>3. Readable(given)
      BY <2>2 DEF Readable
  <2>4. Copies(copies[o], given[o], old[o]) /\ AddsOnly(copies[o], tree, given, o)
      BY <1>1, <2>3 DEF CopiesAreRight
  <2>5. ReadOf(given[o], old[o]) = Old(o)
    <3>1. PICK S, g : g = given[o] /\ g \in Seq(S)
        BY <1>1, OldTyped
    <3>2. 1 .. Len(given[o]) - Len(old[o]) = DOMAIN given[o]
      <4>1. Len(g) \in Nat /\ DOMAIN g = 1 .. Len(g) /\ Len(<<>>) = 0
          BY <3>1
      <4>2. 1 .. Len(g) - 0 = DOMAIN g
          BY <4>1
      <4> QED BY <2>1, <3>1, <4>1, <4>2
    <3> QED BY <3>2 DEF ReadOf
  <2>6. LinesIn(copies[o]) = Lines(o)
      BY DEF LinesIn
  <2>7. \A l \in Lines(o) : l.from = "file" =>
          /\ \A p \in Output : \A i \in DOMAIN given[p] : given[p][i].digest # l.digest
          /\ \E e \in SoundOf(tree) : e.digest = l.digest /\ e.belongs = o
      BY <2>4, <2>6 DEF AddsOnly
  <2>8. \A e \in SoundOf(tree) : \E d \in DOMAIN tree.directories :
          e \in tree.directories[d] /\ IsLegacyItem(e) /\ e.found = e.digest
      BY DEF SoundOf, FilesOf, EntriesOf
  <2>9. Old(o) = {l \in Lines(o) : l.from = "input"}
    <3>1. {l \in LinesIn(copies[o]) : l.from = "input"} = ReadOf(given[o], old[o])
        BY <2>4 DEF Copies
    <3> HIDE DEF Old, Lines
    <3> QED BY <2>5, <2>6, <3>1
  <2>10. \A i, j \in DOMAIN copies[o].lines :
           i < j => copies[o].lines[i].digest < copies[o].lines[j].digest
      BY <2>4 DEF Copies, AscendingLines
  <2>11. \A p \in Output : BadLine \notin Old(p)
      BY <2>2
  <2>12. \A l \in Lines(o) : l.from = "file" =>
           /\ \A p \in Output : \A k \in Old(p) : k.digest # l.digest
           /\ \E d \in DOMAIN tree.directories : \E e \in tree.directories[d] :
                IsLegacyItem(e) /\ e.digest = l.digest /\ e.found = l.digest /\ e.belongs = o
    <3> TAKE l \in Lines(o)
    <3> HAVE l.from = "file"
    <3>1. \A p \in Output : \A k \in Old(p) : k.digest # l.digest
        BY <2>7
    <3>2. PICK e \in SoundOf(tree) : e.digest = l.digest /\ e.belongs = o
        BY <2>7
    <3>3. PICK d \in DOMAIN tree.directories : e \in tree.directories[d] /\ IsLegacyItem(e) /\ e.found = e.digest
        BY <2>8
    <3> QED BY <3>1, <3>2, <3>3
  <2> QED BY <2>9, <2>10, <2>11, <2>12
<1>3. /\ visit = "done" => (mergeOld = NoError <=> \A o \in Output : copies[o].output = "published")
      /\ Visible(copies["data"]) => copies["flat"].output = "published"
    BY <1>1 DEF EndsInOrder, Output
<1>4. OldMergeKeepsAll
    BY <1>2, <1>3, Zenon DEF OldMergeKeepsAll
<1> QED BY <1>1, <1>4 DEF LegacyIsKept

\* Whatever the directories and the two old files hold, within what LegacyAssumption says of them: an
\* import that succeeds has accounted for every entry, and an output of merge-old that is visible,
\* though its finish may have returned an error, has every old line, in order, and besides only sound
\* files that neither had; success says that both are published and synced (Importer::next,
\* merge-old, write.rs:204-209).
THEOREM LegacyLosesNothing == LegacySpec => []LegacyIsKept
<1>1. LegacyInv /\ [LegacyNext]_legacyVars => LegacyInv'
  <2> SUFFICES ASSUME LegacyInv, [LegacyNext]_legacyVars PROVE LegacyInv'
      OBVIOUS
  <2>1. ASSUME NEW ok \in BOOLEAN, OpenBase(ok) PROVE LegacyInv'
      BY <2>1, OpenBaseKeeps
  <2>2. ASSUME NEW ok \in BOOLEAN, OpenOld(ok) PROVE LegacyInv'
    <3>1. /\ UNCHANGED <<tree, bases, stack, imported, old, copies, given>>
          /\ visit = "open"
          /\ (visit' = "merge" /\ mergeOld' = mergeOld) \/ (visit' = "done" /\ mergeOld' = "Io")
        BY <2>2 DEF OpenOld, GiveUp
    <3> QED BY <3>1, EndsKeep
  <2>3. ASSUME NEW ok \in BOOLEAN, MergeFile(ok) PROVE LegacyInv'
      BY <2>3, MergeFileKeeps
  <2>4. ASSUME NEW entry, NextEntry(entry) PROVE LegacyInv'
      BY <2>4, EntryKeeps
  <2>5. CASE LeaveDirectory
      BY <2>5, LeaveKeeps
  <2>6. CASE Imported
      BY <2>6, ImportedKeeps
  <2>7. CASE FilesMerged
    <3>1. /\ UNCHANGED <<tree, bases, stack, imported, old, copies, given>>
          /\ visit = "merge" /\ imported.paths = <<>> /\ visit' = "drain" /\ mergeOld' = mergeOld
        BY <2>7 DEF FilesMerged
    <3> QED BY <3>1, EndsKeep
  <2>8. CASE DrainOld
      BY <2>8, DrainKeeps
  <2>9. CASE MergeFails
    <3>1. /\ UNCHANGED <<tree, bases, stack, imported, old, copies, given>>
          /\ visit \in {"open", "merge", "drain"} /\ visit' = "done" /\ mergeOld' = "Io"
        BY <2>9 DEF MergeFails, GiveUp
    <3> QED BY <3>1, EndsKeep
  <2>10. ASSUME NEW o \in Output, NEW end \in Outcomes, FinishOld(o, end) PROVE LegacyInv'
      BY <2>10, FinishOldKeeps
  <2>11. CASE UNCHANGED legacyVars
      BY <2>11, LegacyStutters
  <2> QED BY <2>1, <2>2, <2>3, <2>4, <2>5, <2>6, <2>7, <2>8, <2>9, <2>10, <2>11 DEF LegacyNext
<1> QED BY <1>1, LegacyStarts, LegacyInvKeeps, PTL DEF LegacySpec

-----------------------------------------------------------------------------
(* The merge into two outputs *)

Loop == {"entry", "drain", "match", "file", "rest"}

(* Facts about sequences. *)

LEMMA Append1 ==
    ASSUME NEW S, NEW q \in Seq(S), NEW x \in S
    PROVE  /\ Append(q, x) \in Seq(S)
           /\ Len(Append(q, x)) = Len(q) + 1
           /\ Len(q) \in Nat
           /\ DOMAIN q = 1 .. Len(q)
           /\ DOMAIN Append(q, x) = 1 .. (Len(q) + 1)
           /\ \A n \in 1 .. Len(q) : Append(q, x)[n] = q[n]
           /\ Append(q, x)[Len(q) + 1] = x
OBVIOUS

LEMMA EmptySequence ==
    ASSUME NEW S
    PROVE  <<>> \in Seq(S) /\ Len(<<>>) = 0 /\ DOMAIN <<>> = {}
OBVIOUS

LEMMA InputFacts ==
    ASSUME TypeOK, NEW s \in Sides
    PROVE  /\ input[s] \in Seq(Digest \cup {Bad})
           /\ Len(input[s]) \in Nat
           /\ line[s] \in Nat
           /\ line[s] <= Len(input[s])
           /\ ~ AtEnd(s) => line[s] + 1 \in 1 .. Len(input[s])
           /\ IsSnapshot(s) => Upcoming(s) \in Digest
<1>1. /\ input[s] \in Seq(Digest \cup {Bad})
      /\ line[s] \in Nat
      /\ line[s] <= Len(input[s])
    BY MergeAssumption DEF TypeOK
<1>2. Len(input[s]) \in Nat
    BY <1>1
<1>3. ~ AtEnd(s) => line[s] + 1 \in 1 .. Len(input[s])
    BY <1>1, <1>2 DEF AtEnd
<1>4. ASSUME IsSnapshot(s) PROVE Upcoming(s) \in Digest
    <2>1. Upcoming(s) \in Digest \cup {Bad}
        BY <1>1, <1>3, <1>4 DEF Upcoming, IsSnapshot
    <2> QED BY <2>1, <1>4 DEF IsSnapshot
<1> QED BY <1>1, <1>2, <1>3, <1>4

LEMMA EntryFacts ==
    ASSUME TypeOK
    PROVE  /\ entries \in Seq(Digest)
           /\ Len(entries) \in Nat
           /\ index \in Nat
           /\ index <= Len(entries)
           /\ index > 0 => Target \in Digest
<1>1. entries \in Seq(Digest) /\ index \in 0 .. Len(entries)
    BY MergeAssumption DEF TypeOK
<1>2. Len(entries) \in Nat
    BY <1>1
<1> QED BY <1>1, <1>2 DEF Target
-----------------------------------------------------------------------------
(* Types *)

LEMMA InitTypes == Init => TypeOK
<1> SUFFICES ASSUME Init PROVE TypeOK
    OBVIOUS
<1>1. \A s \in Sides : input[s] \in Seq(Digest \cup {Bad}) /\ Len(input[s]) \in Nat
    BY MergeAssumption DEF Init
<1>2. entries \in Seq(Digest) /\ Len(entries) \in Nat
    BY MergeAssumption DEF Init
<1>3. /\ sent \in [Sides -> Seq(Digest)]
      /\ \A s \in Sides : taken[s] <= Len(sent[s])
    BY EmptySequence DEF Init
<1> QED BY <1>1, <1>2, <1>3 DEF Init, TypeOK, PCs, Errors, Sides, None

\* The steps of the task that send nothing.
LEMMA StopTypes ==
    ASSUME TypeOK, NEW e \in Errors, Stop(e)
    PROVE  TypeOK'
BY DEF TypeOK, Stop, inputVars, entryVars, stats, writerVars, PCs, Sides

LEMMA MoveTypes ==
    ASSUME TypeOK, NEW step \in PCs, NEW s \in Sides, Move(step, s)
    PROVE  TypeOK'
BY DEF TypeOK, Move, Goto, inputVars, entryVars, stats, writerVars

\* What a command in the channel does to the types.
LEMMA SendTypes ==
    ASSUME TypeOK, NEW s \in Sides, NEW d \in Digest, Send(s, d), UNCHANGED taken
    PROVE  /\ sent' \in [Sides -> Seq(Digest)]
           /\ \A t \in Sides : taken'[t] <= Len(sent'[t])
<1>1. /\ sent \in [Sides -> Seq(Digest)]
      /\ taken \in [Sides -> Nat]
      /\ \A t \in Sides : taken[t] <= Len(sent[t])
      /\ sent' = [sent EXCEPT ![s] = Append(sent[s], d)]
    BY DEF TypeOK, Send
<1>2. /\ Append(sent[s], d) \in Seq(Digest)
      /\ Len(Append(sent[s], d)) = Len(sent[s]) + 1
      /\ Len(sent[s]) \in Nat
    BY <1>1, Append1
<1>3. \A t \in Sides : sent'[t] = IF t = s THEN Append(sent[s], d) ELSE sent[t]
    BY <1>1
<1> QED BY <1>1, <1>2, <1>3

LEMMA PassTypes ==
    ASSUME TypeOK, NEW s \in Sides, IsSnapshot(s), NEW step \in PCs, NEW t \in Sides,
           PassThrough(s, step, t)
    PROVE  TypeOK'
<1>1. CASE Unordered(s) /\ Stop("Order")
    BY <1>1, StopTypes DEF Errors
<1>2. CASE SendFails(s)
    BY <1>2, StopTypes DEF Errors, SendFails
<1>3. CASE /\ Send(s, Upcoming(s))
           /\ line' = [line EXCEPT ![s] = @ + 1]
           /\ previous' = [previous EXCEPT ![s] = Upcoming(s)]
           /\ passed' = [passed EXCEPT ![s] = @ + 1]
           /\ Goto(step, t)
           /\ UNCHANGED <<input, entryVars, error, new, skipped, sender, writerVars, result>>
    <2>1. /\ Upcoming(s) \in Digest
          /\ line[s] + 1 \in 1 .. Len(input[s])
          /\ Len(input[s]) \in Nat
        BY InputFacts DEF IsSnapshot
    <2>2. /\ sent' \in [Sides -> Seq(Digest)]
          /\ \A u \in Sides : taken'[u] <= Len(sent'[u])
        BY <1>3, <2>1, SendTypes DEF writerVars
    <2>3. /\ line \in [Sides -> Nat] /\ previous \in [Sides -> Nat] /\ passed \in [Sides -> Nat]
          /\ \A u \in Sides : line[u] <= Len(input[u])
          /\ Upcoming(s) \in Nat
        BY <2>1 DEF TypeOK, Digest
    <2>4. input' = input
        BY <1>3
    <2>5. \A u \in Sides : line'[u] = IF u = s THEN line[s] + 1 ELSE line[u]
        BY <1>3, <2>3
    <2>6. \A u \in Sides : line'[u] <= Len(input'[u])
        <3> TAKE u \in Sides
        <3>1. CASE u = s
            BY <3>1, <2>1, <2>3, <2>4, <2>5
        <3>2. CASE u # s
            BY <3>2, <2>3, <2>4, <2>5
        <3> QED BY <3>1, <3>2
    <2>7. line' \in [Sides -> Nat]
        BY <1>3, <2>3
    <2>8. previous' \in [Sides -> Nat]
        BY <1>3, <2>3
    <2>9. passed' \in [Sides -> Nat]
        BY <1>3, <2>3
    <2> QED BY <1>3, <2>2, <2>4, <2>6, <2>7, <2>8, <2>9 DEF TypeOK, Goto, entryVars, writerVars
<1> QED BY <1>1, <1>2, <1>3 DEF PassThrough

\* From the moment an entry is taken until it is dealt with, there is one.
HasTarget == pc \in {"drain", "match", "file"} => index > 0

LEMMA NextTypes == TypeOK /\ HasTarget /\ [Next]_vars => TypeOK'
<1> SUFFICES ASSUME TypeOK, HasTarget, [Next]_vars PROVE TypeOK'
    OBVIOUS
<1>0. side \in Sides /\ 1 \in Sides /\ 2 \in Sides
    BY DEF TypeOK, Sides
<1>1. CASE UNCHANGED vars
    BY <1>1 DEF TypeOK, vars, inputVars, entryVars, stats, writerVars
<1>2. CASE Create
    BY <1>2, <1>0 DEF Create, TypeOK, inputVars, entryVars, stats, writerVars, PCs
<1>3. CASE CreateFails
    BY <1>3, <1>0 DEF CreateFails, TypeOK, inputVars, entryVars, stats, writerVars, PCs, Errors
<1>4. CASE AbortJoined
    BY <1>4, <1>0 DEF AbortJoined, TypeOK, inputVars, entryVars, stats, writerVars, PCs, Errors
<1>5. CASE TakeEntry
    <2>1. CASE Stop("Order")
        BY <2>1, StopTypes DEF Errors
    <2>2. CASE /\ index' = index + 1
               /\ Goto("drain", 1)
               /\ UNCHANGED <<inputVars, entries, error, sent, stats, sender, writerVars, result>>
        <3>1. index' \in 0 .. Len(entries)
            BY <2>2, <1>5, EntryFacts DEF TakeEntry
        <3> QED BY <2>2, <3>1, <1>0 DEF TypeOK, Goto, inputVars, stats, writerVars, PCs
    <2> QED BY <1>5, <2>1, <2>2 DEF TakeEntry
<1>6. CASE EntriesDone
    BY <1>6, <1>0, MoveTypes DEF EntriesDone, PCs
<1>7. CASE Drain
    <2>1. CASE MeetsBadLine(side)
        BY <2>1, StopTypes DEF MeetsBadLine, Errors
    <2>2. CASE IsSnapshot(side) /\ PassThrough(side, "drain", side)
        BY <2>2, <1>0, PassTypes DEF PCs
    <2>3. CASE Move("drain", 2) \/ Move("match", 1)
        BY <2>3, <1>0, MoveTypes DEF PCs
    <2> QED BY <1>7, <2>1, <2>2, <2>3 DEF Drain
<1>8. CASE Match
    <2>1. CASE MeetsBadLine(side)
        BY <2>1, StopTypes DEF MeetsBadLine, Errors
    <2>2. CASE IsSnapshot(side) /\ PassThrough(side, "entry", 1)
        BY <2>2, <1>0, PassTypes DEF PCs
    <2>3. CASE Move("match", 2) \/ Move("file", 1)
        BY <2>3, <1>0, MoveTypes DEF PCs
    <2> QED BY <1>8, <2>1, <2>2, <2>3 DEF Match
<1>9. CASE SkipFile
    <2>1. skipped' \in Nat
        BY <1>9 DEF SkipFile, TypeOK
    <2>2. pc' \in PCs /\ side' \in Sides
        BY <1>9, <1>0 DEF SkipFile, Goto, PCs
    <2> QED BY <1>9, <2>1, <2>2 DEF SkipFile, TypeOK, inputVars, entryVars, writerVars
<1>10. ASSUME NEW s \in Sides, WriteFile(s) PROVE TypeOK'
    <2>1. CASE SendFails(s)
        BY <2>1, StopTypes DEF SendFails, Errors
    <2>2. CASE /\ Send(s, Target)
               /\ new' = [new EXCEPT ![s] = @ + 1]
               /\ Goto("entry", 1)
               /\ UNCHANGED <<inputVars, entryVars, error, passed, skipped, sender, writerVars,
                              result>>
        <3>1. /\ sent' \in [Sides -> Seq(Digest)]
              /\ \A u \in Sides : taken'[u] <= Len(sent'[u])
            BY <2>2, <1>10, EntryFacts, SendTypes DEF writerVars, WriteFile, HasTarget
        <3>2. new' \in [Sides -> Nat]
            BY <2>2, SMTT(30) DEF TypeOK
        <3> QED BY <2>2, <3>1, <3>2, <1>0 DEF TypeOK, Goto, inputVars, entryVars, writerVars, PCs
    <2> QED BY <1>10, <2>1, <2>2 DEF WriteFile
<1>11. CASE Rest
    <2>1. CASE MeetsBadLine(side)
        BY <2>1, StopTypes DEF MeetsBadLine, Errors
    <2>2. CASE IsSnapshot(side) /\ PassThrough(side, "rest", side)
        BY <2>2, <1>0, PassTypes DEF PCs
    <2>3. CASE Move("rest", 2) \/ Move("finish", 1)
        BY <2>3, <1>0, MoveTypes DEF PCs
    <2> QED BY <1>11, <2>1, <2>2, <2>3 DEF Rest
<1>12. CASE DropSender
    BY <1>12 DEF DropSender, TypeOK, inputVars, entryVars, stats, writerVars, PCs
<1>13. CASE Join
    <2>1. Returned \in {"none", "ok"} \cup Errors
        BY DEF Returned, Errors, TypeOK
    <2> QED BY <1>13, <1>0, <2>1
            DEF Join, Goto, TypeOK, inputVars, entryVars, stats, writerVars, PCs
<1>14. ASSUME NEW s \in Sides, WriterThread(s) PROVE TypeOK'
    <2>1. CASE Write(s) \/ WriteFails(s)
        <3>1. /\ taken' = [taken EXCEPT ![s] = @ + 1]
              /\ taken[s] < Len(sent[s])
              /\ sent' = sent
            BY <2>1 DEF Write, WriteFails
        <3>2. /\ taken \in [Sides -> Nat]
              /\ sent \in [Sides -> Seq(Digest)]
              /\ \A u \in Sides : Len(sent[u]) \in Nat /\ taken[u] <= Len(sent[u])
            BY SMTT(30) DEF TypeOK
        <3>3. taken' \in [Sides -> Nat] /\ \A u \in Sides : taken'[u] <= Len(sent'[u])
            BY <3>1, <3>2
        <3>4. /\ writer' \in [Sides -> {"none", "writing", "broken", "ended"}]
              /\ reported' \in [Sides -> {"none", "ok", "Write"}]
            BY <2>1 DEF Write, WriteFails, TypeOK
        <3>5. UNCHANGED <<inputVars, entryVars, pc, side, error, sent, stats, sender, published,
                          result>>
            BY <2>1 DEF Write, WriteFails
        <3> QED BY <3>3, <3>4, <3>5 DEF TypeOK, inputVars, entryVars, stats
    <2>2. CASE Finish(s)
        <3>1. /\ writer' \in [Sides -> {"none", "writing", "broken", "ended"}]
              /\ reported' \in [Sides -> {"none", "ok", "Write"}]
            BY <2>2 DEF Finish, TypeOK
        <3>2. published' \in [Sides -> BOOLEAN]
            <4>1. published \in [Sides -> BOOLEAN]
                BY DEF TypeOK
            <4>2. PICK p \in BOOLEAN : published' = [published EXCEPT ![s] = p]
                BY <2>2, Zenon DEF Finish
            <4> QED BY <4>1, <4>2, Zenon
        <3> QED BY <2>2, <3>1, <3>2 DEF Finish, TypeOK, inputVars, entryVars, stats
    <2>3. CASE Abort(s)
        BY <2>3 DEF Abort, TypeOK, inputVars, entryVars, stats
    <2> QED BY <1>14, <2>1, <2>2, <2>3 DEF WriterThread
<1> QED BY <1>1, <1>2, <1>3, <1>4, <1>5, <1>6, <1>7, <1>8, <1>9, <1>10, <1>11, <1>12, <1>13,
           <1>14 DEF Next, MergeTask
-----------------------------------------------------------------------------
(* Control: where the task, the channels and the threads can be at a time. *)

Control ==
    /\ HasTarget
    /\ pc \in Loop \cup {"finish", "join"} => writer[1] # "none" /\ writer[2] # "none"
    /\ pc = "create" => \A s \in Sides : sent[s] = <<>>
    /\ pc = "create" => writer[2] = "none" /\ (writer[1] = "none" <=> side = 1)
    /\ pc \in Loop \cup {"create"} => \A s \in Sides : sender[s] = "open"
    /\ pc # "done" => result = "none"
    /\ pc = "abort" => error = "Io"
    /\ pc \in Loop \cup {"create"} => error = "none"

Writers ==
    /\ \A s \in Sides :
         /\ writer[s] \in {"none", "writing"} => reported[s] = "none" /\ ~ published[s]
         /\ writer[s] = "broken" => reported[s] = "Write" /\ ~ published[s]
         /\ writer[s] = "ended" => reported[s] = "Write" \/ sender[s] # "open"
    /\ writer[1] = "none" => writer[2] = "none"
    /\ writer[2] = "none" =>
         sent[1] = <<>> /\ sender[1] # "dropped" /\ writer[1] # "broken" /\ ~ published[1]

Cause ==
    /\ error = "WriterChannelClosed" => \E s \in Sides : reported[s] = "Write"
    /\ result # "WriterChannelClosed"

ControlInv == TypeOK /\ Control /\ Writers /\ Cause

\* What a step of the merge loop does to anything but the streams.
LoopStep ==
    /\ pc \in Loop
    /\ UNCHANGED <<sender, writerVars, result>>
    /\ \/ pc' = "finish" /\ error' \in {"none", "Stream", "Order"}
       \/ pc' = "finish" /\ \E s \in Sides : writer[s] = "ended"
       \/ pc' \in Loop /\ error' = error

LEMMA PassIsLoopStep ==
    ASSUME NEW s \in Sides, NEW step \in Loop, NEW t \in Sides, pc \in Loop,
           PassThrough(s, step, t)
    PROVE  LoopStep
<1>1. CASE Unordered(s) /\ Stop("Order")
    BY <1>1 DEF LoopStep, Stop, writerVars
<1>2. CASE SendFails(s)
    BY <1>2 DEF LoopStep, Stop, SendFails, writerVars
<1>3. CASE Goto(step, t) /\ UNCHANGED <<input, entryVars, error, new, skipped, sender, writerVars, result>>
    BY <1>3 DEF LoopStep, Goto, writerVars
<1> QED BY <1>1, <1>2, <1>3 DEF PassThrough

LEMMA LoopSteps ==
    ASSUME TypeOK, Control,
           TakeEntry \/ EntriesDone \/ Drain \/ Match \/ SkipFile \/ (\E s \in Sides : WriteFile(s))
           \/ Rest
    PROVE  LoopStep
<1>0. side \in Sides /\ 1 \in Sides /\ 2 \in Sides
    BY DEF TypeOK, Sides
<1>1. CASE TakeEntry
    BY <1>1 DEF TakeEntry, LoopStep, Stop, Goto, writerVars, Loop
<1>2. CASE EntriesDone
    BY <1>2 DEF EntriesDone, LoopStep, Move, Goto, writerVars, Loop
<1>3. CASE Drain
    <2>1. pc \in Loop
        BY <1>3 DEF Drain, Loop
    <2>2. CASE MeetsBadLine(side)
        BY <2>1, <2>2 DEF MeetsBadLine, LoopStep, Stop, writerVars
    <2>3. CASE PassThrough(side, "drain", side)
        BY <2>1, <2>3, <1>0, PassIsLoopStep DEF Loop
    <2>4. CASE Move("drain", 2) \/ Move("match", 1)
        BY <2>1, <2>4 DEF LoopStep, Move, Goto, writerVars, Loop
    <2> QED BY <1>3, <2>2, <2>3, <2>4 DEF Drain
<1>4. CASE Match
    <2>1. pc \in Loop
        BY <1>4 DEF Match, Loop
    <2>2. CASE MeetsBadLine(side)
        BY <2>1, <2>2 DEF MeetsBadLine, LoopStep, Stop, writerVars
    <2>3. CASE PassThrough(side, "entry", 1)
        BY <2>1, <2>3, <1>0, PassIsLoopStep DEF Loop
    <2>4. CASE Move("match", 2) \/ Move("file", 1)
        BY <2>1, <2>4 DEF LoopStep, Move, Goto, writerVars, Loop
    <2> QED BY <1>4, <2>2, <2>3, <2>4 DEF Match
<1>5. CASE SkipFile
    BY <1>5 DEF SkipFile, LoopStep, Goto, writerVars, Loop
<1>6. ASSUME NEW s \in Sides, WriteFile(s) PROVE LoopStep
    BY <1>6 DEF WriteFile, SendFails, Stop, LoopStep, Goto, writerVars, Loop
<1>7. CASE Rest
    <2>1. pc \in Loop
        BY <1>7 DEF Rest, Loop
    <2>2. CASE MeetsBadLine(side)
        BY <2>1, <2>2 DEF MeetsBadLine, LoopStep, Stop, writerVars
    <2>3. CASE PassThrough(side, "rest", side)
        BY <2>1, <2>3, <1>0, PassIsLoopStep DEF Loop
    <2>4. CASE Move("rest", 2)
        BY <2>1, <2>4 DEF LoopStep, Move, Goto, writerVars, Loop
    <2>5. CASE Move("finish", 1)
        BY <2>1, <2>5 DEF LoopStep, Move, Goto, writerVars, Control
    <2> QED BY <1>7, <2>2, <2>3, <2>4, <2>5 DEF Rest
<1> QED BY <1>1, <1>2, <1>3, <1>4, <1>5, <1>6, <1>7

\* An entry is there when the loop goes where one is needed.
LEMMA TargetStays == ASSUME TypeOK, HasTarget, [Next]_vars PROVE HasTarget'
<1>0. index \in Nat
    BY EntryFacts
<1>1. CASE UNCHANGED vars
    BY <1>1 DEF vars, entryVars, HasTarget
<1>2. CASE Create \/ CreateFails \/ AbortJoined \/ EntriesDone \/ DropSender \/ Join
    BY <1>2, <1>0 DEF Create, CreateFails, AbortJoined, EntriesDone, DropSender, Join, Move, Goto,
                      entryVars, HasTarget
<1>3. CASE TakeEntry
    BY <1>3, <1>0 DEF TakeEntry, Stop, Goto, entryVars, HasTarget
<1>4. CASE Drain \/ Match
    BY <1>4, <1>0 DEF Drain, Match, MeetsBadLine, PassThrough, SendFails, Stop, Move, Goto, entryVars,
                      HasTarget
<1>5. CASE SkipFile
    BY <1>5 DEF SkipFile, Goto, HasTarget
<1>6. ASSUME NEW s \in Sides, WriteFile(s) PROVE HasTarget'
    BY <1>6 DEF WriteFile, SendFails, Stop, Goto, HasTarget
<1>7. CASE Rest
    BY <1>7 DEF Rest, MeetsBadLine, PassThrough, SendFails, Stop, Move, Goto, HasTarget
<1>8. ASSUME NEW s \in Sides, WriterThread(s) PROVE HasTarget'
    BY <1>8 DEF WriterThread, Write, WriteFails, Finish, Abort, entryVars, HasTarget
<1> QED BY <1>1, <1>2, <1>3, <1>4, <1>5, <1>6, <1>7, <1>8 DEF Next, MergeTask

LEMMA InitControl == Init => Control /\ Writers /\ Cause
BY DEF Init, Control, HasTarget, Writers, Cause, Loop, Sides

LEMMA NextControl == ControlInv /\ [Next]_vars => Control' /\ Writers' /\ Cause'
<1> SUFFICES ASSUME TypeOK, Control, Writers, Cause, [Next]_vars
             PROVE  Control' /\ Writers' /\ Cause'
    BY DEF ControlInv
<1>0. side \in Sides /\ 1 \in Sides /\ 2 \in Sides /\ \A s \in Sides : s = 1 \/ s = 2
    BY DEF TypeOK, Sides
<1>h. HasTarget'
    BY TargetStays DEF Control
<1>1. CASE UNCHANGED vars
    BY <1>1 DEF vars, inputVars, entryVars, stats, writerVars, Control, HasTarget, Writers, Cause
<1>a. /\ writer \in [Sides -> {"none", "writing", "broken", "ended"}]
      /\ sender \in [Sides -> {"open", "aborted", "dropped"}]
      /\ reported \in [Sides -> {"none", "ok", "Write"}]
      /\ published \in [Sides -> BOOLEAN]
    BY DEF TypeOK
<1>2. CASE Create
    <2>1. /\ writer' = [writer EXCEPT ![side] = "writing"]
          /\ UNCHANGED <<error, sent, sender, reported, published, result>>
          /\ pc = "create"
          /\ \/ side = 1 /\ side' = 2 /\ pc' = pc
             \/ side = 2 /\ side' = 1 /\ pc' = "entry"
        BY <1>2, <1>0 DEF Create
    <2>2. Control'
        BY <2>1, <1>h, <1>0, <1>a, <1>2 DEF Control, Loop, Create
    <2>3. Writers'
        BY <2>1, <1>0, <1>a DEF Control, Writers, Loop
    <2> QED BY <2>1, <2>2, <2>3 DEF Cause
<1>3. CASE CreateFails
    <2>1. /\ UNCHANGED <<sent, writer, reported, published>>
          /\ pc = "create"
          /\ error' = "Io"
          /\ \/ pc' = "done" /\ result' = "Io" /\ sender' = sender
             \/ pc' = "abort" /\ sender' = [sender EXCEPT ![1] = "aborted"] /\ result' = result
        BY <1>3 DEF CreateFails, writerVars
    <2>2. Control'
        BY <2>1, <1>h DEF Control, Loop
    <2>3. Writers'
        BY <2>1, <1>0, <1>a DEF Control, Writers
    <2> QED BY <2>1, <2>2, <2>3 DEF Cause
<1>4. CASE AbortJoined
    <2>1. /\ UNCHANGED <<sent, sender, error, writer, reported, published>>
          /\ pc = "abort" /\ pc' = "done" /\ result' = error
        BY <1>4 DEF AbortJoined, writerVars
    <2> QED BY <2>1, <1>h DEF Control, Writers, Cause, Loop
<1>5. CASE TakeEntry \/ EntriesDone \/ Drain \/ Match \/ SkipFile
           \/ (\E s \in Sides : WriteFile(s)) \/ Rest
    <2>1. LoopStep
        BY <1>5, LoopSteps
    <2>2. Control'
        BY <2>1, <1>h DEF LoopStep, Control, Loop, writerVars
    <2>3. Writers'
        BY <2>1 DEF LoopStep, Control, Writers, writerVars, Loop
    <2>4. Cause'
        <3>1. CASE \E s \in Sides : writer[s] = "ended"
            <4>1. PICK s \in Sides : writer[s] = "ended"
                BY <3>1
            <4>2. reported[s] = "Write"
                BY <2>1, <4>1 DEF LoopStep, Control, Writers
            <4> QED BY <2>1, <4>2 DEF LoopStep, Cause, writerVars
        <3>2. CASE ~ \E s \in Sides : writer[s] = "ended"
            BY <2>1, <3>2 DEF LoopStep, Cause, writerVars
        <3> QED BY <3>1, <3>2
    <2> QED BY <2>2, <2>3, <2>4
<1>6. CASE DropSender
    <2>1. /\ UNCHANGED <<sent, error, result, writer, reported, published>>
          /\ pc = "finish" /\ pc' = "join"
          /\ sender' = [sender EXCEPT ![side] = "dropped"]
        BY <1>6 DEF DropSender, writerVars
    <2>2. writer[1] # "none" /\ writer[2] # "none"
        BY <2>1 DEF Control
    <2>3. Control'
        BY <2>1, <1>h DEF Control, Loop
    <2>4. Writers'
        BY <2>1, <2>2, <1>0, <1>a DEF Writers
    <2> QED BY <2>1, <2>3, <2>4 DEF Cause
<1>7. CASE Join
    <2>1. /\ UNCHANGED <<sent, sender, error, writer, reported, published>>
          /\ pc = "join"
          /\ \/ pc' = "finish" /\ result' = result
             \/ pc' = "done" /\ result' = Returned
        BY <1>7 DEF Join, Goto, writerVars
    <2>2. Returned # "WriterChannelClosed"
        BY DEF Returned, Cause
    <2> QED BY <2>1, <2>2, <1>h DEF Control, Writers, Cause, Loop
<1>8. ASSUME NEW s \in Sides, WriterThread(s) PROVE Control' /\ Writers' /\ Cause'
    <2>1. UNCHANGED <<pc, side, error, sent, sender, result>>
        BY <1>8 DEF WriterThread, Write, WriteFails, Finish, Abort
    <2>2. \/ UNCHANGED <<writer, reported, published>>
          \/ /\ writer[s] = "writing"
             /\ sent[s] # <<>>
             /\ writer' = [writer EXCEPT ![s] = "broken"]
             /\ reported' = [reported EXCEPT ![s] = "Write"]
             /\ published' = published
          \/ /\ writer[s] = "broken" \/ sender[s] # "open"
             /\ writer[s] = "broken" \/ writer[s] = "writing"
             /\ writer[s] # "broken" => sender[s] = "dropped"
             /\ writer' = [writer EXCEPT ![s] = "ended"]
             /\ reported'[s] = "ok" => reported[s] # "Write"
             /\ reported'[s] \in {"ok", "Write"}
             /\ \A t \in Sides : t # s => reported'[t] = reported[t] /\ published'[t] = published[t]
          \/ /\ writer[s] = "writing" /\ sender[s] = "aborted"
             /\ writer' = [writer EXCEPT ![s] = "ended"]
             /\ reported' = [reported EXCEPT ![s] = "ok"]
             /\ published' = published
        <3>1. CASE Write(s)
            BY <3>1 DEF Write
        <3>2. CASE WriteFails(s)
            <4>1. sent[s] # <<>>
                BY <3>2, EmptySequence DEF WriteFails, TypeOK
            <4> QED BY <3>2, <4>1 DEF WriteFails
        <3>3. CASE Finish(s)
            <4>1. /\ writer[s] = "broken" \/ (writer[s] = "writing" /\ sender[s] = "dropped")
                  /\ writer' = [writer EXCEPT ![s] = "ended"]
                BY <3>3 DEF Finish, HasAll
            <4>2. \A t \in Sides : t # s => published'[t] = published[t]
                BY <3>3, <1>a, Zenon DEF Finish
            <4>3. /\ \A t \in Sides : t # s => reported'[t] = reported[t]
                  /\ reported'[s] \in {"ok", "Write"}
                  /\ reported'[s] = "ok" => reported[s] # "Write"
                BY <3>3, <1>a DEF Finish
            <4> QED BY <4>1, <4>2, <4>3
        <3>4. CASE Abort(s)
            BY <3>4 DEF Abort
        <3> QED BY <1>8, <3>1, <3>2, <3>3, <3>4 DEF WriterThread
    <2>3. \A t \in Sides : writer'[t] = "none" <=> writer[t] = "none"
        BY <2>2, <1>a
    <2>4. Control'
        BY <2>1, <2>3, <1>h, <1>0 DEF Control, Loop
    <2>5. Writers'
        BY <2>1, <2>2, <2>3, <1>0, <1>a DEF Writers
    <2>6. \A t \in Sides : reported[t] = "Write" => reported'[t] = "Write"
        BY <2>2, <1>a DEF Writers
    <2>7. Cause'
        BY <2>1, <2>6 DEF Cause
    <2> QED BY <2>4, <2>5, <2>7
<1> QED BY <1>1, <1>2, <1>3, <1>4, <1>5, <1>6, <1>7, <1>8 DEF Next, MergeTask

\* What the loop of the merge, its writers and its result know of each other
\* stays true: who has ended, what was reported, and whose error it was.
THEOREM ControlIsKept == Spec => []ControlInv
<1>1. Init => ControlInv
    BY InitTypes, InitControl DEF ControlInv
<1>2. ControlInv /\ [Next]_vars => ControlInv'
    BY NextTypes, NextControl DEF ControlInv, Control
<1> QED BY <1>1, <1>2, PTL DEF Spec

\* Every state of a merge has the types TypeOK gives.
THEOREM MergeTypeCorrect == Spec => []TypeOK
<1>1. ControlInv => TypeOK
    BY DEF ControlInv
<1> QED BY <1>1, ControlIsKept, PTL

\* The caller is never told of a closed channel instead of the error that closed it.
THEOREM MergeCauseIsKnown == Spec => []CauseIsKnown
<1>1. ControlInv => CauseIsKnown
    BY DEF ControlInv, Cause, CauseIsKnown
<1> QED BY <1>1, ControlIsKept, PTL

\* While the second output is not there, and for ever if it cannot be created, nothing is
\* published.
THEOREM MergeAbortPublishesNothing == Spec => []NothingPublishedByAbort
<1>1. ASSUME ControlInv PROVE NothingPublishedByAbort
    <2>1. \A s \in Sides : s = 1 \/ s = 2
        BY DEF Sides
    <2> QED BY <1>1, <2>1 DEF ControlInv, Writers, NothingPublishedByAbort
<1> QED BY <1>1, ControlIsKept, PTL
-----------------------------------------------------------------------------
(* Order: what was sent is behind what may still be sent. *)

Sent(s) == Elements(sent[s])

\* x is not among the digests the input of s can still contribute.
IsBehind(s, x) == x <= previous[s] \/ (IsSnapshot(s) => x < Upcoming(s))

\* x was not read from the input of s.
IsNew(s, x) == x \notin Elements(input[s])

Sorted == \A s \in Sides : Ascending(sent[s])
SentIsPast ==
    \A s, t \in Sides : \A x \in Sent(s) : s = t \/ IsNew(s, x) => IsBehind(t, x)
NewOnce ==
    \A s, t \in Sides : \A x \in Sent(s) : s # t /\ IsNew(s, x) => x \notin Sent(t)
BeforeTarget ==
    /\ pc = "entry" => \A s \in Sides : \A x \in Sent(s) : index > 0 /\ x <= Target
    /\ pc \in {"drain", "match", "file"} => \A s \in Sides : \A x \in Sent(s) : x < Target
AtTarget(s) == IsSnapshot(s) => Upcoming(s) >= Target
Unmatched(s) == IsSnapshot(s) => Upcoming(s) > Target
StreamsAtTarget ==
    /\ pc = "drain" /\ side = 2 => AtTarget(1)
    /\ pc = "match" => AtTarget(1) /\ AtTarget(2)
    /\ pc = "match" /\ side = 2 => Unmatched(1)
    /\ pc = "file" => Unmatched(1) /\ Unmatched(2)
ReadIsSent ==
    \A s \in Sides :
      /\ \A k \in 1 .. line[s] : input[s][k] \in Sent(s)
      /\ line[s] = 0 => previous[s] = 0
      /\ line[s] > 0 => previous[s] = input[s][line[s]]

OrderInv ==
    Sorted /\ SentIsPast /\ NewOnce /\ BeforeTarget /\ StreamsAtTarget /\ ReadIsSent

LEMMA ElementsAppend ==
    ASSUME NEW S, NEW q \in Seq(S), NEW x \in S
    PROVE  Elements(Append(q, x)) = Elements(q) \cup {x}
<1>1. /\ Len(q) \in Nat
      /\ DOMAIN q = 1 .. Len(q)
      /\ DOMAIN Append(q, x) = 1 .. (Len(q) + 1)
      /\ \A n \in 1 .. Len(q) : Append(q, x)[n] = q[n]
      /\ Append(q, x)[Len(q) + 1] = x
    BY Append1
<1>2. ASSUME NEW y \in Elements(Append(q, x)) PROVE y \in Elements(q) \cup {x}
    <2>1. PICK n \in 1 .. (Len(q) + 1) : y = Append(q, x)[n]
        BY <1>1 DEF Elements
    <2>2. CASE n = Len(q) + 1
        BY <1>1, <2>1, <2>2
    <2>3. CASE n \in 1 .. Len(q)
        BY <1>1, <2>1, <2>3 DEF Elements
    <2> QED BY <1>1, <2>2, <2>3
<1>3. ASSUME NEW y \in Elements(q) PROVE y \in Elements(Append(q, x))
    <2>1. PICK n \in 1 .. Len(q) : y = q[n]
        BY <1>1 DEF Elements
    <2> QED BY <1>1, <2>1 DEF Elements
<1>4. x \in Elements(Append(q, x))
    BY <1>1 DEF Elements
<1> QED BY <1>2, <1>3, <1>4

LEMMA AscendingAppend ==
    ASSUME NEW q \in Seq(Digest), NEW x \in Digest, Ascending(q), \A y \in Elements(q) : y < x
    PROVE  Ascending(Append(q, x))
<1>1. /\ Len(q) \in Nat
      /\ DOMAIN q = 1 .. Len(q)
      /\ DOMAIN Append(q, x) = 1 .. (Len(q) + 1)
      /\ \A n \in 1 .. Len(q) : Append(q, x)[n] = q[n]
      /\ Append(q, x)[Len(q) + 1] = x
    BY Append1
<1>2. \A n \in 1 .. Len(q) : q[n] < x
    BY <1>1 DEF Elements
<1> SUFFICES ASSUME NEW m \in 1 .. (Len(q) + 1), NEW n \in 1 .. (Len(q) + 1), m < n
             PROVE  Append(q, x)[m] < Append(q, x)[n]
    BY <1>1 DEF Ascending
<1>3. m \in 1 .. Len(q)
    BY <1>1
<1>4. CASE n \in 1 .. Len(q)
    BY <1>1, <1>3, <1>4 DEF Ascending
<1>5. CASE n = Len(q) + 1
    BY <1>1, <1>2, <1>3, <1>5
<1> QED BY <1>1, <1>4, <1>5

\* The digests in a sink after one more was sent.
LEMMA SentAfter ==
    ASSUME TypeOK, NEW s \in Sides, NEW d \in Digest, Send(s, d)
    PROVE  /\ \A t \in Sides : Sent(t)' = IF t = s THEN Sent(s) \cup {d} ELSE Sent(t)
           /\ \A t \in Sides : Sent(t) \subseteq Digest
           /\ Sorted /\ (\A x \in Sent(s) : x < d) => Sorted'
<1>1. /\ sent \in [Sides -> Seq(Digest)]
      /\ sent' = [sent EXCEPT ![s] = Append(sent[s], d)]
    BY DEF TypeOK, Send
<1>2. Elements(Append(sent[s], d)) = Elements(sent[s]) \cup {d}
    BY <1>1, ElementsAppend
<1>3. \A t \in Sides : sent'[t] = IF t = s THEN Append(sent[s], d) ELSE sent[t]
    BY <1>1
<1>4. \A t \in Sides : Elements(sent[t]) \subseteq Digest
    <2> TAKE t \in Sides
    <2>1. sent[t] \in Seq(Digest)
        BY <1>1
    <2> QED BY <2>1 DEF Elements
<1>5. ASSUME Sorted, \A x \in Sent(s) : x < d PROVE Sorted'
    <2>1. Ascending(Append(sent[s], d))
        BY <1>1, <1>5, AscendingAppend DEF Sorted, Sent
    <2> QED BY <1>3, <1>5, <2>1 DEF Sorted
<1>6. \A t \in Sides : Sent(t)' = IF t = s THEN Sent(s) \cup {d} ELSE Sent(t)
    BY <1>2, <1>3 DEF Sent
<1> QED BY <1>4, <1>5, <1>6 DEF Sent

\* What stays when no line is read.
LEMMA NotRead ==
    ASSUME NEW s, UNCHANGED inputVars
    PROVE  /\ (AtEnd(s) <=> AtEnd(s)')
           /\ (IsSnapshot(s) <=> IsSnapshot(s)')
           /\ Upcoming(s)' = Upcoming(s)
           /\ \A x : IsBehind(s, x) <=> IsBehind(s, x)'
           /\ \A x : IsNew(s, x) <=> IsNew(s, x)'
<1>1. input' = input /\ line' = line /\ previous' = previous
    BY DEF inputVars
<1>2. Upcoming(s)' = Upcoming(s) /\ (AtEnd(s) <=> AtEnd(s)')
    BY <1>1 DEF Upcoming, AtEnd
<1>3. IsSnapshot(s) <=> IsSnapshot(s)'
    BY <1>2 DEF IsSnapshot
<1> QED BY <1>1, <1>2, <1>3 DEF IsBehind, IsNew

\* Nothing is sent and nothing read: the order is what it was, where the task is not at an entry.
Quiet == UNCHANGED <<inputVars, sent>>

LEMMA QuietStepKeeps ==
    ASSUME OrderInv, Quiet
    PROVE  Sorted' /\ SentIsPast' /\ NewOnce' /\ ReadIsSent'
<1>1. sent' = sent /\ input' = input /\ line' = line /\ previous' = previous
    BY DEF Quiet, inputVars
<1>2. \A s : Sent(s)' = Sent(s)
    BY <1>1 DEF Sent
<1>3. \A s, x : /\ IsBehind(s, x) <=> IsBehind(s, x)'
                /\ IsNew(s, x) <=> IsNew(s, x)'
    BY NotRead DEF Quiet
<1> QED BY <1>1, <1>2, <1>3 DEF OrderInv, Sorted, SentIsPast, NewOnce, ReadIsSent

LEMMA QuietElsewhere ==
    ASSUME OrderInv, Quiet, pc' \notin {"entry", "drain", "match", "file"}
    PROVE  OrderInv'
BY QuietStepKeeps DEF OrderInv, BeforeTarget, StreamsAtTarget

LEMMA QuietInPlace ==
    ASSUME OrderInv, Quiet, UNCHANGED <<entryVars, pc, side>>
    PROVE  OrderInv'
<1>1. /\ \A s : Sent(s)' = Sent(s)
      /\ Target' = Target /\ index' = index /\ pc' = pc /\ side' = side
    BY DEF Quiet, Sent, entryVars, Target
<1>2. BeforeTarget'
    BY <1>1 DEF OrderInv, BeforeTarget
<1>3. \A s : (AtTarget(s) <=> AtTarget(s)') /\ (Unmatched(s) <=> Unmatched(s)')
    BY <1>1, NotRead DEF Quiet, AtTarget, Unmatched
<1>4. StreamsAtTarget'
    BY <1>1, <1>3 DEF OrderInv, StreamsAtTarget
<1> QED BY QuietStepKeeps, <1>2, <1>4 DEF OrderInv

LEMMA StopOrder == ASSUME OrderInv, NEW e, Stop(e) PROVE OrderInv'
BY QuietElsewhere DEF Stop, Quiet

\* A snapshot of s is passed through.
PassSends(s) ==
    /\ ~ Unordered(s)
    /\ Send(s, Upcoming(s))
    /\ line' = [line EXCEPT ![s] = @ + 1]
    /\ previous' = [previous EXCEPT ![s] = Upcoming(s)]
    /\ input' = input
    /\ UNCHANGED entryVars

LEMMA PassEffects ==
    ASSUME TypeOK, NEW s \in Sides, IsSnapshot(s), PassSends(s)
    PROVE  /\ Upcoming(s) \in Digest
           /\ line[s] + 1 \in 1 .. Len(input[s])
           /\ Upcoming(s) \in Elements(input[s])
           /\ previous[s] \in Nat /\ previous[s] < Upcoming(s)
           /\ line'[s] = line[s] + 1 /\ previous'[s] = Upcoming(s)
           /\ \A t \in Sides : t # s => line'[t] = line[t] /\ previous'[t] = previous[t]
<1>1. /\ Upcoming(s) \in Digest
      /\ line[s] + 1 \in 1 .. Len(input[s])
      /\ input[s] \in Seq(Digest \cup {Bad})
    BY InputFacts DEF IsSnapshot
<1>2. Upcoming(s) \in Elements(input[s])
    BY <1>1 DEF Elements, Upcoming
<1>3. /\ previous[s] \in Nat
      /\ line'[s] = line[s] + 1 /\ previous'[s] = Upcoming(s)
      /\ \A t \in Sides : t # s => line'[t] = line[t] /\ previous'[t] = previous[t]
    BY DEF TypeOK, PassSends
<1>4. previous[s] < Upcoming(s)
    BY <1>1, <1>3 DEF PassSends, Unordered, Digest
<1> QED BY <1>1, <1>2, <1>3, <1>4

LEMMA PassElsewhere ==
    ASSUME TypeOK, NEW s \in Sides, IsSnapshot(s), PassSends(s), NEW t \in Sides, t # s
    PROVE  /\ (IsSnapshot(t) <=> IsSnapshot(t)')
           /\ Upcoming(t)' = Upcoming(t)
           /\ Target' = Target
           /\ \A x : IsBehind(t, x) <=> IsBehind(t, x)'
           /\ (AtTarget(t) <=> AtTarget(t)') /\ (Unmatched(t) <=> Unmatched(t)')
<1>1. /\ line'[t] = line[t] /\ previous'[t] = previous[t] /\ input' = input
      /\ Target' = Target
    BY PassEffects DEF PassSends, entryVars, Target
<1>2. Upcoming(t)' = Upcoming(t) /\ (AtEnd(t) <=> AtEnd(t)')
    BY <1>1 DEF Upcoming, AtEnd
<1>3. IsSnapshot(t) <=> IsSnapshot(t)'
    BY <1>2 DEF IsSnapshot
<1> QED BY <1>1, <1>2, <1>3 DEF IsBehind, AtTarget, Unmatched

LEMMA PassOrder ==
    ASSUME TypeOK, OrderInv, NEW s \in Sides, IsSnapshot(s), PassSends(s)
    PROVE  /\ Sorted' /\ SentIsPast' /\ NewOnce' /\ ReadIsSent'
           /\ \A t \in Sides : Sent(t)' = IF t = s THEN Sent(s) \cup {Upcoming(s)} ELSE Sent(t)
<1> DEFINE d == Upcoming(s)
<1>1. /\ d \in Digest
      /\ d \in Elements(input[s])
      /\ previous[s] \in Nat /\ previous[s] < d
      /\ previous'[s] = d
    BY PassEffects
<1>2. /\ \A t \in Sides : Sent(t)' = IF t = s THEN Sent(s) \cup {d} ELSE Sent(t)
      /\ \A t \in Sides : Sent(t) \subseteq Digest
      /\ Sorted /\ (\A x \in Sent(s) : x < d) => Sorted'
    BY <1>1, SentAfter DEF PassSends
<1>3. \A x \in Digest : IsBehind(s, x) => x < d
    BY <1>1 DEF IsBehind, Digest
<1>4. \A x \in Sent(s) : x < d
    BY <1>2, <1>3 DEF OrderInv, SentIsPast
<1>5. Sorted'
    BY <1>2, <1>4 DEF OrderInv
<1>6. \A u \in Sides : \A x : IsNew(u, x)' <=> IsNew(u, x)
    BY DEF PassSends, IsNew
<1>7. \A x : ~ (x = d /\ IsNew(s, x))
    BY <1>1 DEF IsNew
<1>8. SentIsPast'
    <2> SUFFICES ASSUME NEW u \in Sides, NEW t \in Sides, NEW x \in Sent(u)',
                        u = t \/ IsNew(u, x)
                 PROVE  IsBehind(t, x)'
        BY <1>6 DEF SentIsPast
    <2>1. CASE x \in Sent(u) /\ t = s
        <3>1. x \in Digest /\ x < d
            BY <2>1, <1>2, <1>3 DEF OrderInv, SentIsPast
        <3> QED BY <3>1, <2>1, <1>1 DEF IsBehind, Digest
    <2>2. CASE x \in Sent(u) /\ t # s
        BY <2>2, PassElsewhere DEF OrderInv, SentIsPast
    <2>3. CASE x \notin Sent(u)
        <3>1. u = s /\ x = d
            BY <2>3, <1>2
        <3>2. t = s
            BY <3>1, <1>7
        <3> QED BY <3>1, <3>2, <1>1 DEF IsBehind, Digest
    <2> QED BY <2>1, <2>2, <2>3
<1>9. NewOnce'
    <2> SUFFICES ASSUME NEW u \in Sides, NEW t \in Sides, NEW x \in Sent(u)', u # t, IsNew(u, x)
                 PROVE  x \notin Sent(t)'
        BY <1>6 DEF NewOnce
    <2>1. x \in Sent(u)
        BY <1>2, <1>7
    <2>2. x \notin Sent(t) /\ IsBehind(t, x) /\ x \in Digest
        BY <2>1, <1>2 DEF OrderInv, NewOnce, SentIsPast
    <2>3. t = s => x < d
        BY <2>2, <1>3
    <2> QED BY <2>2, <2>3, <1>1, <1>2 DEF Digest
<1>10. ReadIsSent'
    <2>1. /\ line[s] \in Nat
          /\ line'[s] = line[s] + 1
          /\ input' = input
          /\ d = input[s][line[s] + 1]
        BY PassEffects, InputFacts DEF Upcoming, PassSends
    <2> SUFFICES ASSUME NEW t \in Sides
                 PROVE  /\ \A k \in 1 .. line'[t] : input[t][k] \in Sent(t)'
                        /\ line'[t] = 0 => previous'[t] = 0
                        /\ line'[t] > 0 => previous'[t] = input[t][line'[t]]
        BY <2>1 DEF ReadIsSent
    <2>2. CASE t = s
        <3>1. ASSUME NEW k \in 1 .. line'[s] PROVE input[s][k] \in Sent(s)'
            <4>1. k = line[s] + 1 \/ k \in 1 .. line[s]
                BY <2>1
            <4> QED BY <4>1, <2>1, <1>2 DEF OrderInv, ReadIsSent
        <3> QED BY <3>1, <2>1, <2>2, <1>1
    <2>3. CASE t # s
        BY <2>3, PassEffects, <1>2 DEF OrderInv, ReadIsSent
    <2> QED BY <2>2, <2>3
<1> QED BY <1>2, <1>5, <1>8, <1>9, <1>10

LEMMA PassCases ==
    ASSUME NEW s \in Sides, NEW step, NEW t, PassThrough(s, step, t), OrderInv
    PROVE  OrderInv' \/ (PassSends(s) /\ pc' = step /\ side' = t)
<1>1. CASE Unordered(s) /\ Stop("Order")
    BY <1>1, StopOrder
<1>2. CASE SendFails(s)
    BY <1>2, StopOrder DEF SendFails
<1>3. CASE /\ ~ Unordered(s)
           /\ Send(s, Upcoming(s))
           /\ line' = [line EXCEPT ![s] = @ + 1]
           /\ previous' = [previous EXCEPT ![s] = Upcoming(s)]
           /\ Goto(step, t)
           /\ UNCHANGED <<input, entryVars, error, new, skipped, sender, writerVars, result>>
    BY <1>3 DEF PassSends, Goto
<1> QED BY <1>1, <1>2, <1>3 DEF PassThrough

LEMMA InitOrder == Init => OrderInv
<1> SUFFICES ASSUME Init PROVE OrderInv
    OBVIOUS
<1>1. \A s \in Sides : Sent(s) = {} /\ Ascending(sent[s]) /\ line[s] = 0 /\ previous[s] = 0
    BY EmptySequence DEF Init, Sent, Elements, Ascending, None
<1>2. pc = "create"
    BY DEF Init
<1> QED BY <1>1, <1>2 DEF OrderInv, Sorted, SentIsPast, NewOnce, BeforeTarget, StreamsAtTarget,
                          ReadIsSent

LEMMA MoveOrder ==
    ASSUME OrderInv, NEW step \in Loop, NEW s \in Sides, Move(step, s)
    PROVE  /\ Quiet /\ pc' = step /\ side' = s
           /\ \A t : Sent(t)' = Sent(t)
           /\ \A t : (AtTarget(t) <=> AtTarget(t)') /\ (Unmatched(t) <=> Unmatched(t)')
           /\ Target' = Target /\ index' = index
           /\ BeforeTarget' /\ StreamsAtTarget' => OrderInv'
<1>1. /\ Quiet /\ pc' = step /\ side' = s
      /\ Target' = Target /\ index' = index
    BY DEF Move, Goto, Quiet, entryVars, Target
<1>2. \A t : Sent(t)' = Sent(t)
    BY <1>1 DEF Quiet, Sent
<1>3. \A t : (AtTarget(t) <=> AtTarget(t)') /\ (Unmatched(t) <=> Unmatched(t)')
    BY <1>1, NotRead DEF Quiet, AtTarget, Unmatched
<1> QED BY <1>1, <1>2, <1>3, QuietStepKeeps DEF OrderInv

LEMMA NextOrder == ControlInv /\ OrderInv /\ [Next]_vars => OrderInv'
<1> SUFFICES ASSUME TypeOK, Control, OrderInv, [Next]_vars PROVE OrderInv'
    BY DEF ControlInv
<1>0. side \in Sides /\ 1 \in Sides /\ 2 \in Sides /\ \A s \in Sides : s = 1 \/ s = 2
    BY DEF TypeOK, Sides
<1>a. \A s \in Sides : Sent(s) \subseteq Digest
    <2> TAKE s \in Sides
    <2>1. sent[s] \in Seq(Digest)
        BY DEF TypeOK
    <2> QED BY <2>1 DEF Sent, Elements
<1>1. CASE UNCHANGED vars
    BY <1>1, QuietInPlace DEF vars, Quiet
<1>2. CASE Create
    <2>1. Quiet /\ pc = "create"
        BY <1>2 DEF Create, Quiet
    <2>2. \A s \in Sides : Sent(s)' = {}
        <3>1. \A s \in Sides : sent'[s] = <<>>
            BY <2>1 DEF Control, Quiet
        <3> QED BY <3>1, EmptySequence DEF Sent, Elements
    <2>3. pc' \in {"create", "entry"}
        BY <1>2 DEF Create
    <2> QED BY <2>1, <2>2, <2>3, QuietStepKeeps DEF OrderInv, BeforeTarget, StreamsAtTarget
<1>3. CASE CreateFails \/ AbortJoined \/ DropSender \/ Join
    <2>1. Quiet /\ pc' \notin {"entry", "drain", "match", "file"}
        BY <1>3 DEF CreateFails, AbortJoined, DropSender, Join, Goto, Quiet
    <2> QED BY <2>1, QuietElsewhere
<1>4. CASE TakeEntry
    <2>1. CASE Stop("Order")
        BY <2>1, StopOrder
    <2>2. CASE /\ ~ (index > 0 /\ entries[index + 1] <= entries[index])
               /\ index' = index + 1
               /\ Goto("drain", 1)
               /\ UNCHANGED <<inputVars, entries, error, sent, stats, sender, writerVars, result>>
        <3>1. Quiet /\ pc' = "drain" /\ side' = 1 /\ Target' = entries[index + 1]
            BY <2>2 DEF Quiet, Goto, Target
        <3>2. \A s : Sent(s)' = Sent(s)
            BY <3>1 DEF Quiet, Sent
        <3>3. \A s \in Sides : \A x \in Sent(s) : x < Target'
            <4> SUFFICES ASSUME NEW s \in Sides, NEW x \in Sent(s) PROVE x < Target'
                OBVIOUS
            <4>1. index > 0 /\ x <= Target /\ x \in Nat
                BY <1>4, <1>a DEF TakeEntry, OrderInv, BeforeTarget, Digest
            <4>2. Target \in Nat /\ entries[index + 1] \in Nat
                BY <1>4, <4>1, EntryFacts DEF TakeEntry, Digest
            <4>3. Target < entries[index + 1]
                BY <2>2, <4>1, <4>2 DEF Target
            <4> QED BY <3>1, <4>1, <4>2, <4>3
        <3>4. BeforeTarget'
            BY <3>1, <3>2, <3>3 DEF BeforeTarget
        <3>5. StreamsAtTarget'
            BY <3>1 DEF StreamsAtTarget
        <3> QED BY <3>1, <3>4, <3>5, QuietStepKeeps DEF OrderInv
    <2> QED BY <1>4, <2>1, <2>2 DEF TakeEntry
<1>5. CASE EntriesDone
    BY <1>5, <1>0, QuietElsewhere DEF EntriesDone, Move, Goto, Quiet
<1>6. CASE Drain
    <2>1. pc = "drain" /\ Target \in Digest
        BY <1>6, EntryFacts DEF Drain, Control, HasTarget
    <2>2. CASE MeetsBadLine(side)
        BY <2>2, StopOrder DEF MeetsBadLine
    <2>3. CASE IsSnapshot(side) /\ Upcoming(side) < Target /\ PassThrough(side, "drain", side)
        <3>1. CASE PassSends(side) /\ pc' = "drain" /\ side' = side
            <4>1. \A t \in Sides :
                     Sent(t)' = IF t = side THEN Sent(side) \cup {Upcoming(side)} ELSE Sent(t)
                BY <2>3, <3>1, <1>0, PassOrder
            <4>2. Target' = Target
                BY <3>1 DEF PassSends, entryVars, Target
            <4>3. BeforeTarget'
                BY <2>1, <2>3, <3>1, <4>1, <4>2 DEF OrderInv, BeforeTarget
            <4>4. side = 2 => AtTarget(1)'
                BY <2>1, <2>3, <3>1, <1>0, PassElsewhere DEF OrderInv, StreamsAtTarget
            <4>5. StreamsAtTarget'
                BY <3>1, <4>4 DEF StreamsAtTarget
            <4> QED BY <2>3, <3>1, <1>0, PassOrder, <4>3, <4>5 DEF OrderInv
        <3> QED BY <2>3, <3>1, <1>0, PassCases
    <2>4. CASE /\ IsSnapshot(side) => Upcoming(side) >= Target
               /\ IF side = 1 THEN Move("drain", 2) ELSE Move("match", 1)
        <3>1. AtTarget(side)
            BY <2>4 DEF AtTarget
        <3>2. CASE side = 1
            <4>1. Move("drain", 2)
                BY <2>4, <3>2
            <4>2. BeforeTarget'
                BY <4>1, <1>0, <2>1, MoveOrder DEF OrderInv, BeforeTarget, Loop
            <4>3. StreamsAtTarget'
                BY <4>1, <1>0, <3>1, <3>2, MoveOrder DEF StreamsAtTarget, Loop
            <4> QED BY <4>1, <4>2, <4>3, <1>0, MoveOrder DEF Loop
        <3>3. CASE side = 2
            <4>1. Move("match", 1)
                BY <2>4, <3>3
            <4>2. BeforeTarget'
                BY <4>1, <1>0, <2>1, MoveOrder DEF OrderInv, BeforeTarget, Loop
            <4>3. AtTarget(1) /\ AtTarget(2)
                BY <2>1, <3>1, <3>3 DEF OrderInv, StreamsAtTarget
            <4>4. StreamsAtTarget'
                BY <4>1, <1>0, <4>3, MoveOrder DEF StreamsAtTarget, Loop
            <4> QED BY <4>1, <4>2, <4>4, <1>0, MoveOrder DEF Loop
        <3> QED BY <1>0, <3>2, <3>3
    <2> QED BY <1>6, <2>2, <2>3, <2>4 DEF Drain
<1>7. CASE Match
    <2>1. /\ pc = "match" /\ Target \in Digest /\ index > 0
          /\ AtTarget(1) /\ AtTarget(2) /\ (side = 2 => Unmatched(1))
        BY <1>7, EntryFacts DEF Match, Control, HasTarget, OrderInv, StreamsAtTarget
    <2>2. CASE MeetsBadLine(side)
        BY <2>2, StopOrder DEF MeetsBadLine
    <2>3. CASE IsSnapshot(side) /\ Upcoming(side) = Target /\ PassThrough(side, "entry", 1)
        <3>1. CASE PassSends(side) /\ pc' = "entry"
            <4>1. \A t \in Sides :
                     Sent(t)' = IF t = side THEN Sent(side) \cup {Upcoming(side)} ELSE Sent(t)
                BY <2>3, <3>1, <1>0, PassOrder
            <4>2. Target' = Target /\ index' = index
                BY <3>1 DEF PassSends, entryVars, Target
            <4>3. \A s \in Sides : \A x \in Sent(s) : x <= Target
                BY <2>1, <1>a DEF OrderInv, BeforeTarget, Digest
            <4>4. Target <= Target
                BY <2>1 DEF Digest
            <4>5. BeforeTarget'
                BY <2>1, <2>3, <3>1, <4>1, <4>2, <4>3, <4>4 DEF BeforeTarget
            <4>6. StreamsAtTarget'
                BY <3>1 DEF StreamsAtTarget
            <4> QED BY <2>3, <3>1, <1>0, PassOrder, <4>5, <4>6 DEF OrderInv
        <3> QED BY <2>3, <3>1, <1>0, PassCases
    <2>4. CASE /\ IsSnapshot(side) => Upcoming(side) # Target
               /\ IF side = 1 THEN Move("match", 2) ELSE Move("file", 1)
        <3>1. Unmatched(side)
            <4> SUFFICES ASSUME IsSnapshot(side) PROVE Upcoming(side) > Target
                BY DEF Unmatched
            <4>1. Upcoming(side) \in Digest /\ Upcoming(side) # Target
                BY <2>4, <1>0, InputFacts
            <4>2. Upcoming(side) >= Target
                BY <2>1, <1>0 DEF AtTarget
            <4> QED BY <4>1, <4>2, <2>1 DEF Digest
        <3>2. CASE side = 1
            <4>1. Move("match", 2)
                BY <2>4, <3>2
            <4>2. BeforeTarget'
                BY <4>1, <1>0, <2>1, MoveOrder DEF OrderInv, BeforeTarget, Loop
            <4>3. StreamsAtTarget'
                BY <4>1, <1>0, <2>1, <3>1, <3>2, MoveOrder DEF StreamsAtTarget, Loop
            <4> QED BY <4>1, <4>2, <4>3, <1>0, MoveOrder DEF Loop
        <3>3. CASE side = 2
            <4>1. Move("file", 1)
                BY <2>4, <3>3
            <4>2. BeforeTarget'
                BY <4>1, <1>0, <2>1, MoveOrder DEF OrderInv, BeforeTarget, Loop
            <4>3. StreamsAtTarget'
                BY <4>1, <1>0, <2>1, <3>1, <3>3, MoveOrder DEF StreamsAtTarget, Loop
            <4> QED BY <4>1, <4>2, <4>3, <1>0, MoveOrder DEF Loop
        <3> QED BY <1>0, <3>2, <3>3
    <2> QED BY <1>7, <2>2, <2>3, <2>4 DEF Match
<1>8. CASE SkipFile
    <2>1. /\ pc = "file" /\ pc' = "entry" /\ Quiet
          /\ index > 0 /\ index' = index /\ Target' = Target /\ Target \in Digest
        BY <1>8, EntryFacts DEF SkipFile, Goto, Quiet, entryVars, Target, Control, HasTarget
    <2>2. \A s : Sent(s)' = Sent(s)
        BY <2>1 DEF Quiet, Sent
    <2>3. \A s \in Sides : \A x \in Sent(s) : x <= Target
        BY <2>1, <1>a DEF OrderInv, BeforeTarget, Digest
    <2>4. BeforeTarget' /\ StreamsAtTarget'
        BY <2>1, <2>2, <2>3 DEF BeforeTarget, StreamsAtTarget
    <2> QED BY <2>1, <2>4, QuietStepKeeps DEF OrderInv
<1>9. ASSUME NEW s \in Sides, WriteFile(s) PROVE OrderInv'
    <2>1. CASE SendFails(s)
        BY <2>1, StopOrder DEF SendFails
    <2>2. CASE /\ Send(s, Target)
               /\ Goto("entry", 1)
               /\ UNCHANGED <<inputVars, entryVars>>
        <3>1. /\ pc = "file" /\ pc' = "entry"
              /\ index > 0 /\ index' = index /\ Target' = Target /\ Target \in Digest
            BY <1>9, <2>2, EntryFacts DEF WriteFile, Goto, entryVars, Target, Control, HasTarget
        <3>2. /\ \A t \in Sides : Sent(t)' = IF t = s THEN Sent(s) \cup {Target} ELSE Sent(t)
              /\ Sorted /\ (\A x \in Sent(s) : x < Target) => Sorted'
            BY <2>2, <3>1, SentAfter
        <3>3. \A t \in Sides : \A x \in Sent(t) : x < Target
            BY <3>1 DEF OrderInv, BeforeTarget
        <3>4. \A t, x : /\ IsBehind(t, x) <=> IsBehind(t, x)'
                        /\ IsNew(t, x) <=> IsNew(t, x)'
            BY <2>2, NotRead
        <3>5. \A t \in Sides : IsBehind(t, Target)
            <4> SUFFICES ASSUME NEW t \in Sides, IsSnapshot(t) PROVE Target < Upcoming(t)
                BY DEF IsBehind
            <4>1. Unmatched(t) /\ Upcoming(t) \in Digest
                BY <3>1, <1>0, InputFacts DEF OrderInv, StreamsAtTarget
            <4> QED BY <3>1, <4>1 DEF Unmatched, Digest
        <3>6. SentIsPast'
            BY <3>2, <3>4, <3>5 DEF OrderInv, SentIsPast
        <3>7. Target \notin Sent(1) /\ Target \notin Sent(2)
            BY <3>1, <3>3, <1>0 DEF Digest
        <3>8. NewOnce'
            BY <3>2, <3>4, <3>7, <1>0 DEF OrderInv, NewOnce
        <3>9. BeforeTarget' /\ StreamsAtTarget'
            <4>1. \A t \in Sides : \A x \in Sent(t)' : x <= Target
                BY <3>1, <3>2, <3>3, <1>a DEF Digest
            <4> QED BY <3>1, <4>1 DEF BeforeTarget, StreamsAtTarget
        <3>10. ReadIsSent'
            BY <2>2, <3>2 DEF OrderInv, ReadIsSent, inputVars
        <3> QED BY <3>2, <3>3, <3>6, <3>8, <3>9, <3>10 DEF OrderInv
    <2> QED BY <1>9, <2>1, <2>2 DEF WriteFile
<1>10. CASE Rest
    <2>1. CASE MeetsBadLine(side)
        BY <2>1, StopOrder DEF MeetsBadLine
    <2>2. CASE IsSnapshot(side) /\ PassThrough(side, "rest", side)
        <3>1. CASE PassSends(side) /\ pc' = "rest"
            <4>1. BeforeTarget' /\ StreamsAtTarget'
                BY <3>1 DEF BeforeTarget, StreamsAtTarget
            <4> QED BY <2>2, <3>1, <1>0, PassOrder, <4>1 DEF OrderInv
        <3> QED BY <2>2, <3>1, <1>0, PassCases
    <2>3. CASE Move("rest", 2) \/ Move("finish", 1)
        BY <2>3, QuietElsewhere DEF Move, Goto, Quiet
    <2> QED BY <1>10, <2>1, <2>2, <2>3 DEF Rest
<1>11. ASSUME NEW s \in Sides, WriterThread(s) PROVE OrderInv'
    <2>1. UNCHANGED <<inputVars, sent, entryVars, pc, side>>
        BY <1>11 DEF WriterThread, Write, WriteFails, Finish, Abort
    <2> QED BY <2>1, QuietInPlace DEF Quiet
<1> QED BY <1>1, <1>2, <1>3, <1>4, <1>5, <1>6, <1>7, <1>8, <1>9, <1>10, <1>11
        DEF Next, MergeTask

\* What has been sent is sorted and before what is still to be read, each new
\* entry is in it once, and each line that was read is in the stream it is for.
THEOREM OrderIsKept == Spec => [](ControlInv /\ OrderInv)
<1>1. Init => ControlInv /\ OrderInv
    BY InitTypes, InitControl, InitOrder DEF ControlInv
<1>2. ControlInv /\ OrderInv /\ [Next]_vars => ControlInv' /\ OrderInv'
    BY NextTypes, NextControl, NextOrder DEF ControlInv, Control
<1> QED BY <1>1, <1>2, PTL DEF Spec

\* Each output ascends, whatever is in the inputs.
THEOREM MergeOutputsAscend == Spec => []OutputsAscend
<1>1. OrderInv => OutputsAscend
    BY DEF OrderInv, Sorted, OutputsAscend
<1> QED BY <1>1, OrderIsKept, PTL

\* No snapshot is in both outputs that was not in both inputs.
THEOREM MergeNoDuplicates == Spec => []NoDuplicates
<1>1. ASSUME OrderInv PROVE NoDuplicates
    <2> SUFFICES ASSUME NEW x \in Elements(sent[1]), x \in Elements(sent[2])
                 PROVE  x \in Elements(input[1]) /\ x \in Elements(input[2])
        BY DEF NoDuplicates
    <2>1. 1 \in Sides /\ 2 \in Sides /\ x \in Sent(1) /\ x \in Sent(2)
        BY DEF Sides, Sent
    <2> QED BY <1>1, <2>1 DEF OrderInv, NewOnce, IsNew
<1> QED BY <1>1, OrderIsKept, PTL

\* No existing snapshot is left out before one that was sent.
THEOREM MergeNoHoles == Spec => []NoHoles
<1>1. ASSUME ControlInv, OrderInv PROVE NoHoles
    <2> SUFFICES ASSUME NEW s \in Sides, NEW n \in DOMAIN sent[s], NEW m \in DOMAIN input[s],
                        SoundUpTo(s, m), input[s][m] <= sent[s][n], m > line[s]
                 PROVE  FALSE
        <3>1. \A s \in Sides : line[s] \in Nat /\ DOMAIN input[s] \subseteq Nat \ {0}
            BY <1>1, InputFacts DEF ControlInv
        <3>2. \A s \in Sides, m \in Nat \ {0} :
                 m > line[s] \/ input[s][m] \in Elements(sent[s])
            BY <1>1, <3>1 DEF OrderInv, ReadIsSent, Sent
        <3> QED BY <3>1, <3>2 DEF NoHoles
    <2>1. /\ input[s] \in Seq(Digest \cup {Bad})
          /\ Len(input[s]) \in Nat /\ line[s] \in Nat /\ line[s] <= Len(input[s])
          /\ DOMAIN input[s] = 1 .. Len(input[s])
        BY <1>1, InputFacts DEF ControlInv
    <2>2. sent[s][n] \in Sent(s) /\ sent[s][n] \in Nat
        <3>1. sent[s] \in Seq(Digest)
            BY <1>1 DEF ControlInv, TypeOK
        <3> QED BY <3>1 DEF Sent, Elements, Digest
    <2>3. IsBehind(s, sent[s][n])
        BY <1>1, <2>2 DEF OrderInv, SentIsPast
    <2>4. \A k \in 1 .. m : input[s][k] \in Nat
        BY <2>1 DEF SoundUpTo, Digest
    <2>5. \A j, k \in 1 .. m : j < k => input[s][j] < input[s][k]
        BY <2>1 DEF SoundUpTo
    <2>6. m \in Nat /\ line[s] + 1 \in 1 .. m
        BY <2>1
    <2>7. IsSnapshot(s) /\ Upcoming(s) <= input[s][m]
        <3>1. Upcoming(s) # Bad /\ ~ AtEnd(s)
            BY <2>1, <2>6 DEF SoundUpTo, Upcoming, AtEnd
        <3>2. Upcoming(s) <= input[s][m]
            BY <2>4, <2>5, <2>6 DEF Upcoming
        <3> QED BY <3>1, <3>2 DEF IsSnapshot
    <2>8. previous[s] < input[s][m]
        <3>1. input[s][m] > 0
            BY <2>1, <2>4, <2>6 DEF SoundUpTo, Digest
        <3>2. CASE line[s] = 0
            BY <1>1, <3>1, <3>2 DEF OrderInv, ReadIsSent
        <3>3. CASE line[s] > 0
            <4>1. line[s] \in 1 .. m /\ m \in 1 .. m /\ line[s] < m
                BY <2>6, <2>1, <3>3
            <4>2. previous[s] = input[s][line[s]]
                BY <1>1, <3>3 DEF OrderInv, ReadIsSent
            <4> QED BY <2>5, <4>1, <4>2
        <3> QED BY <2>1, <3>2, <3>3
    <2>9. previous[s] \in Nat /\ input[s][m] \in Nat /\ Upcoming(s) \in Nat
        <3>1. previous[s] \in Nat
            BY <1>1 DEF ControlInv, TypeOK
        <3>2. m \in 1 .. m
            BY <2>6
        <3>3. Upcoming(s) \in Nat
            BY <2>4, <2>6 DEF Upcoming
        <3> QED BY <3>1, <3>2, <3>3, <2>4
    <2> QED BY <2>2, <2>3, <2>7, <2>8, <2>9 DEF IsBehind
<1> QED BY <1>1, OrderIsKept, PTL

\* Both outputs are merges of what was read, whatever the inputs hold and whoever fails.
THEOREM MergeOutputsAreMerged == Spec => []OutputsAreMerged
BY MergeOutputsAscend, MergeNoDuplicates, MergeNoHoles, PTL DEF OutputsAreMerged
-----------------------------------------------------------------------------
(* CountsAgree: what a success has read, written and counted. *)

\* The entries dealt with, and those of them that a line read was a match of.
Handled == IF pc \in {"drain", "match", "file"} THEN index - 1 ELSE index
Seen(x) == \E s \in Sides : \E k \in 1 .. line[s] : input[s][k] = x
Matched == {n \in 1 .. Handled : Seen(entries[n])}

\* No line still to come is an entry that was dealt with, unless one was seen before.
HandledIsPast == \A n \in 1 .. Handled : Seen(entries[n]) \/ \A s \in Sides : IsBehind(s, entries[n])
RowsCounted == Handled = new[1] + new[2] + skipped + Cardinality(Matched)

Lines ==
    \A s \in Sides :
      /\ passed[s] = line[s]
      /\ Len(sent[s]) = passed[s] + new[s]
      /\ Sent(s) \subseteq Elements(input[s]) \cup Elements(entries)

\* A loop that ends without an error has no entries and no lines left.
Ending ==
    /\ pc \in {"rest", "finish", "join", "done"} => index = Len(entries)
    /\ pc = "rest" /\ side = 2 => AtEnd(1)
    /\ pc \in {"finish", "join", "done"} => AtEnd(1) /\ AtEnd(2)

\* The writers are waited for one after the other; one that ended well had nothing left to write.
Threads ==
    /\ \A s \in Sides : sender[s] = "aborted" => pc \in {"abort", "done"} /\ result # "ok"
    /\ pc = "join" => sender[side] = "dropped"
    /\ pc \in {"finish", "join"} /\ side = 2 => writer[1] = "ended" /\ sender[1] = "dropped"
    /\ \A s \in Sides : writer[s] = "ended" => reported[s] # "none"
    /\ \A s \in Sides : writer[s] = "ended" /\ reported[s] = "ok" /\ sender[s] = "dropped" =>
                          published[s] /\ taken[s] = Len(sent[s])
    /\ result = "ok" =>
         /\ pc = "done" /\ error = "none"
         /\ \A s \in Sides : writer[s] = "ended" /\ sender[s] = "dropped" /\ reported[s] # "Write"

CountsAgree == error = "none" => HandledIsPast /\ RowsCounted /\ Ending
AccountInv == Lines /\ Threads /\ CountsAgree

\* When nothing is read or sent the lines are what they were.
LEMMA LinesQuiet ==
    ASSUME Lines, UNCHANGED <<inputVars, sent, passed, new, entries>>
    PROVE  Lines'
BY DEF Lines, inputVars, Sent

\* A line that is passed through.
PassesOn(s) == PassSends(s) /\ passed' = [passed EXCEPT ![s] = @ + 1] /\ UNCHANGED <<error, new, skipped>>
Halts == error' # "none" /\ UNCHANGED <<inputVars, entryVars, sent, stats>>

LEMMA PassKinds ==
    ASSUME NEW s \in Sides, NEW step, NEW t, PassThrough(s, step, t)
    PROVE  Halts \/ (PassesOn(s) /\ Goto(step, t))
<1>1. CASE Unordered(s) /\ Stop("Order")
    BY <1>1 DEF Stop, Halts
<1>2. CASE SendFails(s)
    BY <1>2 DEF SendFails, Stop, Halts
<1>3. CASE /\ ~ Unordered(s)
           /\ Send(s, Upcoming(s))
           /\ line' = [line EXCEPT ![s] = @ + 1]
           /\ previous' = [previous EXCEPT ![s] = Upcoming(s)]
           /\ passed' = [passed EXCEPT ![s] = @ + 1]
           /\ Goto(step, t)
           /\ UNCHANGED <<input, entryVars, error, new, skipped, sender, writerVars, result>>
    BY <1>3 DEF PassSends, PassesOn
<1> QED BY <1>1, <1>2, <1>3 DEF PassThrough

LEMMA LinesPass ==
    ASSUME TypeOK, Lines, NEW s \in Sides, IsSnapshot(s), PassesOn(s)
    PROVE  Lines'
<1>1. /\ sent' = [sent EXCEPT ![s] = Append(sent[s], Upcoming(s))]
      /\ passed' = [passed EXCEPT ![s] = passed[s] + 1]
      /\ line' = [line EXCEPT ![s] = line[s] + 1]
      /\ input' = input /\ entries' = entries /\ new' = new
    BY DEF PassesOn, PassSends, Send, entryVars
<1>2. /\ sent \in [Sides -> Seq(Digest)] /\ passed \in [Sides -> Nat] /\ line \in [Sides -> Nat]
      /\ new \in [Sides -> Nat] /\ Upcoming(s) \in Digest /\ Upcoming(s) \in Elements(input[s])
    BY PassEffects DEF TypeOK, PassesOn
<1>3. /\ Len(Append(sent[s], Upcoming(s))) = Len(sent[s]) + 1
      /\ Elements(Append(sent[s], Upcoming(s))) = Elements(sent[s]) \cup {Upcoming(s)}
    BY <1>2, ElementsAppend, Append1
<1> SUFFICES ASSUME NEW t \in Sides
             PROVE  /\ passed'[t] = line'[t]
                    /\ Len(sent'[t]) = passed'[t] + new'[t]
                    /\ Elements(sent'[t]) \subseteq Elements(input'[t]) \cup Elements(entries')
    BY DEF Lines, Sent
<1>4. CASE t = s
    BY <1>1, <1>2, <1>3, <1>4 DEF Lines, Sent
<1>5. CASE t # s
    BY <1>1, <1>2, <1>5 DEF Lines, Sent
<1> QED BY <1>4, <1>5

LEMMA NextLines == ControlInv /\ Lines /\ [Next]_vars => Lines'
<1> SUFFICES ASSUME TypeOK, Control, Lines, [Next]_vars PROVE Lines'
    BY DEF ControlInv
<1>0. side \in Sides
    BY DEF TypeOK
<1>1. CASE UNCHANGED vars \/ Create \/ CreateFails \/ AbortJoined \/ TakeEntry \/ EntriesDone
           \/ DropSender \/ Join \/ SkipFile
    BY <1>1, LinesQuiet DEF vars, inputVars, entryVars, stats, Create, CreateFails, AbortJoined, TakeEntry, Stop,
         EntriesDone, Move, DropSender, Join, SkipFile
<1>2. CASE Drain \/ Match \/ Rest
    <2>1. CASE MeetsBadLine(side)
        BY <2>1, LinesQuiet DEF MeetsBadLine, Stop, entryVars, stats
    <2>2. ASSUME NEW step, NEW s, Move(step, s) PROVE Lines'
        BY <2>2, LinesQuiet DEF Move, entryVars, stats
    <2>3. ASSUME IsSnapshot(side), NEW step, NEW s, PassThrough(side, step, s) PROVE Lines'
        BY <2>3, <1>0, PassKinds, LinesPass, LinesQuiet DEF Halts, entryVars, stats
    <2> QED BY <1>2, <2>1, <2>2, <2>3 DEF Drain, Match, Rest
<1>3. ASSUME NEW s \in Sides, WriteFile(s) PROVE Lines'
    <2>1. CASE SendFails(s)
        BY <2>1, LinesQuiet DEF SendFails, Stop, entryVars, stats
    <2>2. CASE Send(s, Target) /\ new' = [new EXCEPT ![s] = @ + 1]
               /\ UNCHANGED <<inputVars, entryVars, passed>>
        <3>1. /\ sent' = [sent EXCEPT ![s] = Append(sent[s], Target)]
              /\ new' = [new EXCEPT ![s] = new[s] + 1]
              /\ line' = line /\ input' = input /\ entries' = entries /\ passed' = passed
            BY <2>2 DEF Send, inputVars, entryVars
        <3>2. index > 0 /\ index \in Nat /\ index <= Len(entries) /\ entries \in Seq(Digest) /\ Target \in Digest
            BY <1>3, EntryFacts DEF WriteFile, Control, HasTarget
        <3>3. Target \in Elements(entries)
            BY <3>2 DEF Elements, Target
        <3>4. /\ sent \in [Sides -> Seq(Digest)] /\ passed \in [Sides -> Nat] /\ new \in [Sides -> Nat]
            BY DEF TypeOK
        <3>5. /\ Len(Append(sent[s], Target)) = Len(sent[s]) + 1 /\ Len(sent[s]) \in Nat
              /\ Elements(Append(sent[s], Target)) = Elements(sent[s]) \cup {Target}
            BY <3>2, <3>4, ElementsAppend, Append1
        <3> SUFFICES ASSUME NEW t \in Sides
                     PROVE  /\ passed'[t] = line'[t]
                            /\ Len(sent'[t]) = passed'[t] + new'[t]
                            /\ Elements(sent'[t]) \subseteq Elements(input'[t]) \cup Elements(entries')
            BY DEF Lines, Sent
        <3>6. CASE t = s
            BY <3>1, <3>3, <3>4, <3>5, <3>6 DEF Lines, Sent
        <3>7. CASE t # s
            BY <3>1, <3>4, <3>7 DEF Lines, Sent
        <3> QED BY <3>6, <3>7
    <2> QED BY <1>3, <2>1, <2>2 DEF WriteFile
<1>4. ASSUME NEW s \in Sides, WriterThread(s) PROVE Lines'
    BY <1>4, LinesQuiet DEF WriterThread, Write, WriteFails, Finish, Abort, entryVars, stats
<1> QED BY <1>1, <1>2, <1>3, <1>4 DEF Next, MergeTask

\* A step of the loop that ends it goes back to the first sink.
LEMMA LoopEnds ==
    ASSUME TypeOK, Control,
           TakeEntry \/ EntriesDone \/ Drain \/ Match \/ SkipFile \/ (\E s \in Sides : WriteFile(s))
           \/ Rest
    PROVE  pc' = "finish" => side' = 1
<1>1. CASE TakeEntry \/ EntriesDone \/ SkipFile
    BY <1>1 DEF TakeEntry, EntriesDone, SkipFile, Stop, Move, Goto
<1>2. ASSUME NEW s, NEW step \in Loop, NEW t, PassThrough(s, step, t) PROVE pc' = "finish" => side' = 1
    BY <1>2 DEF PassThrough, SendFails, Stop, Goto, Loop
<1>3. CASE Drain
    BY <1>2, <1>3 DEF Drain, MeetsBadLine, Stop, Move, Goto, Loop
<1>4. CASE Match
    BY <1>2, <1>4 DEF Match, MeetsBadLine, Stop, Move, Goto, Loop
<1>5. CASE Rest
    BY <1>2, <1>5 DEF Rest, MeetsBadLine, Stop, Move, Goto, Loop
<1>6. ASSUME NEW s \in Sides, WriteFile(s) PROVE pc' = "finish" => side' = 1
    BY <1>6 DEF WriteFile, SendFails, Stop, Goto
<1> QED BY <1>1, <1>3, <1>4, <1>5, <1>6

LEMMA NextThreads == ControlInv /\ Threads /\ [Next]_vars => Threads'
<1> SUFFICES ASSUME TypeOK, Control, Writers, Threads, [Next]_vars PROVE Threads'
    BY DEF ControlInv
<1>0. side \in Sides /\ 1 \in Sides /\ 2 \in Sides /\ \A s \in Sides : s = 1 \/ s = 2
    BY DEF TypeOK, Sides
<1>a. /\ writer \in [Sides -> {"none", "writing", "broken", "ended"}]
      /\ sender \in [Sides -> {"open", "aborted", "dropped"}]
      /\ reported \in [Sides -> {"none", "ok", "Write"}]
      /\ published \in [Sides -> BOOLEAN]
      /\ taken \in [Sides -> Nat]
    BY DEF TypeOK
<1>1. CASE UNCHANGED vars
    BY <1>1 DEF vars, writerVars, Threads
<1>2. CASE Create
    <2>1. /\ pc = "create" /\ pc' \in {"create", "entry"} /\ result = "none"
          /\ (\A s \in Sides : sender[s] = "open")
          /\ writer' = [writer EXCEPT ![side] = "writing"]
          /\ UNCHANGED <<sent, sender, taken, reported, published, result>>
        BY <1>2 DEF Create, Control
    <2>2. \A s \in Sides : writer'[s] = "ended" => writer[s] = "ended"
        BY <2>1, <1>a
    <2> QED BY <2>1, <2>2, <1>0 DEF Threads
<1>3. CASE CreateFails
    <2>1. /\ pc = "create" /\ result = "none" /\ pc' \in {"done", "abort"} /\ result' # "ok"
          /\ (\A s \in Sides : sender[s] = "open" /\ sender'[s] # "dropped")
          /\ UNCHANGED <<sent, writer, taken, reported, published>>
        BY <1>3, <1>a DEF CreateFails, Control, writerVars
    <2> QED BY <2>1 DEF Threads
<1>4. CASE AbortJoined
    <2>1. /\ pc = "abort" /\ result' = "Io" /\ pc' = "done"
          /\ UNCHANGED <<sender, sent, writer, taken, reported, published>>
        BY <1>4 DEF AbortJoined, Control, writerVars
    <2> QED BY <2>1 DEF Threads
<1>5. CASE TakeEntry \/ EntriesDone \/ Drain \/ Match \/ SkipFile
           \/ (\E s \in Sides : WriteFile(s)) \/ Rest
    <2>1. LoopStep /\ (pc' = "finish" => side' = 1)
        BY <1>5, LoopSteps, LoopEnds
    <2>2. /\ pc \in Loop /\ result = "none" /\ (\A s \in Sides : sender[s] = "open")
          /\ UNCHANGED <<sender, writer, reported, published, result>>
          /\ pc' \in Loop \cup {"finish"}
        BY <2>1 DEF LoopStep, Control, Loop, writerVars
    <2> QED BY <2>1, <2>2 DEF Threads, Loop
<1>6. CASE DropSender
    <2>1. /\ pc = "finish" /\ pc' = "join" /\ side' = side /\ result = "none"
          /\ sender' = [sender EXCEPT ![side] = "dropped"]
          /\ UNCHANGED <<sent, writer, taken, reported, published, result>>
        BY <1>6 DEF DropSender, Control, writerVars
    <2>2. \A s \in Sides : sender[s] # "aborted"
        BY <2>1 DEF Threads
    <2>3. \A s \in Sides : writer[s] = "ended" /\ reported[s] = "ok" => sender[s] = "dropped"
        BY <2>2, <1>a DEF Writers
    <2>4. sender'[side] = "dropped" /\ \A s \in Sides : s # side => sender'[s] = sender[s]
        BY <2>1, <1>a, <1>0
    <2>5. side = 2 => writer'[1] = "ended" /\ sender'[1] = "dropped"
        BY <2>1, <2>4, <1>0 DEF Threads
    <2> QED BY <2>1, <2>2, <2>3, <2>4, <2>5, <1>a DEF Threads
<1>7. CASE Join
    <2>1. /\ pc = "join" /\ result = "none" /\ writer[side] = "ended" /\ sender[side] = "dropped"
          /\ UNCHANGED <<sent, sender, error, writer, taken, reported, published>>
        BY <1>7 DEF Join, Control, Threads, writerVars
    <2>2. CASE side = 1 /\ pc' = "finish" /\ side' = 2 /\ result' = result
        BY <2>1, <2>2 DEF Threads
    <2>3. CASE side = 2 /\ pc' = "done" /\ result' = Returned
        <3>1. \A s \in Sides : writer[s] = "ended" /\ sender[s] = "dropped"
            BY <2>1, <2>3, <1>0 DEF Threads
        <3>2. Returned = "ok" => error = "none" /\ \A s \in Sides : reported[s] # "Write"
            BY DEF Returned, TypeOK, Errors
        <3> QED BY <2>1, <2>3, <3>1, <3>2 DEF Threads
    <2> QED BY <1>7, <2>2, <2>3, <1>0 DEF Join, Goto
<1>8. ASSUME NEW s \in Sides, WriterThread(s) PROVE Threads'
    <2>1. UNCHANGED <<pc, side, error, sent, sender, result>> /\ writer[s] # "ended"
        BY <1>8 DEF WriterThread, Write, WriteFails, Finish, Abort, HasAll
    <2>2. result # "ok"
        BY <2>1 DEF Threads
    <2>3. \A t \in Sides : t # s => /\ writer'[t] = writer[t] /\ taken'[t] = taken[t]
                                    /\ reported'[t] = reported[t] /\ published'[t] = published[t]
        <3>1. CASE Write(s) \/ WriteFails(s) \/ Abort(s)
            BY <1>a, <3>1 DEF Write, WriteFails, Abort
        <3>2. CASE Finish(s)
            <4>1. \A t \in Sides : t # s => published'[t] = published[t]
                BY <3>2, <1>a, Zenon DEF Finish
            <4> QED BY <1>a, <3>2, <4>1 DEF Finish
        <3> QED BY <1>8, <3>1, <3>2 DEF WriterThread
    <2>4. /\ writer'[s] = "ended" => reported'[s] # "none"
          /\ writer'[s] = "ended" /\ reported'[s] = "ok" /\ sender[s] = "dropped"
               => published'[s] /\ taken'[s] = Len(sent[s])
        <3>1. CASE Write(s)
            BY <2>1, <3>1 DEF Write
        <3>2. CASE WriteFails(s)
            BY <1>a, <3>2 DEF WriteFails
        <3>3. CASE Abort(s)
            BY <1>a, <3>3 DEF Abort
        <3>4. CASE Finish(s)
            <4>1. /\ taken' = taken
                  /\ reported'[s] \in {"ok", "Write"}
                  /\ writer[s] = "broken" => reported[s] = "Write"
                BY <1>a, <3>4 DEF Finish, Writers
            <4>2. reported'[s] = "ok" => published'[s] /\ reported[s] # "Write"
                BY <1>a, <3>4 DEF Finish
            <4>3. reported'[s] = "ok" => taken[s] = Len(sent[s])
                BY <3>4, <4>1, <4>2 DEF Finish, HasAll
            <4> QED BY <4>1, <4>2, <4>3
        <3> QED BY <1>8, <3>1, <3>2, <3>3, <3>4 DEF WriterThread
    <2>5. side = 2 /\ pc \in {"finish", "join"} => s # 1
        BY <2>1 DEF Threads
    <2> QED BY <2>1, <2>2, <2>3, <2>4, <2>5, <1>0 DEF Threads
<1> QED BY <1>1, <1>2, <1>3, <1>4, <1>5, <1>6, <1>7, <1>8 DEF Next, MergeTask

LEMMA MatchedIsFinite ==
    ASSUME TypeOK, HasTarget
    PROVE  /\ Handled \in Nat /\ Handled <= Len(entries) /\ Len(entries) \in Nat /\ index \in Nat
           /\ IsFiniteSet(Matched) /\ Cardinality(Matched) \in Nat
<1>1. Handled \in Nat /\ Handled <= Len(entries) /\ Len(entries) \in Nat /\ index \in Nat
    BY EntryFacts DEF Handled, HasTarget
<1>2. IsFiniteSet(1 .. Handled) /\ Matched \subseteq 1 .. Handled
    BY <1>1, FS_Interval DEF Matched
<1>3. IsFiniteSet(Matched)
    BY <1>2, FS_Subset
<1> QED BY <1>1, <1>3, FS_CardinalityType

\* Nothing is dealt with, read or counted.
LEMMA AccountsQuiet ==
    ASSUME HandledIsPast, RowsCounted, UNCHANGED <<inputVars, entries, new, skipped>>, Handled' = Handled
    PROVE  HandledIsPast' /\ RowsCounted'
<1>1. \A s, x : IsBehind(s, x) <=> IsBehind(s, x)'
    BY NotRead
<1>2. \A x : Seen(x) <=> Seen(x)'
    BY DEF Seen, inputVars
<1>3. Matched' = Matched
    BY <1>2 DEF Matched
<1> QED BY <1>1, <1>2, <1>3 DEF HandledIsPast, RowsCounted

\* The entry at hand is dealt with, having matched a line or being before all those to come.
LEMMA EntryCounted ==
    ASSUME TypeOK, HasTarget, HandledIsPast, RowsCounted,
           pc \in {"drain", "match", "file"}, pc' = "entry", UNCHANGED entryVars,
           \A n \in 1 .. Handled : Seen(entries[n])' <=> Seen(entries[n]),
           \A n \in 1 .. Handled : Seen(entries[n])' \/ \A s \in Sides : IsBehind(s, entries[n])',
           Seen(Target)' \/ \A s \in Sides : IsBehind(s, Target)',
           new'[1] + new'[2] + skipped' = new[1] + new[2] + skipped + IF Seen(Target)' THEN 0 ELSE 1
    PROVE  HandledIsPast' /\ RowsCounted'
<1>1. /\ index \in Nat /\ index > 0 /\ index' = index /\ entries' = entries
      /\ Handled = index - 1 /\ Handled' = index /\ Target = entries[index] /\ Target' = Target
    BY MatchedIsFinite DEF Handled, HasTarget, entryVars, Target
<1>2. \A n \in 1 .. index : n \in 1 .. index - 1 \/ n = index
    BY <1>1
<1>3. Matched' = IF Seen(Target)' THEN Matched \cup {index} ELSE Matched
    <2>1. \A n \in 1 .. index - 1 : n \in 1 .. index /\ n # index
        BY <1>1
    <2>2. index \in 1 .. index
        BY <1>1
    <2>3. \A n : n \in Matched' <=> n \in 1 .. index /\ Seen(entries[n])'
        BY <1>1 DEF Matched
    <2>4. \A n : n \in Matched <=> n \in 1 .. index - 1 /\ Seen(entries[n])
        BY <1>1 DEF Matched
    <2>5. \A n \in 1 .. index - 1 : n \in Matched' <=> n \in Matched
      <3> TAKE n \in 1 .. index - 1
      <3>1. Seen(entries[n])' <=> Seen(entries[n])
          BY <1>1
      <3>2. n \in Matched' <=> Seen(entries[n])'
          BY <2>1, <2>3
      <3>3. n \in Matched <=> Seen(entries[n])
          BY <2>4
      <3> QED BY <3>1, <3>2, <3>3
    <2>6. index \in Matched' <=> Seen(Target)'
        BY <1>1, <2>2, <2>3 DEF Seen
    <2>7. \A n : n \in Matched' <=> n \in Matched \/ (n = index /\ Seen(Target)')
        BY <1>2, <2>1, <2>3, <2>4, <2>5, <2>6
    <2>8. CASE Seen(Target)'
        BY <2>7, <2>8
    <2>9. CASE ~ Seen(Target)'
        BY <2>7, <2>9
    <2> QED BY <2>8, <2>9
<1>4. index \notin Matched
    BY <1>1 DEF Matched
<1>5. /\ IsFiniteSet(Matched) /\ Cardinality(Matched) \in Nat
      /\ Cardinality(Matched \cup {index}) = Cardinality(Matched) + 1
    BY <1>4, MatchedIsFinite, FS_AddElement
<1>6. new[1] + new[2] + skipped \in Nat
    <2>1. new[1] \in Nat /\ new[2] \in Nat /\ skipped \in Nat
        BY DEF TypeOK, Sides
    <2> QED BY <2>1
<1>7. RowsCounted'
    <2>1. index - 1 = new[1] + new[2] + skipped + Cardinality(Matched)
        BY <1>1 DEF RowsCounted
    <2>2. CASE Seen(Target)'
        <3>1. Cardinality(Matched)' = Cardinality(Matched) + 1
            BY <1>3, <1>5, <2>2
        <3>2. new'[1] + new'[2] + skipped' = new[1] + new[2] + skipped
            BY <1>6, <2>2
        <3> QED BY <1>1, <1>5, <1>6, <2>1, <3>1, <3>2 DEF RowsCounted
    <2>3. CASE ~ Seen(Target)'
        <3>1. Cardinality(Matched)' = Cardinality(Matched)
            BY <1>3, <2>3
        <3>2. new'[1] + new'[2] + skipped' = new[1] + new[2] + skipped + 1
            BY <1>6, <2>3
        <3> QED BY <1>1, <1>5, <1>6, <2>1, <3>1, <3>2 DEF RowsCounted
    <2> QED BY <2>2, <2>3
<1>8. HandledIsPast'
    BY <1>1, <1>2 DEF HandledIsPast, Seen, IsBehind
<1> QED BY <1>7, <1>8

\* A line that is passed through is none of the entries dealt with before, unless one like it was.
LEMMA AccountsPass ==
    ASSUME TypeOK, HasTarget, HandledIsPast, NEW s \in Sides, IsSnapshot(s), PassSends(s),
           NEW d, d = Upcoming(s)
    PROVE  /\ Seen(d)'
           /\ \A n \in 1 .. Handled :
                /\ Seen(entries[n])' <=> Seen(entries[n])
                /\ Seen(entries[n])' \/ \A t \in Sides : IsBehind(t, entries[n])'
<1>1. /\ d \in Nat /\ previous[s] \in Nat /\ previous[s] < d
      /\ line'[s] = line[s] + 1 /\ previous'[s] = d /\ line[s] \in Nat
      /\ \A t \in Sides : t # s => line'[t] = line[t] /\ previous'[t] = previous[t]
    BY PassEffects, InputFacts DEF Digest
<1>2. input' = input /\ entries' = entries /\ d = input[s][line[s] + 1]
    BY DEF PassSends, Upcoming, entryVars
<1>3. \A x : Seen(x)' <=> Seen(x) \/ x = d
    <2> TAKE x
    <2>1. ASSUME Seen(x)' PROVE Seen(x) \/ x = d
        <3>1. PICK t \in Sides : \E k \in 1 .. line'[t] : input[t][k] = x
            BY <1>2, <2>1 DEF Seen
        <3>2. PICK k \in 1 .. line'[t] : input[t][k] = x
            BY <3>1
        <3>3. k \in 1 .. line[t] \/ (t = s /\ k = line[s] + 1)
            BY <1>1
        <3> QED BY <1>2, <3>2, <3>3 DEF Seen
    <2>2. ASSUME Seen(x) PROVE Seen(x)'
        <3>1. PICK t \in Sides : \E k \in 1 .. line[t] : input[t][k] = x
            BY <2>2 DEF Seen
        <3>2. PICK k \in 1 .. line[t] : input[t][k] = x
            BY <3>1
        <3>3. k \in 1 .. line'[t]
            BY <1>1
        <3> QED BY <1>2, <3>2, <3>3 DEF Seen
    <2>3. Seen(d)'
        <3>1. line'[s] \in 1 .. line'[s] /\ input'[s][line'[s]] = d
            BY <1>1, <1>2
        <3> QED BY <3>1 DEF Seen
    <2> QED BY <2>1, <2>2, <2>3
<1>4. ASSUME NEW n \in 1 .. Handled, ~ Seen(entries[n])
      PROVE  entries[n] # d /\ \A t \in Sides : IsBehind(t, entries[n])'
    <2>1. \A t \in Sides : IsBehind(t, entries[n])
        BY <1>4 DEF HandledIsPast
    <2>2. entries[n] \in Nat
        <3>1. entries \in Seq(Digest) /\ n \in 1 .. Len(entries)
            BY EntryFacts, MatchedIsFinite
        <3> QED BY <3>1 DEF Digest
    <2>3. entries[n] < d
        BY <1>1, <2>1, <2>2 DEF IsBehind
    <2>4. IsBehind(s, entries[n])'
        BY <1>1, <1>2, <2>2, <2>3 DEF IsBehind
    <2>5. \A x : \A t \in Sides : t # s => (IsBehind(t, x) <=> IsBehind(t, x)')
        BY PassElsewhere
    <2> QED BY <1>1, <1>2, <2>1, <2>2, <2>3, <2>4, <2>5
<1> QED BY <1>2, <1>3, <1>4

\* A line is passed through, and the task stays where it is.
LEMMA PassStays ==
    ASSUME TypeOK, HasTarget, HandledIsPast, RowsCounted, Ending, NEW s \in Sides, IsSnapshot(s), PassesOn(s),
           pc \in {"drain", "rest"}, pc' = pc, side' = s, side = s
    PROVE  HandledIsPast' /\ RowsCounted' /\ Ending'
<1>1. PassSends(s) /\ index' = index /\ entries' = entries /\ new' = new /\ skipped' = skipped
    BY DEF PassesOn, PassSends, entryVars
<1>2. Handled' = Handled
    BY <1>1 DEF Handled
<1> PICK d : d = Upcoming(s)
    OBVIOUS
<1>3. /\ \A n \in 1 .. Handled : Seen(entries[n])' <=> Seen(entries[n])
      /\ \A n \in 1 .. Handled : Seen(entries[n])' \/ \A t \in Sides : IsBehind(t, entries[n])'
    BY <1>1, AccountsPass
<1>4. Matched' = Matched
    BY <1>1, <1>2, <1>3 DEF Matched
<1>5. HandledIsPast' /\ RowsCounted'
    BY <1>1, <1>2, <1>3, <1>4 DEF HandledIsPast, RowsCounted
<1>6. \A t \in Sides : t # s => (AtEnd(t)' <=> AtEnd(t))
    BY <1>1, PassEffects DEF AtEnd, PassSends
<1>7. Ending'
    BY <1>1, <1>6 DEF Ending, Sides
<1> QED BY <1>5, <1>7

LEMMA NextAccounts == ControlInv /\ OrderInv /\ CountsAgree /\ [Next]_vars => CountsAgree'
<1> SUFFICES ASSUME TypeOK, Control, OrderInv, CountsAgree, [Next]_vars, error' = "none"
             PROVE  HandledIsPast' /\ RowsCounted' /\ Ending'
    BY DEF ControlInv, CountsAgree
<1>0. side \in Sides /\ 1 \in Sides /\ 2 \in Sides /\ (\A s \in Sides : s = 1 \/ s = 2) /\ HasTarget
    BY DEF TypeOK, Sides, Control
<1>a. index \in Nat /\ Len(entries) \in Nat /\ index <= Len(entries)
    BY EntryFacts
<1>b. new[1] \in Nat /\ new[2] \in Nat /\ skipped \in Nat /\ new \in [Sides -> Nat]
    BY <1>0 DEF TypeOK
<1>c. pc \in Loop \cup {"create"} => HandledIsPast /\ RowsCounted /\ Ending
    BY DEF CountsAgree, Control
<1>d. ASSUME UNCHANGED <<inputVars, entryVars, new, skipped, error>>,
             UNCHANGED <<pc, side>> \/ (pc \in {"finish", "join"} /\ pc' \in {"finish", "join", "done"})
      PROVE  HandledIsPast' /\ RowsCounted' /\ Ending'
    <2>1. HandledIsPast /\ RowsCounted /\ Ending
        BY <1>d DEF CountsAgree
    <2>2. index' = index /\ entries' = entries
        BY <1>d DEF entryVars
    <2>3. Handled' = Handled
        BY <1>d, <2>2 DEF Handled
    <2>4. HandledIsPast' /\ RowsCounted'
        BY <1>d, <2>1, <2>2, <2>3, AccountsQuiet
    <2>5. \A s : AtEnd(s)' <=> AtEnd(s)
        BY <1>d, NotRead
    <2>6. Ending'
        BY <1>d, <2>1, <2>2, <2>5 DEF Ending
    <2> QED BY <2>4, <2>6
<1>e. ASSUME NEW step, NEW s, Move(step, s), pc \in Loop,
             pc \in {"entry", "rest"} <=> step \in {"entry", "rest", "finish"}, step \in Loop \cup {"finish"},
             step \in {"rest", "finish"} => index = Len(entries),
             step = "rest" /\ s = 2 => AtEnd(1),
             step = "finish" => AtEnd(1) /\ AtEnd(2)
      PROVE  HandledIsPast' /\ RowsCounted' /\ Ending'
    <2>1. pc' = step /\ side' = s /\ UNCHANGED <<inputVars, entryVars, stats>>
        BY <1>e DEF Move, Goto
    <2>2. index' = index /\ entries' = entries /\ new' = new /\ skipped' = skipped
        BY <2>1 DEF entryVars, stats
    <2>3. Handled' = Handled
        BY <1>e, <2>1, <2>2 DEF Handled, Loop
    <2>4. HandledIsPast' /\ RowsCounted'
        BY <1>c, <1>e, <2>1, <2>2, <2>3, AccountsQuiet
    <2>5. \A t : AtEnd(t)' <=> AtEnd(t)
        BY <2>1, NotRead
    <2>6. Ending'
        BY <1>e, <2>1, <2>2, <2>5 DEF Ending, Loop
    <2> QED BY <2>4, <2>6
<1>1. CASE UNCHANGED vars
    BY <1>1, <1>d DEF vars, stats
<1>2. CASE Create
    <2>1. /\ UNCHANGED <<inputVars, entryVars, stats>> /\ pc = "create" /\ pc' \in {"create", "entry"}
        BY <1>2 DEF Create
    <2>2. index' = index /\ entries' = entries /\ new' = new /\ skipped' = skipped /\ Handled' = Handled
        BY <2>1 DEF entryVars, stats, Handled
    <2>3. HandledIsPast' /\ RowsCounted'
        BY <1>c, <2>1, <2>2, AccountsQuiet
    <2> QED BY <2>1, <2>3 DEF Ending
<1>3. CASE CreateFails \/ AbortJoined
    BY <1>3 DEF CreateFails, AbortJoined, Control
<1>4. CASE DropSender \/ Join
    BY <1>4, <1>d DEF DropSender, Join, Goto, stats
<1>5. CASE TakeEntry
    <2>1. /\ UNCHANGED <<inputVars, entries, stats>> /\ pc = "entry" /\ pc' = "drain" /\ index' = index + 1
        BY <1>5 DEF TakeEntry, Stop, Goto
    <2>2. Handled' = Handled
        BY <1>a, <2>1 DEF Handled
    <2>3. HandledIsPast' /\ RowsCounted'
        BY <1>c, <2>1, <2>2, AccountsQuiet DEF Loop, stats
    <2> QED BY <2>1, <2>3 DEF Ending
<1>6. CASE EntriesDone
    BY <1>6, <1>e DEF EntriesDone, Loop
<1>7. CASE Drain
    <2>1. pc = "drain" /\ ~ MeetsBadLine(side)
        BY <1>7 DEF Drain, MeetsBadLine, Stop
    <2>2. CASE IsSnapshot(side) /\ Upcoming(side) < Target /\ PassThrough(side, "drain", side)
        <3>1. PassesOn(side) /\ Goto("drain", side)
            BY <1>0, <2>2, PassKinds DEF Halts
        <3> QED BY <1>0, <1>c, <2>1, <2>2, <3>1, PassStays DEF Loop, Goto
    <2>3. CASE IF side = 1 THEN Move("drain", 2) ELSE Move("match", 1)
        BY <1>e, <2>1, <2>3 DEF Loop
    <2> QED BY <1>7, <2>1, <2>2, <2>3 DEF Drain
<1>8. CASE Match
    <2>1. pc = "match" /\ ~ MeetsBadLine(side)
        BY <1>8 DEF Match, MeetsBadLine, Stop
    <2>2. CASE IsSnapshot(side) /\ Upcoming(side) = Target /\ PassThrough(side, "entry", 1)
        <3>1. PassesOn(side) /\ Goto("entry", 1)
            BY <1>0, <2>2, PassKinds DEF Halts
        <3> PICK d : d = Target
            OBVIOUS
        <3>2. /\ PassSends(side) /\ pc' = "entry" /\ UNCHANGED entryVars /\ new' = new /\ skipped' = skipped
              /\ Target' = d
            BY <3>1 DEF PassesOn, PassSends, Goto, entryVars, Target
        <3>3. /\ Seen(d)'
              /\ \A n \in 1 .. Handled : Seen(entries[n])' <=> Seen(entries[n])
              /\ \A n \in 1 .. Handled : Seen(entries[n])' \/ \A t \in Sides : IsBehind(t, entries[n])'
            BY <1>0, <1>c, <2>1, <2>2, <3>2, AccountsPass DEF Loop
        <3>4. Seen(Target)'
            BY <3>2, <3>3 DEF Seen
        <3>5. new'[1] + new'[2] + skipped' = new[1] + new[2] + skipped + IF Seen(Target)' THEN 0 ELSE 1
            BY <1>b, <3>2, <3>4
        <3>6. HandledIsPast' /\ RowsCounted'
            BY <1>0, <1>c, <2>1, <3>2, <3>3, <3>4, <3>5, EntryCounted DEF Loop
        <3> QED BY <3>2, <3>6 DEF Ending
    <2>3. CASE IF side = 1 THEN Move("match", 2) ELSE Move("file", 1)
        BY <1>e, <2>1, <2>3 DEF Loop
    <2> QED BY <1>8, <2>1, <2>2, <2>3 DEF Match
<1>9. ASSUME pc = "file", pc' = "entry", UNCHANGED <<inputVars, entryVars>>,
             new'[1] + new'[2] + skipped' = new[1] + new[2] + skipped + 1
      PROVE  HandledIsPast' /\ RowsCounted' /\ Ending'
    <2> PICK d : d = Target
        OBVIOUS
    <2>1. d \in Digest /\ d \in Nat /\ Target' = d /\ entries' = entries /\ Handled = index - 1
        BY <1>0, <1>9, EntryFacts DEF HasTarget, Digest, entryVars, Target, Handled
    <2>2. ~ Seen(d)
        <3> SUFFICES ASSUME NEW s \in Sides, NEW k \in 1 .. line[s], input[s][k] = d PROVE FALSE
            BY DEF Seen
        <3>1. d \in Sent(s)
            BY DEF OrderInv, ReadIsSent
        <3>2. d < d
            BY <1>9, <3>1 DEF OrderInv, BeforeTarget
        <3> QED BY <2>1, <3>2
    <2>3. \A s \in Sides : IsBehind(s, d)
        <3> SUFFICES ASSUME NEW s \in Sides, IsSnapshot(s) PROVE d < Upcoming(s)
            BY DEF IsBehind
        <3>1. Unmatched(s) /\ Upcoming(s) \in Digest
            BY <1>0, <1>9, InputFacts DEF OrderInv, StreamsAtTarget
        <3> QED BY <2>1, <3>1 DEF Unmatched, Digest
    <2>4. \A x : (Seen(x)' <=> Seen(x)) /\ \A s : IsBehind(s, x)' <=> IsBehind(s, x)
        BY <1>9, NotRead DEF Seen, inputVars
    <2>5. ~ Seen(Target)' /\ \A s \in Sides : IsBehind(s, Target)'
        BY <2>1, <2>2, <2>3, <2>4 DEF Seen, IsBehind
    <2>6. \A n \in 1 .. Handled : Seen(entries[n])' <=> Seen(entries[n])
        BY <2>1, <2>4 DEF Seen
    <2>7. \A n \in 1 .. Handled : Seen(entries[n])' \/ \A t \in Sides : IsBehind(t, entries[n])'
        <3> TAKE n \in 1 .. Handled
        <3> PICK x : x = entries[n]
            OBVIOUS
        <3>1. Seen(x) \/ \A t \in Sides : IsBehind(t, x)
            BY <1>9, <1>c DEF HandledIsPast, Loop
        <3>2. Seen(x)' \/ \A t \in Sides : IsBehind(t, x)'
            BY <2>4, <3>1
        <3> QED BY <2>1, <3>2 DEF Seen, IsBehind
    <2>8. new'[1] + new'[2] + skipped' = new[1] + new[2] + skipped + IF Seen(Target)' THEN 0 ELSE 1
        BY <1>9, <2>5
    <2>9. HandledIsPast' /\ RowsCounted'
        BY <1>0, <1>c, <1>9, <2>5, <2>6, <2>7, <2>8, EntryCounted DEF Loop
    <2> QED BY <1>9, <2>9 DEF Ending
<1>10. CASE SkipFile
    <2>1. new'[1] + new'[2] + skipped' = new[1] + new[2] + skipped + 1
        BY <1>10, <1>b DEF SkipFile
    <2> QED BY <1>9, <1>10, <2>1 DEF SkipFile, Goto
<1>11. ASSUME NEW s \in Sides, WriteFile(s) PROVE HandledIsPast' /\ RowsCounted' /\ Ending'
    <2>1. /\ pc = "file" /\ pc' = "entry" /\ UNCHANGED <<inputVars, entryVars>> /\ skipped' = skipped
          /\ new' = [new EXCEPT ![s] = new[s] + 1]
        BY <1>11 DEF WriteFile, SendFails, Stop, Goto
    <2>2. new'[1] + new'[2] + skipped' = new[1] + new[2] + skipped + 1
        <3>1. CASE s = 1
            BY <1>0, <1>b, <2>1, <3>1
        <3>2. CASE s = 2
            BY <1>0, <1>b, <2>1, <3>2
        <3> QED BY <1>0, <3>1, <3>2
    <2> QED BY <1>9, <2>1, <2>2
<1>12. CASE Rest
    <2>1. pc = "rest" /\ ~ MeetsBadLine(side)
        BY <1>12 DEF Rest, MeetsBadLine, Stop
    <2>2. CASE IsSnapshot(side) /\ PassThrough(side, "rest", side)
        <3>1. PassesOn(side) /\ Goto("rest", side)
            BY <1>0, <2>2, PassKinds DEF Halts
        <3> QED BY <1>0, <1>c, <2>1, <2>2, <3>1, PassStays DEF Loop, Goto
    <2>3. CASE AtEnd(side) /\ IF side = 1 THEN Move("rest", 2) ELSE Move("finish", 1)
        <3>1. index = Len(entries) /\ (side = 2 => AtEnd(1))
            BY <1>c, <2>1 DEF Ending, Loop
        <3> QED BY <1>0, <1>e, <2>1, <2>3, <3>1 DEF Loop
    <2> QED BY <1>12, <2>1, <2>2, <2>3 DEF Rest
<1>13. ASSUME NEW s \in Sides, WriterThread(s) PROVE HandledIsPast' /\ RowsCounted' /\ Ending'
    BY <1>13, <1>d DEF WriterThread, Write, WriteFails, Finish, Abort, stats
<1> QED BY <1>1, <1>2, <1>3, <1>4, <1>5, <1>6, <1>7, <1>8, <1>10, <1>11, <1>12, <1>13 DEF Next, MergeTask

LEMMA InitAccounts == Init => AccountInv
<1> SUFFICES ASSUME Init PROVE AccountInv
    OBVIOUS
<1>1. /\ pc = "create" /\ index = 0 /\ Handled = 0 /\ result = "none"
      /\ skipped = 0
      /\ \A s \in Sides : /\ sent[s] = <<>> /\ line[s] = 0 /\ passed[s] = 0 /\ new[s] = 0
                          /\ sender[s] = "open" /\ writer[s] = "none"
    BY DEF Init, Handled
<1>2. Lines
    BY <1>1, EmptySequence DEF Lines, Sent, Elements
<1>3. Threads /\ Ending
    BY <1>1 DEF Threads, Ending
<1>4. Matched = {} /\ HandledIsPast
    BY <1>1 DEF Matched, HandledIsPast
<1>5. RowsCounted
    BY <1>1, <1>4, FS_EmptySet DEF RowsCounted, Sides
<1> QED BY <1>2, <1>3, <1>4, <1>5 DEF AccountInv, CountsAgree

\* Everything an account of a success rests on holds in every state of a merge.
THEOREM AccountsAreKept == Spec => []AccountInv
<1>1. Init => AccountInv
    BY InitAccounts
<1>2. ControlInv /\ OrderInv /\ AccountInv /\ [Next]_vars => AccountInv'
    BY NextLines, NextThreads, NextAccounts DEF AccountInv
<1> QED BY <1>1, <1>2, OrderIsKept, PTL DEF Spec

\* A merge that went well has published all of both inputs and of the entries, and counted them.
THEOREM MergeOkIsComplete == Spec => []OkIsComplete
<1>1. ASSUME ControlInv, OrderInv, AccountInv, result = "ok" PROVE OkIsComplete
    <2>1. /\ pc = "done" /\ HandledIsPast /\ RowsCounted /\ Ending
          /\ \A s \in Sides : /\ published[s] /\ taken[s] = Len(sent[s]) /\ reported[s] = "ok"
        BY <1>1 DEF AccountInv, Threads, CountsAgree, ControlInv, TypeOK
    <2>2. \A s \in Sides : s = 1 \/ s = 2
        BY DEF Sides
    <2>3. index = Len(entries) /\ Handled = Len(entries) /\ \A s \in Sides : line[s] = Len(input[s])
        BY <2>1, <2>2 DEF Ending, AtEnd, Handled
    <2>4. \A s \in Sides : DOMAIN input[s] = 1 .. line[s] /\ DOMAIN entries = 1 .. Handled
        <3> TAKE s \in Sides
        <3>1. input[s] \in Seq(Digest \cup {Bad}) /\ entries \in Seq(Digest)
            BY <1>1, InputFacts, EntryFacts DEF ControlInv
        <3> QED BY <2>3, <3>1
    <2>5. \A s \in Sides : Elements(input[s]) \subseteq Elements(sent[s])
        BY <1>1, <2>4, ZenonT(30) DEF OrderInv, ReadIsSent, Sent, Elements
    <2>6. Matched = {n \in DOMAIN entries : entries[n] \in Elements(input[1]) \cup Elements(input[2])}
        <3>1. \A x : Seen(x) <=> x \in Elements(input[1]) \cup Elements(input[2])
            BY <2>2, <2>4 DEF Seen, Elements, Sides
        <3> QED BY <2>2, <2>4, <3>1 DEF Matched, Sides
    <2>7. Len(entries) = new[1] + new[2] + skipped + Cardinality(
           {n \in DOMAIN entries : entries[n] \in Elements(input[1]) \cup Elements(input[2])})
        BY <2>1, <2>3, <2>6 DEF RowsCounted
    <2> QED BY <1>1, <2>1, <2>3, <2>5, <2>7 DEF AccountInv, Lines, Sent, OkIsComplete
<1>2. ControlInv /\ OrderInv /\ AccountInv => OkIsComplete
    BY <1>1 DEF OkIsComplete
<1> QED BY <1>2, OrderIsKept, AccountsAreKept, PTL

\* What the caller of a merge is told is true, whatever the inputs hold and whoever fails.
THEOREM MergeResultIsTruthful == Spec => []ResultIsTruthful
BY MergeOkIsComplete, MergeCauseIsKnown, MergeAbortPublishesNothing, PTL DEF ResultIsTruthful

=============================================================================
