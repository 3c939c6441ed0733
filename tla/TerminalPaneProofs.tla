------------------------- MODULE TerminalPaneProofs -------------------------
(***************************************************************************)
(* Proofs about the terminal pane: for every set of characters, number of  *)
(* shells and length of line and history, the line editor never leaves its *)
(* line or its history, what the pane indicates is true, and the directory *)
(* a command leaves is the one the next starts in.                         *)
(***************************************************************************)
EXTENDS TerminalPane, SequenceTheorems, WellFoundedInduction, TLAPS

-----------------------------------------------------------------------------
(* Operators of the line editor. *)

\* What Min and Max return on a set of natural numbers with a bound, which the provers
\* take from the well-foundedness of Nat.
LEMMA MinOfSet ==
    ASSUME NEW S \in SUBSET Nat, S # {}
    PROVE  Min(S) \in S /\ \A y \in S : Min(S) <= y
<1>1. PICK x \in S : \A y \in S : <<y, x>> \notin OpToRel(<, Nat)
  BY NatLessThanWellFounded, WFMin
<1>2. \A y \in S : x <= y
  <2> SUFFICES ASSUME NEW y \in S, y < x PROVE FALSE
    OBVIOUS
  <2>1. <<y, x>> \in {ss \in Nat \X Nat : ss[1] < ss[2]}
    OBVIOUS
  <2> QED BY <1>1, <2>1 DEF OpToRel
<1> QED BY <1>2 DEF Min

\* The same for Max: the greatest element is the least distance from the bound.
LEMMA MaxOfSet ==
    ASSUME NEW n \in Nat, NEW S \in SUBSET (0..n), S # {}
    PROVE  Max(S) \in S /\ \A y \in S : y <= Max(S)
<1> DEFINE T == {n - y : y \in S}
<1>1. T \in SUBSET Nat /\ T # {}
  <2>1. \A y \in S : n - y \in Nat
    OBVIOUS
  <2>2. PICK y \in S : TRUE
    OBVIOUS
  <2> QED BY <2>1, <2>2
<1>2. Min(T) \in T /\ \A y \in T : Min(T) <= y
  BY <1>1, MinOfSet
<1>3. PICK x \in S : Min(T) = n - x
  BY <1>2
<1>4. \A y \in S : x >= y
  BY <1>2, <1>3
<1> QED BY <1>4 DEF Max

\* A line is a sequence of at most MaxLine characters.
LEMMA LineIsSeq ==
    ASSUME NEW s
    PROVE  s \in Lines <=> s \in Seq(Chars) /\ Len(s) <= MaxLine
<1>1. ASSUME s \in Lines PROVE s \in Seq(Chars) /\ Len(s) <= MaxLine
  BY <1>1, BoundsAssumption DEF Lines
<1>2. ASSUME s \in Seq(Chars), Len(s) <= MaxLine PROVE s \in Lines
  <2>1. Len(s) \in 0..MaxLine /\ s \in [1..Len(s) -> Chars]
    BY <1>2, LenProperties, BoundsAssumption
  <2> QED BY <2>1 DEF Lines
<1> QED BY <1>1, <1>2

\* The empty line is one.
LEMMA EmptyLine == <<>> \in Lines
<1>1. <<>> \in [1..0 -> Chars] /\ 0 \in 0..MaxLine
  BY BoundsAssumption
<1> QED BY <1>1 DEF Lines

\* The characters before position m and behind position n, with a text between them, are
\* a line when they fit: what every key that changes the line produces.
LEMMA Splice ==
    ASSUME LineOK, NEW m \in 0..Len(buf), NEW n \in 0..Len(buf), NEW text \in Seq(Chars),
           m + Len(text) + (Len(buf) - n) <= MaxLine
    PROVE  /\ (Left(m) \o text) \o Right(n) \in Lines
           /\ Len((Left(m) \o text) \o Right(n)) = m + Len(text) + (Len(buf) - n)
<1>1. buf \in Seq(Chars) /\ Len(buf) \in Nat
  BY LineIsSeq DEF LineOK
<1>2. Left(m) \in Seq(Chars) /\ Len(Left(m)) = m
  <2>1. \A i \in 1..m : buf[i] \in Chars
    BY <1>1, ElementOfSeq
  <2> QED BY <1>1, <2>1, SubSeqProperties DEF Left
<1>3. Right(n) \in Seq(Chars) /\ Len(Right(n)) = Len(buf) - n
  <2>1. \A i \in (n + 1)..Len(buf) : buf[i] \in Chars
    BY <1>1, ElementOfSeq
  <2>2. /\ SubSeq(buf, n + 1, Len(buf)) \in Seq(Chars)
        /\ Len(SubSeq(buf, n + 1, Len(buf))) = IF n + 1 <= Len(buf) THEN Len(buf) - (n + 1) + 1 ELSE 0
    BY <1>1, <2>1, SubSeqProperties
  <2> QED BY <1>1, <2>2 DEF Right
<1>4. Left(m) \o text \in Seq(Chars) /\ Len(Left(m) \o text) = m + Len(text)
  BY <1>2, ConcatProperties
<1>5. /\ (Left(m) \o text) \o Right(n) \in Seq(Chars)
      /\ Len((Left(m) \o text) \o Right(n)) = (m + Len(text)) + (Len(buf) - n)
  <2> DEFINE l == Left(m) \o text
             r == Right(n)
  <2>1. l \in Seq(Chars) /\ r \in Seq(Chars)
    BY <1>3, <1>4
  <2>2. l \o r \in Seq(Chars) /\ Len(l \o r) = Len(l) + Len(r)
    <3> HIDE DEF l, r
    <3> QED BY <2>1, ConcatProperties
  <2> QED BY <1>3, <1>4, <2>2
<1>6. Len(text) \in Nat
  OBVIOUS
<1> QED BY <1>1, <1>5, <1>6, LineIsSeq

\* The same without a text.
LEMMA Cut ==
    ASSUME LineOK, NEW m \in 0..Len(buf), NEW n \in 0..Len(buf), m <= n
    PROVE  /\ Left(m) \o Right(n) \in Lines
           /\ Len(Left(m) \o Right(n)) = m + (Len(buf) - n)
<1>1. buf \in Seq(Chars) /\ Len(buf) \in Nat /\ Len(buf) <= MaxLine
  BY LineIsSeq DEF LineOK
<1>2. <<>> \in Seq(Chars) /\ Len(<<>>) = 0
  BY EmptySeq
<1>3. m + Len(<<>>) + (Len(buf) - n) <= MaxLine
  BY <1>1, <1>2, BoundsAssumption
<1>4. /\ (Left(m) \o <<>>) \o Right(n) \in Lines
      /\ Len((Left(m) \o <<>>) \o Right(n)) = m + (Len(buf) - n)
  <2> DEFINE none == <<>>
  <2>1. none \in Seq(Chars) /\ Len(none) = 0 /\ m + Len(none) + (Len(buf) - n) <= MaxLine
    BY <1>2, <1>3
  <2>2. /\ (Left(m) \o none) \o Right(n) \in Lines
        /\ Len((Left(m) \o none) \o Right(n)) = m + Len(none) + (Len(buf) - n)
    <3> HIDE DEF none
    <3> QED BY <2>1, Splice
  <2> QED BY <1>1, <2>1, <2>2
<1>5. Left(m) \in Seq(Chars)
  <2>1. \A i \in 1..m : buf[i] \in Chars
    BY <1>1, ElementOfSeq
  <2> QED BY <1>1, <2>1, SubSeqProperties DEF Left
<1>6. Left(m) \o <<>> = Left(m)
  BY <1>5, ConcatEmptySeq
<1> QED BY <1>4, <1>6

\* The word that Ctrl-W deletes begins in the line, before the cursor.
LEMMA WordStartInLine ==
    ASSUME LineOK
    PROVE  WordStart \in 0..cur
<1> DEFINE inWord(n) == n > 0 /\ buf[n] # Space
           ends == {0} \cup {n \in 1..cur : inWord(n)}
           starts == {0} \cup {n \in 1..Max(ends) : ~ inWord(n)}
<1>1. cur \in Nat
  <2>1. Len(buf) \in Nat
    BY LineIsSeq DEF LineOK
  <2> QED BY <2>1 DEF LineOK
<1>2. ends \in SUBSET (0..cur) /\ ends # {}
  BY <1>1
<1>3. Max(ends) \in 0..cur
  <2> HIDE DEF ends
  <2> QED BY <1>1, <1>2, MaxOfSet
<1>4. starts \in SUBSET (0..cur) /\ starts # {}
  <2> HIDE DEF ends
  <2> QED BY <1>1, <1>3
<1>5. Max(starts) \in 0..cur
  <2> HIDE DEF starts
  <2> QED BY <1>1, <1>4, MaxOfSet
<1> QED BY <1>5 DEF WordStart

\* A line without the spaces around it is a line.
LEMMA TrimmedIsLine ==
    ASSUME NEW line \in Lines
    PROVE  Trimmed(line) \in Lines
<1> DEFINE inked == {n \in DOMAIN line : line[n] # Space}
<1>1. line \in Seq(Chars) /\ Len(line) \in Nat /\ Len(line) <= MaxLine /\ DOMAIN line = 1..Len(line)
  BY LineIsSeq
<1>2. CASE inked = {}
  BY <1>2, EmptyLine DEF Trimmed
<1>3. CASE inked # {}
  <2>1. inked \in SUBSET Nat /\ inked \in SUBSET (0..Len(line)) /\ inked \in SUBSET (1..Len(line))
    BY <1>1
  <2>2. Min(inked) \in 1..Len(line) /\ Max(inked) \in 1..Len(line)
    <3> HIDE DEF inked
    <3> QED BY <1>1, <1>3, <2>1, MinOfSet, MaxOfSet
  <2>3. \A i \in Min(inked)..Max(inked) : line[i] \in Chars
    <3> HIDE DEF inked
    <3> QED BY <1>1, <2>2, ElementOfSeq
  <2>4. /\ SubSeq(line, Min(inked), Max(inked)) \in Seq(Chars)
        /\ Len(SubSeq(line, Min(inked), Max(inked))) <= MaxLine
    <3> HIDE DEF inked
    <3>1. Min(inked) \in Int /\ Max(inked) \in Int
      BY <1>1, <2>2
    <3>2. /\ SubSeq(line, Min(inked), Max(inked)) \in Seq(Chars)
          /\ Len(SubSeq(line, Min(inked), Max(inked)))
                = IF Min(inked) <= Max(inked) THEN Max(inked) - Min(inked) + 1 ELSE 0
      BY <2>3, <3>1, SubSeqProperties
    <3> QED BY <1>1, <2>2, <3>2, BoundsAssumption
  <2> QED BY <1>3, <2>4, LineIsSeq DEF Trimmed
<1> QED BY <1>2, <1>3

\* The smaller of two numbers.
LEMMA MinOfPair ==
    ASSUME NEW a \in Int, NEW b \in Int
    PROVE  Min({a, b}) = IF a <= b THEN a ELSE b
<1>1. CASE a <= b
  <2>1. \A x \in {a, b} : (\A y \in {a, b} : x <= y) <=> x = a
    BY <1>1
  <2> QED BY <1>1, <2>1 DEF Min
<1>2. CASE ~ (a <= b)
  <2>1. \A x \in {a, b} : (\A y \in {a, b} : x <= y) <=> x = b
    BY <1>2
  <2> QED BY <1>2, <2>1 DEF Min
<1> QED BY <1>1, <1>2

\* The history with one more command: commands only, and no more than HistoryMax.
LEMMA RememberedFits ==
    ASSUME RecallOK, NEW c \in Lines \ {<<>>}
    PROVE  Remembered(c) \in Seq(Lines \ {<<>>}) /\ Len(Remembered(c)) <= HistoryMax
<1>1. CASE hist # <<>> /\ Head(hist) = c
  BY <1>1 DEF Remembered, RecallOK
<1>2. CASE ~ (hist # <<>> /\ Head(hist) = c)
  <2> DEFINE Cs == Lines \ {<<>>}
             all == <<c>> \o hist
             n == Min({Len(hist) + 1, HistoryMax})
  <2>1. hist \in Seq(Cs) /\ Len(hist) \in Nat
    BY DEF RecallOK
  <2>2. all \in Seq(Cs) /\ Len(all) = Len(hist) + 1
    <3>1. <<c>> \in Seq(Cs) /\ Len(<<c>>) = 1
      BY DEF Cs
    <3> QED BY <2>1, <3>1, ConcatProperties
  <2>3. n \in 1..Len(all) /\ n <= HistoryMax
    BY <2>1, <2>2, MinOfPair, BoundsAssumption
  <2>4. SubSeq(all, 1, n) \in Seq(Cs) /\ Len(SubSeq(all, 1, n)) = n
    <3> HIDE DEF all, n, Cs
    <3>1. \A i \in 1..n : all[i] \in Cs
      BY <2>2, <2>3, ElementOfSeq
    <3> QED BY <2>2, <2>3, <3>1, SubSeqProperties
  <2> QED BY <1>2, <2>3, <2>4 DEF Remembered
<1> QED BY <1>1, <1>2

\* The line that a completion puts in the place of the present one.
LEMMA CompletedFits ==
    ASSUME NEW line \in Lines, NEW at \in Nat, at <= Len(line), NEW n \in at..MaxLine, NEW c \in Chars,
           n + (Len(line) - at) <= MaxLine, NEW word \in 0..at
    PROVE  LET rest == SubSeq(line, at + 1, Len(line))
               full == [k \in 1..n |-> IF k <= word THEN line[k] ELSE c] \o rest
           IN  /\ Len(rest) = Len(line) - at
               /\ full \in Lines
               /\ n \in 0..Len(full)
<1> DEFINE rest == SubSeq(line, at + 1, Len(line))
           name == [k \in 1..n |-> IF k <= word THEN line[k] ELSE c]
<1>1. line \in Seq(Chars) /\ Len(line) \in Nat /\ Len(line) <= MaxLine
  BY LineIsSeq
<1>2. \A i \in 1..Len(line) : line[i] \in Chars
  BY <1>1, ElementOfSeq
<1>3. rest \in Seq(Chars) /\ Len(rest) = Len(line) - at
  <2>1. /\ rest \in Seq(Chars)
        /\ Len(rest) = IF at + 1 <= Len(line) THEN Len(line) - (at + 1) + 1 ELSE 0
    BY <1>1, <1>2, SubSeqProperties
  <2> QED BY <1>1, <2>1
<1>4. name \in Seq(Chars) /\ Len(name) = n
  <2>1. n \in Nat /\ \A k \in 1..n : k <= word => k \in 1..Len(line)
    BY <1>1
  <2>2. name \in [1..n -> Chars]
    BY <1>2, <2>1
  <2> QED BY <2>1, <2>2
<1>5. name \o rest \in Seq(Chars) /\ Len(name \o rest) = n + (Len(line) - at)
  <2> HIDE DEF name, rest
  <2>1. name \in Seq(Chars) /\ rest \in Seq(Chars)
    BY <1>3, <1>4
  <2>2. name \o rest \in Seq(Chars) /\ Len(name \o rest) = Len(name) + Len(rest)
    BY <2>1, ConcatProperties
  <2> QED BY <1>3, <1>4, <2>2
<1>6. name \o rest \in Lines
  <2> HIDE DEF name, rest
  <2> QED BY <1>5, LineIsSeq
<1>7. n \in 0..(n + (Len(line) - at))
  BY <1>1
<1> QED BY <1>3, <1>5, <1>6, <1>7

-----------------------------------------------------------------------------
(* The socket, its timers and the tab's end. *)

\* The pane starts with an empty line and asks nothing.
LEMMA InitInv == Init => Inv
<1> SUFFICES ASSUME Init PROVE Inv
  OBVIOUS
<1>1. FlagsOK
  BY DEF Init, FlagsOK
<1>2. LineOK
  BY EmptyLine DEF Init, LineOK
<1>3. RecallOK
  <2>1. <<>> \in Seq(Lines \ {<<>>}) /\ Len(<<>>) = 0
    BY EmptySeq
  <2> QED BY <2>1, EmptyLine, BoundsAssumption DEF Init, RecallOK
<1>4. RequestsOK
  <2>1. tab \in [shell : 0..Shells, buf : Lines, cur : Nat] /\ tab.cur <= Len(tab.buf)
    BY EmptyLine, BoundsAssumption DEF Init, NoTab
  <2>2. probe \in [asks : {"nothing", "user", "pwd", "done"}, shell : 0..Shells]
    BY BoundsAssumption DEF Init, NoProbe
  <2> QED BY <2>1, <2>2, BoundsAssumption, DirsAssumption DEF Init, RequestsOK
<1>5. IndicatorsTrue /\ DirKept /\ Probing /\ NotTold
  BY DEF Init, NoProbe, IndicatorsTrue, DirKept, Probing, NotTold
<1> QED BY <1>1, <1>2, <1>3, <1>4, <1>5 DEF Inv, TypeOK

\* A step that leaves the line and the history alone keeps them right.
LEMMA LineKept == LineOK /\ UNCHANGED lineVars => LineOK'
  BY DEF LineOK, lineVars

\* The same for the history.
LEMMA RecallKept == RecallOK /\ UNCHANGED recallVars => RecallOK'
  BY DEF RecallOK, recallVars

\* The steps of the socket and of its timers: command mode is entered with the first
\* question, and the badge follows the socket.
LEMMA SocketInv ==
    ASSUME Inv, OnOpen \/ OnOutput \/ OnStatus \/ OnRefused \/ OnClose
                  \/ PromptTimeout \/ ConnectionTimeout
    PROVE  Inv'
<1>1. /\ UNCHANGED <<shown, lineVars, recallVars, running, cmd, tab, errors, dirVars, keys>>
      /\ cmdMode' = cmdMode \/ cmdMode' = TRUE
      /\ \/ probe' = probe /\ (cmdMode \/ cmdMode' = cmdMode)
         \/ shown /\ ~ cmdMode /\ cmdMode' = TRUE /\ probe' = [asks |-> "user", shell |-> 1]
  BY DEF OnOpen, OnOutput, OnStatus, OnRefused, OnClose, PromptTimeout, ConnectionTimeout,
         enableFallbackMode, requestVars, socketVars
<1>2. LineOK' /\ RecallOK'
  BY <1>1, LineKept, RecallKept DEF Inv, TypeOK
<1>3. FlagsOK'
  <2> USE DEF FlagsOK, Inv, TypeOK, dirVars, requestVars, socketVars
  <2>1. CASE OnOpen \/ OnOutput \/ OnClose
    BY <2>1 DEF OnOpen, OnOutput, OnClose
  <2>2. CASE OnStatus
    BY <2>2 DEF OnStatus, enableFallbackMode
  <2>3. CASE OnRefused
    BY <2>3 DEF OnRefused, enableFallbackMode
  <2>4. CASE PromptTimeout
    BY <2>4 DEF PromptTimeout, enableFallbackMode
  <2>5. CASE ConnectionTimeout
    BY <2>5 DEF ConnectionTimeout, enableFallbackMode
  <2> QED BY <2>1, <2>2, <2>3, <2>4, <2>5
<1>4. (badge = "connected" => ws = "open")' \/ ~ shown'
  BY DEF OnOpen, OnOutput, OnStatus, OnRefused, OnClose, PromptTimeout, ConnectionTimeout,
         enableFallbackMode, socketVars, FlagsOK, Inv, TypeOK, IndicatorsTrue
<1>5. IndicatorsTrue'
  BY <1>1, <1>4 DEF Inv, IndicatorsTrue
<1>6. probe' = probe \/ (probe.asks = "nothing" /\ probe' = [asks |-> "user", shell |-> 1])
  BY <1>1 DEF Inv, Probing
<1>7. RequestsOK'
  <2>1. probe' \in [asks : {"nothing", "user", "pwd", "done"}, shell : 0..Shells]
    BY <1>6, BoundsAssumption DEF Inv, TypeOK, RequestsOK
  <2> QED BY <1>1, <2>1 DEF Inv, TypeOK, RequestsOK, dirVars
<1>8. DirKept' /\ NotTold'
  BY <1>1, <1>6 DEF Inv, DirKept, NotTold, dirVars
<1>9. Probing'
  BY <1>1, <1>6 DEF Inv, Probing
<1> QED BY <1>2, <1>3, <1>5, <1>7, <1>8, <1>9 DEF Inv, TypeOK

\* The tab is closed: nothing is indicated any more, and nothing is asked again.
LEMMA CleanupInv == Inv /\ Cleanup => Inv'
<1> SUFFICES ASSUME Inv, Cleanup PROVE Inv'
  OBVIOUS
<1>1. LineOK'
  BY EmptyLine DEF Cleanup, LineOK
<1>2. RecallOK'
  BY RecallKept DEF Cleanup, Inv, TypeOK
<1>3. FlagsOK'
  BY DEF Cleanup, dirVars, FlagsOK, Inv, TypeOK
<1>4. RequestsOK'
  BY DEF Cleanup, dirVars, RequestsOK, Inv, TypeOK
<1>5. IndicatorsTrue' /\ DirKept' /\ NotTold' /\ Probing'
  BY DEF Cleanup, dirVars, IndicatorsTrue, DirKept, NotTold, Probing, Inv
<1> QED BY <1>1, <1>2, <1>3, <1>4, <1>5 DEF Inv, TypeOK

-----------------------------------------------------------------------------
(* The line editor. *)

\* A key touches nothing that the pane indicates or asks; what is left to show is that
\* the line and the history stay what they are.
LEMMA KeyInv ==
    ASSUME Inv, Key, UNCHANGED <<running, tab>>, LineOK', RecallOK'
    PROVE  Inv'
<1>1. FlagsOK'
  BY DEF Key, socketVars, dirVars, FlagsOK, Inv, TypeOK
<1>2. RequestsOK'
  BY DEF Key, dirVars, RequestsOK, Inv, TypeOK
<1>3. IndicatorsTrue' /\ DirKept' /\ NotTold' /\ Probing'
  BY DEF Key, socketVars, dirVars, IndicatorsTrue, DirKept, NotTold, Probing, Inv
<1> QED BY <1>1, <1>2, <1>3 DEF Inv, TypeOK

\* A key that edits the line.
LEMMA EditInv ==
    ASSUME Inv, NEW line \in Lines, NEW at \in 0..Len(line), EditKey(line, at)
    PROVE  Inv'
<1>1. LineOK'
  BY DEF EditKey, SetLine, LineOK
<1>2. RecallOK'
  BY RecallKept DEF EditKey, Inv, TypeOK
<1> QED BY <1>1, <1>2, KeyInv DEF EditKey

\* Typing, pasting and deleting cut the line at the cursor; the new cursor is in it.
LEMMA EditorInv ==
    ASSUME Inv,
           \/ \E c \in Chars : Type(c)
           \/ \E t \in Texts : pasteClipboard(t)
           \/ Backspace \/ Delete \/ ArrowLeft \/ ArrowRight \/ HomeKey \/ EndKey
           \/ CtrlU \/ CtrlK \/ CtrlW
    PROVE  Inv'
<1>1. LineOK /\ buf \in Seq(Chars) /\ Len(buf) \in Nat /\ Len(buf) <= MaxLine /\ cur \in Nat /\ cur <= Len(buf)
  BY LineIsSeq DEF Inv, TypeOK, LineOK
<1>2. ASSUME NEW c \in Chars, Type(c) PROVE Inv'
  <2>1. Append(Left(cur), c) = Left(cur) \o <<c>>
    <3>1. \A i \in 1..cur : buf[i] \in Chars
      BY <1>1, ElementOfSeq
    <3>2. Left(cur) \in Seq(Chars)
      BY <1>1, <3>1, SubSeqProperties DEF Left
    <3> QED BY <3>2, AppendIsConcat
  <2>2. <<c>> \in Seq(Chars) /\ Len(<<c>>) = 1
    OBVIOUS
  <2>3. Len(buf) < MaxLine
    BY <1>2 DEF Type
  <2>4. /\ (Left(cur) \o <<c>>) \o Right(cur) \in Lines
        /\ Len((Left(cur) \o <<c>>) \o Right(cur)) = cur + 1 + (Len(buf) - cur)
    <3> DEFINE text == <<c>>
    <3>1. text \in Seq(Chars) /\ Len(text) = 1 /\ cur + Len(text) + (Len(buf) - cur) <= MaxLine
      BY <1>1, <2>2, <2>3, BoundsAssumption
    <3> HIDE DEF text
    <3>2. /\ (Left(cur) \o text) \o Right(cur) \in Lines
          /\ Len((Left(cur) \o text) \o Right(cur)) = cur + Len(text) + (Len(buf) - cur)
      <4>1. cur \in 0..Len(buf)
        BY <1>1
      <4> QED BY <1>1, <3>1, <4>1, Splice
    <3> QED BY <3>1, <3>2 DEF text
  <2>5. cur + 1 \in 0..Len((Left(cur) \o <<c>>) \o Right(cur))
    BY <1>1, <2>4
  <2> QED BY <1>2, <2>1, <2>4, <2>5, EditInv DEF Type
<1>3. ASSUME NEW t \in Texts, pasteClipboard(t) PROVE Inv'
  <2>1. t \in Seq(Chars) /\ Len(t) \in Nat
    <3>1. PICK c \in Chars : t = <<c, c>>
      BY DEF Texts
    <3> QED BY <3>1
  <2>2. Len(buf) + Len(t) <= MaxLine
    BY <1>3 DEF pasteClipboard
  <2>3. cur + Len(t) + (Len(buf) - cur) <= MaxLine
    BY <1>1, <2>1, <2>2, BoundsAssumption
  <2>4. /\ (Left(cur) \o t) \o Right(cur) \in Lines
        /\ Len((Left(cur) \o t) \o Right(cur)) = cur + Len(t) + (Len(buf) - cur)
    BY <1>1, <2>1, <2>3, Splice
  <2>5. cur + Len(t) \in 0..Len((Left(cur) \o t) \o Right(cur))
    BY <1>1, <2>1, <2>4
  <2> QED BY <1>3, <2>4, <2>5, EditInv DEF pasteClipboard
<1>4. CASE Backspace
  <2>1. Left(cur - 1) \o Right(cur) \in Lines /\ cur - 1 \in 0..Len(Left(cur - 1) \o Right(cur))
    <3>1. cur > 0
      BY <1>4 DEF Backspace
    <3>2. Len(Left(cur - 1) \o Right(cur)) = (cur - 1) + (Len(buf) - cur) /\ Left(cur - 1) \o Right(cur) \in Lines
      <4>1. cur \in 0..Len(buf) /\ cur - 1 \in 0..Len(buf) /\ cur - 1 <= cur
        BY <1>1, <3>1
      <4> QED BY <1>1, <4>1, Cut
    <3> QED BY <1>1, <3>1, <3>2
  <2> QED BY <1>4, <2>1, EditInv DEF Backspace
<1>5. CASE Delete
  <2>1. Left(cur) \o Right(cur + 1) \in Lines /\ cur \in 0..Len(Left(cur) \o Right(cur + 1))
    <3>1. cur < Len(buf)
      BY <1>5 DEF Delete
    <3>2. Len(Left(cur) \o Right(cur + 1)) = cur + (Len(buf) - (cur + 1)) /\ Left(cur) \o Right(cur + 1) \in Lines
      BY <1>1, <3>1, Cut
    <3> QED BY <1>1, <3>1, <3>2
  <2> QED BY <1>5, <2>1, EditInv DEF Delete
<1>6. CASE ArrowLeft \/ ArrowRight \/ HomeKey \/ EndKey
  <2>1. buf \in Lines
    BY <1>1 DEF LineOK
  <2>2. PICK at \in 0..Len(buf) : EditKey(buf, at)
    <3>1. CASE ArrowLeft
      <4>1. cur - 1 \in 0..Len(buf)
        BY <1>1, <3>1 DEF ArrowLeft
      <4> QED BY <3>1, <4>1 DEF ArrowLeft
    <3>2. CASE ArrowRight
      <4>1. cur + 1 \in 0..Len(buf)
        BY <1>1, <3>2 DEF ArrowRight
      <4> QED BY <3>2, <4>1 DEF ArrowRight
    <3>3. CASE HomeKey
      <4>1. 0 \in 0..Len(buf)
        BY <1>1
      <4> QED BY <3>3, <4>1 DEF HomeKey
    <3>4. CASE EndKey
      <4>1. Len(buf) \in 0..Len(buf)
        BY <1>1
      <4> QED BY <3>4, <4>1 DEF EndKey
    <3> QED BY <1>6, <3>1, <3>2, <3>3, <3>4
  <2> QED BY <2>1, <2>2, EditInv
<1>7. CASE CtrlU
  <2>1. Right(cur) \in Lines /\ 0 \in 0..Len(Right(cur))
    <3>1. \A i \in (cur + 1)..Len(buf) : buf[i] \in Chars
      BY <1>1, ElementOfSeq
    <3>2. /\ Right(cur) \in Seq(Chars)
          /\ Len(Right(cur)) = IF cur + 1 <= Len(buf) THEN Len(buf) - (cur + 1) + 1 ELSE 0
      BY <1>1, <3>1, SubSeqProperties DEF Right
    <3>3. Len(Right(cur)) \in Nat /\ Len(Right(cur)) <= MaxLine
      BY <1>1, <3>2, BoundsAssumption
    <3> QED BY <3>2, <3>3, LineIsSeq
  <2> QED BY <1>7, <2>1, EditInv DEF CtrlU
<1>8. CASE CtrlK
  <2>1. Left(cur) \in Lines /\ cur \in 0..Len(Left(cur))
    <3>1. \A i \in 1..cur : buf[i] \in Chars
      BY <1>1, ElementOfSeq
    <3>2. Left(cur) \in Seq(Chars) /\ Len(Left(cur)) = cur
      BY <1>1, <3>1, SubSeqProperties DEF Left
    <3>3. Len(Left(cur)) <= MaxLine
      BY <1>1, <3>2, BoundsAssumption
    <3> QED BY <1>1, <3>2, <3>3, LineIsSeq
  <2> QED BY <1>8, <2>1, EditInv DEF CtrlK
<1>9. CASE CtrlW
  <2>1. WordStart \in 0..cur
    BY <1>1, WordStartInLine
  <2>2. /\ Left(WordStart) \o Right(cur) \in Lines
        /\ Len(Left(WordStart) \o Right(cur)) = WordStart + (Len(buf) - cur)
    <3>1. cur \in 0..Len(buf) /\ WordStart \in 0..Len(buf) /\ WordStart <= cur
      BY <1>1, <2>1
    <3> QED BY <1>1, <3>1, Cut
  <2>3. WordStart \in 0..Len(Left(WordStart) \o Right(cur))
    BY <1>1, <2>1, <2>2
  <2> QED BY <1>9, <2>2, <2>3, EditInv DEF CtrlW
<1> QED BY <1>2, <1>3, <1>4, <1>5, <1>6, <1>7, <1>8, <1>9

\* Going through the history: the recalled command is one of those remembered.
LEMMA RecallInv ==
    ASSUME Inv, ArrowUp \/ ArrowDown \/ CtrlC
    PROVE  Inv'
<1>1. LineOK /\ RecallOK /\ Len(hist) \in Nat /\ idx \in Int /\ idx >= -1 /\ idx <= Len(hist) - 1
  BY DEF Inv, TypeOK, RecallOK
<1>2. \A k \in 1..Len(hist) : hist[k] \in Lines
  BY DEF Inv, TypeOK, RecallOK
<1>3. \A line \in Lines : Len(line) \in 0..Len(line)
  BY LineIsSeq
<1>4. CASE ArrowUp
  <2> DEFINE to == Min({idx + 1, Len(hist) - 1})
  <2>1. Len(hist) # 0
    BY <1>1, <1>4, EmptySeq DEF ArrowUp, RecallOK
  <2>2. to \in 0..(Len(hist) - 1)
    <3>1. to = IF idx + 1 <= Len(hist) - 1 THEN idx + 1 ELSE Len(hist) - 1
      BY <1>1, MinOfPair
    <3> QED BY <1>1, <2>1, <3>1
  <2>3. /\ Key /\ saved' = (IF idx = -1 THEN buf ELSE saved) /\ idx' = to
        /\ SetLine(hist[to + 1], Len(hist[to + 1])) /\ UNCHANGED <<hist, running, tab>>
    BY <1>4 DEF ArrowUp
  <2> HIDE DEF to
  <2>4. hist[to + 1] \in Lines
    BY <1>1, <1>2, <2>2
  <2>5. LineOK'
    BY <1>3, <2>3, <2>4 DEF SetLine, LineOK
  <2>6. RecallOK'
    BY <1>1, <2>2, <2>3 DEF RecallOK, LineOK
  <2> QED BY <2>3, <2>5, <2>6, KeyInv
<1>5. CASE ArrowDown
  <2> DEFINE text == IF idx = 0 THEN saved ELSE hist[idx]
  <2>1. /\ idx # -1 /\ Key /\ idx' = idx - 1
        /\ SetLine(text, Len(text)) /\ UNCHANGED <<hist, saved, running, tab>>
    BY <1>5 DEF ArrowDown
  <2>2. text \in Lines
    BY <1>1, <1>2, <2>1 DEF RecallOK
  <2> HIDE DEF text
  <2>3. LineOK'
    BY <1>3, <2>1, <2>2 DEF SetLine, LineOK
  <2>4. RecallOK'
    BY <1>1, <2>1 DEF RecallOK
  <2> QED BY <2>1, <2>3, <2>4, KeyInv
<1>6. CASE CtrlC
  <2>1. LineOK'
    BY <1>6, EmptyLine DEF CtrlC, SetLine, LineOK
  <2>2. RecallOK'
    BY <1>1, <1>6 DEF CtrlC, RecallOK
  <2> QED BY <1>6, <2>1, <2>2, KeyInv DEF CtrlC
<1> QED BY <1>4, <1>5, <1>6

\* Enter: a command starts when none runs, and the flag goes up with it.
LEMMA EnterInv ==
    ASSUME Inv, runFallbackCommand
    PROVE  Inv'
<1> DEFINE c == Trimmed(buf)
<1>1. /\ shown /\ cmdMode /\ keys' = keys + 1 /\ SetLine(<<>>, 0)
      /\ \/ UNCHANGED <<recallVars, running, cmd>>
         \/ /\ c # <<>> /\ hist' = Remembered(c) /\ idx' = -1 /\ saved' = <<>>
            /\ running' = TRUE /\ cmd' = (IF running THEN cmd ELSE 1)
      /\ UNCHANGED <<shown, badge, cmdMode, ws, output, connTimer, promptTimer, tardy>>
      /\ UNCHANGED <<tab, probe, errors, cwd, left, raced>>
  BY DEF runFallbackCommand, socketVars, dirVars
<1>2. c \in Lines
  BY TrimmedIsLine DEF Inv, TypeOK, LineOK
<1> HIDE DEF c
<1>3. LineOK'
  BY <1>1, EmptyLine DEF SetLine, LineOK
<1>4. RecallOK'
  <2>1. CASE UNCHANGED recallVars
    BY <2>1, RecallKept DEF Inv, TypeOK
  <2>2. CASE c # <<>> /\ hist' = Remembered(c) /\ idx' = -1 /\ saved' = <<>>
    <3>1. Remembered(c) \in Seq(Lines \ {<<>>}) /\ Len(Remembered(c)) <= HistoryMax
      BY <1>2, <2>2, RememberedFits DEF Inv, TypeOK
    <3>2. Len(hist') \in Nat
      BY <2>2, <3>1
    <3> QED BY <2>2, <3>1, <3>2, EmptyLine DEF RecallOK
  <2> QED BY <1>1, <2>1, <2>2
<1>5. running \in BOOLEAN /\ cmd \in 0..Shells /\ (running <=> cmd # 0)
  BY <1>1 DEF Inv, TypeOK, FlagsOK, RequestsOK, IndicatorsTrue
<1>6. running' \in BOOLEAN /\ cmd' \in 0..Shells /\ (running' <=> cmd' # 0)
  <2>1. cmd' \in 0..Shells
    BY <1>1, <1>5, BoundsAssumption
  <2>2. (running' = running /\ cmd' = cmd) \/ (running' = TRUE /\ cmd' # 0)
    BY <1>1, <1>5, 1 # 0
  <2>3. CASE running' = running /\ cmd' = cmd
    BY <1>5, <2>1, <2>3
  <2>4. CASE running' = TRUE /\ cmd' # 0
    BY <2>1, <2>4
  <2> QED BY <2>2, <2>3, <2>4
<1>7. FlagsOK'
  BY <1>1, <1>6 DEF FlagsOK, Inv, TypeOK
<1>8. RequestsOK'
  BY <1>1, <1>6 DEF RequestsOK, Inv, TypeOK
<1>9. probe.asks # "nothing"
  BY <1>1 DEF Inv, Probing
<1>10. IndicatorsTrue' /\ DirKept' /\ NotTold' /\ Probing'
  BY <1>1, <1>6, <1>9 DEF IndicatorsTrue, DirKept, NotTold, Probing, Inv
<1> QED BY <1>3, <1>4, <1>7, <1>8, <1>10 DEF Inv, TypeOK

\* Tab: the line and the cursor that the answer will work on are those of now.
LEMMA TabInv ==
    ASSUME Inv, handleTabComplete
    PROVE  Inv'
<1>1. LineOK' /\ RecallOK'
  BY LineKept, RecallKept DEF handleTabComplete, Inv, TypeOK
<1>2. FlagsOK'
  BY DEF handleTabComplete, Key, socketVars, dirVars, FlagsOK, Inv, TypeOK
<1>3. tab' \in [shell : 0..Shells, buf : Lines, cur : Nat] /\ tab'.cur <= Len(tab'.buf)
  <2>1. tab' = [shell |-> 1, buf |-> buf, cur |-> cur]
    BY DEF handleTabComplete
  <2>2. buf \in Lines /\ cur \in Nat /\ cur <= Len(buf)
    BY LineIsSeq DEF Inv, TypeOK, LineOK
  <2> QED BY <2>1, <2>2, BoundsAssumption
<1>4. RequestsOK'
  BY <1>3 DEF handleTabComplete, Key, dirVars, RequestsOK, Inv, TypeOK
<1>5. IndicatorsTrue' /\ DirKept' /\ NotTold' /\ Probing'
  BY DEF handleTabComplete, Key, socketVars, dirVars, IndicatorsTrue, DirKept, NotTold, Probing, Inv
<1> QED BY <1>1, <1>2, <1>4, <1>5 DEF Inv, TypeOK

-----------------------------------------------------------------------------
(* Answers and errors. *)

\* The shell that is tried after shell k, if there is one.
LEMMA NextShellInRange ==
    ASSUME NEW k \in 0..Shells
    PROVE  NextShell(k) \in 0..Shells /\ (NextShell(k) # 0 => NextShell(k) = k + 1 /\ k < Shells)
                                      /\ (NextShell(k) = 0 => k = Shells)
  BY BoundsAssumption DEF NextShell

\* A command that answers takes the flag down, and leaves the pane where it left its
\* shell; before the pane has been told where it is, that is the race.
LEMMA CommandAnswersInv ==
    ASSUME Inv, CommandAnswers
    PROVE  Inv'
<1>1. /\ cmd # 0 /\ running' = FALSE /\ cmd' = 0 /\ SetLine(<<>>, 0)
      /\ \/ UNCHANGED <<cwd, left, raced>>
         \/ cwd' \in Dirs /\ left' = cwd' /\ raced' = (raced \/ probe.shell # 0)
      /\ UNCHANGED <<shown, badge, cmdMode, ws, output, connTimer, promptTimer, tardy>>
      /\ UNCHANGED <<tab, probe, errors, keys>> /\ UNCHANGED recallVars
  BY DEF CommandAnswers, CommandEnds, dirVars, socketVars
<1>2. LineOK'
  BY <1>1, EmptyLine DEF SetLine, LineOK
<1>3. RecallOK'
  BY <1>1, RecallKept DEF Inv, TypeOK
<1>4. FlagsOK'
  BY <1>1 DEF FlagsOK, Inv, TypeOK
<1>5. RequestsOK'
  BY <1>1, BoundsAssumption DEF RequestsOK, Inv, TypeOK
<1>6. IndicatorsTrue' /\ Probing'
  BY <1>1 DEF IndicatorsTrue, Probing, Inv
<1>7. DirKept' /\ NotTold'
  <2>1. probe.asks # "nothing" /\ (probe.asks # "done" => probe.shell # 0)
    BY <1>1 DEF Inv, Probing
  <2>2. CASE UNCHANGED <<cwd, left, raced>>
    BY <1>1, <2>2 DEF DirKept, NotTold, Inv
  <2>3. CASE left' = cwd' /\ raced' = (raced \/ probe.shell # 0)
    <3>1. DirKept'
      BY <2>3 DEF DirKept
    <3>2. probe.asks # "done" => raced'
      BY <2>1, <2>3
    <3>3. probe' = probe /\ errors' = errors
      BY <1>1
    <3> QED BY <3>1, <3>2, <3>3 DEF NotTold, Inv
  <2> QED BY <1>1, <2>2, <2>3
<1> QED BY <1>2, <1>3, <1>4, <1>5, <1>6, <1>7 DEF Inv, TypeOK

\* A command that fails is tried in the next shell; in the last one it ends.
LEMMA CommandFailsInv ==
    ASSUME Inv, CommandFails
    PROVE  Inv'
<1>1. /\ cmd # 0 /\ errors' = errors + 1
      /\ \/ running' = FALSE /\ cmd' = 0 /\ SetLine(<<>>, 0)
         \/ NextShell(cmd) # 0 /\ cmd' = NextShell(cmd) /\ UNCHANGED lineVars /\ running' = running
      /\ UNCHANGED <<shown, badge, cmdMode, ws, output, connTimer, promptTimer, tardy>>
      /\ UNCHANGED <<tab, probe, keys, cwd, left, raced>> /\ UNCHANGED recallVars
  BY DEF CommandFails, Fails, CommandEnds, dirVars, socketVars
<1>2. LineOK'
  BY <1>1, EmptyLine, LineKept DEF SetLine, LineOK, Inv, TypeOK
<1>3. RecallOK'
  BY <1>1, RecallKept DEF Inv, TypeOK
<1>4. FlagsOK'
  BY <1>1 DEF FlagsOK, Inv, TypeOK
<1>5. errors \in Nat /\ errors' \in Nat /\ errors' > errors
  BY <1>1 DEF RequestsOK, Inv, TypeOK
<1>6. cmd' \in 0..Shells
  BY <1>1, NextShellInRange, BoundsAssumption DEF RequestsOK, Inv, TypeOK
<1>7. RequestsOK'
  BY <1>1, <1>5, <1>6 DEF RequestsOK, Inv, TypeOK
<1>8. IndicatorsTrue' /\ Probing'
  BY <1>1 DEF IndicatorsTrue, Probing, Inv
<1>9. probe.shell \in Nat
  BY BoundsAssumption DEF RequestsOK, Inv, TypeOK
<1>10. DirKept' /\ NotTold'
  BY <1>1, <1>5, <1>9, BoundsAssumption DEF DirKept, NotTold, Inv
<1> QED BY <1>2, <1>3, <1>4, <1>7, <1>8, <1>10 DEF Inv, TypeOK

\* A completion puts the line of its key back, with the name it found, and the cursor
\* behind the name.
LEMMA TabAnswersInv ==
    ASSUME Inv, TabAnswers
    PROVE  Inv'
<1> DEFINE at == Max({0} \cup {n \in 1..tab.cur : tab.buf[n] = Space})
           rest == SubSeq(tab.buf, tab.cur + 1, Len(tab.buf))
<1>1. /\ tab' = NoTab
      /\ \/ UNCHANGED lineVars
         \/ \E n \in tab.cur..MaxLine, c \in Chars \ {Space} :
               /\ n + Len(rest) <= MaxLine
               /\ SetLine([k \in 1..n |-> IF k <= at THEN tab.buf[k] ELSE c] \o rest, n)
      /\ UNCHANGED <<shown, badge, cmdMode, ws, output, connTimer, promptTimer, tardy>>
      /\ UNCHANGED <<running, cmd, probe, errors, keys, cwd, left, raced>> /\ UNCHANGED recallVars
  BY DEF TabAnswers, dirVars, socketVars
<1>2. tab.buf \in Lines /\ tab.cur \in Nat /\ tab.cur <= Len(tab.buf) /\ Len(tab.buf) \in Nat
  <2>1. tab.buf \in Lines /\ tab.cur \in Nat /\ tab.cur <= Len(tab.buf)
    BY DEF RequestsOK, Inv, TypeOK
  <2> QED BY <2>1, LineIsSeq
<1>3. at \in 0..tab.cur
  <2> DEFINE S == {0} \cup {n \in 1..tab.cur : tab.buf[n] = Space}
  <2>1. S \in SUBSET (0..tab.cur) /\ S # {}
    BY <1>2
  <2> HIDE DEF S
  <2>2. Max(S) \in 0..tab.cur
    BY <1>2, <2>1, MaxOfSet
  <2> QED BY <2>2 DEF S
<1>4. LineOK'
  <2>1. CASE UNCHANGED lineVars
    BY <2>1, LineKept DEF Inv, TypeOK
  <2>2. ASSUME NEW n \in tab.cur..MaxLine, NEW c \in Chars \ {Space},
               n + Len(rest) <= MaxLine,
               SetLine([k \in 1..n |-> IF k <= at THEN tab.buf[k] ELSE c] \o rest, n)
        PROVE  LineOK'
    <3> DEFINE full == [k \in 1..n |-> IF k <= at THEN tab.buf[k] ELSE c] \o rest
    <3>1. Len(rest) = Len(tab.buf) - tab.cur
      <4>1. tab.buf \in Seq(Chars)
        BY <1>2, LineIsSeq
      <4>2. \A i \in (tab.cur + 1)..Len(tab.buf) : tab.buf[i] \in Chars
        BY <1>2, <4>1, ElementOfSeq
      <4>3. Len(rest) = IF tab.cur + 1 <= Len(tab.buf) THEN Len(tab.buf) - (tab.cur + 1) + 1 ELSE 0
        BY <1>2, <4>2, SubSeqProperties
      <4> QED BY <1>2, <4>3
    <3>2. n + (Len(tab.buf) - tab.cur) <= MaxLine
      BY <2>2, <3>1
    <3> HIDE DEF at
    <3>3. full \in Lines /\ n \in 0..Len(full)
      <4> DEFINE line == tab.buf
                 pos == tab.cur
      <4>1. /\ line \in Lines /\ pos \in Nat /\ pos <= Len(line) /\ at \in 0..pos
            /\ n \in pos..MaxLine /\ c \in Chars /\ n + (Len(line) - pos) <= MaxLine
        BY <1>2, <1>3, <3>2
      <4> HIDE DEF line, pos
      <4>2. LET tail == SubSeq(line, pos + 1, Len(line))
                all == [k \in 1..n |-> IF k <= at THEN line[k] ELSE c] \o tail
            IN  all \in Lines /\ n \in 0..Len(all)
        BY <4>1, CompletedFits
      <4> QED BY <4>2 DEF line, pos
    <3>4. buf' = full /\ cur' = n
      BY <2>2 DEF SetLine
    <3> HIDE DEF full
    <3> QED BY <3>3, <3>4 DEF LineOK
  <2> QED BY <1>1, <2>1, <2>2
<1> HIDE DEF at, rest
<1>5. RecallOK'
  BY <1>1, RecallKept DEF Inv, TypeOK
<1>6. FlagsOK'
  BY <1>1 DEF FlagsOK, Inv, TypeOK
<1>7. tab' \in [shell : 0..Shells, buf : Lines, cur : Nat] /\ tab'.cur <= Len(tab'.buf)
  BY <1>1, EmptyLine, BoundsAssumption DEF NoTab
<1>8. RequestsOK'
  BY <1>1, <1>7 DEF RequestsOK, Inv, TypeOK
<1>9. IndicatorsTrue' /\ Probing' /\ DirKept' /\ NotTold'
  BY <1>1 DEF IndicatorsTrue, Probing, DirKept, NotTold, Inv
<1> QED BY <1>4, <1>5, <1>6, <1>8, <1>9 DEF Inv, TypeOK

\* A completion that fails is tried in the next shell, or given up.
LEMMA TabFailsInv ==
    ASSUME Inv, TabFails
    PROVE  Inv'
<1>1. /\ tab' = (IF NextShell(tab.shell) = 0 THEN NoTab ELSE [tab EXCEPT !.shell = NextShell(@)])
      /\ errors' = errors + 1
      /\ UNCHANGED <<shown, badge, cmdMode, ws, output, connTimer, promptTimer, tardy>>
      /\ UNCHANGED <<running, cmd, probe, keys, cwd, left, raced>>
      /\ UNCHANGED recallVars /\ UNCHANGED lineVars
  BY DEF TabFails, Fails, dirVars, socketVars
<1>2. LineOK' /\ RecallOK'
  BY <1>1, LineKept, RecallKept DEF Inv, TypeOK
<1>3. FlagsOK'
  BY <1>1 DEF FlagsOK, Inv, TypeOK
<1>4. tab \in [shell : 0..Shells, buf : Lines, cur : Nat] /\ tab.cur <= Len(tab.buf)
  BY DEF RequestsOK, Inv, TypeOK
<1>5. tab' \in [shell : 0..Shells, buf : Lines, cur : Nat] /\ tab'.cur <= Len(tab'.buf)
  <2>1. NextShell(tab.shell) \in 0..Shells
    BY <1>4, NextShellInRange
  <2>2. NoTab \in [shell : 0..Shells, buf : Lines, cur : Nat] /\ NoTab.cur <= Len(NoTab.buf)
    BY EmptyLine, BoundsAssumption DEF NoTab
  <2> QED BY <1>1, <1>4, <2>1, <2>2
<1>6. errors \in Nat /\ errors' \in Nat /\ errors' > errors
  BY <1>1 DEF RequestsOK, Inv, TypeOK
<1>7. RequestsOK'
  BY <1>1, <1>5, <1>6 DEF RequestsOK, Inv, TypeOK
<1>8. IndicatorsTrue' /\ Probing'
  BY <1>1 DEF IndicatorsTrue, Probing, Inv
<1>9. probe.shell \in Nat
  BY BoundsAssumption DEF RequestsOK, Inv, TypeOK
<1>10. DirKept' /\ NotTold'
  BY <1>1, <1>6, <1>9, BoundsAssumption DEF DirKept, NotTold, Inv
<1> QED BY <1>2, <1>3, <1>7, <1>8, <1>10 DEF Inv, TypeOK

\* A question that is answered: the second answer is the directory shells start in.
LEMMA ProbeAnswersInv ==
    ASSUME Inv, ProbeAnswers
    PROVE  Inv'
<1>1. /\ probe.shell # 0
      /\ \/ /\ probe.asks = "user" /\ probe' = [asks |-> "pwd", shell |-> 1]
            /\ UNCHANGED lineVars /\ cwd' = cwd
         \/ /\ probe.asks # "user" /\ probe' = [asks |-> "done", shell |-> 0]
            /\ SetLine(<<>>, 0) /\ cwd' = IF probe.asks = "pwd" THEN Home ELSE cwd
      /\ UNCHANGED <<shown, badge, cmdMode, ws, output, connTimer, promptTimer, tardy>>
      /\ UNCHANGED <<running, cmd, tab, errors, keys, left, raced>> /\ UNCHANGED recallVars
  BY DEF ProbeAnswers, ProbeMoves, socketVars
<1>2. LineOK'
  BY <1>1, EmptyLine, LineKept DEF SetLine, LineOK, Inv, TypeOK
<1>3. RecallOK'
  BY <1>1, RecallKept DEF Inv, TypeOK
<1>4. FlagsOK'
  BY <1>1 DEF FlagsOK, Inv, TypeOK
<1>5. probe.asks \in {"user", "pwd"}
  BY <1>1 DEF Inv, TypeOK, RequestsOK, Probing
<1>6. probe' \in [asks : {"nothing", "user", "pwd", "done"}, shell : 0..Shells] /\ cwd' \in Dirs
  BY <1>1, BoundsAssumption, DirsAssumption DEF Inv, TypeOK, RequestsOK
<1>7. RequestsOK'
  BY <1>1, <1>6 DEF RequestsOK, Inv, TypeOK
<1>8. IndicatorsTrue' /\ Probing'
  BY <1>1, <1>5 DEF IndicatorsTrue, Probing, Inv
<1>9. raced \/ (cwd = Root /\ left = Home)
  BY <1>5 DEF Inv, NotTold
<1>10. DirKept'
  BY <1>1, <1>5, <1>9 DEF DirKept
<1>11. NotTold'
  <2>1. errors' \in Nat /\ raced' = raced /\ left' = left
    BY <1>1 DEF RequestsOK, Inv, TypeOK
  <2>2. CASE probe' = [asks |-> "pwd", shell |-> 1] /\ cwd' = cwd
    BY <1>9, <2>1, <2>2 DEF NotTold
  <2>3. CASE probe' = [asks |-> "done", shell |-> 0]
    BY <2>3 DEF NotTold
  <2> QED BY <1>1, <2>2, <2>3
<1> QED BY <1>2, <1>3, <1>4, <1>7, <1>8, <1>10, <1>11 DEF Inv, TypeOK

\* A question that fails is asked in the next shell; after the last one the pane goes on
\* without an answer, and by then there have been as many errors as shells.
LEMMA ProbeFailsInv ==
    ASSUME Inv, ProbeFails
    PROVE  Inv'
<1>1. /\ probe.shell # 0 /\ errors' = errors + 1
      /\ \/ /\ NextShell(probe.shell) # 0 /\ probe' = [probe EXCEPT !.shell = NextShell(@)]
            /\ UNCHANGED lineVars
         \/ /\ probe.asks = "user" /\ probe' = [asks |-> "pwd", shell |-> 1] /\ UNCHANGED lineVars
         \/ /\ NextShell(probe.shell) = 0
            /\ probe.asks # "user" /\ probe' = [asks |-> "done", shell |-> 0] /\ SetLine(<<>>, 0)
      /\ UNCHANGED <<shown, badge, cmdMode, ws, output, connTimer, promptTimer, tardy>>
      /\ UNCHANGED <<running, cmd, tab, keys, cwd, left, raced>> /\ UNCHANGED recallVars
  BY DEF ProbeFails, Fails, ProbeMoves, socketVars, dirVars
<1>2. LineOK'
  BY <1>1, EmptyLine, LineKept DEF SetLine, LineOK, Inv, TypeOK
<1>3. RecallOK'
  BY <1>1, RecallKept DEF Inv, TypeOK
<1>4. FlagsOK'
  BY <1>1 DEF FlagsOK, Inv, TypeOK
<1>5. probe \in [asks : {"user", "pwd"}, shell : 0..Shells]
  BY <1>1 DEF Inv, TypeOK, RequestsOK, Probing
<1>6. errors \in Nat /\ errors' \in Nat
  BY <1>1 DEF RequestsOK, Inv, TypeOK
<1>7. /\ NextShell(probe.shell) \in 0..Shells
      /\ NextShell(probe.shell) # 0 => NextShell(probe.shell) = probe.shell + 1
      /\ NextShell(probe.shell) = 0 => probe.shell = Shells
  BY <1>5, NextShellInRange
<1>8. \/ /\ probe' = [asks |-> probe.asks, shell |-> probe.shell + 1]
         /\ probe.shell + 1 \in 0..Shells
      \/ probe' = [asks |-> "pwd", shell |-> 1]
      \/ probe.asks = "pwd" /\ probe' = [asks |-> "done", shell |-> 0] /\ probe.shell = Shells
  BY <1>1, <1>5, <1>7
<1>9. probe' \in [asks : {"nothing", "user", "pwd", "done"}, shell : 0..Shells]
  BY <1>5, <1>8, BoundsAssumption
<1>10. RequestsOK'
  BY <1>1, <1>6, <1>9 DEF RequestsOK, Inv, TypeOK
<1>11. IndicatorsTrue'
  BY <1>1 DEF IndicatorsTrue, Inv
<1>12. Probing'
  <2>1. probe.shell + 1 # 0
    BY <1>5
  <2>2. (probe.shell = 0 <=> probe.asks \in {"nothing", "done"})'
    BY <1>5, <1>8, <2>1
  <2>3. probe.asks # "nothing" /\ probe'.asks # "nothing"
    BY <1>5, <1>8
  <2> QED BY <1>1, <2>2, <2>3 DEF Probing, Inv
<1>13. raced \/ (cwd = Root /\ left = Home)
  BY <1>5 DEF Inv, NotTold
<1>14. probe.asks = "pwd" => errors >= probe.shell - 1
  BY DEF Inv, NotTold
<1>15. NotTold'
  <2>1. probe'.asks = "pwd" => errors' >= probe'.shell - 1
    BY <1>1, <1>5, <1>6, <1>8, <1>14, BoundsAssumption
  <2> QED BY <1>1, <1>13, <2>1 DEF NotTold
<1>16. DirKept'
  <2>1. probe'.asks = "done" => errors' >= Shells
    BY <1>1, <1>5, <1>6, <1>8, <1>14, BoundsAssumption
  <2> QED BY <1>1, <1>13, <2>1 DEF DirKept
<1> QED BY <1>2, <1>3, <1>4, <1>10, <1>11, <1>12, <1>15, <1>16 DEF Inv, TypeOK

-----------------------------------------------------------------------------
(* Theorems. *)

\* The invariant is inductive and holds in every state of the pane, for any number of
\* shells, length of line, history and container.
THEOREM PaneInvariance == Spec => []Inv
<1>1. Inv /\ [Next]_vars => Inv'
  <2> SUFFICES ASSUME Inv, [Next]_vars PROVE Inv'
    OBVIOUS
  <2>1. CASE OnOpen \/ OnOutput \/ OnStatus \/ OnRefused \/ OnClose
               \/ PromptTimeout \/ ConnectionTimeout
    BY <2>1, SocketInv
  <2>2. CASE Cleanup
    BY <2>2, CleanupInv
  <2>3. CASE \/ \E c \in Chars : Type(c)
             \/ \E t \in Texts : pasteClipboard(t)
             \/ Backspace \/ Delete \/ ArrowLeft \/ ArrowRight \/ HomeKey \/ EndKey
             \/ CtrlU \/ CtrlK \/ CtrlW
    BY <2>3, EditorInv
  <2>4. CASE CtrlC \/ ArrowUp \/ ArrowDown
    BY <2>4, RecallInv
  <2>5. CASE runFallbackCommand
    BY <2>5, EnterInv
  <2>6. CASE handleTabComplete
    BY <2>6, TabInv
  <2>7. CASE CommandAnswers
    BY <2>7, CommandAnswersInv
  <2>8. CASE CommandFails
    BY <2>8, CommandFailsInv
  <2>9. CASE TabAnswers
    BY <2>9, TabAnswersInv
  <2>10. CASE TabFails
    BY <2>10, TabFailsInv
  <2>11. CASE ProbeAnswers
    BY <2>11, ProbeAnswersInv
  <2>12. CASE ProbeFails
    BY <2>12, ProbeFailsInv
  <2>13. CASE UNCHANGED vars
    <3>1. LineOK' /\ RecallOK'
      BY <2>13, LineKept, RecallKept DEF vars, Inv, TypeOK
    <3>2. FlagsOK' /\ RequestsOK'
      BY <2>13 DEF vars, socketVars, requestVars, dirVars, FlagsOK, RequestsOK, Inv, TypeOK
    <3>3. IndicatorsTrue' /\ DirKept' /\ Probing' /\ NotTold'
      BY <2>13 DEF vars, socketVars, requestVars, dirVars, IndicatorsTrue, DirKept, Probing,
                   NotTold, Inv
    <3> QED BY <3>1, <3>2, <3>3 DEF Inv, TypeOK
  <2> QED BY <2>1, <2>2, <2>3, <2>4, <2>5, <2>6, <2>7, <2>8, <2>9, <2>10, <2>11, <2>12, <2>13
      DEF Next
<1> QED BY InitInv, <1>1, PTL DEF Spec

\* The cursor never leaves the line, the recalled command is always a remembered one,
\* and the history never grows past its limit, whatever keys, pastes, answers and
\* completions come in whatever order.
THEOREM EditorInRange == Spec => []TypeOK
<1>1. Inv => TypeOK
  BY DEF Inv
<1> QED BY <1>1, PaneInvariance, PTL

\* The running flag is up exactly while a command is under way, and the badge says "live"
\* only over an open socket.
THEOREM PaneIndicatesTruth == Spec => []IndicatorsTrue
<1>1. Inv => IndicatorsTrue
  BY DEF Inv
<1> QED BY <1>1, PaneInvariance, PTL

\* The next command starts where the last one ended, unless one answered before the pane
\* knew where it was, or every shell failed to tell.
THEOREM DirectoryIsKept == Spec => []DirKept
<1>1. Inv => DirKept
  BY DEF Inv
<1> QED BY <1>1, PaneInvariance, PTL
=============================================================================
