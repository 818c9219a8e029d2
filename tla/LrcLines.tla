------------------------------ MODULE LrcLines ------------------------------
(***************************************************************************)
(* LyricProvider (lyrics.cpp): how the text of a file of lyrics becomes    *)
(* the lines that LyricPlayer walks along.  A line of the file is a        *)
(* sequence of characters: the digits, the signs of a time stamp, and      *)
(* letters that stand for any others.                                      *)
(***************************************************************************)
EXTENDS Naturals, Sequences, SequencesExt, FiniteSetsExt

CONSTANTS
  Stamps,     \* the time stamps that are written: [min, sec, frac], the last a sequence of digits
  MoreStamps, \* those that may follow on the same line
  MaxLines    \* lines of a file that are looked at

Digits10 == 0 .. 9
ASSUME LrcAssumption ==
  /\ MoreStamps \subseteq Stamps /\ MaxLines \in Nat
  /\ \A s \in Stamps : s.min \in 0 .. 99 /\ s.sec \in 0 .. 59 /\ s.frac \in SeqOf(Digits10, 3)

VARIABLES
  lrcStep,    \* "read", "sort" or "done"
  linesRead,
  container   \* the lyrics so far; with the time as it is written, and whether it is the
              \* first on its line: history of the model

lrcVars == <<lrcStep, linesRead, container>>

-----------------------------------------------------------------------------
(* What is in a file *)

Sign(c) == [sign |-> c, value |-> 0]
Digit(d) == [sign |-> "digit", value |-> d]

\* [mm:ss], and with up to three digits after a point.
Minutes(s) ==
  <<Sign("["), Digit(s.min \div 10), Digit(s.min % 10), Sign(":"), Digit(s.sec \div 10), Digit(s.sec % 10)>>
Fraction(s) == IF s.frac = <<>> THEN <<>> ELSE <<Sign(".")>> \o [i \in DOMAIN s.frac |-> Digit(s.frac[i])]
Stamp(s) == Minutes(s) \o Fraction(s) \o <<Sign("]")>>

\* What it says, in milliseconds.
WrittenTime(s) ==
  LET place(i) == IF i \in DOMAIN s.frac THEN s.frac[i] ELSE 0
  IN  (s.min * 60 + s.sec) * 1000 + 100 * place(1) + 10 * place(2) + place(3)

\* No text; a text with a blank before it; a text with something in brackets.
Texts == {<<>>, <<Sign("blank"), Sign("a")>>, <<Sign("a"), Sign("["), Sign("x"), Digit(2), Sign("]")>>}
Tag == <<Sign("["), Sign("a"), Sign(":"), Digit(1), Sign("]")>>

\* A line is its stamps and its text; one without a stamp is a tag or a text.
StampLists == {<<s>> : s \in Stamps} \cup {<<s, m>> : s \in Stamps, m \in MoreStamps}
FileLines == [stamps : StampLists, text : Texts] \cup [stamps : {<<>>}, text : Texts \cup {Tag}]
Characters(line) == FlattenSeq([i \in DOMAIN line.stamps |-> Stamp(line.stamps[i])]) \o line.text

-----------------------------------------------------------------------------
(* process_lrc_line() *)

AtStart == [over |-> FALSE, token |-> FALSE, skip_token |-> FALSE, first_token |-> FALSE, timepos |-> "min",
          min |-> 0, sec |-> 0, centis |-> 0, times |-> <<>>, content |-> <<>>]

\* Mutant: a fraction is always one of hundredths.
total_centis(s) == (s.centis + 100 * (s.sec + 60 * s.min)) * 10

\* From a hundred on the fraction is taken for one of thousandths.
total_millis(s) ==
  IF s.centis < 100 THEN (s.centis + 100 * (s.sec + 60 * s.min)) * 10
  ELSE s.centis + 1000 * (s.sec + 60 * s.min)

\* A character outside of brackets: a line that does not begin with a stamp is left.
InText(s, c) ==
  CASE c = Sign("[") -> [s EXCEPT !.token = TRUE, !.skip_token = FALSE, !.min = 0, !.sec = 0, !.centis = 0]
    [] c # Sign("[") /\ ~s.first_token -> [s EXCEPT !.over = TRUE]
    [] c = Sign("blank") /\ s.first_token /\ s.content = <<>> -> s
    [] OTHER -> [s EXCEPT !.content = Append(@, c)]

\* One inside: timepos stays where the last stamp has left it.
InToken(s, c) ==
  CASE c.sign = "digit" -> [s EXCEPT ![s.timepos] = @ * 10 + c.value]
    [] c = Sign("]") -> [s EXCEPT !.token = FALSE, !.first_token = TRUE, !.times = Append(@, total_millis(s))]
    [] c = Sign(":") -> [s EXCEPT !.timepos = "sec"]
    [] c = Sign(".") -> [s EXCEPT !.timepos = "centis"]
    [] c = Sign("blank") -> s
    [] OTHER -> [s EXCEPT !.skip_token = TRUE]

Character(s, c) ==
  CASE s.over -> s
    [] ~s.over /\ ~s.token -> InText(s, c)
    [] ~s.over /\ s.token /\ s.skip_token -> [s EXCEPT !.token = c # Sign("]")]
    [] OTHER -> InToken(s, c)

\* The times that a line gives its text; none without a text.  (The branch for
\* "[offset:" is never taken: nine characters are compared with eight.)
process_lrc_line(line) ==
  LET s == FoldLeft(Character, AtStart, Characters(line))
  IN  IF s.content = <<>> THEN <<>> ELSE s.times

-----------------------------------------------------------------------------
(* process_lrc_bulk() *)

ReadLrcLine ==
  /\ lrcStep = "read" /\ linesRead < MaxLines
  /\ linesRead' = linesRead + 1
  /\ \E line \in FileLines :
       LET times == process_lrc_line(line)
       IN  container' = container \o [i \in DOMAIN times |->
             [millisecond |-> times[i], written |-> WrittenTime(line.stamps[i]), first |-> i = 1]]
  /\ UNCHANGED lrcStep

LrcEnds == lrcStep = "read" /\ lrcStep' = "sort" /\ UNCHANGED <<linesRead, container>>

\* sort_lines(): lines of the same time come in any order.  (Two entries that are alike
\* count as one here.)
SortLines ==
  /\ lrcStep = "sort"
  /\ lrcStep' = "done"
  /\ container' \in {c \in SetToSeqs({container[i] : i \in DOMAIN container}) :
                       \A i \in 1 .. Len(c) - 1 : c[i].millisecond <= c[i + 1].millisecond}
  /\ UNCHANGED linesRead

LrcInit == lrcStep = "read" /\ linesRead = 0 /\ container = <<>>

LrcNext == ReadLrcLine \/ LrcEnds \/ SortLines

LrcSpec == LrcInit /\ [][LrcNext]_lrcVars

-----------------------------------------------------------------------------
(* Properties *)

\* Lines that begin in different seconds are sung in the order of the times before
\* them, and each in its second, with whatever fraction a file is written: none,
\* tenths, hundredths or thousandths.  Of a line with more than one time this holds
\* for the first.
SungInOrder ==
  lrcStep = "done" =>
    \A i, j \in {k \in DOMAIN container : container[k].first} :
      /\ container[i].millisecond \div 1000 = container[i].written \div 1000
      /\ i < j => container[i].written \div 1000 <= container[j].written \div 1000

=============================================================================
