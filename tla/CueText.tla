------------------------------ MODULE CueText ------------------------------
(***************************************************************************)
(* From the text of a cue to the segments a provider sees, and back:       *)
(* segment_cue masks the markup and splits dialogue into speakers,         *)
(* rebuild_cues restores markup and dashes and wraps the lines.            *)
(*                                                                         *)
(* A text is a sequence of tokens.  Each token below stands for every      *)
(* piece of text the code treats alike: one character, one tag, one        *)
(* character reference.                                                    *)
(***************************************************************************)
EXTENDS Integers, Sequences
LOCAL INSTANCE FiniteSetsExt
LOCAL INSTANCE SequencesExt

Blank    == " "
Space    == {" ", "tab"}
Digit    == "1"
Dashes   == {"-", "--"}          \* hyphen-minus; en or em dash
NoLead   == {",", ")"}           \* CJK_PUNCT_NO_LEAD
NoTrail  == {"("}                \* CJK_PUNCT_NO_TRAIL
Wide     == {"K"}                \* CJK, two cells
Brackets == {"[[", "]]"}         \* the brackets of a sentinel, in the source

\* Sentinel k of a masked text, and its one-character form while wrapping.
Sentinel    == <<"#0", "#1", "#2", "#3", "#4", "#5">>
Placeholder == <<"~0", "~1", "~2", "~3", "~4", "~5">>
Tokens(seq) == {seq[k] : k \in DOMAIN seq}
Number(t, seq) == CHOOSE k \in DOMAIN seq : seq[k] = t

Reserved   == Brackets \cup Tokens(Placeholder)
StartsDrawing == {"{p1}"}
EndsDrawing   == {"{p0}"}
Markup(d)  == {"<i>", "</i>", "{x}"} \cup StartsDrawing \cup EndsDrawing \cup Reserved
              \cup (IF d = "ass" THEN {"hsp"} ELSE {})

\* html.unescape and html.escape, for the references of a WebVTT text.
References == {"&lt;", "&amp;", "&br;"}
Decode(t)  == CASE t = "&lt;" -> "<" [] t = "&amp;" -> "&" [] t = "&br;" -> "[["
                [] OTHER -> t
Encode(t)  == CASE t = "<" -> "&lt;" [] t = "&" -> "&amp;" [] OTHER -> t

Map(Op(_), s) == [i \in DOMAIN s |-> Op(s[i])]

Strip(s) == LET ink == {i \in DOMAIN s : s[i] \notin Space}
            IN  IF ink = {} THEN <<>> ELSE SubSeq(s, Min(ink), Max(ink))

\* " ".join(texts)
Joined(texts) ==
  FoldLeft(LAMBDA acc, s : IF acc = <<>> THEN s ELSE acc \o <<Blank>> \o s, <<>>, texts)

(***************************************************************************)
(* Masking                                                                 *)
(***************************************************************************)
\* mask_tags: markup and reserved characters become numbered sentinels, a vector
\* drawing with all it holds is one of them; references are decoded outside
\* markup only, and one that stands for a reserved character is masked as well.
Mask(s, d, entities) ==
  LET Drawing(m, t) == \/ t \in StartsDrawing
                       \/ m.drawing /\ t \notin EndsDrawing
      Step(m, t) ==
        LET u   == IF entities THEN Decode(t) ELSE t
            tag == t \in Markup(d) \/ u \in Reserved
        IN  IF m.drawing
              THEN [m EXCEPT !.tags[Len(m.tags)] = Append(@, t), !.drawing = Drawing(m, t)]
              ELSE [text |-> Append(m.text, IF tag THEN Sentinel[Len(m.tags) + 1] ELSE u),
                    tags |-> IF tag THEN Append(m.tags, <<u>>) ELSE m.tags,
                    drawing |-> Drawing(m, t)]
  IN  FoldLeft(Step, [text |-> <<>>, tags |-> <<>>, drawing |-> FALSE], s)

Unmask(s, tags) ==
  LET Restored(t) == IF t \notin Tokens(Sentinel) THEN <<t>>
                     ELSE IF Number(t, Sentinel) \in DOMAIN tags THEN tags[Number(t, Sentinel)]
                     ELSE <<>>
  IN  FlattenSeq(Map(Restored, s))

Occurrences(t, s) == {i \in DOMAIN s : s[i] = t}

\* Exactly the placeholders of the source, in any order, and no stray bracket.
PlaceholdersMatch(source, translated) ==
  /\ \A t \in Tokens(Sentinel) :
       Cardinality(Occurrences(t, source)) = Cardinality(Occurrences(t, translated))
  /\ Tokens(translated) \cap Brackets = {}

HasText(s) == \E i \in DOMAIN s : s[i] \notin Tokens(Sentinel) \cup Space

(***************************************************************************)
(* Segmentation                                                            *)
(***************************************************************************)
\* Mutant of SplitDash: a minus sign is a dash too.
SplitDashMinus(line, d) ==
  LET m    == Mask(line, d, FALSE)
      ink  == {i \in DOMAIN m.text : m.text[i] \notin Tokens(Sentinel) \cup Space}
      at   == Min(ink)
      rest == {i \in DOMAIN m.text : i > at /\ m.text[i] \notin Space}
      lead == Strip(SubSeq(m.text, 1, at - 1))
  IN  IF ink # {} /\ m.text[at] \in Dashes /\ rest # {}
        THEN [dashed |-> TRUE, inside |-> lead # <<>>,
              body |-> Unmask(lead \o SubSeq(m.text, Min(rest), Len(m.text)), m.tags)]
        ELSE [dashed |-> FALSE, inside |-> FALSE, body |-> line]

\* _split_dash: a speaker dash, behind leading tags or not, with something after
\* it; a hyphen-minus before a digit is a minus sign.
SplitDash(line, d) ==
  LET m    == Mask(line, d, FALSE)
      ink  == {i \in DOMAIN m.text : m.text[i] \notin Tokens(Sentinel) \cup Space}
      at   == Min(ink)
      rest == {i \in DOMAIN m.text : i > at /\ m.text[i] \notin Space}
      lead == Strip(SubSeq(m.text, 1, at - 1))
  IN  IF /\ ink # {} /\ m.text[at] \in Dashes /\ rest # {}
         /\ ~(m.text[at] = "-" /\ m.text[at + 1] = Digit)
        THEN [dashed |-> TRUE, inside |-> lead # <<>>,
              body |-> Unmask(lead \o SubSeq(m.text, Min(rest), Len(m.text)), m.tags)]
        ELSE [dashed |-> FALSE, inside |-> FALSE, body |-> line]

Segment(part, d) ==
  LET m == Mask(Strip(part.body), d, d = "vtt")
  IN  [text |-> m.text, tags |-> m.tags, dashed |-> part.dashed, inside |-> part.inside]

\* segment_cue: the speakers of a dialogue, or the whole cue as one sentence.  An
\* undashed line goes on with the speaker before it.
SegmentCue(lines, d) ==
  LET stripped == SelectSeq(Map(Strip, lines), LAMBDA s : s # <<>>)
      parsed   == Map(LAMBDA s : SplitDash(s, d), stripped)
      dashed   == {i \in DOMAIN parsed : parsed[i].dashed}
      Group(groups, part) ==
        IF part.dashed \/ groups = <<>>
          THEN Append(groups, part)
          ELSE [groups EXCEPT ![Len(groups)].body = Strip(@) \o <<Blank>> \o Strip(part.body)]
  IN  IF Cardinality(dashed) >= 2 \/ (Len(parsed) = 2 /\ dashed = {2})
        THEN Map(LAMBDA part : Segment(part, d), FoldLeft(Group, <<>>, parsed))
        ELSE <<Segment(SplitDash(Joined(stripped), d), d)>>

(***************************************************************************)
(* Wrapping                                                                *)
(***************************************************************************)
\* _cells: a wide character takes two cells, a placeholder none.
Cells(s) == LET Width(t) == CASE t \in Tokens(Placeholder) -> 0 [] t \in Wide -> 2 [] OTHER -> 1
            IN  FoldLeft(LAMBDA n, t : n + Width(t), 0, s)

\* One pass over the characters of a text: a line is broken before a character
\* where Full says so, never before closing punctuation or a placeholder, and an
\* opening bracket moves to the next line.
Pass(s, Full(_, _, _)) ==
  LET Step(w, ch) ==
        IF \/ w.cur = <<>> \/ ch \in NoLead \/ ch \in Tokens(Placeholder)
           \/ ~Full(w.lines, w.cur, ch)
          THEN [w EXCEPT !.cur = Append(@, ch)]
          ELSE IF Last(w.cur) \in NoTrail
          THEN [lines |-> Append(w.lines, Front(w.cur)), cur |-> <<Last(w.cur), ch>>]
          ELSE [lines |-> Append(w.lines, w.cur), cur |-> <<ch>>]
      done == FoldLeft(Step, [lines |-> <<>>, cur |-> <<>>], s)
  IN  Append(done.lines, done.cur)

\* wrap_cjk: a greedy pass finds how many lines there are, a second one makes
\* them even.  The limit is in cells, twice the width of the settings.
WrapCjk(text, limit, maxLines) ==
  LET s      == Strip(text)
      greedy == Pass(s, LAMBDA lines, cur, ch : Cells(cur) + Cells(<<ch>>) > limit)
      n      == IF Len(greedy) <= maxLines THEN Min({Max({Len(greedy), 2}), maxLines})
                                           ELSE maxLines
      even   == Pass(s, LAMBDA lines, cur, ch :
                          Cells(cur) * n >= Cells(s) /\ Len(lines) < n - 1)
  IN  IF Cells(s) <= limit THEN <<s>>
      ELSE SelectSeq(Map(Strip, even), LAMBDA line : line # <<>>)

Split(s) ==
  LET Step(words, i) == IF s[i] = Blank THEN words
                        ELSE IF i > 1 /\ s[i - 1] # Blank
                        THEN [words EXCEPT ![Len(words)] = Append(@, s[i])]
                        ELSE Append(words, <<s[i]>>)
  IN  FoldLeft(Step, <<>>, [i \in DOMAIN s |-> i])

\* Mutant of LatinWords: a word of placeholders alone is a word like any other.
LatinWordsAll(s) == Split(s)

\* _latin_words: words of placeholders alone are glued to the next word, or to
\* the last one.
LatinWords(s) ==
  LET Glue(head, tail) == IF head = <<>> THEN tail ELSE head \o <<Blank>> \o tail
      Step(g, w) == IF Cells(w) = 0 THEN [g EXCEPT !.pending = Glue(@, w)]
                    ELSE [words |-> Append(g.words, Glue(g.pending, w)), pending |-> <<>>]
      g == FoldLeft(Step, [words |-> <<>>, pending |-> <<>>], Split(s))
  IN  IF g.pending = <<>> THEN g.words
      ELSE IF g.words = <<>> THEN <<g.pending>>
      ELSE [g.words EXCEPT ![Len(g.words)] = Glue(@, g.pending)]

\* _balance_lines: every line is filled up to the even share of what is left, the
\* last one takes the rest.
BalanceLines(words, maxLines) ==
  LET Width(i) == Cells(Joined(SubSeq(words, i, Len(words))))
      Share(i, slots) == (Width(i) + slots - 1) \div slots
      Step(b, i) ==
        IF b.cur = <<>>
          THEN [b EXCEPT !.cur = words[i], !.share = Share(i, maxLines - Len(b.lines))]
          ELSE IF \/ Len(b.lines) = maxLines - 1
                  \/ Cells(b.cur) + 1 + Cells(words[i]) <= b.share
          THEN [b EXCEPT !.cur = @ \o <<Blank>> \o words[i]]
          ELSE [lines |-> Append(b.lines, b.cur), cur |-> words[i],
                share |-> Share(i, maxLines - Len(b.lines) - 1)]
      b == FoldLeft(Step, [lines |-> <<>>, cur |-> <<>>, share |-> 0],
                    [i \in DOMAIN words |-> i])
  IN  Append(b.lines, b.cur)

\* wrap_latin: the width is a preference, the number of lines is not.
WrapLatin(s, limit, maxLines) ==
  LET words == LatinWords(s)
      Step(lines, w) ==
        IF lines # <<>> /\ Cells(Last(lines)) + 1 + Cells(w) <= limit
          THEN [lines EXCEPT ![Len(lines)] = @ \o <<Blank>> \o w]
          ELSE Append(lines, w)
      greedy == FoldLeft(Step, <<>>, words)
  IN  IF words = <<>> THEN <<<<>>>>
      ELSE IF Len(greedy) <= Max({1, maxLines}) THEN greedy
      ELSE BalanceLines(words, Max({1, maxLines}))

(***************************************************************************)
(* Reassembly                                                              *)
(***************************************************************************)
\* Mutant of ToWrapForm: output that passed validation is trusted.
ToWrapFormTrusting(t, tags) ==
  Strip(Map(LAMBDA c : IF c \in Tokens(Sentinel) THEN Placeholder[Number(c, Sentinel)] ELSE c, t))

\* _to_wrap_form: each sentinel of the text becomes its placeholder the first
\* time; unknown and repeated ones and stray brackets go, missing ones are added.
ToWrapForm(t, tags) ==
  LET Step(s, c) ==
        IF c \in Reserved THEN s
        ELSE IF c \notin Tokens(Sentinel) THEN Append(s, c)
        ELSE LET k == Number(c, Sentinel)
             IN  IF k \in DOMAIN tags /\ Placeholder[k] \notin Tokens(s)
                   THEN Append(s, Placeholder[k]) ELSE s
      s == FoldLeft(Step, <<>>, t)
      missing == SelectSeq([k \in DOMAIN tags |-> Placeholder[k]],
                           LAMBDA p : p \notin Tokens(s))
  IN  Strip(s) \o missing

\* _from_wrap_form
FromWrapForm(s, tags, escape) ==
  LET Restored(c) == IF c \notin Tokens(Placeholder) THEN <<IF escape THEN Encode(c) ELSE c>>
                     ELSE IF Number(c, Placeholder) \in DOMAIN tags THEN tags[Number(c, Placeholder)]
                     ELSE <<>>
  IN  FlattenSeq(Map(Restored, s))

\* _with_dash
WithDash(line, inside) ==
  LET ink  == {i \in DOMAIN line : line[i] \notin Tokens(Placeholder) \cup Space}
      cut  == IF ink = {} THEN Len(line) ELSE Min(ink) - 1
      head == Strip(SubSeq(line, 1, cut))
  IN  IF inside /\ head # <<>>
        THEN head \o <<"-", Blank>> \o SubSeq(line, cut + 1, Len(line))
        ELSE <<"-", Blank>> \o line

\* rebuild_cues, for one cue: `out' holds the text that came back for each of its
\* segments.
RebuildCue(lines, d, out, cjk, limit, maxLines) ==
  LET segs == SegmentCue(lines, d)
      Dashed(line, s) == IF s.dashed THEN WithDash(line, s.inside) ELSE line
      Form(i) == Strip(ToWrapForm(out[i], segs[i].tags))
      Speaker(i) == Strip(FromWrapForm(Dashed(Form(i), segs[i]), segs[i].tags, d = "vtt"))
      body == IF cjk /\ Tokens(Form(1)) \cap Wide # {}
                THEN WrapCjk(Form(1), limit, maxLines)
                ELSE WrapLatin(Form(1), limit, maxLines)
  IN  IF ~\E i \in DOMAIN segs : HasText(segs[i].text) THEN lines
      ELSE IF Len(segs) >= 2 THEN [i \in DOMAIN segs |-> Speaker(i)]
      ELSE [i \in DOMAIN body |->
              FromWrapForm(IF i = 1 THEN Dashed(body[1], segs[1]) ELSE body[i],
                           segs[1].tags, d = "vtt")]

(***************************************************************************)
(* Answers                                                                 *)
(***************************************************************************)
Numerals == <<"1", "2", "3">>
Separators == {"-", ")"}    \* and the tab

\* _join_continuation: no space between two CJK characters.
JoinContinuation(head, tail) ==
  IF head = <<>> THEN tail
  ELSE IF Last(head) \in Wide /\ Head(tail) \in Wide THEN head \o tail
  ELSE head \o <<Blank>> \o tail

\* A line that starts with a number: where its text is, behind the white space
\* and the separator, and whether there is a separator at all.
Behind(line) == Min({i \in 2..Len(line) : line[i] \notin Space} \cup {Len(line) + 1})
Marked(line) == Behind(line) <= Len(line) /\ line[Behind(line)] \in Separators
Numbered(line) == /\ line[1] \in Tokens(Numerals)
                  /\ Marked(line) \/ "tab" \in Tokens(SubSeq(line, 2, Behind(line) - 1))
TextAfter(line) ==
  Strip(SubSeq(line, Behind(line) + (IF Marked(line) THEN 1 ELSE 0), Len(line)))
BareNumber(line) == Len(line) = 1 /\ line[1] \in Tokens(Numerals)

Unanswered == <<"unanswered">>

\* Mutant of ParseNumbered: a bare number always opens an entry.
ParseNumberedBare(out, expected) ==
  LET Step(g, line) ==
        LET k == Number(line[1], Numerals)
        IN  IF Numbered(line) /\ k <= expected
              THEN [last |-> k, got |-> [g.got EXCEPT ![k] = TextAfter(line)]]
            ELSE IF BareNumber(line) /\ k <= expected
              THEN [last |-> k, got |-> [g.got EXCEPT ![k] = <<>>]]
            ELSE IF g.last = 0 THEN g
            ELSE [g EXCEPT !.got[g.last] = JoinContinuation(@, line)]
      told == SelectSeq(Map(Strip, out), LAMBDA line : line # <<>> /\ line[1] # "fence")
  IN  FoldLeft(Step, [last |-> 0, got |-> [k \in 1..expected |-> Unanswered]], told).got

\* parse_numbered: what is known of each of the expected entries after the last
\* line of the answer; a caller raises when one is unanswered.
ParseNumbered(out, expected) ==
  LET Step(g, line) ==
        LET k == Number(line[1], Numerals)
        IN  IF Numbered(line) /\ k <= expected
              THEN [last |-> k, got |-> [g.got EXCEPT ![k] = TextAfter(line)]]
            ELSE IF BareNumber(line) /\ k <= expected /\ g.got[k] = Unanswered
              THEN [last |-> k, got |-> [g.got EXCEPT ![k] = <<>>]]
            ELSE IF g.last = 0 THEN g
            ELSE [g EXCEPT !.got[g.last] = JoinContinuation(@, line)]
      told == SelectSeq(Map(Strip, out), LAMBDA line : line # <<>> /\ line[1] # "fence")
  IN  FoldLeft(Step, [last |-> 0, got |-> [k \in 1..expected |-> Unanswered]], told).got

\* _validate_output: what a call may return for the texts of a batch.
Valid(texts, output) ==
  /\ Len(output) = Len(texts)
  /\ \A i \in DOMAIN texts : /\ HasText(texts[i]) => HasText(output[i])
                             /\ PlaceholdersMatch(texts[i], output[i])
=============================================================================
