------------------------- MODULE TranslateDocument -------------------------
(***************************************************************************)
(* A document on its way through the engine: its file is read and its cues *)
(* are cut into segments, translate_segments answers, the cues are rebuilt *)
(* and the file is written.  TranslateSegments is the call in the middle;  *)
(* what a completed call hands on is checked here for every document and   *)
(* every answer of a bounded collection.                                   *)
(***************************************************************************)
EXTENDS TranslateSegments, CueText, SubtitleFormats
LOCAL INSTANCE SequencesExt

CONSTANTS Cues,      \* cues, each a sequence of lines
          Answers,   \* texts a provider may send back for a segment
          Texts,     \* texts to wrap
          Limits,    \* widths, in cells
          Replies,   \* raw answers of a model, each a sequence of lines
          PlainFiles, AssFiles   \* subtitle files

Dialects == {"", "ass", "vtt"}

\* The call returns, and every line has an answer of the provider.
AllAnswered == main' = "completed" /\ reported = {}

Count(t, s) == Cardinality({i \in DOMAIN s : s[i] = t})

(***************************************************************************)
(* Cues                                                                    *)
(***************************************************************************)
Sources(cue, d) == Map(LAMBDA seg : seg.text, SegmentCue(cue, d))
Rebuilt(cue, d, out, limit) == RebuildCue(cue, d, out, TRUE, limit, 2)

\* The markup of a text, reserved characters included.
IsMarkup(t, d) == t \in Markup(d)
MarkupOf(s, d) == SelectSeq(s, LAMBDA t : IsMarkup(t, d))
Plain(t, d)    == IF d = "vtt" THEN Decode(t) ELSE t

\* translate_segments sends no segment without text and returns it as it is.
Returned(sources, answer) ==
  [i \in DOMAIN sources |-> IF HasText(sources[i]) THEN answer ELSE sources[i]]

KeepsMarkup(cue, d, answer, limit) ==
  LET src == Sources(cue, d)
      out == Returned(src, answer)
      old == Map(LAMBDA t : Plain(t, d), FlattenSeq(cue))
      new == Map(LAMBDA t : Plain(t, d), FlattenSeq(Rebuilt(cue, d, out, limit)))
  IN  /\ \A t \in Markup(d) : Count(t, new) = Count(t, old)
      /\ Tokens(new) \cap Tokens(Sentinel) = {}
      /\ Valid(src, out) => Count("K", new) = Count("K", FlattenSeq(out))

EveryRebuildKeepsMarkup ==
  \A d \in Dialects, cue \in Cues, answer \in Answers, limit \in Limits :
    KeepsMarkup(cue, d, answer, limit)

\* Whatever a provider makes of the placeholders, drops, repeats or invents, a
\* rebuilt cue has every tag, drawing and reserved character of the source as
\* often as the source has, and no placeholder is left in it; and an answer that
\* _validate_output accepts reaches the file in full.  This is about mask_tags,
\* _to_wrap_form and _from_wrap_form with any text between them.
MarkupKept == [][AllAnswered => EveryRebuildKeepsMarkup]_main

Unspaced(s, d) == SelectSeq(Map(LAMBDA t : IF t \in Dashes THEN "-" ELSE Plain(t, d), s),
                            LAMBDA t : t \notin Space)

KeepsCue(cue, d, limit) ==
  LET src == Sources(cue, d)
      now == Rebuilt(cue, d, src, limit)
      old == FlattenSeq(cue)
      new == FlattenSeq(now)
      Ink(s)  == SelectSeq(Mask(Unspaced(s, d), d, FALSE).text, LAMBDA t : t \notin Tokens(Sentinel))
      Body(s) == SelectSeq(Unspaced(s, d), LAMBDA t : t # "-")
      Minus(s) == {i \in 1..(Len(s) - 1) : s[i] = "-" /\ s[i + 1] = Digit}
  IN  /\ Valid(src, src)
      /\ Ink(new) = Ink(old) /\ Body(new) = Body(old)
      /\ Cardinality(Minus(new)) = Cardinality(Minus(old))
      /\ Len(src) >= 2 => Len(now) = Len(src)

EveryEchoKeepsItsCue == \A d \in Dialects, cue \in Cues, limit \in Limits : KeepsCue(cue, d, limit)

\* A provider that sends every text back is accepted and gives the cue back: segmentation and
\* reassembly lose, add and reorder nothing but white space, a speaker keeps a
\* line of his own with his dash, and no minus sign becomes a dash.
EchoKeepsCue == [][AllAnswered => EveryEchoKeepsItsCue]_main

(***************************************************************************)
(* Lines                                                                   *)
(***************************************************************************)
WithoutSpace(s) == SelectSeq(s, LAMBDA t : t \notin Space)

Fits(wrapped, s, most) ==
  /\ Len(wrapped) <= most
  /\ WithoutSpace(FlattenSeq(wrapped)) = WithoutSpace(s)
  /\ Strip(s) # <<>> => \A i \in DOMAIN wrapped : wrapped[i] # <<>> /\ Strip(wrapped[i]) = wrapped[i]

\* Closing punctuation starts a line only if the text has a space before it.
Orphans(wrapped, s) ==
  {i \in 2..Len(wrapped) : Head(wrapped[i]) \in NoLead
                           /\ ~\E k \in 2..Len(s) : s[k] \in NoLead /\ s[k - 1] = Blank}

EveryTextFits ==
  \A s \in Texts, limit \in Limits, most \in 1..3 :
    /\ Fits(WrapCjk(s, limit, most), s, most)
    /\ Orphans(WrapCjk(s, limit, most), s) = {}
    /\ Fits(WrapLatin(s, limit, most), s, most)
    /\ Cells(WithoutSpace(s)) > 0 => \A i \in DOMAIN WrapLatin(s, limit, most) :
                         Cells(WrapLatin(s, limit, most)[i]) > 0

\* Wrapping loses nothing, keeps to the number of lines, and leaves no empty line
\* (which would end the cue in a file) and, between words, none of markup alone;
\* closing punctuation is not torn from the word before it.
LinesFit == [][AllAnswered => EveryTextFits]_main

(***************************************************************************)
(* Answers                                                                 *)
(***************************************************************************)
\* The entries of an answer, without reading it in order: a line names an entry,
\* the last line that opens it has its text, the lines up to the next opening
\* one continue it.
Entries(reply, expected) ==
  LET told == SelectSeq(Map(Strip, reply), LAMBDA s : s # <<>> /\ s[1] # "fence")
      Names(i) == IF (Numbered(told[i]) \/ BareNumber(told[i])) /\ Number(told[i][1], Numerals) <= expected
                    THEN Number(told[i][1], Numerals) ELSE 0
      Opens(i) == Names(i) > 0 /\ (Numbered(told[i]) \/ ~\E j \in 1..(i - 1) : Names(j) = Names(i))
      Of(k)    == {i \in DOMAIN told : Opens(i) /\ Names(i) = k}
      At(k)    == CHOOSE i \in Of(k) : \A j \in Of(k) : j <= i
      Until(i) == CHOOSE n \in i..Len(told) : /\ \A j \in (i + 1)..n : ~Opens(j)
                                              /\ n < Len(told) => Opens(n + 1)
      First(i) == IF Numbered(told[i]) THEN TextAfter(told[i]) ELSE <<>>
  IN  [k \in 1..expected |->
         IF Of(k) = {} THEN Unanswered
         ELSE FoldLeft(JoinContinuation, First(At(k)), SubSeq(told, At(k) + 1, Until(At(k))))]

EveryReplyMapped ==
  /\ \A reply \in Replies : ParseNumbered(reply, 2) = Entries(reply, 2)
  /\ \A s \in Texts, t \in Answers : \A u \in {<<Strip(s), Strip(t)>>} :
       (\A k \in {1, 2} : u[k] # <<>> => u[k][1] \notin Separators)
         => ParseNumbered(<<<<"2", "tab">> \o t, <<"fence">>, <<"1", "tab">> \o s>>, 2) = u

\* A model's answer is read entry by entry, in any order, with preambles, fences
\* and broken lines: no text is given to another entry, an entry without a text
\* is empty and one that is not there stays unanswered.  A text loses what looks
\* like a separator at its start (a minus sign for one), nothing else.
AnswersMapped == [][AllAnswered => EveryReplyMapped]_main

(***************************************************************************)
(* Files                                                                   *)
(***************************************************************************)
Translated(lines) == IF lines = <<>> THEN <<>> ELSE <<"new", "n">>
Put(cues) == [k \in DOMAIN cues |-> [cues[k] EXCEPT !.lines = Translated(@)]]
InkOf(f)  == SelectSeq(f, LAMBDA t : t # "")
CueLines(cues) == [k \in DOMAIN cues |-> cues[k].lines]

SrtKept(f) ==
  LET cues == ParseSrt(f)
      from == SelectInSeq(f, LAMBDA t : t = "t")
      text == {i \in DOMAIN f : i > from /\ f[i] \notin {"", "t"} /\ ~IndexLine(f, i)}
  IN  from > 0 =>
        /\ Len(cues) = Count("t", f)
        /\ Len(InkOf(FlattenSeq(CueLines(cues)))) = Cardinality(text)
        /\ CueLines(ParseSrt(RenderSrt(cues))) = CueLines(cues)
        /\ CueLines(ParseSrt(RenderSrt(Put(cues)))) = CueLines(Put(cues))

VttKept(f) ==
  LET doc == ParseVtt(f)
      new == [doc EXCEPT !.blocks = Put(@)]
  IN  /\ InkOf(RenderVtt(doc)) = InkOf(f)
      /\ ParseVtt(RenderVtt(doc)) = doc
      /\ ParseVtt(RenderVtt(new)) = new

AssKept(f) ==
  LET doc == ParseAss(f)
      new == RenderAss(f, Put(doc.cues))
  IN  ~doc.refused =>
        /\ RenderAss(f, doc.cues) = f
        /\ \A i \in DOMAIN f : (\A k \in DOMAIN doc.cues : doc.cues[k].line # i) => new[i] = f[i]
        /\ ~ParseAss(new).refused
        /\ \A k \in DOMAIN doc.cues :
             LET c == ParseAss(new).cues[k]
             IN  c.line = doc.cues[k].line /\ c.lines = Translated(c.lines)
                 /\ \A v \in DOMAIN c.values : v # c.text => c.values[v] = doc.cues[k].values[v]

EveryFileKept == /\ \A f \in PlainFiles : SrtKept(f) /\ VttKept(<<"head">> \o f)
                 /\ \A f \in AssFiles : AssKept(f)

\* Reading and writing a file keeps everything but the text of its cues: no cue
\* and no line of text is lost to junk, missing blank lines or stray numbers,
\* identifiers, notes, styles and the other fields of a dialogue stay, and a file
\* with the new text reads back as it was written.
FilesKept == [][AllAnswered => EveryFileKept]_main
=============================================================================
