-------------------------- MODULE SubtitleFormats --------------------------
(***************************************************************************)
(* What is read from a subtitle file and what is written back around the   *)
(* translated text.  A file is a sequence of lines.  In SRT and WebVTT a   *)
(* line is "" (blank), "n" (a number), "t" (a timing line), "arrow" (holds *)
(* "-->" but is no timing line) or any other text; a cue is known by the   *)
(* place of its timing line.                                               *)
(***************************************************************************)
EXTENDS Integers, Sequences
LOCAL INSTANCE FiniteSetsExt
LOCAL INSTANCE SequencesExt

NextInk(f, i) == Min({k \in i..Len(f) : f[k] # ""} \cup {Len(f) + 1})

(***************************************************************************)
(* SRT                                                                     *)
(***************************************************************************)
IndexLine(f, i) == f[i] = "n" /\ i < Len(f) /\ f[i + 1] = "t"

\* Mutant of StartsCue: a number alone starts a cue.
StartsCueAtNumber(f, i) == f[i] \in {"n", "t"}

StartsCue(f, i) == f[i] = "t" \/ IndexLine(f, i)

\* parse_srt, line by line: the number before a timing line opens a cue, a blank
\* line belongs to the cue only if text of the same cue follows it, and lines
\* before the first cue are junk.
ParseSrt(f) ==
  LET Step(cues, i) ==
        IF f[i] = "t"
          THEN Append(cues, [at |-> i, numbered |-> i > 1 /\ f[i - 1] = "n", lines |-> <<>>])
        ELSE IF cues = <<>> \/ StartsCue(f, i) THEN cues
        ELSE IF f[i] = "" /\ (NextInk(f, i) > Len(f) \/ StartsCue(f, NextInk(f, i))) THEN cues
        ELSE [cues EXCEPT ![Len(cues)].lines = Append(@, f[i])]
  IN  FoldLeft(Step, <<>>, [i \in DOMAIN f |-> i])

\* _render_srt: every cue gets its number, an empty cue an empty line.
RenderSrt(cues) ==
  FlattenSeq([c \in DOMAIN cues |->
    <<"n", "t">> \o (IF cues[c].lines = <<>> THEN <<"">> ELSE cues[c].lines) \o <<"">>])

(***************************************************************************)
(* WebVTT                                                                  *)
(***************************************************************************)
\* The header ends before the first blank line or the first line with "-->".
HeaderEnd(f) == Min({i \in 2..Len(f) : f[i] \in {"", "t", "arrow"}} \cup {Len(f) + 1}) - 1

\* A block is a cue if it has a timing line; what precedes that line is the
\* identifier, what follows it the text.
Block(lines) ==
  LET times == {k \in DOMAIN lines : lines[k] = "t"}
  IN  IF times = {} THEN [kind |-> "raw", lines |-> lines]
      ELSE [kind |-> "cue", identifier |-> SubSeq(lines, 1, Min(times) - 1),
            lines |-> SubSeq(lines, Min(times) + 1, Len(lines))]

\* _parse_vtt: blocks are separated by blank lines, whatever they hold.
ParseVtt(f) ==
  LET Step(groups, i) ==
        IF f[i] = "" THEN groups
        ELSE IF i > HeaderEnd(f) + 1 /\ f[i - 1] # ""
        THEN [groups EXCEPT ![Len(groups)] = Append(@, f[i])]
        ELSE Append(groups, <<f[i]>>)
      groups == FoldLeft(Step, <<>>, [i \in 1..(Len(f) - HeaderEnd(f)) |-> HeaderEnd(f) + i])
  IN  [header |-> SubSeq(f, 1, HeaderEnd(f)), blocks |-> [k \in DOMAIN groups |-> Block(groups[k])]]

RenderBlock(block) ==
  IF block.kind = "raw" THEN Append(block.lines, "")
  ELSE block.identifier \o <<"t">> \o (IF block.lines = <<>> THEN <<"">> ELSE block.lines) \o <<"">>

\* _render_vtt
RenderVtt(doc) ==
  Append(doc.header, "") \o FlattenSeq([k \in DOMAIN doc.blocks |-> RenderBlock(doc.blocks[k])])

(***************************************************************************)
(* ASS and SSA: a line is a section header, the list of the fields, a      *)
(* dialogue with its content, or anything else.                            *)
(***************************************************************************)
SplitAt(content, sep, most) ==
  LET Step(parts, t) == IF t = sep /\ Len(parts) < most THEN Append(parts, <<>>)
                        ELSE [parts EXCEPT ![Len(parts)] = Append(@, t)]
  IN  FoldLeft(Step, <<<<>>>>, content)

JoinWith(parts, sep) ==
  Tail(FlattenSeq([i \in DOMAIN parts |-> <<sep>> \o parts[i]]))

FieldAt(fields, name) == Min({i \in DOMAIN fields : fields[i] = name})

\* content.split(",", len(fields) - 1): the last field keeps its commas.
SplitFields(content, fields) == SplitAt(content, ",", Len(fields))

\* _parse_ass: the dialogue lines of the [Events] section, each read by the
\* fields listed last; a dialogue that does not fit them refuses the whole file.
ParseAss(f) ==
  LET Dialogue(p, i) ==
        LET values == SplitFields(f[i].content, p.fields)
            fits   == /\ p.fields # <<>> /\ Len(values) = Len(p.fields)
                      /\ \E k \in DOMAIN p.fields : p.fields[k] = "text"
            at     == FieldAt(p.fields, "text")
        IN  IF ~fits THEN [p EXCEPT !.refused = TRUE]
            ELSE [p EXCEPT !.cues = Append(@,
                    [line |-> i, values |-> values, text |-> at,
                     lines |-> SplitAt(values[at], "nl", Len(values[at]) + 1)])]
      Step(p, i) ==
        CASE p.refused              -> p
          [] f[i].kind = "section"  -> [p EXCEPT !.inEvents = f[i].events]
          [] f[i].kind = "format" /\ p.inEvents   -> [p EXCEPT !.fields = f[i].fields]
          [] f[i].kind = "dialogue" /\ p.inEvents -> Dialogue(p, i)
          [] OTHER -> p
  IN  FoldLeft(Step, [inEvents |-> FALSE, fields |-> <<>>, refused |-> FALSE, cues |-> <<>>],
               [i \in DOMAIN f |-> i])

\* _render_ass: only the text field of a dialogue line is written anew.
RenderAss(f, cues) ==
  LET Content(c) == JoinWith([c.values EXCEPT ![c.text] = JoinWith(c.lines, "nl")], ",")
      At(i) == {k \in DOMAIN cues : cues[k].line = i}
  IN  [i \in DOMAIN f |-> IF At(i) = {} THEN f[i]
                          ELSE [f[i] EXCEPT !.content = Content(cues[Min(At(i))])]]
=============================================================================
