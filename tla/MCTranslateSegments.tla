------------------------ MODULE MCTranslateSegments ------------------------
(* Instances of TranslateDocument for TLC. *)
EXTENDS TranslateDocument
LOCAL INSTANCE SequencesExt

\* A batch of one line, which cannot fall back, one of two, and a third that has
\* to wait for a thread.
OneTwoOne == <<1, 2, 1>>

Short(S, n) == UNION {[1..k -> S] : k \in 0..n}

\* Lines with dashes, tags, a drawing, a reserved character, a minus sign, and
\* character references.
CueLine == Short({"-", "<i>", "a", " "}, 2) \cup {<<"{p1}", "a", "<i>">>, <<"{p1}", "a", "{p0}", "a">>,
  <<"-", "1">>, <<"--", " ", "a">>, <<"<i>", "-", "a", "</i>">>, <<"a", "[[">>, <<"&lt;", "a">>, <<"&br;">>,
  <<"~0", "a">>, <<"hsp", "a", ",">>}
SomeCues == {<<l>> : l \in Short({"-", "<i>", "a", " ", "1"}, 3)}
            \cup {<<l, m>> : l, m \in CueLine}
            \cup {<<l, <<"a">>, m>> : l, m \in {<<"-", "a">>, <<"a">>, <<"-">>}}

SomeAnswers == {<<>>, <<"#0">>, <<"#1", "#0", "a">>, <<"#0", "a", "#0">>,
                <<"#0", "[[", " ", "#1">>, <<"K", "~0", "#2", "K">>, <<"#1", " ", "a", " ", "#0">>}

SomeTexts  == Short({"a", "K", " ", ",", "(", "~0"}, 4)
SomeLimits == {2, 4}

\* Lines of an answer: numbered, bare, continued, out of range, with a minus sign
\* or a separator of another kind, a fence, an empty one.
ReplyLine == {<<"1", "tab", "a">>, <<"2", "tab", "K">>, <<"2", ")", "a">>, <<"1">>, <<"2", " ">>, <<"3", "tab", "a">>,
              <<"K">>, <<"a", " ", "a">>, <<"1", " ", "a">>, <<"1", "tab", "-", "1">>, <<"fence">>, <<>>}
SomeReplies == Short(ReplyLine, 3)

SomePlainFiles == Short({"", "n", "t", "x", "arrow"}, 6)

AssLine == {[kind |-> "section", events |-> TRUE], [kind |-> "section", events |-> FALSE],
            [kind |-> "format", fields |-> <<"start", "text">>],
            [kind |-> "format", fields |-> <<"text", "start">>],
            [kind |-> "dialogue", content |-> <<"0", ",", "a">>],
            [kind |-> "dialogue", content |-> <<"0", ",", "a", "nl", ",", "b">>],
            [kind |-> "dialogue", content |-> <<"a">>],
            [kind |-> "other"]}
SomeAssFiles == {<<[kind |-> "section", events |-> TRUE]>> \o f : f \in Short(AssLine, 3)}
=============================================================================
