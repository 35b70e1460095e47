------------------------------- MODULE MCKat -------------------------------
(***************************************************************************)
(* Files of at most three records, each with right answers or with one     *)
(* wrong field; intact with or without the blank line at the end, cut off  *)
(* after any line, or with a blank line too many anywhere.                 *)
(***************************************************************************)
EXTENDS Kat

Record(c, wrong) ==
  LET value(f) == IF f = wrong THEN <<"wrong", c>>
                  ELSE IF f \in {"pk", "sk", "sm"} THEN Answer(<<"seed", c>>, <<"msg", c>>, f)
                  ELSE <<f, c>>
  IN [index \in 1 .. 8 |-> value(Fields[index])]

Contents ==
  UNION {{[c \in 1 .. count |-> Record(c, IF c = bad THEN wrong ELSE "none")] :
             bad \in 1 .. count, wrong \in {"none", "pk", "sm"}} : count \in 0 .. 3}

LinesOf(content) ==
  LET upTo[c \in 0 .. Len(content)] ==
        IF c = 0 THEN <<Blank, Blank>> ELSE upTo[c - 1] \o content[c] \o <<Blank>>
  IN upTo[Len(content)]

File(content, lines, intact) == [content |-> content, lines |-> lines, intact |-> intact]

Intact(content) == File(content, LinesOf(content), TRUE)
NoLastBlank(content) ==
  File(content, SubSeq(LinesOf(content), 1, Len(LinesOf(content)) - 1), TRUE)
Cut(content, l) == File(content, SubSeq(LinesOf(content), 1, l), FALSE)
ExtraBlank(content, l) ==
  File(content, SubSeq(LinesOf(content), 1, l) \o <<Blank>>
                  \o SubSeq(LinesOf(content), l + 1, Len(LinesOf(content))), FALSE)

MCFiles ==
  {Intact(content) : content \in Contents}
    \cup {NoLastBlank(content) : content \in {c \in Contents : c # <<>>}}
    \cup UNION {{Cut(content, l) : l \in 0 .. Len(LinesOf(content)) - 2} : content \in Contents}
    \cup UNION {{ExtraBlank(content, l) : l \in 2 .. Len(LinesOf(content)) - 1} : content \in Contents}
============================================================================
