----------------------------- MODULE DocumentText -----------------------------
(***************************************************************************)
(* Text as the extraction and the chunking see it: sequences of characters *)
(* of five classes. A mark stands for each of . ? ! ; and the comma, which *)
(* the code treats alike, and a space for every blank that does not end a  *)
(* line. Offsets count from 0, as in the code: the character at offset i   *)
(* is text[i + 1].                                                         *)
(***************************************************************************)
EXTENDS Integers, Sequences, FiniteSets

Letter == "a"
Mark == "."
Blank == " "
NewLine == "\n"
Return == "\r"

Character == {Letter, Mark, Blank, NewLine, Return}
WhiteSpace == {Blank, NewLine, Return}

Text == Seq(Character)

IsVisible(c) == c \notin WhiteSpace

\* s itself, as a tuple whose elements TLC computes once.
Tuple(s) == SubSeq(s, 1, Len(s))

\* The numbers of a set from the smallest to the largest.
Ascending(S) ==
    Tuple([k \in 1 .. Cardinality(S) |->
               CHOOSE x \in S : Cardinality({y \in S : y < x}) = k - 1])

\* The elements of a sequence at some positions, in their order.
Picked(s, positions) ==
    LET at == Ascending(positions)
    IN  Tuple([k \in DOMAIN at |-> s[at[k]]])

\* What lies between the separators, the empty pieces included.
Split(text, separators) ==
    LET cuts == Ascending({0, Len(text) + 1} \union {i \in DOMAIN text : text[i] \in separators})
    IN  Tuple([k \in 1 .. Len(cuts) - 1 |-> SubSeq(text, cuts[k] + 1, cuts[k + 1] - 1)])

NonEmpty(pieces) == Picked(pieces, {i \in DOMAIN pieces : pieces[i] # <<>>})

Joined(pieces, separator) ==
    LET upTo[k \in 0 .. Len(pieces)] ==
            CASE k = 0 -> <<>>
              [] k = 1 -> pieces[1]
              [] OTHER -> upTo[k - 1] \o separator \o pieces[k]
    IN  upTo[Len(pieces)]

CollapseBlanks(line) == Joined(NonEmpty(Split(line, {Blank})), <<Blank>>)

\* Lines with single blanks, none of them empty. CR LF ends one line in the
\* code and two here, one of which is empty and goes.
NormalizeExtractedText(text) ==
    LET lines == Split(text, {NewLine, Return})
    IN  Joined(NonEmpty([l \in DOMAIN lines |-> CollapseBlanks(lines[l])]), <<NewLine>>)

\* str.strip()
Strip(text) ==
    LET visible == {i \in DOMAIN text : IsVisible(text[i])}
    IN  IF visible = {} THEN <<>>
        ELSE SubSeq(text, CHOOSE i \in visible : \A j \in visible : i <= j,
                          CHOOSE i \in visible : \A j \in visible : i >= j)

=============================================================================
