----------------------------- MODULE TextChunking -----------------------------
(***************************************************************************)
(* Where a window over the text of a page ends, what of it becomes a chunk,*)
(* and where the next window starts: the helpers of chunk_page_text.       *)
(***************************************************************************)
EXTENDS DocumentText, FiniteSetsExt

\* BREAK_SEPARATORS; the five with punctuation are one.
BreakSeparators ==
    {<<NewLine, NewLine>>, <<NewLine>>, <<Mark, Blank>>, <<Blank>>}

\* validate_chunking_parameters
WindowIsValid(size, overlap) == size > 0 /\ overlap >= 0 /\ overlap < size

\* str.rfind looks for the last of these.
Occurrences(text, part, from, to) ==
    {p \in from .. to - Len(part) : SubSeq(text, p + 1, p + Len(part)) = part}

\* int(size * MINIMUM_BREAK_RATIO)
MinimumBreak(size) == Max({1, (size * 6) \div 10})

FindChunkEnd(text, start, size) ==
    LET hardEnd == start + size
        minimumEnd == Min({hardEnd, start + MinimumBreak(size)})
        ends == UNION {{p + Len(s) : p \in Occurrences(text, s, minimumEnd, hardEnd)} :
                          s \in BreakSeparators}
    IN  IF hardEnd >= Len(text) THEN Len(text)
        ELSE IF ends = {} THEN hardEnd ELSE Max(ends)

\* Mutant: the offsets are those of the untrimmed window.
TrimNothing(text, start, end) ==
    [start |-> start, end |-> end, text |-> Strip(SubSeq(text, start + 1, end))]

\* White space around the window is left out of the chunk.
TrimChunkRange(text, start, end) ==
    LET visible == {i \in start .. end - 1 : IsVisible(text[i + 1])}
        first == Min(visible)
        last == Max(visible)
    IN  IF visible = {} THEN [start |-> end, end |-> end, text |-> <<>>]
        ELSE [start |-> first, end |-> last + 1, text |-> SubSeq(text, first + 1, last + 1)]

SkipWhiteSpace(text, from) ==
    Min({p \in from .. Len(text) : p = Len(text) \/ IsVisible(text[p + 1])})

\* str.isalnum() on both sides.
InsideWord(text, p) == p > 0 /\ p < Len(text) /\ text[p] = Letter /\ text[p + 1] = Letter

\* Mutant: the next window starts a character late.
FindNextStartLate(text, start, end, overlap) ==
    IF end >= Len(text) THEN Len(text)
    ELSE SkipWhiteSpace(text, Max({start + 1, end - overlap}) + 1)

\* Mutant: nothing makes the start move.
FindNextStartAnywhere(text, start, end, overlap) ==
    LET wanted == Max({0, end - overlap})
        blanks == Occurrences(text, <<Blank>>, 0, wanted + 1)
    IN  IF end >= Len(text) THEN Len(text)
        ELSE SkipWhiteSpace(text,
                 IF InsideWord(text, wanted)
                 THEN IF blanks # {} THEN Max(blanks) + 1 ELSE 0
                 ELSE wanted)

\* Back by the overlap, from inside a word to its beginning if there is one,
\* and over white space.
FindNextStart(text, start, end, overlap) ==
    LET wanted == Max({start + 1, end - overlap})
        blanks == Occurrences(text, <<Blank>>, start + 1, wanted + 1)
    IN  IF end >= Len(text) THEN Len(text)
        ELSE SkipWhiteSpace(text,
                 IF InsideWord(text, wanted) /\ blanks # {} THEN Max(blanks) + 1 ELSE wanted)

=============================================================================
