-------------------------- MODULE MCDocumentIndexing --------------------------
(***************************************************************************)
(* An instance of DocumentIndexing for TLC: every short text as the native *)
(* text of a PDF page, longer texts made of words, and files of the other  *)
(* formats with several pages, scans, blank pages, or none.                *)
(***************************************************************************)
EXTENDS DocumentIndexing

CONSTANT MaxRawLength   \* bound: length of the texts of which all are tried

Part(native, scan) == [native |-> native, scan |-> scan]
File(extension, content, parts) ==
    [extension |-> extension, content |-> content, parts |-> parts]

ShortTexts == UNION {[1 .. n -> Character] : n \in 0 .. MaxRawLength}

Word == {<<Letter, Letter>>, <<Letter, Mark>>, <<Letter, Letter, Letter, Letter, Letter>>}
Gap == {<<Blank>>, <<Blank, NewLine, Blank>>}
LongTexts == {u \o g \o v \o h \o w : u, v, w \in Word, g, h \in Gap}

Lines(n) == [l \in 1 .. n |-> IF l % 3 = 0 THEN NewLine ELSE Letter]

Scan == << [line |-> 2, text |-> <<Letter>>], [line |-> 1, text |-> <<Blank>>],
           [line |-> 1, text |-> <<Letter, Letter>>], [line |-> 2, text |-> <<Mark>>] >>

MCFiles ==
    {File(".pdf", "readable", <<Part(t, <<>>)>>) : t \in ShortTexts \union LongTexts}
    \union {File(".pdf", "readable", <<Part(s, Scan), Part(<<>>, <<>>), Part(Lines(5), <<>>)>>) :
               s \in {<<>>, <<Letter>>, Lines(8)}}
    \union {File(e, "readable", <<Part(Lines(4), Scan), Part(<<>>, <<>>)>>) :
               e \in {".png", ".csv", ".xlsx"}}
    \union {File(".pdf", "readable", <<>>), File(".pdf", "unreadable", <<>>),
            File(".csv", "empty", <<>>), File(".txt", "readable", <<>>)}

MCWindows ==
    {[size |-> 3, overlap |-> 1], [size |-> 4, overlap |-> 3], [size |-> 5, overlap |-> 0],
     [size |-> 2, overlap |-> 2]}

=============================================================================
