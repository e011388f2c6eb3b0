--------------------------- MODULE DocumentExtraction ---------------------------
(***************************************************************************)
(* extract_document: what page texts the worker gets from a file, by its   *)
(* extension. A file is a sequence of parts, the pages of a PDF, the one   *)
(* image, the one CSV table, the sheets of a workbook; what the libraries  *)
(* read from a part is given with it.                                      *)
(***************************************************************************)
EXTENDS DocumentText

CONSTANT MinNativeCharacters   \* MIN_NATIVE_PDF_TEXT_CHARACTERS

ASSUME MinNativeAssumption == MinNativeCharacters \in Nat

PdfExtension == {".pdf"}
ImageExtension == {".png", ".jpg", ".jpeg", ".webp"}
TableExtension == {".csv"}
WorkbookExtension == {".xls", ".xlsx"}

\* SUPPORTED_EXTRACTION_EXTENSIONS
SupportedExtension == PdfExtension \union ImageExtension \union TableExtension
                          \union WorkbookExtension

\* Whether the bytes are there and the library of the format can open them.
Content == {"empty", "unreadable", "readable"}

\* A word that OCR found, and the line it belongs to: block, paragraph and
\* line number are one number here.
ScannedWord == [line : Nat, text : Text]

\* The text a part holds itself, and the words OCR sees on its image.
FilePart == [native : Text, scan : Seq(ScannedWord)]

\* What opens as an image or as a table is one part.
FileOK(f) ==
    /\ f.extension \in STRING
    /\ f.content \in Content
    /\ f.parts \in Seq(FilePart)
    /\ f.content = "readable" /\ f.extension \in ImageExtension \union TableExtension
          => f.parts # <<>>

Extracted(pages) == [error |-> "none", pages |-> pages]
Refused(error) == [error |-> error, pages |-> <<>>]

Page(number, method, text) == [number |-> number, method |-> method, text |-> text]

\* The words of a line in order, and the lines in order.
BuildOcrText(scan) ==
    LET words == Picked(scan, {i \in DOMAIN scan : Strip(scan[i].text) # <<>>})
        keys == Ascending({words[i].line : i \in DOMAIN words})
        line(k) == Picked(words, {i \in DOMAIN words : words[i].line = k})
        textOf(ws) == Joined([i \in DOMAIN ws |-> Strip(ws[i].text)], <<Blank>>)
    IN  NormalizeExtractedText(Joined([l \in DOMAIN keys |-> textOf(line(keys[l]))], <<NewLine>>))

\* A page with enough text of its own is not scanned.
ExtractPdfPage(part, number) ==
    LET native == NormalizeExtractedText(part.native)
    IN  IF Len(native) >= MinNativeCharacters
        THEN Page(number, "pdf_native_text", native)
        ELSE Page(number, "pdf_ocr", BuildOcrText(part.scan))

\* One page that needs a scan fails the whole document when OCR is down.
ExtractPdf(parts, ocrWorks) ==
    LET pages == Tuple([i \in DOMAIN parts |-> ExtractPdfPage(parts[i], i)])
    IN  IF parts = <<>> THEN Refused("CorruptDocument")
        ELSE IF ~ocrWorks /\ \E i \in DOMAIN pages : pages[i].method = "pdf_ocr"
        THEN Refused("ExtractionDependency")
        ELSE Extracted(pages)

ExtractImage(part, ocrWorks) ==
    IF ocrWorks THEN Extracted(<<Page(1, "image_ocr", BuildOcrText(part.scan))>>)
    ELSE Refused("ExtractionDependency")

ExtractCsv(part) ==
    Extracted(<<Page(1, "structured_csv", NormalizeExtractedText(part.native))>>)

\* Above the table of a sheet stands "Sheet: " and its name.
ExtractExcel(parts) ==
    Extracted([i \in DOMAIN parts |->
        Page(i, "structured_excel",
             NormalizeExtractedText(<<Letter, NewLine>> \o NormalizeExtractedText(parts[i].native)))])

\* The extension is looked at first, then the bytes, and then the library.
ExtractDocument(file, ocrWorks) ==
    CASE file.extension \notin SupportedExtension -> Refused("UnsupportedExtractionType")
      [] /\ file.extension \in SupportedExtension
         /\ file.content # "readable" -> Refused("CorruptDocument")
      [] OTHER ->
           CASE file.extension \in PdfExtension -> ExtractPdf(file.parts, ocrWorks)
             [] file.extension \in ImageExtension -> ExtractImage(file.parts[1], ocrWorks)
             [] file.extension \in TableExtension -> ExtractCsv(file.parts[1])
             [] file.extension \in WorkbookExtension -> ExtractExcel(file.parts)

=============================================================================
