------------------------------ MODULE WordCount ------------------------------
(***************************************************************************)
(* wc-go: applications/wc-go/processing and its command cmd/cli.go.        *)
(*                                                                         *)
(* One run counts the lines, words and characters of an input with one of  *)
(* five processors: "scanner" and "mmap2" pass the input through a         *)
(* bufio.Scanner, "upfront", "buffering" and "mmap" cut a byte slice that   *)
(* holds all of it.  The input arrives in pieces of any size.  It stays in *)
(* text; positions say how much of it has been read and how much has been  *)
(* passed to the line processors.                                          *)
(***************************************************************************)
EXTENDS Integers, Sequences, FiniteSets

CONSTANTS
  MaxLen,    \* bound on the length of the input
  Chunk,     \* the most bytes one Read returns (4096)
  MaxLine    \* bufio.MaxScanTokenSize: the scanner's buffer (65536)

ASSUME WordCountAssumption ==
  MaxLen \in Nat /\ Chunk \in Nat \ {0} /\ MaxLine \in Nat \ {0}

\* Bytes by what the code tells apart: a letter, a space, the two bytes of a
\* line end, and the two bytes of a character in UTF-8.
LF == "\n"
CR == "\r"
Space == {" ", CR, LF}
Byte  == {"x", "lead", "cont"} \cup Space

Texts == UNION {[1 .. n -> Byte] : n \in 0 .. MaxLen}

Kinds   == {"scanner", "upfront", "buffering", "mmap", "mmap2"}
Scanned == {"scanner", "mmap2"}
Mapped  == {"mmap", "mmap2"}

VARIABLES
  text, kind, source, \* the input, ProcessorType, and what FilePath names
  at,       \* "run", "read" (until the end), "lines" or "done"
  read,     \* bytes received
  input,    \* the reader: "more", "eof" or "failed"
  start,    \* bytes passed to the line processors
  lines, words, chars,   \* the counters of the three line processors
  err       \* what Run returns: "none" or the kind of error

args   == <<text, kind, source>>
counts == <<lines, words, chars>>
wordVars   == <<args, at, read, input, start, counts, err>>

-----------------------------------------------------------------------------
\* Slip: bytes for characters.
OneByte(line, k) == 1

\* utf8.DecodeRune: the size of the character at k; a stray byte is one too.
DecodeRune(line, k) ==
  IF line[k] = "lead" /\ k < Len(line) /\ line[k + 1] = "cont" THEN 2 ELSE 1

\* The loop of WordCountProcessor.Process, from k to the end of the line.
WordsOf(line) ==
  LET loop[k \in 1 .. Len(line) + 1] == [inWord \in BOOLEAN |->
        IF k > Len(line) THEN 0
        ELSE LET isSpace == line[k] \in Space IN
             loop[k + DecodeRune(line, k)][~isSpace]
               + (IF ~isSpace /\ ~inWord THEN 1 ELSE 0)]
  IN loop[1][FALSE]

\* The loop of CharacterCountProcessor.Process.
CharsOf(line) ==
  LET loop[k \in 1 .. Len(line) + 1] ==
        IF k > Len(line) THEN 0 ELSE loop[k + DecodeRune(line, k)] + 1
  IN loop[1]

\* Every line processor in turn processes the line.
Process(line) ==
  /\ lines' = lines + 1
  /\ words' = words + WordsOf(line)
  /\ chars' = chars + CharsOf(line)

DropCR(line) ==
  IF line # <<>> /\ line[Len(line)] = CR THEN SubSeq(line, 1, Len(line) - 1) ELSE line

-----------------------------------------------------------------------------
WordInit ==
  /\ text \in Texts
  /\ kind \in Kinds \cup {"other"}
  /\ source \in {"stdin", "file", "missing"}
  /\ at = "run"
  /\ read = 0
  /\ input = "more"
  /\ start = 0
  /\ lines = 0 /\ words = 0 /\ chars = 0
  /\ err = "none"

Fail(e) == at' = "done" /\ err' = e

Rejected ==
  \/ kind \notin Kinds
  \/ kind \in Mapped /\ source = "stdin"
  \/ source = "missing"

\* Run rejects its arguments,
Reject ==
  /\ at = "run"
  /\ Rejected
  /\ Fail("arguments")
  /\ UNCHANGED <<args, read, input, start, counts>>

\* fails to open, size or map the file,
OpenError ==
  /\ at = "run"
  /\ ~Rejected /\ source = "file"
  /\ Fail("open")
  /\ UNCHANGED <<args, read, input, start, counts>>

\* maps the file, if there is anything to map, or begins to read.
Run ==
  /\ at = "run"
  /\ ~Rejected
  /\ at' = CASE kind \in Mapped /\ text = <<>> -> "done"
             [] kind \in {"upfront", "buffering"} -> "read"
             [] OTHER -> "lines"
  /\ read' = IF kind = "mmap" THEN Len(text) ELSE 0
  /\ input' = IF kind = "mmap" THEN "eof" ELSE "more"
  /\ UNCHANGED <<args, start, counts, err>>

\* The ends of lines among the bytes received but not yet processed.
Ends == {i \in start + 1 .. read : text[i] = LF}

\* io.ReadAll and the buffering loop read on until the input ends, the
\* scanner while it has no whole line and room in its buffer.
Reading ==
  /\ input = "more"
  /\ at = "read" \/ (at = "lines" /\ Ends = {} /\ read - start < MaxLine)

ReadChunk ==
  /\ Reading
  /\ \E n \in 1 .. Chunk :
       /\ read + n <= Len(text)
       /\ kind \in Scanned => read + n - start <= MaxLine
       /\ read' = read + n
  /\ UNCHANGED <<args, at, input, start, counts, err>>

ReadEOF ==
  /\ Reading
  /\ read = Len(text)
  /\ input' = "eof"
  /\ at' = "lines"
  /\ UNCHANGED <<args, read, start, counts, err>>

\* A read of a file or of stdin fails: the scanner still passes on what it
\* has, the others return at once.
ReadError ==
  /\ Reading
  /\ kind # "mmap2"
  /\ input' = "failed"
  /\ IF kind \in Scanned THEN UNCHANGED <<at, err>> ELSE Fail("read")
  /\ UNCHANGED <<args, read, start, counts>>

NextLine ==
  /\ at = "lines"
  /\ \E i \in Ends :
       /\ \A j \in Ends : i <= j
       /\ Process(DropCR(SubSeq(text, start + 1, i - 1)))
       /\ start' = i
  /\ UNCHANGED <<args, at, read, input, err>>

\* The last line has no newline.  Only the scanner drops its carriage return.
Rest == SubSeq(text, start + 1, read)

\* Slips, told from the code by the properties below.
LastLineAlways ==
  /\ at = "lines"
  /\ Ends = {}
  /\ input # "more"
  /\ Process(IF kind \in Scanned THEN DropCR(Rest) ELSE Rest)
  /\ start' = read
  /\ UNCHANGED <<args, at, read, input, err>>

ReturnsNil ==
  /\ at = "lines"
  /\ input # "more"
  /\ start = read
  /\ at' = "done"
  /\ UNCHANGED <<args, read, input, start, counts, err>>

LastLine ==
  /\ at = "lines"
  /\ Ends = {}
  /\ input # "more"
  /\ start < read
  /\ Process(IF kind \in Scanned THEN DropCR(Rest) ELSE Rest)
  /\ start' = read
  /\ UNCHANGED <<args, at, read, input, err>>

\* The scanner's buffer is full and holds no newline: bufio.ErrTooLong.
LineTooLong ==
  /\ at = "lines" /\ input = "more"
  /\ Ends = {}
  /\ kind \in Scanned
  /\ read - start >= MaxLine
  /\ Fail("too long")
  /\ UNCHANGED <<args, read, input, start, counts>>

Return ==
  /\ at = "lines"
  /\ input # "more"
  /\ start = read
  /\ IF input = "failed" THEN Fail("read") ELSE at' = "done" /\ UNCHANGED err
  /\ UNCHANGED <<args, read, input, start, counts>>

WordNext ==
  \/ Reject \/ OpenError \/ Run \/ ReadChunk \/ ReadEOF \/ ReadError
  \/ NextLine \/ LastLine \/ LineTooLong \/ Return

WordSpec == WordInit /\ [][WordNext]_wordVars

-----------------------------------------------------------------------------
\* The command prints the counters; after an error log.Fatalf ends it first.
Printed == at = "done" /\ err = "none"

\* The last line, without a newline, has been processed.
TailDone == start > 0 /\ text[start] # LF

\* What the first n bytes hold, whatever the lines: newlines, words (a
\* character that is no space, after none or a space) and characters.
NewlinesIn(n) == {i \in 1 .. n : text[i] = LF}
CRsIn(n)      == {i \in 1 .. n - 1 : text[i] = CR /\ text[i + 1] = LF}
RunesIn(n)    == {i \in 1 .. n : ~(i > 1 /\ text[i] = "cont" /\ text[i - 1] = "lead")}
WordsIn(n)    == {i \in RunesIn(n) : /\ text[i] \notin Space
                                     /\ i > 1 => text[i - 1] \in Space}

\* The carriage return at the end of an input that does not end in a newline.
TailCR == kind \in Scanned /\ TailDone /\ text[start] = CR

(***************************************************************************)
(* Type invariant: what is processed has been read, and what is read is    *)
(* there.                                                                  *)
(***************************************************************************)
WordTypeOK ==
  /\ text \in Texts
  /\ kind \in Kinds \cup {"other"}
  /\ source \in {"stdin", "file", "missing"}
  /\ at \in {"run", "read", "lines", "done"}
  /\ input \in {"more", "eof", "failed"}
  /\ read \in 0 .. Len(text)
  /\ start \in 0 .. read
  /\ lines \in Nat

(***************************************************************************)
(* However the input is cut into pieces and lines, at every moment the     *)
(* lines counted are the newlines passed, and one more for a last line     *)
(* without a newline: no line is counted twice or lost where two reads     *)
(* meet, and an empty line counts.                                         *)
(***************************************************************************)
LinesMatch ==
  lines = Cardinality(NewlinesIn(start)) + (IF TailDone THEN 1 ELSE 0)

(***************************************************************************)
(* Counting line by line, with the line ends cut off, finds every word and *)
(* character of the text and splits none: also where a line end follows    *)
(* half a character, or a read ends inside one.  The five processors agree *)
(* but for one case: a carriage return that ends the input is a character  *)
(* for the three that cut bytes, and dropped by the scanner.               *)
(***************************************************************************)
WordsAndCharsMatch ==
  /\ words = Cardinality(WordsIn(start))
  /\ chars = Cardinality(RunesIn(start)) - Cardinality(NewlinesIn(start))
               - Cardinality(CRsIn(start)) - (IF TailCR THEN 1 ELSE 0)

(***************************************************************************)
(* Counts that are printed are those of the whole input: a read that fails *)
(* half way, or a line the scanner cannot hold, never shows as a smaller   *)
(* count.                                                                  *)
(***************************************************************************)
PrintedIsWhole == Printed => start = Len(text) /\ input # "failed"
=============================================================================
