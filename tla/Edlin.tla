------------------------------- MODULE Edlin -------------------------------
(***************************************************************************)
(* edlin.cpp, the line editor: an array of lines, the current line of the  *)
(* prompt, the commands that change them, and loading and saving through   *)
(* the temporary file "edtmp".  Files are the entries of one directory, as *)
(* createFile appends and fsFindFile finds them (fs.cpp); the screen is    *)
(* left out but for the line its listing starts at.                        *)
(***************************************************************************)
EXTENDS Integers, Sequences, SequencesExt

CONSTANTS
  MAX_LINES,          \* lines of the buffer (250)
  MAX_LINE_LENGTH,    \* characters of a line (65)
  MAX_DISPLAY_LINES,  \* lines the screen lists (35)
  PAGE_SIZE,          \* characters of a page (4096)
  Word,               \* bound: integers wrap here (2^32)
  TypedLine,          \* bound: the lines that are typed
  TypedNumber,        \* bound: the line numbers that are typed
  FileName,           \* names the user saves under
  InitialFile,        \* a file there is from the start, and its text
  DirectoryEntries,   \* bound: files the directory has room for
  EditedEntries       \* bound: files there are while the text is edited

VARIABLES
  textBuffer, totalLines, currentLineIndex, displayStartLineNumber,
  insertPosition,   \* of insertNewLines, or NotInserting at the prompt
  initialFileName,
  saving,           \* the name being saved under, or NoFile
  written,          \* the file saved is there, and edtmp not yet deleted
  directory,        \* entries in their order: name and content
  running

edlinVars == <<textBuffer, totalLines, currentLineIndex, displayStartLineNumber,
               insertPosition, initialFileName, saving, written, directory, running>>

NoFile == ""
TempFile == "edtmp"
NotInserting == -1
NL == "\n"
NUL == "zero"
Index == 0 .. MAX_LINES - 1

\* What is typed fits into a line, without the enter that ends it, and a number
\* into a word; buffers have some room.
EdlinConstants ==
  /\ {MAX_LINES, MAX_LINE_LENGTH, MAX_DISPLAY_LINES, PAGE_SIZE, DirectoryEntries}
       \subseteq Nat \ {0}
  /\ Word \in Nat /\ Word > MAX_LINES
  /\ \A line \in TypedLine :
       /\ line \in Seq(STRING) /\ Len(line) <= MAX_LINE_LENGTH
       /\ \A i \in DOMAIN line : line[i] \notin {NL, NUL}
  /\ TypedNumber \subseteq 0 .. Word - 1
  /\ FileName \subseteq STRING
  /\ InitialFile \in [name : STRING, content : Seq(STRING)]

\* What listTextLines shows and saveFileContent writes.
Text == [n \in 1 .. IF totalLines < MAX_LINES THEN totalLines ELSE MAX_LINES
          |-> textBuffer[n - 1]]

\* A line stored at an index that is not in the array goes astray.
Stored(buffer, index, line) ==
  [i \in Index |-> IF i = index THEN line ELSE buffer[i]]

\* The number the prompt shows.
LineNumber == (currentLineIndex + 1) % Word

-----------------------------------------------------------------------------
(* Files *)

Positions(dir, name) == { i \in DOMAIN dir : dir[i].name = name }
Exists(dir, name) == Positions(dir, name) # {}

\* fsFindFile stops at the first entry that has the name.
Found(dir, name) == CHOOSE i \in Positions(dir, name) :
                      \A j \in Positions(dir, name) : i <= j

\* createFile appends an entry, whether the name is there or not, and returns
\* silently from a full directory.
Created(dir, name, content) ==
  IF Len(dir) < DirectoryEntries
  THEN Append(dir, [name |-> name, content |-> content]) ELSE dir

Pages(size) == (size + PAGE_SIZE - 1) \div PAGE_SIZE
Zeroes(n) == [i \in 1 .. n * PAGE_SIZE |-> NUL]

\* The characters of the text, with the newline behind each line.
Characters(lines) == FlattenSeq([n \in DOMAIN lines |-> Append(lines[n], NL)])

\* The buffer of a file after characters are stored from its start; what does
\* not fit is stored behind it.
Overwritten(content, chars) ==
  [i \in DOMAIN content |-> IF i <= Len(chars) THEN chars[i] ELSE content[i]]

At(content, p) == IF p <= Len(content) THEN content[p] ELSE NUL

\* The inner loop: up to a newline, a zero or the length of a line.
LineEnd(content, p) ==
  Min({ e \in p .. p + MAX_LINE_LENGTH :
          e = p + MAX_LINE_LENGTH \/ At(content, e) \in {NL, NUL} })

\* Mutant: the newline is not stepped over.
NextLine_NewlineStays(content, p) ==
  IF LineEnd(content, p) = p THEN p + 1 ELSE LineEnd(content, p)

\* The newline behind a line is stepped over.
NextLine(content, p) ==
  LET e == LineEnd(content, p) IN IF At(content, e) = NL THEN e + 1 ELSE e

\* Where the lines start, each behind the one before.
LineStart(content) ==
  LET start[n \in 0 .. MAX_LINES] ==
        IF n = 0 THEN 1 ELSE NextLine(content, start[n - 1])
  IN  start

\* The outer loop: up to a zero or the last line of the buffer.
loadFileContent(content) ==
  LET start == LineStart(content)
      count == Min({ n \in 0 .. MAX_LINES :
                       n = MAX_LINES \/ At(content, start[n]) = NUL })
  IN  [n \in 1 .. count |->
         SubSeq(content, start[n - 1], LineEnd(content, start[n - 1]) - 1)]

-----------------------------------------------------------------------------

LoadedLines(name, dir) ==
  IF name = NoFile THEN <<>> ELSE loadFileContent(dir[Found(dir, name)].content)

LoadedBuffer(lines) == [i \in Index |-> IF i < Len(lines) THEN lines[i + 1] ELSE <<>>]

\* The editor is started on a file or on none.
Init ==
  /\ directory = IF InitialFile.name = NoFile THEN <<>>
                 ELSE << [InitialFile EXCEPT !.content =
                            Overwritten(Zeroes(Pages(Len(@))), @)] >>
  /\ initialFileName \in {NoFile, InitialFile.name}
  /\ textBuffer = LoadedBuffer(LoadedLines(initialFileName, directory))
  /\ totalLines = Len(LoadedLines(initialFileName, directory))
  /\ currentLineIndex = 0
  /\ displayStartLineNumber = 1
  /\ insertPosition = NotInserting
  /\ saving = NoFile
  /\ written = FALSE
  /\ running = TRUE

AtPrompt == running /\ insertPosition = NotInserting /\ saving = NoFile
Edits == AtPrompt /\ Len(directory) <= EditedEntries

jump(n) ==
  /\ Edits
  /\ n > 0
  /\ displayStartLineNumber' = n
  /\ currentLineIndex' = n - 1
  /\ UNCHANGED <<textBuffer, totalLines, insertPosition, initialFileName,
                 saving, written, directory, running>>

pageUp ==
  /\ Edits
  /\ displayStartLineNumber' = IF displayStartLineNumber > MAX_DISPLAY_LINES
                               THEN displayStartLineNumber - MAX_DISPLAY_LINES ELSE 1
  /\ UNCHANGED <<textBuffer, totalLines, currentLineIndex, insertPosition,
                 initialFileName, saving, written, directory, running>>

\* Far behind the text the next page is in front of it, at 0 too, where nothing is
\* listed.
PagedDown(start) ==
  LET next == (start + MAX_DISPLAY_LINES) % Word
  IN IF next <= totalLines THEN next
     ELSE IF totalLines > MAX_DISPLAY_LINES - 1
          THEN totalLines - (MAX_DISPLAY_LINES - 1) ELSE 1

pageDown ==
  /\ Edits
  /\ displayStartLineNumber' = PagedDown(displayStartLineNumber)
  /\ UNCHANGED <<textBuffer, totalLines, currentLineIndex, insertPosition,
                 initialFileName, saving, written, directory, running>>

editTextLine(line) ==
  /\ Edits
  /\ LineNumber \in 1 .. MAX_LINES
  /\ totalLines' = IF LineNumber > totalLines THEN LineNumber ELSE totalLines
  /\ textBuffer' = Stored(textBuffer, LineNumber - 1, line)
  /\ currentLineIndex' = LineNumber - 1
  /\ UNCHANGED <<displayStartLineNumber, insertPosition, initialFileName,
                 saving, written, directory, running>>

\* Mutant: the loop stops one line early.
ShiftedDown_OneShort(place) ==
  [i \in Index |-> IF place + 1 < i /\ i <= totalLines THEN textBuffer[i - 1]
                   ELSE textBuffer[i]]

\* Lines below the place of the new one move down, the last one first.
ShiftedDown(place) ==
  [i \in Index |-> IF place < i /\ i <= totalLines THEN textBuffer[i - 1]
                   ELSE textBuffer[i]]

startInsert ==
  /\ Edits
  /\ insertPosition' = currentLineIndex
  /\ UNCHANGED <<textBuffer, totalLines, currentLineIndex, displayStartLineNumber,
                 initialFileName, saving, written, directory, running>>

insertNewLine(line) ==
  /\ insertPosition # NotInserting
  /\ totalLines < MAX_LINES
  /\ textBuffer' = Stored(ShiftedDown(insertPosition), insertPosition, line)
  /\ totalLines' = totalLines + 1
  /\ insertPosition' = (insertPosition + 1) % Word
  /\ UNCHANGED <<currentLineIndex, displayStartLineNumber, initialFileName,
                 saving, written, directory, running>>

\* A "." ends the insertion, and so does any line typed into a full buffer.
endInsert ==
  /\ insertPosition # NotInserting
  /\ currentLineIndex' = (insertPosition - 1) % Word
  /\ insertPosition' = NotInserting
  /\ UNCHANGED <<textBuffer, totalLines, displayStartLineNumber, initialFileName,
                 saving, written, directory, running>>

deleteTextLine ==
  /\ Edits
  /\ LineNumber \in 1 .. totalLines
  /\ textBuffer' = [i \in Index |-> IF LineNumber - 1 <= i /\ i < totalLines - 1
                                    THEN textBuffer[i + 1] ELSE textBuffer[i]]
  /\ totalLines' = totalLines - 1
  /\ currentLineIndex' = IF currentLineIndex >= totalLines'
                         THEN (totalLines' - 1) % Word ELSE currentLineIndex
  /\ UNCHANGED <<displayStartLineNumber, insertPosition, initialFileName,
                 saving, written, directory, running>>

\* saveFileContent, first: "edtmp" is created with pages for the
\* text, closed and opened again.  An empty text is not followed (there is no
\* page to write to), nor a directory that has no room for the temporary file.
\* The bound on displayStartLineNumber keeps the listing out of the saves.
openTemp(name) ==
  /\ AtPrompt
  /\ name # NoFile
  /\ displayStartLineNumber = 1
  /\ totalLines > 0
  /\ Len(directory) < DirectoryEntries
  /\ directory' = Created(directory, TempFile, Zeroes(Pages(Len(Characters(Text)))))
  /\ saving' = name
  /\ UNCHANGED <<textBuffer, totalLines, currentLineIndex, displayStartLineNumber,
                 insertPosition, initialFileName, written, running>>

\* Then the text is written to the buffer of the file opened, and the file is
\* created from the buffer.
writeTarget ==
  /\ saving # NoFile
  /\ ~written
  /\ LET temp == directory[Found(directory, TempFile)]
     IN directory' = Created(directory, saving,
                             Overwritten(temp.content, Append(Characters(Text), NUL)))
  /\ written' = TRUE
  /\ UNCHANGED <<textBuffer, totalLines, currentLineIndex, displayStartLineNumber,
                 insertPosition, initialFileName, saving, running>>

\* At last the temporary file is deleted, or the first that has its name.
deleteTemp ==
  /\ written
  /\ directory' = RemoveAt(directory, Found(directory, TempFile))
  /\ saving' = NoFile
  /\ written' = FALSE
  /\ UNCHANGED <<textBuffer, totalLines, currentLineIndex, displayStartLineNumber,
                 insertPosition, initialFileName, running>>

quit ==
  /\ AtPrompt
  /\ running' = FALSE
  /\ UNCHANGED <<textBuffer, totalLines, currentLineIndex, displayStartLineNumber,
                 insertPosition, initialFileName, saving, written, directory>>

\* The power fails while a file is saved, and the editor is started again.
powerLoss ==
  /\ saving # NoFile
  /\ initialFileName' \in {NoFile} \cup { name \in FileName : Exists(directory, name) }
  /\ textBuffer' = LoadedBuffer(LoadedLines(initialFileName', directory))
  /\ totalLines' = Len(LoadedLines(initialFileName', directory))
  /\ currentLineIndex' = 0
  /\ displayStartLineNumber' = 1
  /\ saving' = NoFile
  /\ written' = FALSE
  /\ UNCHANGED <<insertPosition, directory, running>>

Next ==
  \/ \E n \in TypedNumber : jump(n)
  \/ pageUp \/ pageDown
  \/ \E line \in TypedLine : editTextLine(line) \/ insertNewLine(line)
  \/ startInsert \/ endInsert \/ deleteTextLine
  \/ \E name \in FileName \cup {initialFileName} : openTemp(name)
  \/ writeTarget \/ deleteTemp \/ quit \/ powerLoss

Spec == Init /\ [][Next]_edlinVars

-----------------------------------------------------------------------------
(* Properties *)

TypeOK ==
  /\ \A i \in Index : Len(textBuffer[i]) <= MAX_LINE_LENGTH
  /\ totalLines \in 0 .. MAX_LINES
  /\ currentLineIndex \in 0 .. Word - 1
  /\ displayStartLineNumber \in 0 .. Word - 1
  /\ Len(directory) <= DirectoryEntries

Place == IF insertPosition = NotInserting THEN currentLineIndex ELSE insertPosition
TypesLine(new(_)) == \E line \in TypedLine : Text' = new(line)

\* While the place edlin works at is in the text, a command changes the text in
\* that one place: a line typed after i is inserted there, e replaces the line
\* of the prompt (or adds it, behind the last), d removes it, and every other
\* line stays as it was.  A number far beyond the text, and a text that was
\* emptied, leave the place outside.
EditsOneLine ==
  [][ Place <= totalLines /\ saving = NoFile =>
        \/ Text' = Text
        \/ IF insertPosition # NotInserting
           THEN TypesLine(LAMBDA line : InsertAt(Text, Place + 1, line))
           ELSE IF Place = totalLines THEN TypesLine(LAMBDA line : Append(Text, line))
           ELSE \/ Text' = RemoveAt(Text, Place + 1)
                \/ TypesLine(LAMBDA line : ReplaceAt(Text, Place + 1, line))
    ]_edlinVars

Saves == saving # NoFile /\ directory' # directory
LoadsText(name, dir) == Exists(dir, name) /\ loadFileContent(dir[Found(dir, name)].content) = Text

\* The name is new, the temporary file is the only one of its name, and there is
\* room for the file and for the zero at the end of the text.
SavesAnew ==
  /\ Positions(directory, saving) = {}
  /\ \E i \in DOMAIN directory : Positions(directory, TempFile) = {i}
  /\ Len(directory) < DirectoryEntries
  /\ Len(Characters(Text)) % PAGE_SIZE # 0

\* Nothing stands in the way of the next step of the save.
SavesUnhindered ==
  IF ~written THEN SavesAnew ELSE saving # TempFile /\ LoadsText(saving, directory)

\* Saving under a new name and loading that file gives the lines that were
\* saved, unless the directory is full, a temporary file was left by a failure
\* of the power, or the text leaves no room for the zero at its end.  From when
\* the file is written on, and so also when the power fails before the temporary
\* file is deleted, it loads as the text, and deleting the temporary file does not
\* change that.
SavedTextIsLoaded ==
  [][ Saves /\ SavesUnhindered => LoadsText(saving, directory') ]_edlinVars
=============================================================================
