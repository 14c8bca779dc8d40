------------------------------- MODULE TextEdit -------------------------------
(***************************************************************************)
(* FsWorker::prepare_edit between the read of a file and the challenge:    *)
(* the bytes are decoded, the edits are applied to the text one after the  *)
(* other, the text is encoded again, and a diff of the lines is made for   *)
(* the approver.  Bytes and characters are the few that the code tells     *)
(* apart; binary files and the limits of size are left out.                *)
(* What goes through a text from its front is a function of how far it is. *)
(***************************************************************************)
EXTENDS Naturals, SequencesExt, FiniteSets

CONSTANTS
    Files,          \* the bytes of the files that are edited
    Edits           \* lists of edits: [old, new (texts), expected]

VARIABLES
    edit            \* [file, edits, content, diff] of the last prepared edit, or NoEdit

CR == "cr"  LF == "lf"
EAcute == "e9"      \* the character of windows-1252's byte e9
Cjk == "cjk"        \* one that windows-1252 does not have
Chars == {"a", "b", CR, LF, EAcute, Cjk}
Bytes == {"a", "b", CR, LF, EAcute, "00", "22", "6f", "a2", "a9", "bb", "bc", "bf", "c3",
          "e6", "ef", "fe", "ff"}

EditsAssumption ==
    /\ Files \subseteq Seq(Bytes)
    /\ Edits \subseteq Seq([old : Seq(Chars), new : Seq(Chars), expected : Nat])

-----------------------------------------------------------------------------
(* decode_search_text, encode_edit_text.                                   *)

Bom(encoding) ==
    CASE encoding = "utf-8-bom" -> <<"ef", "bb", "bf">> [] encoding = "utf-16le" -> <<"ff", "fe">>
      [] encoding = "utf-16be" -> <<"fe", "ff">> [] OTHER -> << >>

\* The bytes of a character; none if the encoding does not have it.
CharBytes(ch, encoding) ==
    LET high == CASE ch = Cjk -> "6f" [] OTHER -> "00"
        low == CASE ch = Cjk -> "22" [] OTHER -> ch IN
    CASE encoding = "utf-16le" -> <<low, high>>
      [] encoding = "utf-16be" -> <<high, low>>
      [] encoding = "windows-1252" -> IF ch = Cjk THEN << >> ELSE <<ch>>
      [] OTHER -> CASE ch = EAcute -> <<"c3", "a9">> [] ch = Cjk -> <<"e6", "bc", "a2">> [] OTHER -> <<ch>>

Payload(text, encoding) == FlattenSeq([i \in DOMAIN text |-> CharBytes(text[i], encoding)])
Encode(text, encoding) == Bom(encoding) \o Payload(text, encoding)
Encodable(text, encoding) == \A i \in DOMAIN text : CharBytes(text[i], encoding) # << >>

\* One byte more: it may end a character.
Utf8Next(st, b) ==
    IF b = "a9" /\ st # << >> /\ Last(st) = "c3" THEN Append(Front(st), EAcute)
    ELSE IF b = "a2" /\ Len(st) > 1 /\ Last(st) = "bc" /\ Last(Front(st)) = "e6"
    THEN Append(Front(Front(st)), Cjk)
    ELSE Append(st, b)
Utf8Chars(bytes) ==
    LET read[n \in 0..Len(bytes)] == IF n = 0 THEN << >> ELSE Utf8Next(read[n - 1], bytes[n])
    IN  read[Len(bytes)]
IsUtf8(bytes) == Range(Utf8Chars(bytes)) \subseteq Chars /\ EAcute \notin Range(bytes)

Utf16Chars(bytes, encoding) ==
    [i \in 1..Len(bytes) \div 2 |->
        LET low == bytes[2 * i - (IF encoding = "utf-16be" THEN 0 ELSE 1)] IN
        IF low = "22" THEN Cjk ELSE low]
IsUtf16(bytes, encoding) ==
    /\ Len(bytes) % 2 = 0
    /\ \A i \in 1..Len(bytes) \div 2 : \E ch \in Chars :
          CharBytes(ch, encoding) = <<bytes[2 * i - 1], bytes[2 * i]>>

\* The mark decides, or the first that fits; whatever is not UTF-8 is windows-1252.
Undecoded == [text |-> << >>, encoding |-> "none"]
Decode(bytes) ==
    LET after(n) == SubSeq(bytes, n + 1, Len(bytes))
        utf16(encoding) ==
            IF IsUtf16(after(2), encoding)
            THEN [text |-> Utf16Chars(after(2), encoding), encoding |-> encoding] ELSE Undecoded IN
    IF IsPrefix(Bom("utf-8-bom"), bytes)
    THEN IF IsUtf8(after(3)) THEN [text |-> Utf8Chars(after(3)), encoding |-> "utf-8-bom"] ELSE Undecoded
    ELSE IF IsPrefix(Bom("utf-16le"), bytes) THEN utf16("utf-16le")
    ELSE IF IsPrefix(Bom("utf-16be"), bytes) THEN utf16("utf-16be")
    ELSE IF IsUtf8(bytes) THEN [text |-> Utf8Chars(bytes), encoding |-> "utf-8"]
    ELSE [text |-> bytes, encoding |-> "windows-1252"]

-----------------------------------------------------------------------------
(* str::matches and str::replace: from the left, without overlap.          *)

IsAt(text, i, old) == i + Len(old) <= Len(text) + 1 /\ SubSeq(text, i, i + Len(old) - 1) = old
MatchNext(st, text, old, i) ==
    IF i >= st.next /\ IsAt(text, i, old) THEN [at |-> st.at \cup {i}, next |-> i + Len(old)] ELSE st
Matches(text, old) ==
    LET found[n \in 0..Len(text)] ==
            IF n = 0 THEN [at |-> {}, next |-> 1] ELSE MatchNext(found[n - 1], text, old, n)
    IN  found[Len(text)].at
Replace(text, old, new) ==
    LET at == Matches(text, old)
        inside(i) == \E m \in at : i \in m..m + Len(old) - 1 IN
    FlattenSeq([i \in 1..Len(text) |->
        IF i \in at THEN new ELSE IF inside(i) THEN << >> ELSE <<text[i]>>])

\* normalize_newlines, detected_newline
Normalize(text, newline) ==
    Replace(Replace(Replace(text, <<CR, LF>>, <<LF>>), <<CR>>, <<LF>>), <<LF>>, newline)
DetectedNewline(text) == IF Matches(text, <<CR, LF>>) # {} THEN <<CR, LF>> ELSE <<LF>>

\* The edits in order, each on what the one before has left; a count that is not the
\* expected one ends it.
EditNext(st, e, newline) ==
    LET old == Normalize(e.old, newline) IN
    IF st.ok /\ Cardinality(Matches(st.text, old)) = e.expected
    THEN [st EXCEPT !.text = Replace(@, old, Normalize(e.new, newline))]
    ELSE [st EXCEPT !.ok = FALSE]
Apply(text, edits, newline) ==
    LET edited[n \in 0..Len(edits)] ==
            IF n = 0 THEN [text |-> text, ok |-> TRUE] ELSE EditNext(edited[n - 1], edits[n], newline)
    IN  edited[Len(edits)]

-----------------------------------------------------------------------------
(* unified_diff_summary.                                                   *)

\* str::lines: a line ends at a line feed, which takes a carriage return along; what
\* follows the last one is a line if there is any.
LineNext(st, ch) ==
    LET whole == IF st.line # << >> /\ Last(st.line) = CR THEN Front(st.line) ELSE st.line IN
    IF ch = LF THEN [done |-> Append(st.done, whole), line |-> << >>]
    ELSE [st EXCEPT !.line = Append(@, ch)]
Lines(text) ==
    LET st[n \in 0..Len(text)] ==
            IF n = 0 THEN [done |-> << >>, line |-> << >>] ELSE LineNext(st[n - 1], text[n])
        all == st[Len(text)] IN
    IF all.line = << >> THEN all.done ELSE Append(all.done, all.line)

Least(a, b) == IF a < b THEN a ELSE b
Longest(S) == CHOOSE n \in S : \A k \in S : k <= n

\* Mutant of CommonSuffix: the suffix may reach into the prefix.
CommonSuffixWhole(before, after, prefix) ==
    Longest({n \in 0..Least(Len(before), Len(after)) :
        \A k \in 0..n - 1 : before[Len(before) - k] = after[Len(after) - k]})

CommonSuffix(before, after, prefix) ==
    Longest({n \in 0..Least(Len(before), Len(after)) - prefix :
        \A k \in 0..n - 1 : before[Len(before) - k] = after[Len(after) - k]})

\* One hunk with three lines around it.
Diff(before, after) ==
    LET prefix == Longest({n \in 0..Least(Len(before), Len(after)) :
                              SubSeq(before, 1, n) = SubSeq(after, 1, n)})
        suffix == CommonSuffix(before, after, prefix)
        start == IF prefix > 3 THEN prefix - 3 ELSE 0
        beforeEnd == Least(Len(before) - suffix + 3, Len(before))
        afterEnd == Least(Len(after) - suffix + 3, Len(after))
        signed(sign, lines) == [i \in DOMAIN lines |-> <<sign, lines[i]>>] IN
    [start |-> start, old |-> beforeEnd - start, new |-> afterEnd - start,
     lines |-> signed(" ", SubSeq(before, start + 1, prefix))
               \o signed("-", SubSeq(before, prefix + 1, Len(before) - suffix))
               \o signed("+", SubSeq(after, prefix + 1, Len(after) - suffix))
               \o signed(" ", SubSeq(after, Len(after) - suffix + 1, afterEnd))]

-----------------------------------------------------------------------------
NoEdit == [file |-> << >>]

Init == edit = NoEdit

\* prepare_edit: an edit of nothing, an occurrence mismatch or a character that the encoding
\* does not have is an error.
Prepare(file, edits) ==
    LET decoded == Decode(file)
        edited == Apply(decoded.text, edits, DetectedNewline(decoded.text)) IN
    /\ edits # << >> /\ \A i \in DOMAIN edits : edits[i].old # << >> /\ edits[i].expected # 0
    /\ decoded # Undecoded /\ edited.ok /\ Encodable(edited.text, decoded.encoding)
    /\ edit' = [file |-> file, edits |-> edits,
                content |-> Encode(edited.text, decoded.encoding),
                diff |-> Diff(Lines(decoded.text), Lines(edited.text))]

Next == edit = NoEdit /\ \E file \in Files, edits \in Edits : Prepare(file, edits)

-----------------------------------------------------------------------------
(* Properties.                                                             *)

\* The bytes that an edit is about: the normalized text in the encoding of the file.
InFile(text) ==
    LET decoded == Decode(edit.file) IN
    Payload(Normalize(text, DetectedNewline(decoded.text)), decoded.encoding)

\* Of a file that is edited once, all bytes stay but those of as many places as were
\* expected, where the bytes of the old text stood and those of the new text stand now:
\* the encoding, its mark and the ends of the other lines are those of the file
\* (README.md: "preserving encoding and line endings").
KeepsTheRest ==
    edit # NoEdit /\ Len(edit.edits) = 1 =>
        LET old == InFile(edit.edits[1].old)
            places == {p \in 1..Len(edit.file) : IsAt(edit.file, p, old)} IN
        \E at \in SUBSET places :
            /\ Cardinality(at) = edit.edits[1].expected
            /\ \A p, q \in at : p < q => p + Len(old) <= q
            /\ edit.content = FlattenSeq([i \in 1..Len(edit.file) |->
                  IF i \in at THEN InFile(edit.edits[1].new)
                  ELSE IF \E p \in at : i \in p..p + Len(old) - 1 THEN << >>
                  ELSE <<edit.file[i]>>])

\* The text of the result, in the encoding of the file: of windows-1252, what is left may by
\* itself be read as UTF-8.
Result ==
    IF Decode(edit.file).encoding = "windows-1252" THEN edit.content ELSE Decode(edit.content).text

\* A file with ends of lines of one kind only keeps that kind, whatever the edits.
KeepsItsNewline ==
    edit # NoEdit =>
        LET before == Decode(edit.file).text
            after == Result
            lone(text) == {i \in DOMAIN text : text[i] = LF /\ (i = 1 \/ text[i - 1] # CR)} IN
        /\ CR \notin Range(before) => CR \notin Range(after)
        /\ DetectedNewline(before) = <<CR, LF>> /\ lone(before) = {} => lone(after) = {}

\* The lines of a hunk that have one of the signs.
Signed(lines, signs) ==
    FlattenSeq([i \in DOMAIN lines |-> IF lines[i][1] \in signs THEN <<lines[i][2]>> ELSE << >>])

\* What the approver is shown is what would be done, line by line: the hunk stands in
\* the file where it says and makes the lines of the result out of it.
ShownIsDone ==
    edit # NoEdit =>
        LET d == edit.diff
            before == Lines(Decode(edit.file).text)
            of(signs) == Signed(d.lines, signs)
            hunk == SubSeq(before, d.start + 1, d.start + d.old) IN
        /\ of({" ", "-"}) = hunk /\ Len(of({" ", "+"})) = d.new
        /\ Lines(Result) =
              SubSeq(before, 1, d.start) \o of({" ", "+"})
              \o SubSeq(before, d.start + d.old + 1, Len(before))

\* What one might expect, and what is not so: the result is read in the encoding it has.
StaysReadable == edit # NoEdit => Decode(edit.content).text = Result

EditIsExact == KeepsTheRest /\ KeepsItsNewline /\ ShownIsDone
===============================================================================
