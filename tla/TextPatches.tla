----------------------------- MODULE TextPatches -----------------------------
(***************************************************************************)
(* The patch arithmetic below module ReviewSession.  An agent sends hunks  *)
(* of text; internal/patches finds each of them in the document, byte by   *)
(* byte, decides which line delimiters a deleted line takes along, and     *)
(* splices the result; internal/sectioniter counts the lines that come and *)
(* go, and internal/session moves the comments by those counts.            *)
(* ReviewSession knows none of this: there a hunk replaces whole lines     *)
(* (ApplyHunks) and pushes the lines below it (positionAfterHunks).  The   *)
(* two properties of this module say that it may.                          *)
(*                                                                         *)
(* A text is a sequence of symbols: letters, CR and LF, one column each.   *)
(* A hunk of text is [target, before, expected, after, content] as in the  *)
(* code; its hints, which nothing reads, are left out.                     *)
(***************************************************************************)
EXTENDS ReviewSession

CONSTANTS Letters,        \* the symbols that lines are made of
          TextDocuments,  \* the documents of the properties
          Replacements    \* what one hunk may put there: sequences of lines

CR == "CR"
LF == "LF"

TextLines == Seq(Letters)

(* The text of one blank line is empty: as a replacement it is a deletion. *)
ASSUME TextAssumption ==
    /\ CR \notin Letters /\ LF \notin Letters
    /\ TextDocuments \subseteq Seq(TextLines) \ {<<>>}
    /\ Replacements \subseteq Seq(TextLines) \ {<< <<>> >>}

(* base[from:to], the offsets counting from 0 as in the code. *)
Slice(base, from, to) == SubSeq(base, from + 1, to)

IsAt(base, offset, part) ==
    /\ offset >= 0 /\ offset + Len(part) <= Len(base)
    /\ Slice(base, offset, offset + Len(part)) = part

LineFeeds(text) == Cardinality({i \in DOMAIN text : text[i] = LF})

(* PositionAt: the line; columns only matter inside one. *)
LineAt(base, offset) == 1 + LineFeeds(Slice(base, 0, offset))

-----------------------------------------------------------------------------
(* Where a hunk is. *)

beforeMatches(base, start, before) ==
    \/ before = <<>>
    \/ IsAt(base, start - Len(before), before)
    \/ /\ IsAt(base, start - 1, <<LF>>)
       /\ Slice(base, Max({0} \union {i \in 1 .. start - 1 : base[i] = LF}), start - 1) = before

afterMatches(base, end, after) ==
    \/ after = <<>>
    \/ IsAt(base, end, after)
    \/ /\ IsAt(base, end, <<LF>>)
       /\ Slice(base, end + 1, Min({Len(base)} \union {i - 1 : i \in {j \in end + 2 .. Len(base) : base[j] = LF}})) = after

Exact(base, h) == {start \in 0 .. Len(base) - 1 : IsAt(base, start, h.expected)}

Matching(base, h) ==
    {start \in Exact(base, h) : /\ beforeMatches(base, start, h.before)
                                /\ afterMatches(base, start + Len(h.expected), h.after)}

(* The one place of a hunk, in its context or, where the context is nowhere, *)
(* in the whole text.  None: the hunk is missing or ambiguous.               *)
Places(base, h) ==
    IF Matching(base, h) # {} THEN Matching(base, h) ELSE Exact(base, h)

Located(base, h) == h.expected # <<>> /\ Cardinality(Places(base, h)) = 1

Locate(base, h) ==
    LET start == CHOOSE i \in Places(base, h) : TRUE
        end == start + Len(h.expected)
    IN  [hunk |-> h, start |-> start, end |-> end, endLine |-> LineAt(base, end)]

-----------------------------------------------------------------------------
(* Which delimiters a deleted line takes along. *)

isFullLineDeletion(r) == r.hunk.target = "lines" /\ r.hunk.content = <<>>

(* The delimiter that starts at an offset, and the one that ends there. *)
DelimiterAfter(base, offset) ==
    IF IsAt(base, offset, <<CR, LF>>) THEN 2 ELSE IF IsAt(base, offset, <<LF>>) THEN 1 ELSE 0

DelimiterBefore(base, offset, lowerBound) ==
    IF IsAt(base, offset - 2, <<CR, LF>>) /\ offset - 2 >= lowerBound THEN 2
    ELSE IF IsAt(base, offset - 1, <<LF>>) /\ offset - 1 >= lowerBound THEN 1
    ELSE 0

fullLineDeletionOffsets_Unbounded(base, r, lowerBound) ==
    LET following == DelimiterAfter(base, r.end)
        whole == /\ r.start = 0 \/ IsAt(base, r.start - 1, <<LF>>)
                 /\ r.end = Len(base) \/ following > 0
    IN  IF ~whole THEN r
        ELSE IF following > 0 THEN [r EXCEPT !.end = @ + following]
        ELSE [r EXCEPT !.start = @ - DelimiterBefore(base, @, 0)]

fullLineDeletionOffsets(base, r, lowerBound) ==
    LET following == DelimiterAfter(base, r.end)
        whole == /\ r.start = 0 \/ IsAt(base, r.start - 1, <<LF>>)
                 /\ r.end = Len(base) \/ following > 0
    IN  IF ~whole THEN r
        ELSE IF following > 0 THEN [r EXCEPT !.end = @ + following]
        ELSE [r EXCEPT !.start = @ - DelimiterBefore(base, @, lowerBound)]

(* The widening loop of Resolve, each hunk bounded by the widened one before. *)
Widened(base, located) ==
    LET out[i \in 1 .. Len(located)] ==
            IF isFullLineDeletion(located[i])
            THEN fullLineDeletionOffsets(base, located[i], IF i = 1 THEN 0 ELSE out[i - 1].end)
            ELSE located[i]
    IN  out

(* Deletions in a row up to the end of the text: the delimiter before them. *)
trimTerminalDeletionDelimiter(base, resolved) ==
    LET last == Len(resolved)
        first == Min({i \in 1 .. last :
                        \A j \in i .. last - 1 : /\ isFullLineDeletion(resolved[j])
                                                 /\ resolved[j].end = resolved[j + 1].start})
        lowerBound == IF first = 1 THEN 0 ELSE resolved[first - 1].end
        start == resolved[first].start
        delimiter == DelimiterBefore(base, start, 0)
    IN  IF /\ isFullLineDeletion(resolved[last]) /\ resolved[last].end = Len(base)
           /\ first # last
           /\ Last(resolved[last].hunk.expected) # LF
           /\ IsAt(base, Len(base) - Len(resolved[last].hunk.expected), resolved[last].hunk.expected)
           /\ start - delimiter >= lowerBound
        THEN [resolved EXCEPT ![first].start = start - delimiter]
        ELSE resolved

Apart(resolved) == \A i \in 1 .. Len(resolved) - 1 : resolved[i].end <= resolved[i + 1].start

(* sort.Slice: some order in which the starts do not fall. *)
SortedByStart(located) ==
    LET order == CHOOSE p \in [DOMAIN located -> DOMAIN located] :
                    /\ IsInjective(p)
                    /\ \A i, j \in DOMAIN located : i < j => located[p[i]].start <= located[p[j]].start
    IN  [i \in DOMAIN located |-> located[order[i]]]

(* Resolve: none of the patch applies unless all of it does. *)
Refused == <<>>

Resolve(base, hunks) ==
    LET located == SortedByStart([i \in DOMAIN hunks |-> Locate(base, hunks[i])])
        widened == Widened(base, located)
    IN  IF (\A i \in DOMAIN hunks : Located(base, hunks[i])) /\ Apart(widened)
        THEN trimTerminalDeletionDelimiter(base, widened)
        ELSE Refused

SpliceText(text, r) == Slice(text, 0, r.start) \o r.hunk.content \o Slice(text, r.end, Len(text))

Apply(base, resolved) ==
    LET text[i \in 1 .. Len(resolved) + 1] ==  \* the hunks from i on are spliced
            IF i > Len(resolved) THEN base ELSE SpliceText(text[i + 1], resolved[i])
    IN  text[1]

-----------------------------------------------------------------------------
(* What the session is told of a patch, and what it does with it. *)

(* BuildProposal: the lines a hunk was found on, and those it adds up to. *)
LineDeltaOf_AsSent(base, r) == LineFeeds(r.hunk.content) - LineFeeds(r.hunk.expected)

LineDeltaOf(base, r) == LineFeeds(r.hunk.content) - LineFeeds(Slice(base, r.start, r.end))

AppliedHunks(base, resolved) ==
    [i \in DOMAIN resolved |->
        [last |-> resolved[i].endLine, lineDelta |-> LineDeltaOf(base, resolved[i])]]

(* positionAfterHunks, the hunks having no character range. *)
positionAfterAppliedHunks(line, applied) ==
    LET delta[i \in 1 .. Len(applied) + 1] ==  \* of the hunks from i on
            IF i > Len(applied) THEN 0
            ELSE delta[i + 1] + IF line > applied[i].last THEN applied[i].lineDelta ELSE 0
    IN  line + delta[1]

-----------------------------------------------------------------------------
(* Documents of lines, and the patches an agent makes of whole lines. *)

Text(lines, delimiter) ==
    LET text[i \in 1 .. Len(lines)] ==
            IF i = 1 THEN lines[1] ELSE text[i - 1] \o delimiter \o lines[i]
    IN  IF lines = <<>> THEN <<>> ELSE text[Len(lines)]

LineHunks(n) == {h \in [first : 1 .. n, last : 1 .. n, new : Replacements] : h.first <= h.last}

LinePatches(n) ==
    UNION {{patch \in [1 .. m -> LineHunks(n)] :
              \A i \in 1 .. m - 1 : patch[i].last < patch[i + 1].first} : m \in 1 .. n}

(* The hunks of a patch as text, the last one first; with the lines around *)
(* them as context, or without.                                            *)
TextHunks(lines, patch, delimiter, context) ==
    LET line(i) == IF context /\ i \in DOMAIN lines THEN lines[i] ELSE <<>>
    IN  Reverse([i \in DOMAIN patch |->
          [target |-> "lines",
           before |-> line(patch[i].first - 1), after |-> line(patch[i].last + 1),
           expected |-> Text(SubSeq(lines, patch[i].first, patch[i].last), delimiter),
           content |-> Text(patch[i].new, delimiter)]])

(* The lines around a hunk are only found where a line ends in LF alone: the *)
(* CR before it belongs to the line for beforeMatches and afterMatches.      *)
Forms == {[delimiter |-> <<LF>>, context |-> FALSE],
          [delimiter |-> <<LF>>, context |-> TRUE],
          [delimiter |-> <<CR, LF>>, context |-> FALSE]}

(* Two ends of a document that the properties leave out.  The text to delete  *)
(* ends with the terminal delimiter: only a hunk on its own takes it along.   *)
(* And two deletions with one blank line between them, the second at the end: *)
(* widened, the two meet, and trimTerminalDeletionDelimiter takes them for    *)
(* neighbours, so that the blank line goes too.                               *)
AwkwardEnd(lines, patch) ==
    LET n == Len(lines)
        last == Last(patch)
        former == patch[Len(patch) - 1]
    IN  /\ Len(patch) > 1 /\ last.last = n /\ last.new = <<>> /\ former.new = <<>>
        /\ \/ lines[n] = <<>>
           \/ former.last = last.first - 2 /\ lines[last.first - 1] = <<>>

Splices(lines, patch, form) ==
    LET base == Text(lines, form.delimiter)
        sent == TextHunks(lines, patch, form.delimiter, form.context)
        answer == Resolve(base, sent)
    IN  (\A i \in DOMAIN sent : Located(base, sent[i])) =>
            /\ answer # Refused
            /\ Apply(base, answer) = Text(ApplyHunks(lines, patch), form.delimiter)

Carries(lines, patch, form) ==
    LET base == Text(lines, form.delimiter)
        answer == Resolve(base, TextHunks(lines, patch, form.delimiter, form.context))
        applied == AppliedHunks(base, answer)
        patched == ApplyHunks(lines, patch)
    IN  answer # Refused =>
            \A l \in DOMAIN lines :
               (\A h \in Range(patch) : l \notin h.first .. h.last) =>
                  /\ positionAfterAppliedHunks(l, applied) = positionAfterHunks(l, patch)
                  /\ patched[positionAfterHunks(l, patch)] = lines[l]

(* The documents of one length share their patches. *)
Cases == UNION {[lines : {lines \in TextDocuments : Len(lines) = n}, patch : LinePatches(n), form : Forms] :
                   n \in {Len(lines) : lines \in TextDocuments}}

EveryPatchSplices == \A c \in Cases : AwkwardEnd(c.lines, c.patch) \/ Splices(c.lines, c.patch, c.form)
EveryPatchCarries == \A c \in Cases : AwkwardEnd(c.lines, c.patch) \/ Carries(c.lines, c.patch, c.form)

(* The session holds a patch that it takes for whole lines. *)
PatchHeld == Pending /\ session.pending.hunks # <<>>

(* A patch of whole lines that is found is never refused, and the text that   *)
(* the splice of its bytes leaves is that of the other lines: no delimiter is *)
(* left behind, lost or taken twice, be the deleted lines next to each other, *)
(* at an end of the document, or next to lines that are replaced.  That is    *)
(* ReviewSession's ApplyHunks (hunks.go:32-162, the widening and trimming).   *)
(* A fact about texts, looked at in the states that rely on it.               *)
PatchesReplaceLines == PatchHeld => EveryPatchSplices

(* The line deltas counted in bytes, on offsets that deletions have widened   *)
(* and trimmed, move every line outside the hunks to where ReviewSession's    *)
(* positionAfterHunks puts it, and its text is found there (service.go:121,   *)
(* session.go:883-903).  Looked at in the same states.                        *)
KeptLinesFollowTheirText == PatchHeld => EveryPatchCarries
=============================================================================
