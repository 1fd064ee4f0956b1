---------------------------- MODULE ThinkingParser ----------------------------
(***************************************************************************)
(* The parser that divides a stream of a model into thinking and content   *)
(* (dgxarley/integration/thinking_parser.py).  A server either sends the   *)
(* thinking in a field of its own or leaves its tags in the content, where *)
(* they may be cut anywhere by the chunks.                                 *)
(***************************************************************************)
EXTENDS Naturals, Sequences, SequencesExt, FiniteSets, FiniteSetsExt

CONSTANTS
    StartTag, EndTag,   \* THINK_START, THINK_END: sequences of characters
    Texts,              \* bound: what is streamed
    MaxChunk,           \* bound: characters of a chunk
    Fields              \* whether chunks with reasoning_content occur

\* No tag begins inside a tag, and none is the beginning of the other.
Tags == {StartTag, EndTag}
ASSUME TagAssumption ==
    /\ Tags \subseteq Seq(Nat) /\ <<>> \notin Tags
    /\ \A t, u \in Tags : ~IsStrictPrefix(t, u) /\ \A i \in 2 .. Len(t) : t[i] # u[1]
ASSUME TextAssumption == Texts \subseteq Seq(Nat) /\ MaxChunk \in Nat \ {0}

VARIABLES
    streamText,     \* the whole text
    readTo,         \* how much of it has been fed
    inThinking, buffer, sawReasoning,
    thinkingOut, contentOut,    \* what the parser has made of it
    tagged,         \* what the server sent (history): characters of content before
    fieldText,      \*     it used its field, all it sent in the field,
    afterText       \*     and the content since then

parserState == <<inThinking, buffer, sawReasoning, thinkingOut, contentOut>>
sentText == <<tagged, fieldText, afterText>>
parserVars == <<streamText, readTo, parserState, sentText>>

ParserInit ==
    /\ streamText \in Texts /\ readTo = 0
    /\ inThinking = FALSE /\ buffer = <<>> /\ sawReasoning = FALSE
    /\ thinkingOut = <<>> /\ contentOut = <<>>
    /\ tagged = 0 /\ fieldText = <<>> /\ afterText = <<>>

Next_(k) == SubSeq(streamText, readTo + 1, readTo + k)

----------------------------------------------------------------------------
(* _parse_tags *)

Tag(thinking) == IF thinking THEN EndTag ELSE StartTag

\* find: where the tag begins at or after pos, 0 if it does not
FindTag(buf, tag, pos) ==
    Min({Len(buf) + 1} \cup {i \in pos .. Len(buf) : IsPrefix(tag, SubSeq(buf, i, Len(buf)))})

\* The length of the longest end of buf that begins the tag (mutant: one that
\* is the tag but for its last character is overlooked).
Trim_Short(buf, tag) ==
    Max({0} \cup {n \in 1 .. Min({Len(tag) - 2, Len(buf)}) : IsSuffix(SubSeq(tag, 1, n), buf)})
Trim(buf, tag) ==
    Max({0} \cup {n \in 1 .. Min({Len(tag) - 1, Len(buf)}) : IsSuffix(SubSeq(tag, 1, n), buf)})

\* One turn of the loop: p.at is pos, p.out[b] the text of a mode.
Turn(buf, p) ==
    LET tag == Tag(p.mode)
        found == FindTag(buf, tag, p.at)
        kept == Trim(buf, tag)
    IN  IF p.at > Len(buf) THEN p
        ELSE IF found <= Len(buf)
        THEN [p EXCEPT !.out[p.mode] = @ \o SubSeq(buf, p.at, found - 1),
                       !.mode = ~@, !.at = found + Len(tag)]
        ELSE [p EXCEPT !.out[p.mode] = @ \o SubSeq(buf, p.at, Len(buf) - kept),
                       !.rest = SubSeq(buf, Len(buf) - kept + 1, Len(buf)),
                       !.at = Len(buf) + 1]

Parsing(mode) == [mode |-> mode, at |-> 1, rest |-> <<>>, out |-> [b \in BOOLEAN |-> <<>>]]

\* The loop ends after as many turns as buf is long.
Parse_(buf, mode) ==
    LET turns[n \in 0 .. Len(buf)] ==
            IF n = 0 THEN Parsing(mode) ELSE Turn(buf, turns[n - 1])
    IN  turns[Len(buf)]

ParseTags(k) ==
    LET p == Parse_(buffer \o Next_(k), inThinking)
    IN  /\ thinkingOut' = thinkingOut \o p.out[TRUE]
        /\ contentOut' = contentOut \o p.out[FALSE]
        /\ inThinking' = p.mode /\ buffer' = p.rest

----------------------------------------------------------------------------
(* feed *)

\* A chunk with content only.
FeedContent(k) ==
    /\ k \in 1 .. Len(streamText) - readTo
    /\ readTo' = readTo + k
    /\ IF sawReasoning
       THEN /\ contentOut' = contentOut \o Next_(k)
            /\ inThinking' = FALSE
            /\ afterText' = afterText \o Next_(k)
            /\ UNCHANGED <<buffer, thinkingOut, tagged>>
       ELSE ParseTags(k) /\ tagged' = tagged + k /\ UNCHANGED afterText
    /\ UNCHANGED <<streamText, sawReasoning, fieldText>>

\* A chunk with k characters of reasoning_content, and perhaps j of content.  What
\* the buffer holds stays there.
FeedReasoning(k, j) ==
    /\ k \in 1 .. Len(streamText) - readTo /\ j \in 0 .. Len(streamText) - readTo - k
    /\ readTo' = readTo + k + j
    /\ sawReasoning' = TRUE
    /\ inThinking' = (j = 0)
    /\ thinkingOut' = thinkingOut \o Next_(k)
    /\ contentOut' = contentOut \o SubSeq(streamText, readTo + k + 1, readTo + k + j)
    /\ fieldText' = fieldText \o Next_(k)
    /\ afterText' = afterText \o SubSeq(streamText, readTo + k + 1, readTo + k + j)
    /\ UNCHANGED <<streamText, buffer, tagged>>

ParserNext ==
    \/ \E k \in 1 .. MaxChunk : FeedContent(k)
    \/ Fields /\ \E k \in 1 .. MaxChunk, j \in 0 .. 1 : FeedReasoning(k, j)

ParserSpec == ParserInit /\ [][ParserNext]_parserVars

----------------------------------------------------------------------------
(* Properties *)

\* The reference reads character by character: what may still become the tag is
\* held back, and what did not become it goes to the text of the mode.
Start == [mode |-> FALSE, held |-> <<>>, out |-> [b \in BOOLEAN |-> <<>>]]

Holds(seq, tag) == IsStrictPrefix(seq, tag)

Read(r, c) ==
    LET held == Append(r.held, c)
        tag == Tag(r.mode)
    IN  IF held = tag THEN [r EXCEPT !.mode = ~@, !.held = <<>>]
        ELSE IF Holds(held, tag) THEN [r EXCEPT !.held = held]
        ELSE IF Holds(<<c>>, tag) THEN [r EXCEPT !.out[r.mode] = @ \o r.held, !.held = <<c>>]
        ELSE [r EXCEPT !.out[r.mode] = @ \o held, !.held = <<>>]

Reference(text) ==
    LET reads[n \in 0 .. Len(text)] ==
            IF n = 0 THEN Start ELSE Read(reads[n - 1], text[n])
    IN  reads[Len(text)]

Tagged == Reference(SubSeq(streamText, 1, tagged))

\* Wherever the chunks cut the text, tags included, what comes before the server
\* uses its field is divided as if it had come in one piece; from then on the field
\* is thinking and the rest is content, with tags left in it as text.
DividedAsSent ==
    /\ thinkingOut = Tagged.out[TRUE] \o fieldText
    /\ contentOut = Tagged.out[FALSE] \o afterText

\* The buffer holds what may be the beginning of a tag, and just that is under
\* neither heading: it comes out when more text decides about it.  It never does
\* when the stream ends there, or when the field is used before.
OnlyBeginningsHeld == buffer = Tagged.held

\* Until the field is used all the text is read for tags, and the mode is theirs.
TagsDecide ==
    ~sawReasoning => tagged = readTo /\ fieldText = <<>> /\ afterText = <<>> /\ inThinking = Tagged.mode

\* Every character comes out once, under the heading that the tags or the field give
\* it, but for the beginning of a tag that is still held.
SplitSound == DividedAsSent /\ OnlyBeginningsHeld /\ TagsDecide

\* What the documentation of the module says of a stream that changes from tags to
\* the field (:31 "Mixed mode ... gracefully handled"): no text stays behind.  It
\* fails when the text before the field ends like the beginning of a tag.
MixedModeKeepsText == sawReasoning => buffer = <<>>
=============================================================================
