---------------------------- MODULE RepetitionGuard ----------------------------
(***************************************************************************)
(* The watchdog that ends a stream of a model that repeats itself          *)
(* (dgxarley/integration/streaming_repetition_guard.py): guarded_stream    *)
(* feeds the reasoning and the content of every chunk to a guard each and  *)
(* hands the chunk on unless one of them says stop.                        *)
(*                                                                         *)
(* A text is a sequence of units: words, marks that end a sentence, and    *)
(* structure of markdown.  Chunks consist of whole units.                  *)
(***************************************************************************)
EXTENDS Naturals, Sequences, SequencesExt, FiniteSets, FiniteSetsExt

CONSTANTS
    Words, Bar,     \* words; a character of a table or a rule
    Ends,           \* the marks that end a sentence, in the order they are tried
    GramN, MaxCount, ScaleTokens, MinRatio,     \* ngram_n, ...; MinRatio in percent
    Window, MinPattern, PatternStep, MinReps,   \* suffix_window, ..., in units
    StagWindow, StagPercent, MinTokens, CheckEvery,
    Slack,          \* how far into the window a clean cut may lie (100 characters)
    Said,           \* bound: Said[s], the units that occur in a stream
    MaxUnits        \* bound: MaxUnits[s], their number

ASSUME GuardAssumption ==
    /\ Words \subseteq Nat /\ Bar \notin Words
    /\ Ends \in Seq(Nat) /\ ToSet(Ends) \cap (Words \cup {Bar}) = {}
    /\ {GramN, MinPattern, PatternStep, MinReps, StagWindow, CheckEvery, MaxCount}
           \subseteq Nat \ {0}
    /\ {ScaleTokens, MinRatio, Window, StagPercent, MinTokens, Slack} \subseteq Nat

TextUnits == Words \cup {Bar} \cup ToSet(Ends)
Streams == {"reasoning", "content"}

ASSUME StreamAssumption == \A s \in Streams : Said[s] \subseteq TextUnits /\ MaxUnits[s] \in Nat

VARIABLES
    guards,     \* the guards
    outcome,    \* what on_stop was told, or "open"
    yielded     \* units of each stream that were handed on

guardVars == <<guards, outcome, yielded>>

NewGuard == [text |-> <<>>, tokens |-> <<>>, feeds |-> 0, grams |-> << >>, worst |-> 0,
             early |-> {}, frozen |-> FALSE, clean |-> 0]

GuardInit ==
    /\ guards = [s \in Streams |-> NewGuard]
    /\ outcome = "open"
    /\ yielded = [s \in Streams |-> 0]

----------------------------------------------------------------------------
(* N-grams: _update_ngrams *)

\* The words of a text, in their order: kept[n] are those of its first n units.
Tokens(text) ==
    LET kept[n \in 0 .. Len(text)] ==
            IF n = 0 THEN <<>>
            ELSE kept[n - 1] \o (IF text[n] \in Words THEN <<text[n]>> ELSE <<>>)
    IN  kept[Len(text)]

Gram(tokens, i) == SubSeq(tokens, i, i + GramN - 1)

\* The places of the n-grams that a chunk with `new` words completes (mutant:
\* those that lie in the chunk).
NewPlaces_Inside(tokens, new) ==
    {i \in 1 .. Len(tokens) - GramN + 1 : i > Len(tokens) - new}
NewPlaces(tokens, new) ==
    {i \in 1 .. Len(tokens) - GramN + 1 : i > Len(tokens) - new - GramN + 1}

Counted(grams, tokens, places) ==
    [g \in DOMAIN grams \cup {Gram(tokens, i) : i \in places} |->
        (IF g \in DOMAIN grams THEN grams[g] ELSE 0)
        + Cardinality({i \in places : Gram(tokens, i) = g})]

Worst(grams) == IF grams = << >> THEN 0 ELSE Max({grams[g] : g \in DOMAIN grams})

\* The n-grams of the first words are what the later ones are compared with.
Freezes(g, count) == ~g.frozen /\ count >= GramN /\ count >= MinTokens

Fed(g, chunk) ==
    LET new == Tokens(chunk)
        tokens == g.tokens \o new
        grams == Counted(g.grams, tokens, NewPlaces(tokens, Len(new)))
        freeze == Freezes(g, Len(tokens))
    IN  [g EXCEPT !.text = @ \o chunk, !.tokens = tokens, !.feeds = @ + 1,
                  !.grams = grams, !.worst = Worst(grams),
                  !.early = IF freeze THEN DOMAIN grams ELSE @,
                  !.frozen = @ \/ freeze]

----------------------------------------------------------------------------
(* The three checks *)

EffectiveMax(count) == MaxCount + IF ScaleTokens = 0 THEN 0 ELSE count \div ScaleTokens

Flood(g) ==
    LET count == Len(g.tokens)
    IN  g.worst >= EffectiveMax(count) /\ 100 * g.worst * GramN >= MinRatio * count

LastN(seq, n) == IF Len(seq) > n THEN SubSeq(seq, Len(seq) - n + 1, Len(seq)) ELSE seq

\* The k-th block of length p from the end, and the blocks that are 90 % like the last
Block(tail, p, k) == SubSeq(tail, Len(tail) - k * p + 1, Len(tail) - (k - 1) * p)
Alike(a, b) == 10 * Cardinality({i \in DOMAIN a : a[i] = b[i]}) >= 9 * Len(a)
Reps(tail, p) ==
    Max({r \in 1 .. Len(tail) \div p : \A k \in 1 .. r : Alike(Block(tail, p, k), Block(tail, p, 1))})

PatternLengths(tail) ==
    {p \in MinPattern .. Len(tail) \div 2 : (p - MinPattern) % PatternStep = 0}

\* The shortest of the patterns with the most repetitions
BestPattern(tail) ==
    LET most == Max({Reps(tail, p) : p \in PatternLengths(tail)})
    IN  Min({p \in PatternLengths(tail) : Reps(tail, p) = most})

SuffixLoop(g) ==
    LET tail == LastN(g.text, Window)
    IN  /\ PatternLengths(tail) # {}
        /\ Reps(tail, BestPattern(tail)) >= MinReps
        /\ ToSet(Block(tail, BestPattern(tail), 1)) # {Bar}     \* a table or a rule

Stagnates(g) ==
    LET recent == LastN(g.tokens, StagWindow)
        grams == {Gram(recent, i) : i \in 1 .. Len(recent) - GramN + 1}
    IN  /\ g.frozen
        /\ Len(g.tokens) >= StagWindow + GramN
        /\ grams # {}
        /\ 100 * Cardinality(grams \cap g.early) >= StagPercent * Cardinality(grams)

\* feed, after the text was taken in.
Reason(g) ==
    IF Len(g.tokens) < MinTokens \/ g.feeds % CheckEvery # 0 THEN "none"
    ELSE IF Flood(g) THEN "flood"
    ELSE IF SuffixLoop(g) THEN "suffix"
    ELSE IF Stagnates(g) THEN "stagnation" ELSE "none"

----------------------------------------------------------------------------
(* _mark_loop_start *)

\* The part a cut may lie in.
CutLimit(text) == Min({Len(text), (IF Len(text) > Window THEN Len(text) - Window ELSE 0) + Slack})

LastAt(text, mark, limit) == Max({0} \cup {i \in 1 .. limit : text[i] = mark})

\* The first mark that occurs decides, although another may occur later.
CleanCut(text) ==
    LET found == {n \in DOMAIN Ends : LastAt(text, Ends[n], CutLimit(text)) # 0}
    IN  IF found = {} THEN 0 ELSE LastAt(text, Ends[Min(found)], CutLimit(text))

Marked(g) == IF Reason(g) = "none" THEN g ELSE [g EXCEPT !.clean = Max({@, CleanCut(g.text)})]

----------------------------------------------------------------------------
(* guarded_stream *)

Judged(s, chunk) == IF chunk = <<>> THEN guards[s] ELSE Marked(Fed(guards[s], chunk))

\* What the guard says of a chunk; the cut it may have set does not matter here.
Verdict(chunk, judged) == IF chunk = <<>> THEN "none" ELSE Reason(judged)

StreamChunk(reasoning, content) ==
    LET r == Judged("reasoning", reasoning)
        c == Judged("content", content)
        ofR == Verdict(reasoning, r)
        ofC == Verdict(content, c)
    IN  /\ outcome = "open"
        /\ IF ofR # "none"
           THEN /\ guards' = [guards EXCEPT !["reasoning"] = r]
                /\ outcome' = ofR
                /\ UNCHANGED yielded
           ELSE /\ guards' = [reasoning |-> r, content |-> c]
                /\ IF ofC # "none"
                   THEN outcome' = ofC /\ UNCHANGED yielded
                   ELSE /\ yielded' = [reasoning |-> yielded["reasoning"] + Len(reasoning),
                                       content |-> yielded["content"] + Len(content)]
                        /\ UNCHANGED outcome

\* At most two units arrive at once; words are numbered in the order they appear.
Fresh(text) == Max({0} \cup (Words \cap ToSet(text))) + 1
Chunks(s) ==
    LET next == {u \in Said[s] : u \in Words => u <= Fresh(guards[s].text)}
    IN  {c \in BoundedSeq(next, 2) : Len(guards[s].text) + Len(c) <= MaxUnits[s]}

GuardNext ==
    /\ outcome = "open"
    /\ \E r \in Chunks("reasoning"), c \in Chunks("content") :
          /\ Len(r) + Len(c) \in 1 .. 2
          /\ StreamChunk(r, c)

GuardSpec == GuardInit /\ [][GuardNext]_guardVars

----------------------------------------------------------------------------
(* Properties *)

Occurrences(tokens, gram) ==
    Cardinality({i \in 1 .. Len(tokens) - GramN + 1 : Gram(tokens, i) = gram})

\* However a text is cut into chunks, the words and the counts kept chunk by chunk
\* are those of the whole text and of its n-grams.
CountsExact ==
    \A s \in Streams :
        LET tokens == Tokens(guards[s].text)
        IN  /\ guards[s].tokens = tokens
            /\ DOMAIN guards[s].grams = {Gram(tokens, i) : i \in 1 .. Len(tokens) - GramN + 1}
            /\ \A g \in DOMAIN guards[s].grams : guards[s].grams[g] = Occurrences(tokens, g)

Recurs(seq) ==
    \E i, j \in 1 .. Len(seq) - GramN + 1 : i # j /\ Gram(seq, i) = Gram(seq, j)

\* A stream is stopped only when one text says an n-gram again: words shared by
\* the reasoning and the content are not counted together, a first occurrence is
\* not taken for recycled, and tables and rules alone do not stop it.
FreshTextPasses ==
    outcome # "open" =>
        \E s \in Streams : Recurs(Tokens(guards[s].text)) \/ Recurs(guards[s].text)

\* A text that goes on with one word is stopped as soon as there are as many of
\* it as a pattern must repeat, and the chunks between two checks.
LoopLimit == MinReps + 2 * (CheckEvery - 1)
LoopIsCaught ==
    outcome = "open" =>
        \A s \in Streams : LET tail == LastN(guards[s].text, LoopLimit)
                           IN  Len(tail) = LoopLimit /\ Len(tail) >= MinTokens
                                   => Cardinality(ToSet(tail)) > 1 \/ tail[1] \notin Words

\* What is kept of a stopped text ends with a sentence, in the part that was
\* written before the window the repetition was found in.
CleanBeforeLoop ==
    \A s \in Streams :
        LET g == guards[s]
        IN  /\ g.clean # 0 => g.text[g.clean] \in ToSet(Ends)
            /\ g.clean <= Slack + (IF Len(g.text) > Window THEN Len(g.text) - Window ELSE 0)
            /\ outcome # "open" /\ g.clean = 0 /\ Reason(g) # "none" =>
                   \A i \in 1 .. Len(g.text) : i + Window <= Len(g.text) => g.text[i] \notin ToSet(Ends)

\* A stream is stopped when its text as a whole asks for it, and only then, and is
\* cut where the text was still good, wherever its chunks ended.
GuardSound == CountsExact /\ FreshTextPasses /\ LoopIsCaught /\ CleanBeforeLoop
=============================================================================
