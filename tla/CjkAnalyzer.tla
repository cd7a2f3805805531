---------------------------- MODULE CjkAnalyzer ----------------------------
(***************************************************************************)
(* src/index/fulltext/analyzer.rs: CjkAnalyzer::tokenize, one step per     *)
(* round of its loop, over every text of bounded length.                   *)
(*                                                                         *)
(* A character is its class, since the loop only asks three questions of   *)
(* it; the text of a token is the stretch of characters it is made of      *)
(* (lowercasing a word does not move its ends).                            *)
(***************************************************************************)
EXTENDS Integers, Sequences, SequencesExt

CONSTANT MaxLen   \* bound on the length of a text

ASSUME MaxLenAssumption == MaxLen \in Nat

(***************************************************************************)
(* Ideographs, kana and Hangul are alphabetic to char::is_alphabetic; some *)
(* characters in the same ranges, such as the katakana middle dot, are     *)
(* not: "mark".  A letter number, such as a Roman numeral or the           *)
(* ideographic zero, is outside those ranges, alphabetic and numeric.      *)
(***************************************************************************)
Chars == {"cjk", "mark", "latin", "letternumber", "digit", "other"}

is_cjk(c) == c \in {"cjk", "mark"}
is_alphabetic(c) == c \in {"cjk", "latin", "letternumber"}
is_numeric(c) == c \in {"digit", "letternumber"}

VARIABLES
    chars,    \* the text
    i,        \* the next character, counted from 1
    pos,      \* the next position
    tokens

locals == <<chars, i, pos, tokens>>

Token(from, to, p) == [from |-> from, to |-> to, position |-> p]

End == Len(chars)
More == i <= End

\* A CJK character: a bigram with the next one if that is CJK, and itself.
Bigram ==
    /\ More /\ is_cjk(chars[i])
    /\ LET two == i + 1 <= End /\ is_cjk(chars[i + 1])
       IN  /\ tokens' = tokens \o (IF two THEN <<Token(i, i + 1, pos)>> ELSE <<>>)
                               \o <<Token(i, i, IF two THEN pos + 1 ELSE pos)>>
           /\ pos' = IF two THEN pos + 2 ELSE pos + 1
    /\ i' = i + 1
    /\ UNCHANGED chars

\* The inner loops stop at the first character that is not of the kind.
EndOfRun(Is(_)) ==
    CHOOSE e \in i .. End + 1 :
        /\ \A k \in i .. e - 1 : Is(chars[k])
        /\ e = End + 1 \/ ~Is(chars[e])

Run(Is(_)) ==
    /\ tokens' = Append(tokens, Token(i, EndOfRun(Is) - 1, pos))
    /\ pos' = pos + 1
    /\ i' = EndOfRun(Is)
    /\ UNCHANGED chars

Word == More /\ ~is_cjk(chars[i]) /\ is_alphabetic(chars[i]) /\ Run(is_alphabetic)

\* Mutant: a number runs on through letters.
NumberRunsOn ==
    /\ More /\ ~is_cjk(chars[i]) /\ ~is_alphabetic(chars[i]) /\ is_numeric(chars[i])
    /\ Run(LAMBDA c : is_numeric(c) \/ is_alphabetic(c))

Number ==
    /\ More /\ ~is_cjk(chars[i]) /\ ~is_alphabetic(chars[i]) /\ is_numeric(chars[i])
    /\ Run(is_numeric)

\* Mutant: the loop goes round without moving on.
SkipNothing ==
    /\ More /\ ~is_cjk(chars[i]) /\ ~is_alphabetic(chars[i]) /\ ~is_numeric(chars[i])
    /\ UNCHANGED locals

Skip ==
    /\ More /\ ~is_cjk(chars[i]) /\ ~is_alphabetic(chars[i]) /\ ~is_numeric(chars[i])
    /\ i' = i + 1
    /\ UNCHANGED <<chars, pos, tokens>>

Start ==
    /\ chars \in BoundedSeq(Chars, MaxLen)
    /\ i = 1 /\ pos = 0 /\ tokens = <<>>

Round == Bigram \/ Word \/ Number \/ Skip

\* A loop in one thread: it goes on while it can.
Tokenize == Start /\ [][Round]_locals /\ WF_locals(Round)

-----------------------------------------------------------------------------
(* What a text should be cut into, without a loop                          *)

\* A number: a digit, and what is numeric after it.
InNumber(k) ==
    \E j \in 1 .. k : chars[j] = "digit" /\ \A m \in j .. k : is_numeric(chars[m])

\* A word: a letter that is neither CJK nor in a number, and the letters after
\* it, CJK or not.
InWord(k) ==
    \E j \in 1 .. k :
        /\ chars[j] \in {"latin", "letternumber"} /\ ~InNumber(j)
        /\ \A m \in j .. k : is_alphabetic(chars[m])

Numbers == {k \in 1 .. End : InNumber(k)}
Words == {k \in 1 .. End : InWord(k)}
Apart(k) == is_cjk(chars[k]) /\ ~InWord(k)

\* From a to b, and not further, the text is in S.
Stretch(S, a, b) == a .. b \subseteq S /\ a - 1 \notin S /\ b + 1 \notin S

\* The stretches that are terms: every CJK character outside the words, every
\* two of them in a row, the words and the numbers.
IsTerm(a, b) ==
    /\ a <= b
    /\ \/ b <= a + 1 /\ Apart(a) /\ Apart(b)
       \/ Stretch(Words, a, b)
       \/ Stretch(Numbers, a, b)

Terms == {t \in (1 .. End) \X (1 .. End) : IsTerm(t[1], t[2])}

Done == i > End

TokensTyped ==
    /\ chars \in BoundedSeq(Chars, MaxLen)
    /\ i \in 1 .. End + 1
    /\ pos \in 0 .. 2 * MaxLen
    /\ Range(tokens) \subseteq {Token(a, b, p) : a, b \in 1 .. End, p \in 0 .. 2 * MaxLen}

(***************************************************************************)
(* After every round the tokens are exactly the terms that start in the    *)
(* part already read: at the end nothing is missing and nothing is cut     *)
(* wrongly, at the ends of the text and where scripts meet.                *)
(***************************************************************************)
TermsAreExact ==
    {<<tokens[k].from, tokens[k].to>> : k \in DOMAIN tokens}
        = {t \in Terms : t[1] < i}

(***************************************************************************)
(* Positions number the tokens without gaps, in the order of the text, a   *)
(* bigram before its first character; no term comes twice.                 *)
(***************************************************************************)
PositionsFollowText ==
    /\ pos = Len(tokens)
    /\ \A k \in DOMAIN tokens : tokens[k].position = k - 1
    /\ \A j, k \in DOMAIN tokens :
          j < k => \/ tokens[j].from < tokens[k].from
                   \/ tokens[j].from = tokens[k].from /\ tokens[j].to > tokens[k].to

(***************************************************************************)
(* The tokens of a text are its terms, each once, in order.                *)
(***************************************************************************)
TokensAreExact == TokensTyped /\ TermsAreExact /\ PositionsFollowText

(***************************************************************************)
(* tokenize returns, on every text.                                        *)
(***************************************************************************)
Returns == <>Done

-----------------------------------------------------------------------------
\* "CJK chars -> overlapping bigrams + single chars (boundary coverage)",
\* analyzer.rs:4: also of a CJK character that follows a letter.
EveryCjkIsATerm ==
    Done => \A k \in 1 .. End :
               is_cjk(chars[k]) => \E n \in DOMAIN tokens :
                                      tokens[n].from = k /\ tokens[n].to = k
=============================================================================
