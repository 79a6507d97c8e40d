------------------------------ MODULE Patterns ------------------------------
(***************************************************************************)
(* The patterns of genpat.c that a request is matched against: a regular   *)
(* expression (of which a prefix with one group after it stands for all),  *)
(* the exact, prefix and suffix comparisons, and the search for a          *)
(* substring with the tables of Boyer and Moore.  A text is a sequence of  *)
(* characters; Upper is the case mapping of the -icase option.             *)
(***************************************************************************)
EXTENDS Integers, Sequences, FiniteSets, SequencesExt

CONSTANT Upper(_)     \* casemap: the upper-case equivalent of a character

\* The character at offset i, counted from 0 as in the code.
At(s, i) == s[i + 1]

UC(p, c) == IF p.ci THEN Upper(c) ELSE c

MapCase(p, s) == [k \in DOMAIN s |-> UC(p, s[k])]

(***************************************************************************)
(* The comparisons without tables.  Only a regular expression has groups:  *)
(* genpat_nsub counts the match as a whole as one of them.                 *)
(***************************************************************************)
exact_exec(p, s) == MapCase(p, s) = MapCase(p, p.lit)

prefix_exec(p, s) == IsPrefix(MapCase(p, p.lit), MapCase(p, s))

suffix_exec(p, s) == IsSuffix(MapCase(p, p.lit), MapCase(p, s))

genpat_nsub(p) == IF p.kind = "re" THEN 2 ELSE 0

-----------------------------------------------------------------------------
(***************************************************************************)
(* The search for a substring.  P is the pattern, already mapped to upper  *)
(* case when the search ignores case.                                      *)
(***************************************************************************)
fill_bad_char_delta(P, c) ==
    LET places == {i \in 0 .. Len(P) - 1 : At(P, i) = c}
    IN  IF places = {} THEN Len(P) - 1
        ELSE Len(P) - 1 - (CHOOSE i \in places : \A k \in places : k <= i)

\* The function of the code that says whether the text from pos on is a
\* prefix: the result of memcmp compared with 0.
is_prefix(P, pos) == SubSeq(P, 1, Len(P) - pos) # SubSeq(P, pos + 1, Len(P))

longest_suffix_length(P, pos) ==
    CHOOSE n \in 0 .. pos :
        /\ \A k \in 0 .. n - 1 : At(P, pos - k) = At(P, Len(P) - 1 - k)
        /\ n < pos => At(P, pos - n) # At(P, Len(P) - 1 - n)

\* The j of the first loop of fill_good_pfx_delta when it stores element i:
\* the last assignment is that of the smallest index from i up.
PrefixIndex(P, i) ==
    LET set == {k \in i .. Len(P) - 1 : is_prefix(P, k + 1)}
    IN  IF set = {} THEN 1 ELSE (CHOOSE k \in set : \A l \in set : k <= l) + 1

\* The second loop overwrites the element for a suffix that occurs elsewhere
\* after another character; the last occurrence is the one that stays.
fill_good_pfx_delta(P, i) ==
    LET last == Len(P) - 1
        occurs == {k \in 0 .. last - 1 :
                     LET n == longest_suffix_length(P, k)
                     IN  /\ last - n = i
                         /\ At(P, k - n) # At(P, last - n)}
    IN  IF occurs = {} THEN PrefixIndex(P, i) + last - i
        ELSE LET k == CHOOSE k \in occurs : \A l \in occurs : l <= k
             IN  last - k + longest_suffix_length(P, k)

\* How many characters agree, from the end of P, with the subject before
\* and at offset i.
Agreeing(P, s, i) ==
    CHOOSE n \in 0 .. Len(P) :
        /\ \A k \in 0 .. n - 1 : At(s, i - k) = At(P, Len(P) - 1 - k)
        /\ n < Len(P) => At(s, i - n) # At(P, Len(P) - 1 - n)

Larger(a, b) == IF a > b THEN a ELSE b

\* The offset strstr_exec compares at next, after a mismatch.
NextOffset(P, s, i) ==
    LET n == Agreeing(P, s, i)
    IN  i - n + Larger(fill_bad_char_delta(P, At(s, i - n)),
                       fill_good_pfx_delta(P, Len(P) - 1 - n))

strstr_exec(p, s) ==
    LET P == MapCase(p, p.lit)
        S == MapCase(p, s)
        Search[i \in 0 .. 2 * (Len(S) + Len(P))] ==
            /\ i < Len(S)
            /\ \/ Agreeing(P, S, i) = Len(P)
               \/ Agreeing(P, S, i) # Len(P) /\ Search[NextOffset(P, S, i)]
    IN  P = << >> \/ Search[Len(P) - 1]

\* genpat_match of a pattern of each kind.
genpat_match(p, s) ==
    CASE p.kind = "exact"   -> exact_exec(p, s)
      [] p.kind = "end"     -> suffix_exec(p, s)
      [] p.kind = "contain" -> strstr_exec(p, s)
      [] OTHER              -> prefix_exec(p, s)

\* What the expression of a "re" pattern captures: all of the subject, and
\* what follows the prefix.
Groups(p, s) == IF p.kind = "re"
                THEN << s, SubSeq(s, Len(p.lit) + 1, Len(s)) >> ELSE << >>
=============================================================================
