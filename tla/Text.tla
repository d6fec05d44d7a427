-------------------------------- MODULE Text --------------------------------
(***************************************************************************)
(* include/util/string_util.hpp, and the one call at a time in which the   *)
(* modules above it exercise their pure functions.                         *)
(*                                                                         *)
(* A string is a sequence of ASCII codes.  Offsets count from 0, as in the *)
(* code, and Len(s) stands for npos.                                       *)
(***************************************************************************)
EXTENDS Integers, FiniteSets, SequencesExt

CONSTANTS
    Letters,    \* the characters the texts are made of
    MaxText     \* bound on their length

VARIABLE call   \* the call made: its function, arguments and result

NoCall == [fn |-> "none"]

\* find_first_of(), from an offset.
Find(s, S, from) ==
    LET hits == {i \in from..Len(s) - 1 : s[i + 1] \in S}
    IN IF hits = {} THEN Len(s) ELSE Min(hits)

\* The characters from an offset up to another.
Slice(s, from, to) == SubSeq(s, from + 1, to)
From(s, from) == Slice(s, from, Len(s))

Texts == SeqOf(Letters, MaxText)

Blanks == {8, 9, 10, 11, 12, 13, 32}
DoubleQuote == 34
Quote == 39

tolower(c) == IF c \in 65..90 THEN c + 32 ELSE c
Lower(s) == [i \in DOMAIN s |-> tolower(s[i])]
equal_ignore_case(l, r) == Lower(l) = Lower(r)

\* The generator's strings, in order.
RECURSIVE split_string(_, _, _)
split_string(input, sep, start) ==
    LET next == Find(input, {sep}, start)
    IN IF next = Len(input) THEN <<From(input, start)>>
       ELSE <<Slice(input, start, next)>> \o split_string(input, sep, next + 1)

\* Mutant of trim_string: the last character that is not blank is left out.
trim_string_short(str) ==
    LET ink == {i \in DOMAIN str : str[i] \notin Blanks}
    IN IF ink = {} THEN str ELSE SubSeq(str, Min(ink), Max(ink) - 1)

\* A string of blanks is left as it is: find_last_not_of() finds nothing, and
\* the count is then one more than the length.
trim_string(str) ==
    LET ink == {i \in DOMAIN str : str[i] \notin Blanks}
    IN IF ink = {} THEN str ELSE SubSeq(str, Min(ink), Max(ink))

join(join_with, strings) ==
    IF strings = <<>> THEN <<>>
    ELSE FoldLeft(LAMBDA out, s : out \o join_with \o s, Head(strings), Tail(strings))

\* Two quotes around nothing are kept.
unquote(str) ==
    IF Len(str) >= 3 /\ str[1] \in {Quote, DoubleQuote} /\ str[1] = Last(str)
    THEN SubSeq(str, 2, Len(str) - 1) ELSE str

\* The first of the pairs that fits is used; an empty text to replace would
\* never end.
RECURSIVE replace_all(_, _)
replace_all(view, replacements) ==
    LET fits == {i \in DOMAIN replacements : IsPrefix(replacements[i][1], view)}
        pair == replacements[Min(fits)]
    IN IF view = <<>> THEN <<>>
       ELSE IF fits = {} THEN <<Head(view)>> \o replace_all(Tail(view), replacements)
       ELSE pair[2] \o replace_all(From(view, Len(pair[1])), replacements)

RECURSIVE replace(_, _, _)
replace(view, this, with_this) ==
    IF view = <<>> THEN <<>>
    ELSE IF IsPrefix(this, view) THEN with_this \o replace(From(view, Len(this)), this, with_this)
    ELSE <<Head(view)>> \o replace(Tail(view), this, with_this)

-----------------------------------------------------------------------------

\* Every function on every text of letters.
CallText ==
    \E s \in Texts, a, b \in Letters :
      \/ call' = [fn |-> "split", s |-> s, sep |-> a, out |-> split_string(s, a, 0)]
      \/ call' = [fn |-> "trim", s |-> s, out |-> trim_string(s)]
      \/ call' = [fn |-> "unquote", s |-> s, out |-> unquote(s)]
      \/ \E with \in {<<>>, <<a>>, <<b, b>>} :
           call' = [fn |-> "replace", s |-> s, this |-> <<a, b>>, with |-> with,
                    out |-> replace(s, <<a, b>>, with)]
      \/ call' = [fn |-> "replace_all", s |-> s, this |-> a, other |-> b,
                  out |-> replace_all(s, << <<<<a>>, <<b>>>>, <<<<b>>, <<a>>>> >>)]

\* What the functions promise.  Splitting loses nothing: the pieces hold no
\* separator and join() puts the text together again.  Trimming takes blanks and
\* nothing else.  Replacing changes every occurrence, where they cannot overlap,
\* and what replace_all() writes for one letter is not replaced again for another.
TextFunctions ==
    CASE call.fn = "split" ->
           /\ join(<<call.sep>>, call.out) = call.s
           /\ \A i \in DOMAIN call.out : ~Contains(call.out[i], call.sep)
      [] call.fn = "trim" ->
           /\ \E i, j \in 0..Len(call.s) :
                /\ Slice(call.s, i, j) = call.out
                /\ \A k \in 1..Len(call.s) : k =< i \/ k > j => call.s[k] \in Blanks
           /\ (\E c \in ToSet(call.s) : c \notin Blanks) =>
                call.out[1] \notin Blanks /\ Last(call.out) \notin Blanks
      [] call.fn = "unquote" ->
           \E q \in {<<>>, <<Quote>>, <<DoubleQuote>>} : q \o call.out \o q = call.s
      [] call.fn = "replace" ->
           LET at == {i \in 1..Len(call.s) - 1 : SubSeq(call.s, i, i + 1) = call.this}
           IN call.this[1] # call.this[2] =>
                call.out = FlattenSeq([i \in DOMAIN call.s |-> IF i \in at THEN call.with
                                                              ELSE IF i - 1 \in at THEN <<>> ELSE <<call.s[i]>>])
      [] call.fn = "replace_all" ->
           /\ Len(call.out) = Len(call.s)
           /\ \A i \in DOMAIN call.s :
                call.out[i] = IF call.s[i] = call.this THEN call.other
                              ELSE IF call.s[i] = call.other THEN call.this ELSE call.s[i]
      [] OTHER -> TRUE

=============================================================================
