------------------------------ MODULE CString ------------------------------
(***************************************************************************)
(* "C String/string.h": the comparing and searching functions as           *)
(* operators, each held against what the C standard says of it, and strtok *)
(* as a state machine, because it keeps its place from call to call.       *)
(* A string is the sequence of its chars in front of the 0; a char is      *)
(* signed.  A pointer into a string is a position in it, 0 is NULL.        *)
(* strcpy, strcat and strdup are \o on such sequences and are left out.    *)
(***************************************************************************)
EXTENDS Integers, Sequences, FiniteSets

CONSTANTS Chars,      \* the chars of the model, without 0
          MaxLength,  \* bound of the model: the length of a string
          SizeMod     \* number of values of size_t

CStringAssumption ==
    /\ Chars \subseteq (-128..127) \ {0} /\ MaxLength \in Nat
    /\ SizeMod \in Nat /\ SizeMod > MaxLength + 1

Strings == UNION {[1..n -> Chars] : n \in 0..MaxLength}

At(s, i) == IF i <= Len(s) THEN s[i] ELSE 0
From(s, i) == SubSeq(s, i, Len(s))
Least(S) == CHOOSE m \in S : \A n \in S : m <= n

-----------------------------------------------------------------------------
(* The functions.                                                          *)

\* strncmp; the count is compared after it has been taken one down, in size_t.
Strncmp(s, t, n) ==
    LET cmp[rest \in (1..MaxLength + 1) \X (0..SizeMod - 1)] ==
            LET i == rest[1]  left == (rest[2] - 1) % SizeMod IN
            IF At(s, i) = 0 \/ At(t, i) = 0 \/ At(s, i) # At(t, i)
            THEN At(s, i) - At(t, i)
            ELSE IF left = 0 THEN 0 ELSE cmp[<<i + 1, left>>]
    IN cmp[<<1, n>>]

\* strcmp is the same without a count: one that does not run out here.
Strcmp(s, t) == Strncmp(s, t, SizeMod - 1)

\* strchr: the 0 at the end is never found.
Strchr(s, c) ==
    LET seek[i \in 1..Len(s) + 1] ==
            IF At(s, i) = 0 THEN 0 ELSE IF s[i] = c THEN i ELSE seek[i + 1]
    IN seek[1]

Strpbrk(s, t) ==
    LET seek[i \in 1..Len(s) + 1] ==
            IF At(s, i) = 0 THEN 0 ELSE IF Strchr(t, s[i]) # 0 THEN i ELSE seek[i + 1]
    IN seek[1]

\* (fault) ">" for ">="
StrstrLonger(h, n) ==
    LET seek[i \in 1..Len(h) + 1] ==
            IF At(h, i) = 0 THEN 0
            ELSE IF Len(h) - i + 1 > Len(n) /\ Strncmp(From(h, i), n, Len(n)) = 0 THEN i
            ELSE seek[i + 1]
    IN seek[1]

Strstr(h, n) ==
    LET seek[i \in 1..Len(h) + 1] ==
            IF At(h, i) = 0 THEN 0
            ELSE IF Len(h) - i + 1 >= Len(n) /\ Strncmp(From(h, i), n, Len(n)) = 0 THEN i
            ELSE seek[i + 1]
    IN seek[1]

Strcspn(s, t) ==
    LET span[i \in 1..Len(s) + 1] ==
            IF At(s, i) = 0 THEN i - 1
            ELSE IF Strchr(t, s[i]) = 0 THEN span[i + 1] ELSE i - 1
    IN span[1]

\* What strspn may return: behind the last char there is no return statement.
Strspn(s, t) ==
    LET span[i \in 1..Len(s) + 1] ==
            IF At(s, i) = 0 THEN 0..SizeMod - 1
            ELSE IF Strchr(t, s[i]) # 0 THEN span[i + 1] ELSE {i - 1}
    IN span[1]

-----------------------------------------------------------------------------
(* A caller: it compares and searches, or splits a string with strtok.     *)

VARIABLES arg,      \* the two strings, and the count of strncmp
          buffer,   \* what strtok was given, with a 0 for each char it put out
          p,        \* strtok's own: a position in buffer, or 0
          tokens,   \* the strings it has returned
          at        \* "start", "called", "split", "null" (it returned NULL), "crashed"

vars == <<arg, buffer, p, tokens, at>>

Init ==
    /\ arg = [s |-> <<>>, t |-> <<>>, n |-> 0]
    /\ buffer = <<>> /\ p = 0 /\ tokens = <<>> /\ at = "start"

Call ==
    /\ at = "start" /\ at' = "called"
    /\ \E s, t \in Strings, n \in 0..MaxLength + 1 : arg' = [s |-> s, t |-> t, n |-> n]
    /\ UNCHANGED <<buffer, p, tokens>>

\* The string at position i of the buffer, up to the next 0.
StringAt(b, i) ==
    LET ends == {j \in i..Len(b) : b[j] = 0} \cup {Len(b) + 1}
    IN SubSeq(b, i, Least(ends) - 1)

\* (fault) p is left on the 0
CutStays(b, i) ==
    LET end == Strpbrk(StringAt(b, i), arg.t) IN
    IF end = 0 THEN buffer' = b /\ p' = 0 /\ at' = "null" /\ UNCHANGED tokens
    ELSE /\ buffer' = [b EXCEPT ![i + end - 1] = 0] /\ p' = i + end - 1
         /\ tokens' = Append(tokens, StringAt(buffer', i)) /\ at' = "split"

\* strtok from position i on: strpbrk, cut, go on behind it.
Cut(b, i) ==
    LET end == Strpbrk(StringAt(b, i), arg.t) IN
    IF end = 0 THEN buffer' = b /\ p' = 0 /\ at' = "null" /\ UNCHANGED tokens
    ELSE /\ buffer' = [b EXCEPT ![i + end - 1] = 0] /\ p' = i + end
         /\ tokens' = Append(tokens, StringAt(buffer', i)) /\ at' = "split"

Strtok ==
    /\ at = "called"
    /\ Cut(arg.s, 1)
    /\ UNCHANGED arg

StrtokNext ==
    /\ at = "split"
    /\ Cut(buffer, p)
    /\ UNCHANGED arg

\* strpbrk(NULL, delim), after the call that returned NULL.
StrtokAgain ==
    /\ at = "null" /\ at' = "crashed"
    /\ UNCHANGED <<arg, buffer, p, tokens>>

Next == Call \/ Strtok \/ StrtokNext \/ StrtokAgain

-----------------------------------------------------------------------------
(* What the C standard says.                                               *)

Unsigned(c) == c % 256
Sign(n) == IF n < 0 THEN -1 ELSE IF n > 0 THEN 1 ELSE 0
Cmp(s, t, n) ==   \* the first difference within n chars, as unsigned char
    LET differ == {i \in 1..n : At(s, i) # At(t, i)} IN
    IF differ = {} THEN 0
    ELSE Sign(Unsigned(At(s, Least(differ))) - Unsigned(At(t, Least(differ))))

First(S) == IF S = {} THEN 0 ELSE Least(S)
Begins(t, s) == Len(t) <= Len(s) /\ SubSeq(s, 1, Len(t)) = t
Has(s, c) == \E i \in 1..Len(s) : s[i] = c
Nth(S, k) == CHOOSE i \in S : Cardinality({j \in S : j <= i}) = k

\* The fields of s between chars of t: cut at every one of them.
Fields(s, t) ==
    LET cuts == {i \in 1..Len(s) : Has(t, s[i])} \cup {0, Len(s) + 1}
    IN [k \in 1..Cardinality(cuts) - 1 |-> SubSeq(s, Nth(cuts, k) + 1, Nth(cuts, k + 1) - 1)]

TypeOK ==
    /\ arg \in [s : Strings, t : Strings, n : 0..MaxLength + 1]
    /\ buffer \in Seq(Chars \cup {0}) /\ Len(buffer) <= MaxLength /\ p \in 0..MaxLength + 1
    /\ tokens \in Seq(Strings)
    /\ at \in {"start", "called", "split", "null", "crashed"}

\* The strings differ first in two chars of which one is below 0.
SignsDiffer(s, t, n) ==
    LET differ == {i \in 1..n : At(s, i) # At(t, i)} IN
    differ # {} /\ (At(s, Least(differ)) < 0 <=> At(t, Least(differ)) >= 0)

ComparesAsC(s, t, n) ==
    LET length == MaxLength + 1
        count == IF n = 0 THEN length ELSE n
        agrees(x, m) == Sign(x) = IF SignsDiffer(s, t, m) THEN -Cmp(s, t, m) ELSE Cmp(s, t, m)
    IN agrees(Strcmp(s, t), length) /\ agrees(Strncmp(s, t, n), count)

FindsAsC(s, t) ==
    /\ \A c \in Chars : Strchr(s, c) = First({i \in 1..Len(s) : s[i] = c})
    /\ Strchr(s, 0) = 0 /\ \A c \in Chars : c < 0 => Strchr(s, Unsigned(c)) = 0
    /\ Strpbrk(s, t) = First({i \in 1..Len(s) : Has(t, s[i])})
    /\ Strstr(s, t) = IF t = <<>> THEN 0 ELSE First({i \in 1..Len(s) : Begins(t, From(s, i))})
    /\ Strcspn(s, t) = First({i \in 1..Len(s) : Has(t, s[i])} \cup {Len(s) + 1}) - 1
    /\ LET stop == {i \in 1..Len(s) : ~Has(t, s[i])}
       IN stop # {} => Strspn(s, t) = {Least(stop) - 1}

\* The functions do what the standard says (lines 30-90), but for these cases,
\* in which they do what is said here: a char below 0 is ordered in front of the
\* others and not behind them; strncmp with a count of 0 goes through the whole
\* strings; strchr finds neither the 0 at the end nor a char below 0 that is
\* asked for as an unsigned char; strstr finds an empty needle in no haystack at
\* all; and strspn may return anything for a string that it spans to its end.
LikeTheStandard == ComparesAsC(arg.s, arg.t, arg.n) /\ FindsAsC(arg.s, arg.t)

\* strtok's tokens are the fields between the delimiters, empty ones included,
\* in order; the last field, behind which there is no delimiter, is never
\* returned, and the string has lost its delimiters by then (lines 98-112).
TokensAreFields ==
    LET fields == Fields(arg.s, arg.t) IN
    /\ at = "split" => tokens = SubSeq(fields, 1, Len(tokens)) /\ Len(tokens) < Len(fields)
    /\ at \in {"null", "crashed"} => tokens = SubSeq(fields, 1, Len(fields) - 1)
=============================================================================
