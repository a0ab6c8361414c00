----------------------------- MODULE PiiSanitizer -----------------------------
(***************************************************************************)
(* The PII sanitizer (app/security/pii_sanitizer.py), a pure component:    *)
(* the Luhn test that decides whether a run of digits is redacted as a     *)
(* card number, the two passes of sanitize, and the recursion of           *)
(* sanitize_payload over nested tool payloads.                             *)
(*                                                                         *)
(* A text is a sequence of cells: a letter, or a "secret", a piece that    *)
(* some regular expression recognises.  Redaction marks the cells in place *)
(* instead of writing a tag, so that what became of each cell can be told. *)
(* Which spans are named entities is up to the spaCy model.                *)
(***************************************************************************)
EXTENDS Integers, FiniteSets, SequencesExt

CONSTANTS
    Letters,
    MaxLength,      \* bound: cells of a text
    CardLengths,    \* numbers of digits to try; the rule matches 13 to 16
    MaxItems,       \* bound: values in a dict or list
    MaxDepth        \* bound: levels of dicts and lists below the payload

ASSUME SanitizerAssumption ==
    /\ Letters \cap {"secret", "regex", "ner"} = {}
    /\ MaxLength \in Nat /\ CardLengths \subseteq Nat
    /\ MaxItems \in Nat /\ MaxDepth \in Nat

VARIABLE sanitizer   \* the method that was called, its argument and its result

Idle == [fn |-> "none"]

SanitizerInit == sanitizer = Idle

-----------------------------------------------------------------------------
(***************************************************************************)
(* _luhn_check                                                             *)
(***************************************************************************)
Sum(digits) ==
    LET sum[n \in 0..Len(digits)] == IF n = 0 THEN 0 ELSE sum[n - 1] + digits[n] IN
    sum[Len(digits)]

Doubled(d) == IF 2 * d > 9 THEN 2 * d - 9 ELSE 2 * d

\* Mutant: the parity of the length is forgotten.
LuhnFromLeft(digits) ==
    /\ Len(digits) >= 13
    /\ Sum([i \in DOMAIN digits |->
               IF (i - 1) % 2 = 0 THEN Doubled(digits[i]) ELSE digits[i]]) % 10 = 0

\* The code counts i from 0.
LuhnCheck(digits) ==
    /\ Len(digits) >= 13
    /\ Sum([i \in DOMAIN digits |->
               IF (i - 1) % 2 = Len(digits) % 2 THEN Doubled(digits[i])
               ELSE digits[i]]) % 10 = 0

\* n digits, at most two of which are not 0.
Number(n, p, q, a, b) == [i \in 1..n |-> IF i = p THEN a ELSE IF i = q THEN b ELSE 0]

ChecksCard ==
    /\ sanitizer = Idle
    /\ \E n \in CardLengths : \E p \in 1..n : \E q \in p..n, a, b \in 0..9 :
          LET digits == Number(n, p, q, a, b) IN
          sanitizer' = [fn |-> "luhn_check", digits |-> digits, valid |-> LuhnCheck(digits)]

-----------------------------------------------------------------------------
(***************************************************************************)
(* sanitize                                                                *)
(***************************************************************************)
RegexPass(text) == [i \in DOMAIN text |-> IF text[i] = "secret" THEN "regex" ELSE text[i]]

\* A named entity is a span <<first, last>>; doc.ents do not overlap.
Spans(n) == {span \in (1..n) \X (1..n) : span[1] <= span[2]}
Apart(x, y) == x[2] < y[1] \/ y[2] < x[1]
Entities(n) == {ents \in SUBSET Spans(n) : \A x, y \in ents : x = y \/ Apart(x, y)}

Size(span) == span[2] - span[1] + 1
TextOf(text, span) == SubSeq(text, span[1], span[2])

\* The orders in which Before(x, y) holds of every entity and every later one.
Orders(ents, Before(_, _)) ==
    {order \in Bijection(1..Cardinality(ents), ents) :
        \A m, n \in DOMAIN order : m < n => Before(order[m], order[n])}

\* Mutant: not reversed, the shortest span first.
ShortestFirst(ents) ==
    Orders(ents, LAMBDA x, y : Size(x) < Size(y) \/ (Size(x) = Size(y) /\ x[1] < y[1]))

\* sorted by length, reverse=True: spans of one length keep their order.
LongestFirst(ents) ==
    Orders(ents, LAMBDA x, y : Size(x) > Size(y) \/ (Size(x) = Size(y) /\ x[1] < y[1]))

Occurs(text, part, i) ==
    i + Len(part) - 1 <= Len(text) /\ SubSeq(text, i, i + Len(part) - 1) = part

\* Where result.replace replaces: every occurrence from the left that does not begin
\* inside a replaced one.
Replaced(text, part) ==
    LET starts[i \in 1..Len(text)] ==
            /\ Occurs(text, part, i)
            /\ \A j \in 1..(i - 1) : j + Len(part) > i => ~starts[j] IN
    starts

Redacted(text, part) ==
    [i \in DOMAIN text |->
        IF \E j \in 1..i : j + Len(part) > i /\ Replaced(text, part)[j] THEN "ner"
        ELSE text[i]]

NerPass(text, order) ==
    LET result[n \in 0..Len(order)] ==
            IF n = 0 THEN text ELSE Redacted(result[n - 1], TextOf(text, order[n])) IN
    result[Len(order)]

\* Without spaCy or its model there are no entities.
Sanitizes ==
    /\ sanitizer = Idle
    /\ \E text \in BoundedSeq(Letters \cup {"secret"}, MaxLength) :
          \E ents \in Entities(Len(text)) : \E order \in LongestFirst(ents) :
             sanitizer' = [fn |-> "sanitize", cleaned |-> RegexPass(text), ents |-> ents,
                           result |-> NerPass(RegexPass(text), order)]

-----------------------------------------------------------------------------
(***************************************************************************)
(* sanitize_payload                                                        *)
(***************************************************************************)
Str == [kind |-> "str", items |-> <<>>]
Clean == [kind |-> "clean", items |-> <<>>]     \* a string that sanitize was given
Other == [kind |-> "other", items |-> <<>>]     \* a number, a boolean or None

\* What is in a dict or list: up to MaxItems values, of which only the last may be nested.
Items(values) ==
    LET flat == BoundedSeq({Str, Other}, MaxItems - 1) IN
    flat \cup UNION {{Append(s, v) : s \in flat} : v \in values}

Values[depth \in 0..(MaxDepth + 1)] ==
    {Str, Other} \cup
    IF depth = 0 THEN {} ELSE [kind : {"dict", "list"}, items : Items(Values[depth - 1])]

\* In a list only the strings are sanitised.
CleanList(v) ==
    [v EXCEPT !.items = [i \in DOMAIN v.items |->
        IF v.items[i].kind = "str" THEN Clean ELSE v.items[i]]]

\* Mutant: there is no branch for nested dicts.
SanitizePayloadFlat(payload) ==
    [payload EXCEPT !.items = [i \in DOMAIN payload.items |->
        LET v == payload.items[i] IN
        CASE v.kind = "str"  -> Clean
          [] v.kind = "list" -> CleanList(v)
          [] OTHER           -> v]]

\* A value of a dict; clean[v] is the recursive call.
CleanItem(clean, v) ==
    CASE v.kind = "str"  -> Clean
      [] v.kind = "dict" -> clean[v]
      [] v.kind = "list" -> CleanList(v)
      [] OTHER           -> v

SanitizePayload(payload) ==
    LET clean[dict \in Values[MaxDepth + 1]] ==
            [dict EXCEPT !.items =
                [i \in DOMAIN dict.items |-> CleanItem(clean, dict.items[i])]] IN
    clean[payload]

Payloads == {v \in Values[MaxDepth + 1] : v.kind = "dict"}

SanitizesPayload ==
    /\ sanitizer = Idle
    /\ \E payload \in Payloads :
          sanitizer' = [fn |-> "sanitize_payload", payload |-> payload,
                        clean |-> SanitizePayload(payload)]

-----------------------------------------------------------------------------
SanitizerNext == ChecksCard \/ Sanitizes \/ SanitizesPayload

SanitizerSpec == SanitizerInit /\ [][SanitizerNext]_sanitizer

-----------------------------------------------------------------------------
(***************************************************************************)
(* Properties                                                              *)
(***************************************************************************)
\* The check of Luhn in its usual words: every second digit from the right doubled.
StandardLuhn(digits) ==
    LET fromRight == Reverse(digits) IN
    Sum([i \in DOMAIN digits |->
            IF i % 2 = 0 THEN Doubled(fromRight[i]) ELSE fromRight[i]]) % 10 = 0

\* _luhn_check: for numbers of every length a card may have the code decides as Luhn's
\* algorithm does; in particular a card number with one wrong digit is not taken for
\* a card.
LuhnIsStandard ==
    sanitizer.fn = "luhn_check" =>
        LET digits == sanitizer.digits IN
        /\ sanitizer.valid <=> Len(digits) >= 13 /\ StandardLuhn(digits)
        /\ sanitizer.valid =>
              \A i \in DOMAIN digits : \A d \in 0..9 \ {digits[i]} :
                 ~LuhnCheck([digits EXCEPT ![i] = d])

\* Two texts may share letters in a longer one without one holding the other.
MayCross(x, y) ==
    \E n \in 1..(Len(x) - 1) :
        n < Len(y) /\ SubSeq(x, Len(x) - n + 1, Len(x)) = SubSeq(y, 1, n)

\* _ner_pass: no letter of a recognised entity is left, provided no two of their texts,
\* nor one with itself, can cross; one text may hold another, in any order and place.
EntitiesRedacted ==
    sanitizer.fn = "sanitize" =>
        LET texts == {TextOf(sanitizer.cleaned, x) : x \in sanitizer.ents} IN
        (\A x, y \in texts : ~MayCross(x, y)) =>
            \A span \in sanitizer.ents : \A i \in span[1]..span[2] :
                sanitizer.result[i] \notin Letters

\* The value that the indexes of a path lead to.
Below(v, path) ==
    LET below[n \in 0..Len(path)] ==
            IF n = 0 THEN v ELSE below[n - 1].items[path[n]] IN
    below[Len(path)]

\* All the paths of a value.
Paths(v) ==
    {path \in BoundedSeq(1..MaxItems, MaxDepth + 1) :
        \A n \in 1..Len(path) : path[n] \in DOMAIN Below(v, SubSeq(path, 1, n - 1)).items}

\* sanitize_payload: the copy has the shape of the payload, in it only strings are
\* replaced, each by its sanitised form, and every string is, as the docstring says.
\* Left open are the strings of a dict or list that is inside a list: the code does not
\* keep the docstring's word there, and the property neither asks nor excuses it.
PayloadSanitized ==
    sanitizer.fn = "sanitize_payload" =>
        /\ Paths(sanitizer.clean) = Paths(sanitizer.payload)
        /\ \A path \in Paths(sanitizer.payload) :
              LET v == Below(sanitizer.payload, path)
                  w == Below(sanitizer.clean, path)
                  leftOpen == \E n \in 0..(Len(path) - 2) :
                                 Below(sanitizer.payload, SubSeq(path, 1, n)).kind = "list" IN
              /\ v.kind = "str" => w.kind = "clean" \/ leftOpen
              /\ v.kind # w.kind => v.kind = "str" /\ w.kind = "clean"
=============================================================================
