----------------------------- MODULE Templates -----------------------------
(* URI templates (grammar.rs) and the names core writes into IRIs and reads  *)
(* back out of them (contract.rs).  A text is a sequence of characters; a    *)
(* template is a sequence of parts, each literal text or a variable.  A      *)
(* caller binds the variables of one template, a character at a time.        *)
EXTENDS Integers, Sequences, SequencesExt

CONSTANTS Alphabet,    \* the characters the bound values are made of
          Unreserved,  \* the characters no expansion needs to escape
          Encoded,     \* the characters a name may not carry as they are
          Escapes,     \* Escapes[d]: the character a pair of digits stands for
          MaxText,     \* how many characters a caller binds altogether
          Patterns,    \* the templates looked at
          Verbs, Digests, NoMatch

VARIABLES pattern, bindings, input

tmplVars == <<pattern, bindings, input>>

Lit(text) == [lit |-> TRUE, text |-> text]
Var(v) == [lit |-> FALSE, text |-> <<v>>]

(* UriTemplate::parse refuses variables with nothing between them.           *)
Parses(template) ==
    \A i \in 1..(Len(template) - 1) : template[i].lit \/ template[i + 1].lit

Variables(template) == { template[i].text : i \in { i \in DOMAIN template : ~template[i].lit } }

Concat(texts) == FoldLeft(LAMBDA a, b : a \o b, << >>, texts)

Expand(template, bound) ==
    Concat([i \in DOMAIN template |-> IF template[i].lit THEN template[i].text ELSE bound[template[i].text]])

OccursAt(text, at, literal) ==
    at + Len(literal) - 1 <= Len(text) /\ SubSeq(text, at, at + Len(literal) - 1) = literal

MinOf(S) == CHOOSE n \in S : \A m \in S : n <= m

(* UriTemplate::match_from: where each variable's capture ends, or NoMatch.  *)
RECURSIVE MatchFrom(_, _, _, _)

(* A slip: only the leftmost occurrence of the next literal is tried.        *)
LeftmostEnd(template, text, i, ends) ==
    LET end == MinOf(ends)
        rest == MatchFrom(template, text, i + 1, end)
    IN  IF rest = NoMatch THEN NoMatch ELSE <<end>> \o rest

(* The occurrences are tried from the left, until the rest matches.          *)
FirstEnd(template, text, i, ends) ==
    LET good == { end \in ends : MatchFrom(template, text, i + 1, end) # NoMatch }
    IN  IF good = {} THEN NoMatch
        ELSE <<MinOf(good)>> \o MatchFrom(template, text, i + 1, MinOf(good))

MatchFrom(template, text, i, pos) ==
    IF i > Len(template) THEN (IF pos = Len(text) + 1 THEN << >> ELSE NoMatch)
    ELSE IF template[i].lit THEN
        IF OccursAt(text, pos, template[i].text)
        THEN MatchFrom(template, text, i + 1, pos + Len(template[i].text)) ELSE NoMatch
    ELSE IF i = Len(template) THEN (IF pos > Len(text) THEN NoMatch ELSE <<Len(text) + 1>>)
    ELSE LET ends == { end \in (pos + 1)..Len(text) : OccursAt(text, end, template[i + 1].text) }
         IN  IF ends = {} THEN NoMatch ELSE FirstEnd(template, text, i, ends)

(* UriTemplate::match_str: the captures, by the variable's name.             *)
RECURSIVE Captures(_, _, _, _, _)
Captures(template, text, i, pos, ends) ==
    IF i > Len(template) THEN << >>
    ELSE IF template[i].lit THEN Captures(template, text, i + 1, pos + Len(template[i].text), ends)
    ELSE <<[of |-> template[i].text, text |-> SubSeq(text, pos, Head(ends) - 1)]>>
         \o Captures(template, text, i + 1, Head(ends), Tail(ends))

MatchStr(template, text) ==
    LET ends == MatchFrom(template, text, 1, 1)
    IN  IF ends = NoMatch THEN NoMatch
        ELSE LET captured == Captures(template, text, 1, 1, ends)
             IN  [v \in Variables(template) |->
                     captured[CHOOSE i \in DOMAIN captured :
                         /\ captured[i].of = v
                         /\ \A j \in i + 1..Len(captured) : captured[j].of # v].text]

-----------------------------------------------------------------------------
(* Names in IRIs.                                                            *)

HexOf(c) == CHOOSE digits \in DOMAIN Escapes : Escapes[digits] = c

Escaped(text, chars) ==
    Concat([i \in DOMAIN text |-> IF text[i] \in chars THEN <<"%">> \o HexOf(text[i]) ELSE <<text[i]>>])

(* UriTemplate::expand_encoded.                                              *)
ExpandEncoded(template, bound) ==
    Expand(template, [v \in DOMAIN bound |-> Escaped(bound[v], Alphabet \ Unreserved)])

(* A slip: what looks like an escape is taken for one already made.          *)
EncodesAllButPercent == Encoded \ {"%"}

MustEncode == Encoded

EncodeName(text) == Escaped(text, MustEncode)

(* decode_segment: an escape is exactly two digits.                          *)
RECURSIVE DecodeSegment(_)
DecodeSegment(text) ==
    IF text = << >> THEN << >>
    ELSE LET escape == Head(text) = "%"
             size == IF escape THEN 3 ELSE 1
             malformed == escape /\ (Len(text) < 3 \/ SubSeq(text, 2, 3) \notin DOMAIN Escapes)
             rest == DecodeSegment(SubSeq(text, size + 1, Len(text)))
         IN  IF malformed \/ rest = NoMatch THEN NoMatch
             ELSE <<IF escape THEN Escapes[SubSeq(text, 2, 3)] ELSE Head(text)>> \o rest

(* The mark before a digest: ":b3:" in the source.                           *)
Mark == <<":", "R", ":">>

ContractIriOf(id, verb, digest) == EncodeName(id) \o <<":">> \o verb \o Mark \o digest

Splits(text, at) == { i \in 1..Len(text) : OccursAt(text, i, at) }

(* A slip: read from the left.                                               *)
FirstSplit(text, at) == MinOf(Splits(text, at))

(* rsplit_once: an id may carry colons, and the mark, of its own.            *)
LastSplit(text, at) == CHOOSE i \in Splits(text, at) : \A j \in Splits(text, at) : j <= i

ParseContractIri(text) ==
    IF Splits(text, Mark) = {} THEN NoMatch
    ELSE LET mark == LastSplit(text, Mark)
             head == SubSeq(text, 1, mark - 1)
             digest == SubSeq(text, mark + Len(Mark), Len(text))
         IN  IF Splits(head, <<":">>) = {} \/ digest \notin Digests THEN NoMatch
             ELSE LET colon == LastSplit(head, <<":">>)
                      verb == SubSeq(head, colon + 1, Len(head))
                      id == DecodeSegment(SubSeq(head, 1, colon - 1))
                  IN  IF verb \notin Verbs \/ id = NoMatch THEN NoMatch
                      ELSE [id |-> id, verb |-> verb, digest |-> digest]

CanonicalContractIri(text) ==
    LET parsed == ParseContractIri(text)
    IN  IF parsed = NoMatch THEN NoMatch ELSE ContractIriOf(parsed.id, parsed.verb, parsed.digest)

(* A match IRI puts the verb first, and is split at its first colon.         *)
MatchIri(verb, door) == verb \o <<":">> \o EncodeName(door)

ParseMatchIri(text) ==
    IF Splits(text, <<":">>) = {} THEN NoMatch
    ELSE LET colon == MinOf(Splits(text, <<":">>))
             verb == SubSeq(text, 1, colon - 1)
             door == DecodeSegment(SubSeq(text, colon + 1, Len(text)))
         IN  IF verb \notin Verbs \/ door = NoMatch THEN NoMatch ELSE [door |-> door, verb |-> verb]

-----------------------------------------------------------------------------
TmplInit ==
    /\ pattern \in { p \in Patterns : Parses(p) }
    /\ bindings = [v \in Variables(pattern) |-> << >>]
    /\ input = Expand(pattern, bindings)

Bound == FoldFunction(LAMBDA text, n : n + Len(text), 0, bindings)

(* One more character in one variable's value; the name is expanded again.   *)
Bind(v, c) ==
    /\ Bound < MaxText
    /\ bindings' = [bindings EXCEPT ![v] = Append(@, c)]
    /\ input' = Expand(pattern, bindings')
    /\ UNCHANGED pattern

TmplNext == \E v \in Variables(pattern), c \in Alphabet : Bind(v, c)

TmplSpec == TmplInit /\ [][TmplNext]_tmplVars

-----------------------------------------------------------------------------
Repeats(template) ==
    \E i, j \in DOMAIN template : i # j /\ ~template[i].lit /\ template[i] = template[j]

(* A literal that follows a variable has a character no escaped value has.   *)
Delimited(template) ==
    \A i \in 2..Len(template) :
        template[i].lit => \E k \in DOMAIN template[i].text : template[i].text[k] \in Alphabet \ Unreserved

(* A template matches every name it expands to, whatever the values hold --   *)
(* the next literal included -- and the captures expand to that name again;  *)
(* and where values are escaped as they are filled in, the captures are      *)
(* those values, for no value introduces a delimiter (grammar.rs             *)
(* match_from, expand_encoded).                                              *)
MatchesItsExpansion ==
    (\A v \in Variables(pattern) : bindings[v] # << >>) =>
        LET captured == MatchStr(pattern, input)
            apart == MatchStr(pattern, ExpandEncoded(pattern, bindings))
        IN  /\ captured # NoMatch
            /\ Repeats(pattern) \/ Expand(pattern, captured) = input
            /\ Delimited(pattern) =>
                   /\ apart # NoMatch
                   /\ \A v \in Variables(pattern) : DecodeSegment(apart[v]) = bindings[v]

(* What a name is written as in a contract or match IRI is read back as that *)
(* name, verb and digest, so two names are never one node; and an IRI read   *)
(* leniently is written back in the one spelling that reads the same         *)
(* (contract.rs encode_name, parse_contract_iri, canonical_contract_iri).    *)
NamesReadBack ==
    \A v \in Variables(pattern), verb \in Verbs, d \in Digests :
        LET text == bindings[v]
            given == text \o <<":">> \o verb \o Mark \o d
            canonical == CanonicalContractIri(given)
        IN  /\ ParseContractIri(ContractIriOf(text, verb, d)) = [id |-> text, verb |-> verb, digest |-> d]
            /\ ParseMatchIri(MatchIri(verb, text)) = [door |-> text, verb |-> verb]
            /\ canonical # NoMatch =>
                   /\ ParseContractIri(canonical) = ParseContractIri(given)
                   /\ CanonicalContractIri(canonical) = canonical
=============================================================================
