-------------------------- MODULE ConfigVariables --------------------------
(***************************************************************************)
(* The variables of the configuration file.  Every string of the           *)
(* configuration is looked at: `text` is a template, in which ${NAME}      *)
(* stands for the text of a variable, and =NAME is replaced by the value   *)
(* of one, whatever its type.  The variables themselves are not looked at. *)
(* The text of a variable is the replacement string of String.replace, in  *)
(* which some pairs that begin with $ have a meaning.                      *)
(***************************************************************************)
EXTENDS Naturals, Sequences, SequencesExt

\* Texts are sequences of tokens: a word, or the marker of a variable.
Word(w) == [word |-> w, marker |-> FALSE]
Marker(n) == [word |-> n, marker |-> TRUE]

\* The values of the file.  A list stands for an object too.
Text(ts) == [kind |-> "text", tokens |-> ts]
Template(ts) == [kind |-> "template", tokens |-> ts]
Replace(n) == [kind |-> "replace", name |-> n]
List(vs) == [kind |-> "list", items |-> vs]
Null == [kind |-> "null"]

\* What is thrown ends the loading.
Failed == [kind |-> "failed"]

\* variables[name]; a missing one is Null, and neither is accepted.
Lookup(n, variables) ==
    IF variables[n] = Null THEN Failed ELSE variables[n]
LookupInterpolable(n, variables) ==
    IF variables[n].kind = "text" THEN variables[n] ELSE Failed

\* The markers are those of the template as it was written.
Markers(ts) == SelectSeq(ts, LAMBDA t : t.marker)

\* What replaces the marker m between two parts of a text: $$ stands for $,
\* $& for the marker, $` and $' for the part before it and behind it.
Expanded(tokens, before, m, behind) ==
    FlattenSeq([i \in DOMAIN tokens |->
        CASE tokens[i] = Word("$$") -> <<Word("$")>>
          [] tokens[i] = Word("$&") -> <<m>>
          [] tokens[i] = Word("$`") -> before
          [] tokens[i] = Word("$'") -> behind
          [] OTHER -> <<tokens[i]>>])

\* value.replace(match, text): the first place that has the marker.
ReplaceMarker(ts, m, tokens) ==
    IF ~Contains(ts, m) THEN ts
    ELSE LET i == SelectInSeq(ts, LAMBDA t : t = m)
             before == SubSeq(ts, 1, i - 1)
             behind == SubSeq(ts, i + 1, Len(ts))
         IN  before \o Expanded(tokens, before, m, behind) \o behind

\* Mutant: only the first marker is replaced.
InterpolateVariable_First(ts, variables) ==
    LET ms == Markers(ts)
        value == LookupInterpolable(Head(ms).word, variables)
    IN  IF ms = <<>> THEN Text(ts)
        ELSE IF value = Failed THEN Failed
        ELSE Text(ReplaceMarker(ts, Head(ms), value.tokens))

\* Each of them replaces the first place where the text, as it is by then,
\* has that marker.
InterpolateVariable(ts, variables) ==
    FoldLeft(LAMBDA text, m :
                 LET value == LookupInterpolable(m.word, variables)
                 IN  IF Failed \in {text, value} THEN Failed
                     ELSE Text(ReplaceMarker(text.tokens, m, value.tokens)),
             Text(ts), Markers(ts))

FixVariable(value, variables) ==
    CASE value.kind = "template" -> InterpolateVariable(value.tokens, variables)
      [] value.kind = "replace" -> Lookup(value.name, variables)
      [] OTHER -> value

RECURSIVE FixVariables(_, _)
FixVariables(value, variables) ==
    IF value.kind # "list" THEN FixVariable(value, variables)
    ELSE LET items == [i \in DOMAIN value.items |->
                           FixVariables(value.items[i], variables)]
         IN  IF Contains(items, Failed) THEN Failed ELSE List(items)

\* A file without variables is left as it is, markers and all.
LoadConfig(file) ==
    IF file.variables = <<>> THEN file.config
    ELSE FixVariables(file.config, file.variables)
=============================================================================
