------------------------------- MODULE JqLite ------------------------------
(***************************************************************************)
(* jqlite, one of the programs the harness built (src/jqlite): it parses a *)
(* query into steps, applies them to each JSON value on stdin and writes   *)
(* the results of a value before it goes on to the next. A query is a      *)
(* sequence of tokens; a JSON value is <<its type, its content>>, an       *)
(* object's content being its pairs in the order of the input.             *)
(***************************************************************************)
EXTENDS Integers, Sequences, FiniteSets, SequencesExt

CONSTANTS
    Queries,  \* token sequences
    Stdins    \* sequences of JSON values, Malformed among them

VARIABLES
    query,     \* the argument
    queryStep, \* "args", "read", "evaluate", "ended"
    steps,     \* the parsed query
    stdin,     \* the values not evaluated yet
    given,     \* the input as it was read (a history)
    written,   \* per input value that was evaluated: its results
    jqExit

jqVars == <<query, queryStep, steps, stdin, given, written, jqExit>>

-----------------------------------------------------------------------------
(* tokens *)
FieldNames == {"a", "b"}
Filters == {"select", "map"}
Nullary == {"keys", "length", "type"}
WordOperators == {"and"}
SignOperators == {"|", "==", "-1"}
Words == FieldNames \cup Filters \cup Nullary \cup WordOperators \cup {"has"}
Blank == " "
Literals == {"'a'", "'('"}

\* int() and json.loads of a token
IntOf == ("0" :> 0) @@ ("-1" :> -1)
KeyOf == [t \in Literals |-> <<"string", IF t = "'a'" THEN "a" ELSE "(">>]
           @@ [t \in DOMAIN IntOf |-> <<"number", IntOf[t]>>]

\* two of these next to each other would be one token
Glued(s) == \E i \in 1 .. Len(s) - 1 : {s[i], s[i + 1]} \subseteq Words \cup DOMAIN IntOf

Field(name) == <<"field", name>>
IndexOf(n) == <<"index", n>>
Iterate == <<"iterate">>
CallOf(name) == <<name>>
HasOf(key) == <<"has", key>>
Apply(filter, inner) == <<filter, inner>>

Parsed(p) == [ok |-> TRUE, steps |-> p, names |-> "nothing"]
Invalid == [ok |-> FALSE, steps |-> <<>>, names |-> "nothing"]
Unsupported(construct) == [ok |-> FALSE, steps |-> <<>>, names |-> construct]

RECURSIVE Trim(_)
Trim(s) ==
    IF s = <<>> THEN s
    ELSE IF Head(s) = Blank THEN Trim(Tail(s))
    ELSE IF s[Len(s)] = Blank THEN Trim(SubSeq(s, 1, Len(s) - 1))
    ELSE s

TokenAt(s, i) == IF i \in DOMAIN s THEN s[i] ELSE "end"

\* the first place from i on where a token is, or 0
FirstOf(s, i, tokens) ==
    IF \E k \in i .. Len(s) : s[k] \in tokens
    THEN CHOOSE k \in i .. Len(s) : s[k] \in tokens /\ \A j \in i .. k - 1 : s[j] \notin tokens
    ELSE 0

\* _read_parens: every parenthesis counts, one in a string literal too
Depth(s, i, j) ==
    Cardinality({k \in i .. j : s[k] \in {"(", "'('"}}) - Cardinality({k \in i .. j : s[k] = ")"})

Closing(s, i) ==
    IF \E j \in i .. Len(s) : Depth(s, i, j) = 0
    THEN CHOOSE j \in i .. Len(s) : Depth(s, i, j) = 0 /\ \A k \in i .. j - 1 : Depth(s, i, k) # 0
    ELSE 0

\* _unsupported_or_unexpected: the operator after the blanks, if there is one
Blame(s, i) ==
    LET k == IF \E j \in i .. Len(s) : s[j] # Blank
             THEN CHOOSE j \in i .. Len(s) : s[j] # Blank /\ \A h \in i .. j - 1 : s[h] = Blank
             ELSE i
    IN  IF s[k] \in SignOperators \cup WordOperators THEN Unsupported(s[k]) ELSE Invalid

RECURSIVE ParseQuery(_), ParseFrom(_, _, _)

\* _read_bracket
ParseBracket(s, i, done) ==
    LET close == FirstOf(s, i, {"]"})
        inner == Trim(SubSeq(s, i + 1, close - 1))
    IN  IF close = 0 THEN Invalid
        ELSE IF inner = <<>> THEN ParseFrom(s, close + 1, Append(done, Iterate))
        ELSE IF Len(inner) = 1 /\ inner[1] \in DOMAIN IntOf
        THEN ParseFrom(s, close + 1, Append(done, IndexOf(IntOf[inner[1]])))
        ELSE Invalid

\* _read_filter
ParseWord(s, i, done) ==
    LET w == s[i]
        opened == TokenAt(s, i + 1) = "("
        close == IF opened THEN Closing(s, i + 1) ELSE 0
        inner == SubSeq(s, i + 2, close - 1)
        key == Trim(inner)
    IN  IF w \in Nullary
        THEN IF opened THEN Invalid ELSE ParseFrom(s, i + 1, Append(done, CallOf(w)))
        ELSE IF w = "has"
        THEN IF close # 0 /\ Len(key) = 1 /\ key[1] \in DOMAIN KeyOf
             THEN ParseFrom(s, close + 1, Append(done, HasOf(KeyOf[key[1]]))) ELSE Invalid
        ELSE IF w \in Filters
        THEN IF close = 0 THEN Invalid
             ELSE LET arg == ParseQuery(inner)
                  IN  IF arg.ok THEN ParseFrom(s, close + 1, Append(done, Apply(w, arg.steps))) ELSE arg
        ELSE IF w \in WordOperators THEN Unsupported(w)
        ELSE Invalid

\* the loop of parse_query
ParseFrom(s, i, done) ==
    IF i > Len(s) THEN Parsed(done)
    ELSE IF s[i] = "."
    THEN IF i = Len(s) THEN IF done = <<>> THEN Parsed(done) ELSE Invalid
         ELSE IF s[i + 1] = "." THEN Unsupported("..")
         ELSE IF s[i + 1] = "[" THEN ParseFrom(s, i + 1, done)
         ELSE IF s[i + 1] \in Words THEN ParseFrom(s, i + 2, Append(done, Field(s[i + 1])))
         ELSE Invalid
    ELSE IF s[i] = "[" THEN ParseBracket(s, i, done)
    ELSE IF s[i] \in Words THEN ParseWord(s, i, done)
    ELSE Blame(s, i)

\* parse_query
ParseQuery(q) ==
    LET s == Trim(q)
    IN  IF s = <<>> THEN Invalid
        ELSE IF s[1] = "." \/ s[1] \in Words THEN ParseFrom(s, 1, <<>>)
        ELSE IF s[1] \in SignOperators THEN Unsupported(s[1])
        ELSE Invalid

-----------------------------------------------------------------------------
(* values *)
Malformed == <<"malformed">>
Null == <<"null">>
Bool(b) == <<"boolean", b>>
Number(n) == <<"number", n>>
String(c) == <<"string", c>>
Array(elements) == <<"array", elements>>
Object(pairs) == <<"object", pairs>>

KeyOrder == <<"(", "a", "b">>

Only(v) == [ok |-> TRUE, out |-> <<v>>]
Many(vs) == [ok |-> TRUE, out |-> vs]
WrongType == [ok |-> FALSE, out |-> <<>>]

\* one after another; an error of one is an error of all
Chain(rs) ==
    IF \A i \in DOMAIN rs : rs[i].ok THEN Many(FlattenSeq([i \in DOMAIN rs |-> rs[i].out])) ELSE WrongType

Truthy(v) == v # Null /\ v # Bool(FALSE)

IsKey(pairs, key) == \E i \in DOMAIN pairs : pairs[i][1] = key

\* value.get: a missing key is null
Lookup(pairs, key) ==
    IF IsKey(pairs, key) THEN pairs[CHOOSE i \in DOMAIN pairs : pairs[i][1] = key][2] ELSE Null

\* Python's list[n]: from the end when negative; out of range is null
Element(elements, n) ==
    LET i == IF n >= 0 THEN n + 1 ELSE Len(elements) + n + 1
    IN  IF i \in DOMAIN elements THEN elements[i] ELSE Null

Keys(v) ==
    IF v[1] = "object"
    THEN Only(Array([i \in 1 .. Len(SelectSeq(KeyOrder, LAMBDA k : IsKey(v[2], k))) |->
                        String(SelectSeq(KeyOrder, LAMBDA k : IsKey(v[2], k))[i])]))
    ELSE IF v[1] = "array" THEN Only(Array([i \in DOMAIN v[2] |-> Number(i - 1)]))
    ELSE WrongType

\* _length_of; the strings of the model are one character long
Length(v) ==
    IF v = Null THEN Only(Number(0))
    ELSE IF v[1] = "boolean" THEN WrongType
    ELSE IF v[1] = "number" THEN Only(Number(IF v[2] < 0 THEN -v[2] ELSE v[2]))
    ELSE IF v[1] = "string" THEN Only(Number(1))
    ELSE Only(Number(Len(v[2])))

\* Fault: a negative index counts from the end here too
HasFromEnd(v, key) ==
    IF v[1] = "array" /\ key[1] = "number" THEN Only(Bool(key[2] < Len(v[2]) /\ key[2] >= -Len(v[2])))
    ELSE IF v[1] = "object" /\ key[1] = "string" THEN Only(Bool(IsKey(v[2], key[2])))
    ELSE WrongType

HasKey(v, key) ==
    IF v[1] = "array" /\ key[1] = "number" THEN Only(Bool(key[2] \in 0 .. Len(v[2]) - 1))
    ELSE IF v[1] = "object" /\ key[1] = "string" THEN Only(Bool(IsKey(v[2], key[2])))
    ELSE WrongType

RECURSIVE EvaluateStream(_, _)

\* the handlers
Handle(v, step) ==
    CASE step[1] = "field" -> IF v[1] = "object" THEN Only(Lookup(v[2], step[2])) ELSE WrongType
      [] step[1] = "index" -> IF v[1] = "array" THEN Only(Element(v[2], step[2])) ELSE WrongType
      [] step[1] = "iterate" ->
             IF v[1] = "array" THEN Many(v[2])
             ELSE IF v[1] = "object" THEN Many([i \in DOMAIN v[2] |-> v[2][i][2]])
             ELSE WrongType
      [] step[1] = "select" ->
             LET inner == EvaluateStream(<<v>>, step[2])
             IN  IF inner.ok THEN Many([i \in DOMAIN SelectSeq(inner.out, Truthy) |-> v]) ELSE WrongType
      [] step[1] = "map" ->
             LET inner == EvaluateStream(v[2], step[2])
             IN  IF v[1] = "array" /\ inner.ok THEN Only(Array(inner.out)) ELSE WrongType
      [] step[1] = "keys" -> Keys(v)
      [] step[1] = "length" -> Length(v)
      [] step[1] = "type" -> Only(String(v[1]))
      [] step[1] = "has" -> HasKey(v, step[2])

\* evaluate_stream: the whole stream goes through one step before the next
EvaluateStream(stream, todo) ==
    IF todo = <<>> THEN Many(stream)
    ELSE LET after == Chain([i \in DOMAIN stream |-> Handle(stream[i], Head(todo))])
         IN  IF after.ok THEN EvaluateStream(after.out, Tail(todo)) ELSE WrongType

-----------------------------------------------------------------------------
JqStart(q) ==
    /\ query = q
    /\ queryStep = "args"
    /\ steps = <<>> /\ stdin = <<>> /\ given = <<>> /\ written = <<>> /\ jqExit = 0

JqInit == \E q \in Queries : JqStart(q)

EndsWith(code) == queryStep' = "ended" /\ jqExit' = code

\* _parse_args: a flag it does not know, no query, or one too many
JqUsageError ==
    /\ queryStep = "args" /\ EndsWith(2)
    /\ UNCHANGED <<query, steps, stdin, given, written>>

\* main: parse_query comes before stdin is read
ParseArgument ==
    /\ queryStep = "args"
    /\ LET parsed == ParseQuery(query)
       IN  IF parsed.ok THEN queryStep' = "read" /\ steps' = parsed.steps /\ UNCHANGED jqExit
           ELSE EndsWith(5) /\ UNCHANGED steps
    /\ UNCHANGED <<query, stdin, given, written>>

ReadStdin ==
    /\ queryStep = "read"
    /\ stdin' \in Stdins /\ given' = stdin'
    /\ queryStep' = "evaluate"
    /\ UNCHANGED <<query, steps, written, jqExit>>

\* one value: all of its results, or none
EvaluateValue ==
    /\ queryStep = "evaluate" /\ stdin # <<>> /\ Head(stdin) # Malformed
    /\ LET results == EvaluateStream(<<Head(stdin)>>, steps)
       IN  IF results.ok THEN written' = Append(written, results.out) /\ UNCHANGED <<queryStep, jqExit>>
           ELSE EndsWith(5) /\ UNCHANGED written
    /\ stdin' = Tail(stdin)
    /\ UNCHANGED <<query, steps, given>>

\* raw_decode fails where the value is reached, not before
MeetMalformed ==
    /\ queryStep = "evaluate" /\ stdin # <<>> /\ Head(stdin) = Malformed
    /\ EndsWith(4)
    /\ UNCHANGED <<query, steps, stdin, given, written>>

EndOfInput ==
    /\ queryStep = "evaluate" /\ stdin = <<>>
    /\ EndsWith(0)
    /\ UNCHANGED <<query, steps, stdin, given, written>>

JqNext ==
    \/ JqUsageError \/ ParseArgument \/ ReadStdin
    \/ EvaluateValue \/ MeetMalformed \/ EndOfInput

-----------------------------------------------------------------------------
(* What the queries mean, from their grammar and from jq's definitions. *)
RECURSIVE Readings(_, _), QueryReadings(_)

\* the steps a token sequence spells
StepReadings(s) ==
    LET inside == Trim(SubSeq(s, 3, Len(s) - 1))
        bracket == IF s[1] = "." THEN Tail(s) ELSE s
        index == Trim(SubSeq(bracket, 2, Len(bracket) - 1))
        called == Len(s) >= 3 /\ s[2] = "(" /\ s[Len(s)] = ")"
    IN  {Field(w) : w \in {x \in Words : s = <<".", x>>}}
        \cup {CallOf(w) : w \in {x \in Nullary : s = <<x>>}}
        \cup (IF TokenAt(bracket, 1) = "[" /\ bracket[Len(bracket)] = "]" /\ Len(bracket) > 1
              THEN IF index = <<>> THEN {Iterate}
                   ELSE {IndexOf(IntOf[t]) : t \in {x \in DOMAIN IntOf : index = <<x>>}}
              ELSE {})
        \cup (IF called /\ s[1] = "has"
              THEN {HasOf(KeyOf[t]) : t \in {x \in DOMAIN KeyOf : inside = <<x>>}} ELSE {})
        \cup (IF called /\ s[1] \in Filters
              THEN {Apply(s[1], p) : p \in QueryReadings(SubSeq(s, 3, Len(s) - 1))} ELSE {})

\* every way to cut a token sequence into steps
Readings(s, first) ==
    IF s = <<>> THEN {<<>>}
    ELSE UNION {{<<step>> \o rest : step \in StepReadings(SubSeq(s, 1, k)),
                                    rest \in Readings(SubSeq(s, k + 1, Len(s)), FALSE)} :
                   k \in {n \in 1 .. Len(s) : first => s[1] # "["}}

QueryReadings(q) ==
    LET s == Trim(q)
    IN  IF s = <<>> THEN {} ELSE IF s = <<".">> THEN {<<>>} ELSE Readings(s, TRUE)

\* jq follows each value through all the steps before it takes up the next
RECURSIVE Answers(_, _)
Answers(v, p) ==
    IF p = <<>> THEN Only(v)
    ELSE LET step == Head(p)
             first ==
                 CASE step[1] = "map" ->      \* def map(f): [.[] | f], on arrays
                        LET each == Answers(v, <<Iterate>> \o step[2])
                        IN  IF v[1] = "array" /\ each.ok THEN Only(Array(each.out)) ELSE WrongType
                   [] step[1] = "select" ->   \* def select(f): if f then . else empty end
                        LET f == Answers(v, step[2])
                        IN  IF f.ok THEN Chain([i \in DOMAIN f.out |-> IF f.out[i] \in {Null, Bool(FALSE)}
                                                                      THEN Many(<<>>) ELSE Only(v)])
                            ELSE WrongType
                   [] step[1] = "has" ->      \* a key is one that keys lists
                        LET keys == Keys(v)
                        IN  IF keys.ok /\ (v[1] = "object") = (step[2][1] = "string")
                            THEN Only(Bool(\E i \in DOMAIN keys.out[1][2] : keys.out[1][2][i] = step[2]))
                            ELSE WrongType
                   [] OTHER -> Handle(v, step)
         IN  IF first.ok THEN Chain([i \in DOMAIN first.out |-> Answers(first.out[i], Tail(p))]) ELSE WrongType

\* the operator a query goes on with after its first steps
GoesOnWith(s) ==
    {s[k] : k \in {n \in 2 .. Len(s) :
        /\ s[n] \in SignOperators
        /\ Readings(Trim(SubSeq(s, 1, n - 1)), TRUE) # {}}}

(***************************************************************************)
(* A query has one meaning: parse_query accepts what the grammar of steps  *)
(* spells, reads it the only way it can be cut, and names the operator a   *)
(* query goes on with - other than the bare "." - when it is not supported.*)
(* A literal that holds a parenthesis is left out: _read_parens counts it. *)
(* The results are jq's (map(f) is [.[] | f], select(f) is if f then . and *)
(* has(k) is membership in keys, eval.py:115-160), though jqlite takes the *)
(* whole stream through one step at a time; and those of the values before *)
(* the first that is malformed or of the wrong type stay written           *)
(* (cli.py:121).                                                           *)
(***************************************************************************)
QueryMeans ==
    LET parsed == ParseQuery(query)
        meaning == QueryReadings(query)
        reached == Len(written)
    IN  /\ queryStep \in {"args", "read", "evaluate", "ended"} /\ jqExit \in {0, 2, 4, 5}
        /\ queryStep = "args" /\ (\A i \in DOMAIN query : query[i] # "'('") =>
              /\ parsed.ok <=> meaning # {}
              /\ parsed.ok => meaning = {parsed.steps}
              /\ GoesOnWith(query) # {} => parsed.names \in GoesOnWith(query)
        /\ \A i \in 1 .. reached : Only(written[i]) = Only(Answers(given[i], steps).out)
        /\ \A i \in 1 .. reached : Answers(given[i], steps).ok
        /\ queryStep = "ended" /\ jqExit = 0 => reached = Len(given)
        /\ queryStep = "ended" /\ jqExit = 4 => given[reached + 1] = Malformed
        /\ queryStep = "ended" /\ jqExit = 5 /\ given # <<>> => ~Answers(given[reached + 1], steps).ok
=============================================================================
