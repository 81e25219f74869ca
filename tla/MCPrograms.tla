----------------------------- MODULE MCPrograms -----------------------------
(***************************************************************************)
(* The machines with one operator and one thread - the OSS run and the     *)
(* three programs the harness built - on small instances. They share no    *)
(* variable; focus picks the one a behaviour runs. Liveness is checked, so *)
(* no symmetry is declared.                                                *)
(***************************************************************************)
EXTENDS OssDispatch, JqLite, CsvLite, SpecLedger, TLC

VARIABLE focus
-----------------------------------------------------------------------------
(* jqlite: every sequence of up to three tokens, and every pair of calls.  *)

Tokens ==
    {".", "a", "[", "]", "0", "-1", "(", ")", "keys", "map", "has", "'a'", "'('", " ", "|", "and"}

ShortQueries == {s \in SeqOf(Tokens, 3) : ~Glued(s)}

Leaves ==
    {<<".", "a">>, <<".", "[", "]">>, <<"[", "-1", "]">>, <<"keys">>, <<"length">>, <<"type">>,
     <<"has", "(", "0", ")">>, <<"has", "(", "'a'", ")">>, <<"has", "(", "-1", ")">>}

Calls == {<<f, "(">> \o s \o <<")">> : f \in Filters, s \in Leaves \cup {<<".">>, <<>>}}

LongQueries == {s \o t : s \in Leaves \cup Calls, t \in Leaves \cup Calls \cup {<<>>}}

TokenSequences == ShortQueries \cup {q \in LongQueries : ~Glued(q)}

Numbers01 == Array(<<Number(-1), Null>>)

Nested == Object(<< <<"b", Array(<<String("a")>>)>>, <<"a", Bool(FALSE)>> >>)

OneValue ==
    {Null, Bool(FALSE), Number(-1), Numbers01, Nested, Array(<<Nested, Numbers01>>), Malformed,
     Array(<<>>), Object(<<>>)}

ValueSequences ==
    {<<v>> : v \in OneValue}
    \cup {<<>>, <<Numbers01, Nested>>, <<Nested, Array(<<Nested, Numbers01>>), Malformed>>,
          <<Numbers01, Numbers01>>}
-----------------------------------------------------------------------------
(* csvlite: numbers that are different texts, texts that are no numbers,   *)
(* NaN, a header that names a column twice or like an index, short rows.   *)

TextOrder == <<"", "01", "1", "10", "2", "a", "b", "nan">>

Floats == ("01" :> 1) @@ ("1" :> 1) @@ ("10" :> 10) @@ ("2" :> 2) @@ ("nan" :> NaN)

DigitStrings == {"01", "1", "10", "2"}

Selections == {<<>>, <<"a", "">>, <<"b", "a">>, <<"2", "a", "a">>, <<"10">>}

Predicates ==
    [column : {"a"}, op : Comparisons, value : {"1", "2", "b", "nan"}]
    \cup {[column |-> "a", op |-> o, value |-> "1"] : o \in {"none", "broken"}}
    \cup {[column |-> "nan", op |-> "==", value |-> "1"]}

Tables ==
    {<<>>, <<<<"a", "b">>>>,
     << <<"a", "b">>, <<"01", "2">>, <<"10", "a">>, <<"nan">>, <<>> >>,
     << <<"b", "a", "a">>, <<"1", "b", "2">>, <<"", "2", "10">> >> }
-----------------------------------------------------------------------------
(* specledger: a sound repository with one part of it varied.              *)

File(n, d, t) == [number |-> n, digits |-> d, stem |-> t]

Sound ==
    [root |-> TRUE, files |-> {File(1, 1, "x"), File(2, 1, "x")},
     registry |-> {"e1", "e2"}, dispatch |-> {"e1", "e2"}, tiles |-> TRUE, handled |-> {"e1"},
     changelog |-> {"c1"}, git |-> {"c1", "c2"},
     manifest |-> {"t1", "t2"}, spec |-> {"t1", "t2"}, app |-> {"t1"}, loop |-> TRUE]

MigrationFiles ==
    {File(0, 1, "x"), File(1, 1, "x"), File(1, 1, "y"), File(1, 2, "x"), File(2, 1, ""),
     File(2, 1, "x"), File(3, 1, "x"), File(10, 2, "x"), File(0, 0, "x")}

EventLists == SUBSET {"e1", "e2"} \cup {Absent}

TileLists == SUBSET {"t1", "t2"} \cup {Absent}

CommitLists == {Absent, {}, {"c1"}, {"c1", "c3"}}

Variations ==
    {[Sound EXCEPT !.files = f] : f \in {Absent} \cup {g \in SUBSET MigrationFiles : Cardinality(g) <= 4}}
    \cup {[Sound EXCEPT !.registry = a, !.dispatch = b, !.handled = h, !.tiles = t] :
             a, b \in EventLists, h \in SUBSET {"e1", "e2"}, t \in {TRUE, Absent}}
    \cup {[Sound EXCEPT !.manifest = a, !.spec = b, !.app = h, !.loop = t] :
             a, b, h \in TileLists, t \in BOOLEAN}
    \cup {[Sound EXCEPT !.changelog = a, !.git = b] : a, b \in CommitLists}
    \cup {[Sound EXCEPT !.root = FALSE]}
-----------------------------------------------------------------------------
AnyCommand == CHOOSE c \in Commands : TRUE

\* the inputs are enumerated for the machine that runs
ProgramsInit ==
    /\ focus \in {"oss", "jqlite", "csvlite", "specledger"}
    /\ Init
    /\ IF focus = "jqlite" THEN JqInit ELSE JqStart(<<>>)
    /\ IF focus = "csvlite" THEN CsvInit ELSE CsvStart(AnyCommand)
    /\ IF focus = "specledger" THEN LedgerInit ELSE LedgerStart(Sound)

InOss(A) == focus = "oss" /\ A /\ UNCHANGED <<focus, jqVars, csvVars, ledgerVars>>

OssTurn == InOss(Next)

QueryTurn == focus = "jqlite" /\ JqNext /\ UNCHANGED <<focus, vars, csvVars, ledgerVars>>

SelectionTurn == focus = "csvlite" /\ CsvNext /\ UNCHANGED <<focus, vars, jqVars, ledgerVars>>

LedgerTurn == focus = "specledger" /\ LedgerNext /\ UNCHANGED <<focus, vars, jqVars, csvVars>>

ProgramsNext == OssTurn \/ QueryTurn \/ SelectionTurn \/ LedgerTurn

programsVars == <<focus, vars, jqVars, csvVars, ledgerVars>>

\* FairSpec's fairness, while the OSS run is the one that runs
ProgramsSpec ==
    /\ ProgramsInit /\ [][ProgramsNext]_programsVars
    /\ SF_programsVars(InOss(PollLoop))
    /\ WF_programsVars(InOss(Overrun))
    /\ WF_programsVars(InOss(Unblock))
    /\ WF_programsVars(InOss(Unwind))

(***************************************************************************)
(* The three programs do what their documents promise: a query means what  *)
(* its grammar and jq say, a selection is decided row by row, and a clean  *)
(* ledger can be relied on.                                                *)
(***************************************************************************)
ProgramsMean ==
    /\ QueryMeans
    /\ CsvTypeOK /\ SelectionMeans
    /\ LedgerTypeOK /\ LedgerMeans
=============================================================================
