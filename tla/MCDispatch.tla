----------------------------- MODULE MCDispatch -----------------------------
(* A rule chain exercising every path of dispatch_query_pack(): a key     *)
(* transform, a source-address and server rule, a query on a database    *)
(* whose open fails, and a map transform as the last rule.               *)
EXTENDS Dispatch, TLC

CONSTANTS m1, m2, k1, k2, k3, x1, d1, d2, d3, d4, d5, d6, r2, S1, S2, a4_2, a5_2, a8_d, hbad, p2

MCValues == {m1, m2, k1, k2, k3, x1}
MCDBs == {d1, d2, d3, d4, d5, d6}

\* Addresses are 4 bits in 2 bytes of 2.  a4_2 is "4/2", the network
\* 01xx; a5_2 is "5/2", the same network written with a host bit set;
\* a8_d is "8/3.0", network 10xx with a dotted mask (1100); hbad is a host
\* name that does not resolve.  p2 is a glob matching k1 and k2.
Inet(a) == [family |-> "inet", addr |-> a]
Unnamed == [family |-> "unix", path |-> ""]
MCConns == {[server |-> s, client |-> c] : s \in {S1, S2}, c \in {Inet(5), Inet(9), Unnamed}}

MCSources ==
    [x \in {a4_2, a5_2, a8_d, hbad} |->
        CASE x = a4_2 -> [family |-> "inet", resolves |-> TRUE, addr |-> 4, mask |-> "len", n |-> 2]
          [] x = a5_2 -> [family |-> "inet", resolves |-> TRUE, addr |-> 5, mask |-> "len", n |-> 2]
          [] x = a8_d -> [family |-> "inet", resolves |-> TRUE, addr |-> 8, mask |-> "dotted", n |-> 12]
          [] x = hbad -> [family |-> "inet", resolves |-> FALSE]]
MCPatterns == [x \in {p2} |-> [set |-> {k1, k2}, re |-> FALSE]]

\* The SQL databases: "key k3" goes to the mysql database d5 for map m1
\* and to the postgres database d6 for map m2.
SqlRules ==
    << <<"map", m1, "key", k3, "database", d5>>,
       <<"map", m2, "key", k3, "database", d6>> >>

MCRules == SqlRules \o
    << <<"map", m1, "transform", "key", d1>>,
       <<"key", "like", p2, "from", a4_2, "server", S1, "database", d2>>,
       <<"map", m2, "database", d3>>,
       <<"map", m1, "transform", "map", d1>> >>

\* A map transform on d1, whose commands are then chained (the cfg gives
\* d1 the arguments D1ArgsChained), and four statements for d2 (the only
\* database that answers a query).  A fifth, before the last, queries d4,
\* a sed database without commands.  "from 5/2", whose address has a host bit set (network 01xx is meant);
\* "from 8/3.0", a dotted mask; "not server S1"; and a condition on a host
\* that does not resolve, after the database.  Each one alone makes the
\* code's answers differ from sections 4.4 and 5: the first two for a
\* client of their network on S1, the third for a UNIX client on S1, the
\* last by serving a configuration with a syntax error.  The transform,
\* with any of the others after it, makes m2 m1 for the spec and not for
\* the code.
MCRulesConditions == SqlRules \o
    << <<"map", m2, "transform", "map", d1>>,
       <<"from", a5_2, "database", d2>>,
       <<"from", a8_d, "database", d2>>,
       <<"not", "server", S1, "database", d2>>,
       <<"map", m2, "database", d4>>,
       <<"database", d2, "from", hbad>> >>

\* The texts of the values; x1 stands for every other text.
Sed == INSTANCE SedSpec
Sql == INSTANCE SqlBackend
Text == (m1 :> Sed!Chars("ma")) @@ (m2 :> Sed!Chars("mb")) @@ (k1 :> Sed!Chars("a"))
        @@ (k2 :> Sed!Chars("b")) @@ (k3 :> Sed!Chars("b'")) @@ (x1 :> Sed!Chars("z"))
Decode(t) == IF \E v \in MCValues : Text[v] = t THEN CHOOSE v \in MCValues : Text[v] = t ELSE x1

\* A table built entry by entry, so that TLC computes it once.
Tabulate(S, F(_)) == FoldSet(LAMBDA v, acc : acc @@ (v :> F(v)), <<>>, S)

\* d1's xform entry, the sed database with the arguments args.
SedArgv(args) == <<Sed!Chars("sed")>> \o [i \in DOMAIN args |-> Sed!Chars(args[i])]
SedDefs == Sed!sed_init(<<Sed!Chars("sed")>>).vals
\* The database is a parameter, not a LET definition, so that it is
\* computed once per table.
SedXformOf(db) ==
    LET Result(r) == CASE r.rc # 0 -> Fail
                       [] r.null   -> NoChange
                       [] OTHER    -> Decode(r.out)
        Entry(v) == Result(Sed!sed_xform(db, Text[v]))
    IN Tabulate(MCValues, Entry)
SedXform(args) == SedXformOf(Sed!sed_init_db(SedDefs, SedArgv(args)))
SpecSedXformOf(db) ==
    LET Entry(v) == Decode(Sed!SedSpecString(db.list, Text[v]))
    IN Tabulate(MCValues, Entry)
SpecSedXform(args) == SpecSedXformOf(Sed!SpecSedInitDb(SedDefs, SedArgv(args)))

\* "database d1 sed 's/a/b/' icase": the option after the command.
D1Args == <<"s/a/b/", "icase">>
Unchanged == [v \in MCValues |-> NoChange]
MCXform == (d1 :> SedXform(D1Args)) @@ [d \in MCDBs |-> Unchanged]
MCSpecXform == (d1 :> SpecSedXform(D1Args)) @@ [d \in MCDBs |-> Unchanged]

\* "database d1 sed 's/m/q/;s/qb/ma/' icase": two commands in one argument,
\* and "database d1 sed 's/m/q/' 's/qb/ma/' icase": the same two commands
\* as two arguments before an option.
D1ArgsChained == <<"s/m/q/", "s/qb/ma/", "icase">>
MCXformChained == (d1 :> SedXform(D1ArgsChained)) @@ [d \in MCDBs |-> Unchanged]
MCSpecXformChained == (d1 :> SpecSedXform(D1ArgsChained)) @@ [d \in MCDBs |-> Unchanged]

\* The query entry of a sed database with the arguments args: the line it
\* writes, Fail when it fails (dispatch then writes NOTFOUND), or Crash.  A
\* "NOTFOUND" line is the line dispatch writes.
Line(t) == IF t = Sed!Chars("NOTFOUND") THEN NOTFOUND ELSE t
SedAnswerOf(db) ==
    LET Result(r) == CASE r.crash   -> Crash
                       [] r.rc # 0  -> Fail
                       [] OTHER     -> Line(r.line)
        Entry(q) == Result(Sed!sed_query(db, Text[q[1]], Text[q[2]]))
    IN Tabulate(MCValues \X MCValues, Entry)
SedAnswer(args) == SedAnswerOf(Sed!sed_init_db(SedDefs, SedArgv(args)))
SpecSedAnswerOf(db) ==
    LET Entry(q) == Line(Sed!SpecQueryReply(db, Text[q[1]], Text[q[2]]).line)
    IN Tabulate(MCValues \X MCValues, Entry)
SpecSedAnswer(args) == SpecSedAnswerOf(Sed!SpecSedInitDb(SedDefs, SedArgv(args)))

\* "database d2 sed 's/a/y/' 'positive-reply=${map}:$xform'" and
\* "database d4 sed icase", which has no command; d1 and d3 are never
\* queried (d3 cannot be opened).
D2Args == <<"s/a/y/", "positive-reply=${map}:$xform">>
D4Args == <<"icase">>
Other == [q \in MCValues \X MCValues |-> r2]
SedAnswers == (d2 :> SedAnswer(D2Args)) @@ (d4 :> SedAnswer(D4Args))
SpecSedAnswers == (d2 :> SpecSedAnswer(D2Args)) @@ (d4 :> SpecSedAnswer(D4Args))

\* d5 is a mysql database with the words query=k='${key}' and
\* positive-reply=OK ${v}; d6 a postgres one with the same words and the
\* connection string dbname=smap.  Neither module has arguments of its own.
\* The query is cut down to the string literal the server reads.  mysql's
\* server reads backslash escapes; postgres's does when bs holds.
Words(ws) == [i \in DOMAIN ws |-> Sed!Chars(ws[i])]
SqlQuery == "query=k='${key}'"
SqlPositive == "positive-reply=OK ${v}"
Intab(q) == <<Text[q[1]], Text[q[2]], Sed!NoValue, Sed!NoValue>>
SqlResult(r) == CASE r.crash   -> Crash
                  [] r.rc # 0  -> Fail
                  [] OTHER     -> Line(r.line)
MysqlAnswerOf(def, db, rows) ==
    LET Entry(q) == SqlResult(Sql!mysql_mod_query(db, def, [rows |-> rows, bs |-> TRUE], Intab(q)))
    IN Tabulate(MCValues \X MCValues, Entry)
MysqlAnswer(rows) ==
    MysqlAnswerOf(Sql!mysql_mod_init(Words(<<"mysql">>)).def,
                  Sql!mysql_mod_init_db(Words(<<"mysql", SqlQuery, SqlPositive>>)), rows)
PgAnswerOf(def, db, rows, bs) ==
    LET Entry(q) == SqlResult(Sql!modpg_query(db, def, [rows |-> rows, bs |-> bs], Intab(q)))
    IN Tabulate(MCValues \X MCValues, Entry)
PgAnswer(rows, bs) ==
    PgAnswerOf(Sql!modpg_init(Words(<<"postgres">>)).def,
               Sql!modpg_init_db(Words(<<"postgres", SqlQuery, "dbname=smap", SqlPositive>>)).db,
               rows, bs)
\* What a SQL database promises: the row stored under the key, whatever
\* its text, in the positive reply (a NULL column as nothing), else the
\* negative one.
SpecSqlAnswer(rows) ==
    LET Value(c) == IF c.value = Sed!NoValue THEN <<>> ELSE c.value
        Entry(q) == IF Text[q[2]] \in DOMAIN rows
                    THEN Sed!Chars("OK ") \o Value(rows[Text[q[2]]][1])
                    ELSE NOTFOUND
    IN Tabulate(MCValues \X MCValues, Entry)

\* The row stored under k3's text, with a value and with a NULL one.
Col(n, v) == [name |-> n, value |-> v]
RowsValue == Sed!Chars("b'") :> <<Col("v", Sed!Chars("q"))>>
RowsNull == Sed!Chars("b'") :> <<Col("v", Sed!NoValue)>>

\* dispatch_main: d5 holds a value and d6 a NULL, on a postgres server
\* that reads backslash escapes.  dispatch_conditions: d5 holds a NULL
\* and d6 runs on a server with postgres's default settings.
MCAnswer == SedAnswers @@ (d5 :> MysqlAnswer(RowsValue)) @@ (d6 :> PgAnswer(RowsNull, TRUE))
            @@ [d \in MCDBs |-> Other]
MCSpecAnswer == SpecSedAnswers @@ (d5 :> SpecSqlAnswer(RowsValue)) @@ (d6 :> SpecSqlAnswer(RowsNull))
                @@ [d \in MCDBs |-> Other]
MCAnswerConditions ==
    SedAnswers @@ (d5 :> MysqlAnswer(RowsNull)) @@ (d6 :> PgAnswer(RowsNull, FALSE))
    @@ [d \in MCDBs |-> Other]
MCSpecAnswerConditions ==
    SpecSedAnswers @@ (d5 :> SpecSqlAnswer(RowsNull)) @@ (d6 :> SpecSqlAnswer(RowsNull))
    @@ [d \in MCDBs |-> Other]
\* The lines the main configuration's query entries write.
MCReplies == {MCAnswer[d][q] : d \in MCDBs, q \in MCValues \X MCValues} \ {Fail, Crash, NOTFOUND}

MCOpenOK == [d \in MCDBs |-> d # d3]

MCRequests == {<<m, k>> : m \in {m1, m2}, k \in {k1, k2, k3}}

\* Argument words for sed_init_db(): two commands; the options, one with
\* text after its name; a bool-style "no" form and an "=" on a flag,
\* neither of which is an option of sed; a string option with and without
\* its value.
MCSedWords == {"s/a/b/", "s/b/c/", "icase", "icasex", "noicase", "extended=1",
               "positive-reply=y", "positive-reply"}
MCSedArgvs == {SedArgv(w) : w \in BoundedSeq(MCSedWords, 4)}

(* smap_parseopt() with SMAP_PARSEOPT_PERMUTE, as sed_init_db() calls it  *)
(* on a database's arguments: every option is taken wherever it stands,   *)
(* in the order given, with the result code the options give, and every  *)
(* other word is left, once, after the index returned, whatever the swaps *)
(* the loop makes (their order is the question of dispatch_conditions).   *)
(* Checked at startup, when init_db runs; the body has no variables, so   *)
(* TLC evaluates it once.                                                 *)
SedFlags == [argv0 |-> FALSE, permute |-> TRUE, pindex |-> TRUE]
SedOptionsParsedAll ==
    \A argv \in MCSedArgvs :
        \A c \in {Sed!smap_parseopt(Sed!SedOptions, SedDefs, argv, SedFlags)},
          r \in {Sed!SpecParseopt(Sed!SedOptions, SedDefs, argv, SedFlags)} :
            /\ c.rc = r.rc
            /\ c.vals = r.vals
            /\ ToBag(Sed!Drop(c.argv, c.index)) = ToBag(r.rest)
SedOptionsParsed == nsess = 1 /\ nreq = 0 => SedOptionsParsedAll
=============================================================================
