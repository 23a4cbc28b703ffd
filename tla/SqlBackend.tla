----------------------------- MODULE SqlBackend -----------------------------
(***************************************************************************)
(* The SQL backends (src/modules/mysql/mysql.c, src/modules/postgres/     *)
(* postgres.c): how init and init_db turn a declaration's words into a    *)
(* database record, how postgres builds its libpq connection string, and *)
(* how a query is answered: the variables map, key, src and dst           *)
(* (fill_env), the query template expanded with escaped values, the      *)
(* server's result, and the positive, negative or error reply template   *)
(* expanded with the unescaped values and the first row's columns.        *)
(*                                                                         *)
(* Texts are CString sequences; NoValue is a NULL pointer.  The database  *)
(* server is SqlServer below: a result is "error" (mysql_query() failed, or *)
(* PQexec()'s status is neither COMMAND_OK nor TUPLES_OK), "noresult"     *)
(* (mysql_store_result() gave NULL) or a sequence of rows, each a         *)
(* sequence of columns [name, value], value a text or NoValue for SQL    *)
(* NULL.                                                                  *)
(***************************************************************************)
EXTENDS SedTransform

MDB_DEFDB == "MDB_DEFDB"

\* The module-level (def_db) and database-level reply templates, and the
\* text the code falls back to.
ReplyOf(db, def, f, dflt) ==
    IF db[f] # NoValue THEN db[f] ELSE IF def[f] # NoValue THEN def[f] ELSE Chars(dflt)
moddb_positive_reply(db, def) == ReplyOf(db, def, "positive_reply", "OK")
moddb_negative_reply(db, def) == ReplyOf(db, def, "negative_reply", "NOTFOUND")
moddb_onerror_reply(db, def) == ReplyOf(db, def, "onerror_reply", "NOTFOUND")
modpg_positive_reply(db, def) == ReplyOf(db, def, "positive_reply", "OK")
modpg_negative_reply(db, def) == ReplyOf(db, def, "negative_reply", "NOTFOUND")
modpg_onerror_reply(db, def) == ReplyOf(db, def, "onerror_reply", "NOTFOUND")

-----------------------------------------------------------------------------
(* Declarations.  The option tables of mod_init/mod_init_db (mysql) and   *)
(* modpg_init/modpg_init_db (postgres), over the record of option values. *)
ReplyOptions ==
    << Opt("query", "string", "template", {}),
       Opt("positive-reply", "string", "positive_reply", {}),
       Opt("negative-reply", "string", "negative_reply", {}),
       Opt("onerror-reply", "string", "onerror_reply", {}) >>
MysqlConnFields == <<"config_file", "config_group", "ssl_ca", "host", "user",
                     "password", "database", "port", "socket">>
MysqlConnOptions ==
    << Opt("config-file", "string", "config_file", {}),
       Opt("config-group", "string", "config_group", {}),
       Opt("ssl-ca", "string", "ssl_ca", {}), Opt("host", "string", "host", {}),
       Opt("user", "string", "user", {}), Opt("password", "string", "password", {}),
       Opt("database", "string", "database", {}), Opt("port", "long", "port", {}),
       Opt("socket", "string", "socket", {}) >>
MysqlNone == [f \in {"template", "positive_reply", "negative_reply", "onerror_reply",
                     "config_file", "config_group", "ssl_ca", "host", "user",
                     "password", "database", "socket"} |-> NoValue]
              @@ [port |-> 0, flags |-> {}]

(* mod_init(): the module's words fill def_db; any other word is an error *)
(* (no index is asked for).  [rc, def].                                   *)
mysql_mod_init(argv) ==
    Bind(smap_parseopt(MysqlConnOptions \o ReplyOptions, MysqlNone, argv,
                       [argv0 |-> FALSE, permute |-> FALSE, pindex |-> FALSE]),
         LAMBDA p : [rc |-> p.rc, def |-> [p.vals EXCEPT !.flags = {}]])

(* dbdeclared(): the database names a connection parameter of its own. *)
dbdeclared(db) == \E f \in DOMAIN MysqlConnFields :
                      db[MysqlConnFields[f]] # IF MysqlConnFields[f] = "port" THEN 0 ELSE NoValue

(* mod_init_db(): "defaultdb" is a bit of flags; a database with no       *)
(* connection parameter uses def_db's connection.  NoValue when parsing  *)
(* fails.                                                                 *)
mysql_mod_init_db(argv) ==
    Bind(smap_parseopt(<<Opt("defaultdb", "bitmask", "flags", {MDB_DEFDB})>>
                           \o MysqlConnOptions \o ReplyOptions, MysqlNone, argv,
                       [argv0 |-> FALSE, permute |-> FALSE, pindex |-> FALSE]),
         LAMBDA p : IF p.rc # 0 THEN NoValue
                    ELSE [p.vals EXCEPT !.flags = IF dbdeclared(p.vals) THEN @ ELSE @ \cup {MDB_DEFDB}])

(* modpg_quoted_length(): one per character, two for a quote or a         *)
(* backslash.                                                             *)
modpg_quoted_length(s) == Len(s) + Len(SelectSeq(s, LAMBDA c : c \in {"'", "\\"}))

\* The offset of the last '=' (strrchr) and of the first, -1 for none.
LastEq(w) == LET i == SelectLastInSeq(w, LAMBDA c : c = "=") IN i - 1
FirstEq(w) == LET i == SelectInSeq(w, LAMBDA c : c = "=") IN i - 1

(* create_conninfo(): the bytes malloc()ed (the first loop: up to the     *)
(* last '=', the quoted length of the rest, and a separator each) and the *)
(* text written (the second loop: up to the first '=', then the rest, in  *)
(* quotes with '\' and TAB escaped when it holds a blank, a TAB, a '\' or  *)
(* a quote).  The last separator becomes the NUL, so the text written    *)
(* takes Len(text) + 1 bytes.  [total, text].                             *)
ArgLen(w) == IF LastEq(w) = -1 THEN Len(w)
             ELSE LastEq(w) + 1 + modpg_quoted_length(Drop(w, LastEq(w) + 1))
NeedsQuote(q) == \E i \in DOMAIN q : q[i] \in {" ", "\t", "\\", "'"}
QuoteBody(q) == FoldLeft(LAMBDA acc, c : acc \o (IF c \in {"\\", "\t"} THEN <<"\\", c>> ELSE <<c>>),
                         <<>>, q)
ArgText(w) ==
    LET k == IF FirstEq(w) = -1 THEN Len(w) ELSE FirstEq(w) + 1
        q == Drop(w, k)
    IN SubSeq(w, 1, k) \o (IF NeedsQuote(q) THEN <<"'">> \o QuoteBody(q) \o <<"'">> ELSE q)
create_conninfo(args) ==
    [total |-> FoldLeft(LAMBDA n, w : n + ArgLen(w) + 1, 0, args),
     text  |-> FoldLeft(LAMBDA t, w : IF t = <<>> THEN ArgText(w) ELSE t \o <<" ">> \o ArgText(w),
                        <<>>, args)]
ConninfoOverrun(args) == LET c == create_conninfo(args) IN Len(c.text) + 1 > c.total

(* modpg_init(): the reply and query options anywhere among the module's *)
(* words fill def_db; the other words, if any, make its connection        *)
(* string.  [rc, def, overrun].                                           *)
PgNone == [template |-> NoValue, positive_reply |-> NoValue, negative_reply |-> NoValue,
           onerror_reply |-> NoValue]
modpg_init(argv) ==
    Bind(smap_parseopt(ReplyOptions, PgNone, argv,
                       [argv0 |-> FALSE, permute |-> TRUE, pindex |-> TRUE]),
         LAMBDA p :
            LET rest == Drop(p.argv, p.index)
            IN [rc |-> p.rc, def |-> p.vals,
                overrun |-> p.rc = 0 /\ rest # <<>> /\ ConninfoOverrun(rest)])

(* modpg_init_db(): the reply and query options anywhere among the words  *)
(* (SMAP_PARSEOPT_PERMUTE); the other words, if any, make the connection *)
(* string, otherwise the database uses def_db's.  [db, overrun]; db is    *)
(* NoValue when parsing fails.                                            *)
modpg_init_db(argv) ==
    Bind(smap_parseopt(ReplyOptions, PgNone, argv,
                       [argv0 |-> FALSE, permute |-> TRUE, pindex |-> TRUE]),
         LAMBDA p :
            LET rest == Drop(p.argv, p.index)
            IN IF p.rc # 0 THEN [db |-> NoValue, overrun |-> FALSE]
               ELSE [db |-> p.vals @@ [flags |-> IF rest = <<>> THEN {MDB_DEFDB} ELSE {},
                                       conninfo |-> IF rest = <<>> THEN NoValue
                                                    ELSE create_conninfo(rest).text],
                     overrun |-> rest # <<>> /\ ConninfoOverrun(rest)])

-----------------------------------------------------------------------------
(* Queries.  The variables are map, key, src and dst; src and dst are the *)
(* dotted client and server addresses of an INET connection and NULL     *)
(* otherwise.  fill_env() leaves the slot of an unset value NULL.         *)
QueryVars == <<"map", "key", "src", "dst">>
format_envar(var, val) == Chars(var) \o <<"=">> \o val

\* The environment wordsplit() sees: the entries before the first NULL.
EnvSeen(env) ==
    LET i == SelectInSeq(env, LAMBDA e : e = NoValue)
    IN IF i = 0 THEN env ELSE SubSeq(env, 1, i - 1)

(* mysql_real_escape_string() (the client library): a backslash before    *)
(* each '\', quote and double quote (the characters modelled).  postgres: *)
(* quote_copy() puts a backslash before each '\', TAB and quote, and      *)
(* fill_env() calls it only when quoted_length() flags one.               *)
mysql_real_escape_string(v) ==
    FoldLeft(LAMBDA acc, c : acc \o (IF c \in {"\\", "'", "\""} THEN <<"\\", c>> ELSE <<c>>), <<>>, v)
quote_copy(v) ==
    FoldLeft(LAMBDA acc, c : acc \o (IF c \in {"\\", "\t", "'"} THEN <<"\\", c>> ELSE <<c>>), <<>>, v)
quoted_length(v) == \E i \in DOMAIN v : v[i] \in {"\\", "\t", "'"}
pg_escape(v) == IF quoted_length(v) THEN quote_copy(v) ELSE v
\* The escaping fill_env() is given: "mysql", "pg" or none.
Escape(esc, v) == CASE esc = "mysql" -> mysql_real_escape_string(v)
                    [] esc = "pg"    -> pg_escape(v)
                    [] OTHER         -> v
fill_env(esc, intab) ==
    [i \in 1..4 |-> IF intab[i] = NoValue THEN NoValue ELSE format_envar(QueryVars[i], Escape(esc, intab[i]))]

(* create_query_env(): env with the values as given, for the replies, and *)
(* qenv with them escaped, for the query.                                 *)
create_query_env(esc, intab) == [env |-> fill_env("none", intab), qenv |-> fill_env(esc, intab)]

(* The SQL server (outside the repository): the query's text from its    *)
(* first quote is one string literal, read with backslash escapes when    *)
(* srv.bs holds (mysql; postgres with standard_conforming_strings off) or *)
(* without them (postgres's default since 9.1), '' standing for a quote  *)
(* either way; a literal that does not end the statement is a syntax     *)
(* error.  srv.rows maps key texts to rows.                               *)
RECURSIVE SqlLiteral(_, _, _)
SqlLiteral(t, acc, bs) ==
    CASE t = <<>> -> NoValue
      [] bs /\ t[1] = "\\" /\ Len(t) > 1 -> SqlLiteral(Drop(t, 2), Append(acc, t[2]), bs)
      [] t[1] = "'" /\ Len(t) > 1 /\ t[2] = "'" -> SqlLiteral(Drop(t, 2), Append(acc, "'"), bs)
      [] t[1] = "'" -> IF Len(t) = 1 THEN acc ELSE NoValue
      [] OTHER -> SqlLiteral(Tail(t), Append(acc, t[1]), bs)
SqlServer(srv, q) ==
    LET i == SelectInSeq(q, LAMBDA c : c = "'")
        k == IF i = 0 THEN NoValue ELSE SqlLiteral(Drop(q, i), <<>>, srv.bs)
    IN CASE k = NoValue          -> "error"
         [] k \in DOMAIN srv.rows -> <<srv.rows[k]>>
         [] OTHER                -> <<>>

(* do_query(): the template expanded with qenv is run; a failing          *)
(* expansion or query is 1.  [rc, res].                                   *)
do_query(db, qenv, srv) ==
    Bind(WsExpand(db.template, EnvSeen(qenv), <<>>), LAMBDA w :
         IF w.rc # 0 THEN [rc |-> 1, res |-> "error"]
         ELSE Bind(SqlServer(srv, w.word), LAMBDA r :
                   [rc |-> IF r = "error" THEN 1 ELSE 0, res |-> r]))

(* send_reply(): the template expanded with env is the line written       *)
(* ("%s\n"); a failing expansion writes nothing and returns 1.            *)
send_reply(template, env) ==
    Bind(WsExpand(template, EnvSeen(env), <<>>), LAMBDA w :
         [crash |-> FALSE, rc |-> IF w.rc # 0 THEN 1 ELSE 0,
          line |-> IF w.rc # 0 THEN NoValue ELSE w.word])

(* postgres.c's create_query_env(), do_query() and send_reply() take the *)
(* same steps; a PQexec() that gives NULL or a status other than          *)
(* COMMAND_OK and TUPLES_OK is the server's "error".                      *)
modpg_create_query_env(intab) == create_query_env("pg", intab)
modpg_do_query(db, qenv, srv) == do_query(db, qenv, srv)
modpg_send_reply(template, env) == send_reply(template, env)

(* do_positive_reply(): the first row's columns, in the order the query *)
(* names them (a row is a sequence of [name, value]), are appended after  *)
(* the entries before the first NULL, each as NAME=VALUE by               *)
(* format_envar().  mysql: a NULL column (mysql_fetch_row() gives a NULL  *)
(* pointer) reaches strlen() in format_envar() and the process is killed; *)
(* postgres: PQgetvalue() gives "" for it.                                *)
RowEnv(env, row) == EnvSeen(env) \o [j \in DOMAIN row |-> format_envar(row[j].name, row[j].value)]
mysql_do_positive_reply(template, env, row) ==
    IF \E j \in DOMAIN row : row[j].value = NoValue
    THEN [crash |-> TRUE, rc |-> 1, line |-> NoValue]
    ELSE send_reply(template, RowEnv(env, row))
PQgetvalue(c) == IF c.value = NoValue THEN [c EXCEPT !.value = <<>>] ELSE c
modpg_do_positive_reply(template, env, row) ==
    modpg_send_reply(template, RowEnv(env, [j \in DOMAIN row |-> PQgetvalue(row[j])]))

(* mod_query() (mysql): the error reply when do_query() fails; for a      *)
(* result, the positive reply when it has rows, else the negative one;    *)
(* the negative one too when there is no result set.  [crash, rc, line].  *)
mysql_mod_query(db, def, srv, intab) ==
    Bind(create_query_env("mysql", intab), LAMBDA e :
    Bind(do_query(db, e.qenv, srv), LAMBDA q :
        CASE q.rc # 0             -> send_reply(moddb_onerror_reply(db, def), e.env)
          [] q.res = "noresult"   -> send_reply(moddb_negative_reply(db, def), e.env)
          [] Len(q.res) > 0       -> mysql_do_positive_reply(moddb_positive_reply(db, def), e.env, q.res[1])
          [] OTHER                -> send_reply(moddb_negative_reply(db, def), e.env)))

(* modpg_query(): the error reply when do_query() fails, else the         *)
(* positive reply when the result has tuples and the negative one when   *)
(* it has none.                                                           *)
modpg_query(db, def, srv, intab) ==
    Bind(modpg_create_query_env(intab), LAMBDA e :
    Bind(modpg_do_query(db, e.qenv, srv), LAMBDA q :
        CASE q.rc # 0         -> modpg_send_reply(modpg_onerror_reply(db, def), e.env)
          [] Len(q.res) > 0   -> modpg_do_positive_reply(modpg_positive_reply(db, def), e.env, q.res[1])
          [] OTHER            -> modpg_send_reply(modpg_negative_reply(db, def), e.env)))
=============================================================================
