# TLA+ models of smapd

This directory holds the TLA+ models of the `smapd` socket-map daemon in
`src/`. They are checked with TLC. Each model is written from the C source. The
comments in each module name the functions its definitions translate, and
`PROJECT.json` maps every definition to its source lines.

## The system

`smapd` accepts connections on one or more listeners (servers). Each
connection sends line-based requests of the form `MAP KEY`. Each request
travels through three parts:

- **Server manager** (`src/src/srvman.c`, driven by `smap_daemon` in
  `src/src/smapd.c`). A single-threaded parent opens the listeners, then runs
  a select/accept/fork loop. Each child serves one connection.
  - A `SIGCHLD` handler sets `need_cleanup`. The loop reaps with `waitpid`
    and keeps per-server and global child counters.
  - A per-server `max-children` takes a busy server out of the select set.
    A global `max-children` makes the loop `pause()`.
  - Stop signals end the loop. `smap_srvman_shutdown` then sends SIGTERM,
    polls for up to `shutdown-timeout` seconds, and sends SIGKILL.
- **Session loop** (`smap_loop`, `smap_session_server` in `smapd.c`). It reads
  request lines, splits them at the first space, and calls `dispatch_query`.
  At end of input it calls `close_databases`.
  - In forking mode each child runs one session.
  - In single-process mode the daemon runs the sessions itself, one after
    another.
- **Dispatcher** (`src/src/query.c`) with the **module registry**
  (`src/src/module.c`). An ordered rule list is scanned. A rule's conditions
  are AND-ed. The condition kinds are `not`, `from` (address/netmask or UNIX
  path), `server`, and `map`/`key` compared by eq, glob or regexp.
  - The first matching rule wins.
  - A transform rule rewrites the map or key through the backend's `xform`
    entry, and the scan resumes after it.
  - A query rule calls the backend's `query` entry.
  - Databases are opened on first use. The per-process `opened` flag guards
    this.
- **Wire layer** (`src/lib/stream.c`, `src/lib/sockmapstr.c`). Every
  connection is wrapped by `smap_sockmap_stream_create`: requests and replies
  travel as records `<len>:<payload>,` (the sendmail socket map protocol).
  - The outer stream has no buffer, so `smap_stream_getline` reads it one
    byte at a time.
  - Each byte comes from the inner input stream: full buffering, 1024 bytes,
    growable.
  - A fill calls `_sockmap_input_stream_read`, which returns exactly one
    record, with its comma rewritten to `\n`.
  - A reply goes the other way: `smap_stream_write` copies it into the inner
    output stream (line buffering, 1024 bytes, growable), and each complete
    line is flushed to `_sockmap_output_stream_write` as one record.
- **Startup** (`main` in `smapd.c`, `src/src/module.c`, `src/src/cfg.c`).
  `parse_config` runs the `module`, `database` and `dispatch` keyword
  callbacks, which only declare. Then:
  - `smap_modules_load` loads each module object and checks its function
    table. A module that fails takes its databases with it.
  - `init_databases` calls each database's `init_db`. A database with no
    module or no handle is removed.
  - `link_dispatch_rules` drops every rule whose database is gone or whose
    module lacks the rule's operation.
  - `free_databases` runs when the daemon returns.
- **Configuration reader** (`src/src/cfg.c`). `parse_config` reads the file
  with `read_line`, which joins a line ending in a backslash with the next
  and skips empty lines. `wordsplit` splits each line into words, drops a
  `#` comment, and expands `$NAME` once a `NAME=VALUE` line has been seen.
  Assignments go to an environment that `asgn` keeps. Any other line starts
  with a keyword of the table: its value is stored by type, or its handler
  is called. The `server` handler reads a `server ... begin` block with a
  second `parse_config_loop` on the server keywords until `end`. Its URL
  is parsed by `smap_url_parse` (`src/lib/url.c`) into a UNIX or IPv4
  socket address.
- **Privileges** (`src/src/userprivs.c`, the `user`/`group`/`allgroups`
  callbacks and `smap_daemon` in `smapd.c`). The configuration names a
  user and groups for the master and for each server. After startup, a
  master launched as root calls `switch_to_privs`; each forked session
  switches again to its server's user.
- **The sed backend** (`src/modules/sed/sed.c`, `transform.c`). A sed
  database is declared with `s/regexp/replacement/flags` commands (several
  in one argument separated by `;`, or several arguments). `init_db`
  compiles them into a list; `xform` runs the list on a map or key and
  returns the output; `query` answers the positive reply (`OK ${xform}`)
  when the output differs from the key and the negative one (`NOTFOUND`)
  otherwise, each a template that `sed_reply` expands with the variables
  `map`, `key` and `xform`. The pieces of an output are gathered in the
  database's list (slist) and joined when a command ends.
- **The SQL backends** (`src/modules/mysql/mysql.c`,
  `src/modules/postgres/postgres.c`). A mysql or postgres database is
  declared with option words (`query=`, the three reply templates, and
  connection parameters; postgres joins its other words into a libpq
  connection string). A query fills the variables `map`, `key`, `src` and
  `dst`, expands the query template with the values escaped for SQL, runs
  it, and writes the positive reply (expanded with the first row's columns
  as extra variables), the negative reply when there is no row, or the
  error reply when the query fails.

## Modules

| Module | Models | State | Actions |
|---|---|---|---|
| `Srvman` | srvman.c main loop, signals, shutdown; smap_daemon's sequence | listener states, pid tables, counters, kernel view of each pid, `need_cleanup`, `stop`, signals not yet handled, the parent's program counter, `fdset`, `recompute_fd`, queued connections, seconds slept | `server_open`, `smap_srvman_run`, `LoopTop`, `pause`, `select`, `SelectReady`, `server_accept`, `srvman_signal`, `ChildExit`, `Connect`, `SendStop`, `ShutdownTerm`, `ShutdownReap`, `ShutdownKill`, `smap_srvman_free` |
| `Dispatch` | smap_loop, dispatch_query_pack, match_cond, lazy open, close_databases | session connection info, program counter, request, rewritten map/key, `next` rule, `opened` flags, log of backend calls, replies written, the rule list `dispatch` | `smap_loop`, `dispatch_query_pack` (one do-while pass; `xform_step` and `query_step` are its branches), `NextSession` |
| `DispatchParser` | query.c's statement parser: `parse_dispatch`, `parse_complex_dispatch`, `parse_default_dispatch`, the condition parsers, `parse_dispatch_from` with its masks, the keyword table; and a reference grammar of the statements | none: pure operators over word sequences | none: `cfg_dispatch_parse(words)` is one call of the `dispatch` callback, giving `[rc, attach]` |
| `DispatchSpec` | spec.md section 4.4: the reply a request must get | program counter, connection, request, replies | `SpecReceive`, `SpecAnswer` (whole dispatch in one step, by the recursive `SpecReply`), `SpecNextSession` |
| `Sockmap` | the request path of a connection: sockmapstr.c's reader and writer, stream.c's fill, realloc and getdelim | bytes on the socket, the peer's state, `nbuf`/`reqsz` of the input stream, the local `reqsz` of the recv loop, the buffer contents and size, the line being gathered, lines delivered | `SendRecord`, `SendGarbage`, `PeerCrash`, `Shutdown` (the peer); `read_payload_length`, `_stream_fill_full_buffered`, `RecvPayload`, `RecvEOF`, `smap_stream_getline` |
| `ReplyStream` | the reply path: stream.c's `smap_stream_write` loop on a line-buffered, growable buffer, `_stream_buffer_full_p`, `_stream_flush_buffer`, `_stream_realloc_buffer` | the output buffer (`cur`, its offset in the buffer, `size`, dirty flag, a flag for a copy past the end), records handed to the writer, bytes written | `smap_stream_write(p)` (the whole call, its loop being the recursive `WriteLoop`) |
| `Connection` | smap_loop's alternation of the two paths on one connection | `Sockmap`'s and `ReplyStream`'s variables, the pieces of the reply being written, lines answered, whether the process exited | `Peer`, `Read` (the reading side of `Sockmap`), `Reply` (one `smap_stream_write` of the current reply), `MissingMapName` (the `exit(1)` on a line with no blank), `Halted` |
| `Registry` | main()'s startup: the module/database/dispatch callbacks and the privilege callbacks (`user`, `group`, `allgroups` and their `server` forms, `socket-owner`), `parse_config`'s error flag, `smap_modules_load`, `_load_module`, `remove_dependent_databases`, `init_databases`, `rule_fixup`, `link_dispatch_rules`; `smap_daemon`'s privilege switch and `expand_srv_groups`; a forked session's switch in `smap_session_server`; `free_databases` | phase, configuration and line number, `cfg_errors`, module and database lists, each module's function table, `modname`/`dbh`/`inst` of each database, freed instances, the rule list, handles returned and freed; the global and server privinfo, the socket owner, the credentials at launch and now, the session served, and a flag for a write through a NULL pointer | `ReadLine` (two disjuncts: registry keywords, privilege keywords), `EndConfig`, `smap_modules_load`, `init_databases`, `link_dispatch_rules`, `smap_daemon`, `smap_session_server`, `free_databases`, `Exited` |
| `Privileges` | userprivs.c: `privinfo_set_user`, `privinfo_add_grpnam`, `privinfo_add_grpgid`, `get_user_groups`, `privinfo_expand_user_groups`, `switch_to_privs`; smapd.c: `cfg_srv_chown`, `expand_srv_groups`; Linux semantics of setgroups/setegid/setgid/setuid/setreuid | none: pure operators over privinfo records and credential records | none: `switch_to_privs(pi, cr, F)` gives `[rc, cr]`, `F` being the call sites that meet a transient failure |
| `SedTransform` | transform.c: `parse_transform_expr` (delimiter scans, flags, replacement segments, error order), `transform_compile_incr`, `run_case_conv`, `_single_transform_name_to_slist`, `transform_string`; sed.c: the option table, `sed_init`, `sed_init_db` (options by `Parseopt`), `sed_xform`, `sed_query`; a model of regcomp/regexec on a subset of EREs | none: pure operators over texts (sequences of one-character strings) | none: `sed_init_db(defs, argv)` and `sed_xform(db, v)` are the entries `MCDispatch` calls |
| `CString` | the C string helpers the parsers rely on: offsets from 0 into a text, ctype case conversion, `strtoul` in base 0 and `strtol` | none | none |
| `Parseopt` | parseopt.c: `find_opt`, `find_value`, `smap_parseline`, `smap_parseopt` with `SMAP_PARSEOPT_PERMUTE` and an index; and `SpecParseopt`, getopt's meaning of a permuting parse | none: pure operators over option tables and argument vectors | none: `smap_parseopt(opts, vals, argv, flags)` gives `[rc, vals, argv, index]` |
| `CfgReader` | cfg.c: `read_line`, `asgn_p`, `find_env_var`, `asgn`, `cfg_chkargc`, `cfg_parse_bool`, `parse_int`, `save_words`, `parse_config_loop`, `parse_config`; smapd.c's `cfg_server`, `server_kwtab` and its handlers, `smap_srvman_attach_server`, `CFG_GETNUM`, `parse_mode_string`, the global `socket-mode` and `max-children` handlers; srvman.c's `smap_server_set_*` setters and the settings `server_prep` derives | operators only: the reader state and the loop state are records passed along | none (sequential code, run once at startup) |
| `Url` | url.c: `split_url`, `split_connection`, `parse_url0`, `smap_url_parse`; the resolver as two tables (`Hosts`, `Services`) | operators only | none: `smap_url_parse(text)` gives `[rc, sa]` |
| `CfgSpec` | spec.md section 6: the lines, variables and blocks of a configuration file | operators only | none |
| `SedSpec` | what a list of sed `s` commands means: each applied to the previous one's output, matches found left to right through the whole line | none | none: `SedSpecString(list, s)` |
| `SqlBackend` | mysql.c: the option tables, `mod_init`, `dbdeclared`, `mod_init_db`, `fill_env`, `create_query_env`, `do_query`, `send_reply`, `do_positive_reply`, `mod_query`; postgres.c: `modpg_quoted_length`, `create_conninfo`, `modpg_init`, `modpg_init_db`, `quoted_length`, `quote_copy`, `create_query_env`, `do_query`, `send_reply`, `do_positive_reply`, `modpg_query`; the reply fallbacks of both | none: pure operators over texts | none: `mysql_mod_query(db, def, srv, intab)` and `modpg_query(...)` give `[crash, rc, line]`, `srv` being the SQL server's rows and settings |
| `MCSrvman`, `MCDispatch`, `MCConnection`, `MCRegistry`, `MCConfig` (also the password and group tables) | model values and constant tables for TLC | | |

### Srvman: how the state matches the code

Signals are the hard part.

- A signal raised for the parent goes into `sigpending`. Its handler
  (`srvman_signal`) runs as a separate step, between any two steps of the
  parent.
- The parent's program counter separates the decision to block
  (`pausing_idle`, `pausing_max`, `selecting`) from the blocking call
  (`paused_*`, `in_select`).
- A handler that runs while the parent is blocked interrupts the call. A
  handler that runs just before the call does not. That is what the code
  does, because nothing blocks SIGCHLD around the test-then-block sequence.
- `LoopTop` is one pass of the loop up to the point where it blocks:
  - the `stop`/empty-list test;
  - the `need_cleanup` block, with `children_cleanup`'s waitpid loop and
    `unregister_child`;
  - the `recompute_fd` block;
  - the choice of branch.
- `server_accept` visits the ready servers in list order, as
  `connection_loop` does. Each visit takes one of three branches:
  - busy server: skipped;
  - `accept()` fails (only when `AcceptMayFail`): the server is shut down and
    freed;
  - success: `server_run` forks and registers a child, or drops the
    connection. Dropping stands for an ACL refusal, a fork failure or no free
    pid.
- Children inherit smapd's `sig_stop` for SIGTERM, because the child only
  restores SIGCHLD. So `ShutdownTerm` does not end them: a child ends when
  its session ends (`ChildExit`) or at SIGKILL.

### Dispatch: how the state matches the code

- A backend is three constant tables:
  - `Xform[d][v]`: a new value, `NoChange` (NULL result) or `Fail`;
  - `Answer[d][<<map,key>>]`: a reply line, `Fail` (the query entry
    returned non-zero and dispatch writes `NOTFOUND`) or `Crash` (the
    entry killed the process: no reply, no `close_databases`);
  - `OpenOK[d]`.
- `dblog` records the calls the core makes into backends (`open` with its
  outcome, `query`, `close`), so their order can be checked.
- `next` is the do-while's `next` pointer. 0 stands for NULL (scan from the
  head).
- `parse_from_netlen` and `parse_from_dotted` model the address part of
  `parse_dispatch_from`. They keep two masks: the one the code stores
  (`netmask`) and the one the administrator meant (`mask`). The reference
  semantics uses `mask`.
- The configuration is the constant `RuleLines`: the words of each
  `dispatch` statement. `Init` sets `dispatch` to the rules
  `DispatchParser` attaches for them (`dispatch_list`), and the process
  exits before serving when one statement returned non-zero
  (`ConfigAccepted`), as main() does on `parse_config`'s error.
- Addresses are `AddrBytes` bytes of `ByteBits` bits. The models use 2 of 2,
  which is enough for a network part, a host part and a byte order to
  reverse.

- `xforms` and `answers` hold the tables `Xform` and `Answer`, set in
  `Init`: what each database's `xform` and `query` entries give, fixed once
  `init_db` has run.
- In the runs database `d1` is a sed database. `MCDispatch` gives each
  value a text (`m1` is `ma`, `m2` `mb`, `k1` `a`, `k2` `b`, `x1` `z` and
  stands for every other text) and builds `Xform[d1]` by running
  `SedTransform`'s `sed_init_db` and `sed_xform` on those texts. `d2` and
  `d4` are sed databases too: `Answer[d2]` and `Answer[d4]` are what
  `sed_query` and `sed_reply` write for each map and key (a `NOTFOUND` line
  is dispatch's `NOTFOUND`). `d2` is `s/a/y/` with the positive reply
  `${map}:$xform`; `d4` has no command.
- `d5` is a mysql and `d6` a postgres database, both declared with the
  words `query=k='${key}'` and `positive-reply=OK ${v}` (`d6` also with
  `dbname=smap`). The value `k3` has the text `b'`, a key with a quote.
  `Answer[d5]` and `Answer[d6]` are what `mysql_mod_query` and
  `modpg_query` write for each map and key, against `SqlServer`: a model of
  how the server reads the query, from its first quote, as one string
  literal (`''` is a quote; a backslash escapes the next character when
  the server reads backslash escapes; a literal that does not end the
  statement is a syntax error, the server's "error"). The rows are a table
  from key texts to rows; `b'` has the column `v`, holding `q` or NULL.
  The spec's table (`SpecSqlAnswer`) is the positive reply with the stored
  value (NULL as nothing) when the key is in the table, else `NOTFOUND`.

`Dispatch` instantiates `DispatchSpec` with
`DS == INSTANCE DispatchSpec WITH Rules <- SpecRules, WellFormed <- SpecWellFormed, Xform <- SpecXform, Answer <- SpecAnswer`.
`SpecXform` and `SpecAnswer` are what the backend promises: for the sed
databases, `SedSpec`'s reading of the same commands on the same texts
(`SpecQueryReply`: the positive reply when the commands change the key,
else the negative one).
The abstract rules are what each statement means by the reference grammar
(`RefMeaning`), not what the parser made of it, and `WellFormed` says
whether every statement is in the grammar: a daemon must refuse a
configuration it cannot read and serve the one it can. `DispatchRefinement == DS!SafeSpec` is checked
as a PROPERTY. An intermediate transform step of the code is a stuttering step
of the abstract spec. The final step (reply written) is `SpecAnswer`.

### DispatchParser: how the operators match the code

- A word is a string when it is a keyword of `query_kwtab` (or `default`),
  otherwise a model value. `Tok` is `smap_kwtab_nametotok`.
- What the libraries make of a word is given by two tables: `Sources`
  (what `inet_aton`, `gethostbyname` or the `unix:` prefix give for a
  `from` operand, and whether the netmask part is a length or dotted) and
  `Patterns` (the values a `like` pattern accepts, and whether `regcomp`
  accepts a `regexp` one).
- Each parser returns `[rc, cond, pos]`: its result code, the condition and
  the index of the next word. The condition parsers are mutually recursive
  (`parse_cond`, `parse_subcond`, `parse_dispatch_not`). `ComplexLoop` is the
  `while` loop of `parse_complex_dispatch`, including the fall-through from
  `transform` into the `database` case.
- `Attached` is the end of `parse_complex_dispatch`: the rule is attached
  whenever a database was named, even when the loop stopped on an error.
- The reference grammar, after section 4.4 of spec.md, is given twice: as a
  generator of every statement of up to n words over a vocabulary
  (`RefStatements`) and as a recogniser (`RefMeaning`) of one statement.

### SedTransform: how the operators match the code

- A text is a sequence of one-character strings; offsets are C indices
  from 0 (`At`, `Slice`, `Drop`), and `NUL` is the terminating byte.
- `parse_transform_expr(e, icase)` is the function's chain of steps:
  `ScanDelim` for the second and the third delimiter (a backslash skips the
  next byte), `ParseFlags` (the loop up to `;`: `g`, `i`, `x`, a number read
  by `strtoul` in base 0, anything else `TRE_BADFLAG`), `RegComp`, then
  `ReplSegs` (the replacement loop: literal runs, `\N` back-references
  checked against `re_nsub`, the escapes, the case controls, `&`). Each step
  is handed the results of the ones before it (`DelimitedCommand`,
  `FlaggedCommand`, `CompiledCommand`), and `ParsedCommand` applies the
  error checks in the code's order and the `^`/`$` override of the type.
- `transform_compile_incr` appends the commands of one argument and, on an
  error, frees the whole list. `sed_init` parses the module's options into
  the defaults (`SedDefaults`); `sed_init_db` parses a database's with
  `SMAP_PARSEOPT_PERMUTE` (`SedOptions`: `icase` and `extended` set bits of
  `cflags`, the three reply strings), then `CompileArgs` folds
  `transform_compile_incr` over the words from the returned index on.
- The slist is a sequence of texts: `sed_slist_append` adds one,
  `sed_slist_reduce` joins them up to the first `NUL`, and `slist_free`
  empties it. `transform_string(list, input, slist)` folds `TransformCmd`
  over the commands: each runs on the caller's input, appends its output
  and a `NUL`, and reduces; a failing command returns at once and leaves
  its output in the list; with no command the output stays NULL.
- `sed_reply` builds the environment with `format_env` and expands the
  template with `WsExpand`, the part of `wordsplit` that `WRDSF_NOSPLIT |
  WRDSF_ENV` uses (`$NAME`, `${NAME}`, an undefined name giving nothing, an
  unclosed `${` giving `WRDSE_CBRACE`). `wordsplit.c` is not in the
  repository; this is modelled from the header's flags. `sed_query`
  (`QueryResult`) writes the onerror reply or fails on a transform error,
  crashes on a NULL output (`strcmp(key, NULL)`), and otherwise writes the
  positive or negative reply and frees the list.

### Parseopt: how the operators match the code

- An option table is a sequence of records `[name, type, data, value,
  enum]`; an int used as a bit mask is the set of its bits, and `data`
  names the field of the record of values the option sets.
- `find_opt` is the scan for the first entry whose name starts the word,
  with the `no` prefix of bool options and the rule that value types need
  `=` and flag types must not have it; `smap_parseline` (`ParseLine` once
  the entry is found) is the switch on the entry's type.
- `ParseStep` is one pass of `smap_parseopt`'s loop: an option is parsed
  and the index advances; an unknown word ends the options, or, with
  `SMAP_PARSEOPT_PERMUTE`, is swapped with the first option after it
  (`FirstOptionAfter`, `Swap`), and the loop looks at the same index again.
  `ParseLoop` repeats it to the end or the stop.
- `Bind(v, F)` (in `CString`) hands `F` the value of `v`, so that a local
  used many times is computed once.
- `SpecParseopt` is the reference: every option parsed in the order given,
  and the other words left after them in their own order.
- `SingleLoop`, `SingleMatch` and `SingleReplaced` are the `while (*input)`
  loop: regexec on the rest of the input, the prefix before the match, the
  skip branch for a match before the Nth (which appends from the start of
  the input), the replacement (`ApplySegs` with the `case_ctl`/`save_ctl`
  pair of `Emit`, `SetCtl` and `CASE_CTL_RESET`), the `first` break, and a
  global empty match, after which the loop never advances and ends when
  an allocation fails (`TRE_NOMEM`).
- `transform_string` runs every command on the caller's input; the output
  is the last one's, NULL for an empty list.
- `RegComp`/`RegExec` stand for the C library's regcomp/regexec (not in the
  repository) on EREs made of literals, `.`, a starred atom, groups and the
  anchors: leftmost start, then longest match, then earlier atoms longest.

`SedSpec` is the reference: `SpecMatches` finds the matches through the
whole line (`^` only at offset 0, no empty match right after a match),
`Selected` picks the first, the Nth or every one from the Nth, and the
commands are applied in turn. On the texts below it and the code differ:

| command, input | code | SedSpec |
|---|---|---|
| `s/m/q/;s/qb/ma/`, `mb` | `mb` | `ma` |
| `s/b/x/2`, `abab` | `aabax` | `abax` |
| `s/^a/x/2`, `aa` | `ax` | `aa` |
| `s/b*/x/g`, `abc` | fails (`TRE_NOMEM`) | `xaxcx` |

They agree on `s/a/B/g`, groups with back-references and `\u`, `\U`
carried over matches, `&`, and `$`.

### CfgReader: how the operators match the code

- The file is a text. The reader record `r` holds the file offset and
  `feof(infile)`, which are global in the code. It also holds `cfg_cur_line`,
  `cfg_line` and the calling loop's buffer, size and offset.
- `fgets` reads up to `n - 1` bytes and stops after a newline. It sets the
  end-of-file flag only when it runs out of input first.
- `ReadLoop` is `read_line`'s `while (1)` loop. The buffer doubles when
  fewer than `MINBUFSIZE` bytes are left. A read that ends without a newline
  goes on at the end of the text read. A stripped line that ends in a
  backslash goes on at the backslash. The buffer is the C string, so a
  backslash stays in it until the next `fgets` writes over it.
- The environment is the entries before the first NULL of `ws_env`.
  `find_env_var` returns the slot of the name, or the first free one.
  `asgn` stores the word there and cuts the environment after it, as the
  code's `ws_env[++n] = NULL` does.
- `Statement` is the body of `parse_config_loop` after `wordsplit`: the
  assignment test, the keyword lookup, the type switch (`TypeStore`, with
  `ArgcWrong` for the `cfg_chkargc` calls), and the handler call
  (`Callback`), with the `KWT_EOF` rules for its return code.
- `cfg_server` checks the argument count and `begin`, then runs
  `ConfigLoop` on the block table from `Fresh`. `Fresh` gives the block its
  own buffer and environment, with expansion off, as a new
  `parse_config_loop` call does. The reader and the error flag are shared.
  `smap_server_new` parses the URL with `Url`'s `smap_url_parse`. A
  failure is `NoServer` (the code's NULL), and `cfg_server` then returns 1.
- The handlers of `server_kwtab` (`cfg_backlog`, `cfg_reuseaddr`,
  `cfg_single_process`, `cfg_max_children`, `cfg_srv_socket_mode`) act on
  the server `cfg_server` attached last, which is the `data` pointer the
  block's loop passes them (`ServerHandler`). Each one checks for two
  words, converts the second word and calls a `smap_server_set_*` setter.
  `CFG_GETNUM` is `strtoul(str, &p, 0)` over the whole word.
  `parse_mode_string` reads an octal number or three `rwx` triples. A
  server's flags word is the set of its bits. `cfg_global_max_children`
  and `cfg_socket_mode` set `srvman_param` (the loop state's `param`).
  `main()` first sets these to 128 and 0600 (`main_param`). `backlog`,
  `reuseaddr` and `single-process` at the top are typed keywords, stored
  in `vals`.
- `ServerSettings` is what srvman later makes of a server. The listen
  backlog comes from `SRVMAN_BACKLOG`: the server's own value, else the
  global one, else `DEFAULT_BACKLOG`. Address reuse comes from
  `SRVMAN_REUSEADDR`: the global flag, or `SRV_KEEP_EXISTING` clear. The
  single-process test is `server_run`'s. The socket mode is the one
  `server_prep`'s umask gives: the server's own mode, or the global one
  when it is `(mode_t)-1`. That value is `MODE_UNSET`, -1 here, since no
  mode the words give comes near 2^32 - 1.
- A handler of the test tables (`m`, `b`) only records its call
  `[words, line]` and returns the code its table entry gives.

`CfgSpec` reads the same file as spec.md section 6 describes it. Physical
lines are joined at a final backslash, and a statement is numbered by its
first physical line. One environment holds the last value of each name for
every later line, blocks included. A table stack handles `server ... begin`
and `end`. It reuses `CfgReader`'s type switch and argument counts, except
that `backlog` at the top reads its number as the block's `backlog` does
(`SpecStore`): a srvman keyword means the same in both places. Numbers
and modes are read from their description: an unsigned number is decimal,
octal after a leading `0`, or hexadecimal after `0x`. A mode is octal, or
nine `ls -l` letters. A server takes each setting from its own block,
else from the file's keyword, else from the default. The defaults are a
backlog of 8, the address reused, a process per connection and no limit.

### Url: how the operators match the code

- A C string is a text. A NULL pointer is `NULL`, a one-element text
  holding a NUL, which no C string equals.
- `split_connection` returns the `unix` protocol for an absolute path,
  `SMAP_URLE_NOABS` for a relative one without a colon, and
  `SMAP_URLE_INVALID` when the colon is not followed by `//`. Otherwise
  `split_url` splits what follows `//` at its first colon.
- `parse_url0` has the code's three protocol arms and its error order.
  `InetPort` is the port: a whole number from `strtol` stored in a
  `short`, which is the number modulo 2^16 (the tested values are
  non-negative), or a service name from `Services`.
- `gethostbyname` and `getservbyname` are the tables `Hosts` and
  `Services`. Every host in `Hosts` is IPv4, so `SMAP_URLE_BADFAMILY` is not
  reached. Allocation failures are not modelled.

### Sockmap: how the state matches the code

- Every `recv()` is one step. It returns any number of the queued bytes, up
  to the length asked for, so every way TCP can split the bytes is explored.
- Code between two `recv()` calls is part of the step that ends it. For
  example, the digit parse and the ERANGE test run when the colon arrives.
- `need` is the local `reqsz` of the recv loop. `-1` stands for the wrapped
  `size_t` value: the loop then takes whatever arrives.
- `fill` is what the read method has stored from the start of the buffer.
  `NoBufferOverrun` compares it with `bufsize`.
- The peer's records are made by `_sockmap_output_stream_write` and
  `format_len`. The peer is smapc or sendmail, which use the same codec.
- Bounds:
  - `SIZE_T_STRLEN_BOUND` is 4, not 20.
  - The buffer starts at 5 bytes, not 1024. It is still larger than the
    prefix bound, as in the code.
  - The lines are: the empty record `:,`, a 3-byte payload, and a 5-byte
    payload that needs the ERANGE retry.

### ReplyStream: how the state matches the code

- `out.cur` holds the bytes between `cur` and `cur + level`. `out.off` is
  `cur - buffer` and `out.size` is `bufsize`. `BUFFER_FULL_P` is then
  `off + level = size`.
- One `smap_stream_write` call is one step, because a process is
  single-threaded. Its `while` loop is the recursive `WriteLoop`.
- `out.overrun` records a `memcpy` that goes past `bufsize`. The model stops
  after one, since the heap is corrupt from that point.
- `records` are the buffers the flush hands to
  `_sockmap_output_stream_write`. `Decoded` is what the peer reads back: the
  buffer's final `\n` becomes the comma, and the reader turns it back.

### Connection: how the state matches the code

- `smap_loop` alternates the two paths. It reads a line (`Read`, the
  reading side of `Sockmap`), then `dispatch_query` writes the whole reply
  (`Reply`) before the next read. A line with no blank (`HasMapName` false)
  makes it call `exit(1)` instead (`MissingMapName`): no reply is written,
  and nothing more is read.
- A reply is one of `Replies`: a sequence of pieces that a backend passes to
  successive `smap_stream_write` calls. `pending` holds the pieces not yet
  written. Each reply's last piece ends with `\n`, as every backend's
  `smap_stream_printf` format does.
- The peer sends the next request either at once (`Pipelined`) or after the
  previous reply, as `smapc_query` does.

### SqlBackend: how the operators match the code

- Option words are parsed by `Parseopt`'s `smap_parseopt` with the code's
  tables and flags: mysql without permutation, so any word that is not an
  option is an error; postgres with `SMAP_PARSEOPT_PERMUTE` and an index,
  the other words being the connection string. `mysql_mod_init_db` adds
  `MDB_DEFDB` when `dbdeclared` finds no connection parameter of the
  database's own.
- `create_conninfo` is both loops of the C function: `total` is what the
  first loop counts and `malloc`s, `text` what the second writes.
  `ConninfoOverrun` says the text and its NUL do not fit.
  `modpg_init_db` and `modpg_init` return it as `overrun`.
- `fill_env` builds the four variables, a NULL for a missing value, and
  `EnvSeen` is the part `wordsplit` sees (the entries before the first
  NULL). `create_query_env` gives the reply environment and the escaped
  one: `mysql_real_escape_string` (the client library's escaping of `\`,
  `'` and `"`) or postgres's `quote_copy` (a backslash before `\`, TAB and
  `'`), applied when `quoted_length` flags one of those.
- `do_query` expands the query template with `WsExpand` (the same model of
  `wordsplit` as `sed_reply`) and hands the word to `SqlServer`, the model
  of the database server (not code of the repository, so not in the map).
  `send_reply` expands a reply template.
- `mysql_do_positive_reply` adds the first row's columns to the
  environment and crashes on a NULL column (`format_envar` calls
  `strlen(NULL)`). `modpg_do_positive_reply` reads a NULL as the empty
  string, as `PQgetvalue` does.
- `mysql_mod_query` and `modpg_query` are the branches of the query
  entries: the error reply on a failed query, the negative reply on no
  result set (mysql) or no row, else the positive reply. The module-level
  templates back up the database's, and the fixed texts back up both.

### Registry: how the state matches the code

- `phase` follows `main`: it reads the configuration, then exits on
  `cfg_errors`, or loads, initialises, links, serves and frees.
- `ReadLine` is one callback of `parse_config`. The configurations are lists
  of `module`, `database` and `dispatch` keywords, with names as model
  values. A duplicate name sets the error flag, as `cfg_module` and
  `cfg_database` do.
- `Tables` are the function tables a module object can export:
  - the `smap_module_version` it declares;
  - whether it provides `query`, `xform` and `free_db`;
  - its capability bits.

  `NoLib` stands for a failed `dlopen` or `dlsym`. `smap_modules_load`
  chooses a table (or `NoLib`) for every module, and whether its `init` call
  succeeds.
- `inst`, `dbh` and `freed` follow the `inst` pointer and the `handle`
  field. They show which module instance a database still points to after
  that instance is freed.
- `uaf` records a call through a freed instance.
- `initdb` and `freedb` list the handles returned by `init_db` and those
  passed to `free_db`.
- `ParserAgrees` holds only in the first configuration state; its body,
  `ParserAgreesAll`, has no variables, so TLC evaluates it once.
- After `link_dispatch_rules` the phase is `daemon`. `smap_daemon` is one
  step: it either fails (`exit_unavailable`), or, when `launch.rgid = 0`,
  expands the master's groups and calls `switch_to_privs`, exiting on a
  nonzero result; then it expands the servers' groups and goes to `serve`.
  `smap_session_server` is one forked session: when its server has a
  privinfo and the master still has `rgid` 0, the child switches.
- `nullw` records the write through the NULL `ival` of `server_kwtab`'s
  `allgroups` entry (smapd.c:629). The process crashes at that point.
- `overrun` records a write past a heap block. `init_databases` sets it
  when a live database's `init_db` overruns (`DbOverrun`). `MCRegistry`
  computes `DbOverrun[d2]` by `SqlBackend`'s `modpg_init_db` on the words
  `postgres dbname=smap password=a b`.

### Privileges: how the operators match the code

- A privinfo is `[uid, gids, allgroups]`; `gids` is the ordered list whose
  head becomes the gid. An unknown user or group name is only logged.
- The credential record follows Linux: euid 0 may set any id; otherwise
  only an id already held. A call that changes the real uid may fail with
  `EAGAIN`, and `setgroups` with `ENOMEM`. The set `F` of failing call
  sites (`FailSites`) is chosen by the environment.
- `switch_to_privs` is a pipeline of stages, in the code's order:
  `SetGroupsStage`, `AfterGroups` (the setgroups check), `SwitchGid`
  (setegid, setgid, the getegid check), `SwitchUid` (setuid, the
  `setreuid` fallback and second setuid, then the check that `setuid(0)`
  fails and the old euid cannot be regained). Each stage takes the
  previous one's result as a parameter.

## Runs

| Run | Config | Expect | What it shows |
|---|---|---|---|
| srvman_main | `MCSrvman.cfg` | pass | With 2 listeners (max-children 1 and unlimited), global max 2, 3 pids, backlog 1, timeout 2: `PerServerLimit`, `ChildAccounting` (counters equal table sizes; tables hold only live pids and are disjoint), and `NoOrphanAtExit` (no child still running when the daemon is done). |
| srvman_accept_fail | `MCSrvmanAcceptFail.cfg` | pass | With accept() failures: `ShutdownTerminates`, the daemon's shutdown ends. The counter is inflated after a failure, so only the timeout ends the poll loop. |
| srvman_global_limit | `MCSrvmanGlobal.cfg` | violation | `GlobalLimit`: with global max 1, one `connection_loop` pass forks for two ready listeners. |
| srvman_signals_lost | `MCSrvmanSignals.cfg` | violation | `SignalsActedOn` is the conjunction of two leads-to properties. `DeferredConnectionServed`: a server that has room again serves its queued connection. `StopHonoured`: a stop recorded while the servers are opened ends the daemon. Two defects break it. (1) A SIGCHLD handled in the `pausing_max` window is lost: the parent sleeps in `pause()` forever with a connection queued (srvman.c:630). (2) A stop that `sig_stop` records while the servers are opened is cleared by `for (stop = 0; ...)` at the start of `smap_srvman_run` (srvman.c:604), and the daemon serves on. TLC's counterexample shows the stop cleared, then a second SIGTERM lost in the `select` window. |
| srvman_accept_fail_orphans | `MCSrvmanOrphan.cfg` | violation | `NoOrphanAtExit`: a server freed after a failed accept leaves its running child out of the kill pass. |
| dispatch_main | `MCDispatch.cfg` | pass | Four rules: key transform; `key like` plus `from 4/2` plus `server`; a query on a database whose open fails; map transform as the last rule. The transforms are on the sed database `d1`, made by `sed_init_db` from the words `s/a/b/ icase`; the `key like` rule queries the sed database `d2` (`s/a/y/`, positive reply `${map}:$xform`), whose positive and negative replies both reach the client. Also checks `SedOptionsParsed`: on every argument vector of up to 4 of 8 words, `smap_parseopt` with `SMAP_PARSEOPT_PERMUTE` sets the options and result code that `SpecParseopt` does and leaves the other words after the index. 2 listeners × 3 client addresses, up to 3 requests over 2 sessions. Checks `DispatchRefinement`, `DbLifecycle`, `SedOptionsParsed` and `RequestAnswered`. Two more rules send the key `k3` (text `b'`) to the mysql database `d5` (row value `q`) and the postgres database `d6` (a NULL value) on a server that reads backslash escapes: both escape the quote so that the server reads the key, and the replies are `OK q` and `OK `, as the spec's tables give. |
| dispatch_conditions | `MCDispatchConditions.cfg` | violation | `DispatchRefinement` with a map transform of `m2` on `d1`, now made from the words `s/m/q/ s/qb/ma/ icase`, and the statements `from 5/2`, `from 8/12` (dotted mask), `not server S1` and `database d2 from hbad` (a host that does not resolve). Four defects: the host bits of a network are not masked (query.c:107); a dotted mask is byte-reversed (query.c:419); `not` is not applied (query.c:670); a rule is attached after a syntax error in its conditions, so the daemon serves a rule it reported as broken (query.c:523). The sed commands are each applied to the original map and only the last output is kept (transform.c:748), so `mb` stays `mb` where sed makes it `ma`. The permuting option parse swaps `icase` with the first command, which then stands after the second, so the two commands are compiled in reverse order (parseopt.c:208). Each statement alone breaks the refinement (the transform with `database d2` after it). A fifth statement, `map m2 database d4`, before the last, queries a sed database declared with an option and no command (`database d4 sed icase`): its output stays NULL and `sed_query` calls `strcmp(key, NULL)` (sed.c:311), so the process dies without a reply where section 5 (a) wants the negative reply; alone it is violated on the request `mb a` at depth 3. The same SQL rules with a NULL in `d5`'s row and the postgres server at its default `standard_conforming_strings on` break it twice more. mysql crashes on the NULL column (mysql.c:534): `m1 b'` gets no reply where `OK ` is due. postgres escapes the quote as `\'`, which that server reads as a backslash and the end of the literal (postgres.c:355): `m2 b'` gets the error reply `NOTFOUND`. Each of these was also checked alone, with the other SQL database answering as the spec does. |
| connection | `MCConnection.cfg` | pass | A lock-step peer and replies of one to three pieces, with a 3-byte output buffer that must grow. Checks the request path's `DeliveredInOrder` and `NoBufferOverrun`, the reply path's `ReplyIntact` and `LinesFlushed`, and two liveness properties. `RequestsAnswered`: every request framed gets its reply on the wire, when it and every request before it name a map. The empty record `:,` has no blank, so `smap_loop` exits (`MissingMapName`) and nothing after it is answered. `MalformedRejected`: malformed input ends the session. |
| connection_overrun | `MCConnectionOverrun.cfg` | violation | `NoOverrun`: neither buffer of the session is written past its end. The peer of the connection run, but pipelining. Two defects break it, each alone. (1) Input: the record `:,` is followed at once by another record, `3:a a,` or `5:a aaa,` (TLC's trace may show either). The overflow happens while the first record is read, before `smap_loop` could reject it. The prefix `recv()` takes 4 bytes, so `rds` (3) exceeds `reqsz+1` (1), and `reqsz -= rds` wraps. The loop stores more bytes than the 5-byte buffer holds (sockmapstr.c:300); in the real code a 20-byte prefix read makes this a heap overflow driven by the peer. Checked alone with the two short replies only. (2) Output: a flush that grows the buffer returns without moving the partial line to the start. The next copy of `bufsize - level` bytes to `cur + level` then goes past the end (stream.c:834). Checked alone with the lock-step peer. |
| registry | `MCRegistry.cfg` | pass | Startup over two configurations (the first with 9 privilege variants) and every combination of function tables and init results, 2 launch credentials and every set of failing call sites. `PrivilegesDropped`: a master launched as root that serves holds exactly its user's ids and its privinfo's groups, and so does every session it serves for a server with a user. `RulesCallable`: every rule left after linking points to a live database of a loaded module that has the rule's entry. `HandlesFreedOnce`: every handle `init_db` returned is freed exactly once. `ParserAgrees`: every well-formed statement of up to 5 words over a 19-word vocabulary (13,376 statements) is parsed into the rule the reference grammar gives it, with result 0. |
| config_read | `MCConfig.cfg` | violation | `ConfigRead`: every file of up to four lines made of thirteen line forms is run through `parse_config` and through `CfgSpec`. The handlers must be called with the same words at the same lines, and the same values and errors must result. The line forms are two values of `A` and one of `B`, uses of `$A` and `$B`, a bad number, an empty line, a comment, `server i inet://h:25 begin`, `server j inet://h:70000`, a block keyword using `$A`, `end`, and a continued line. A second family of files, of up to four lines, is built from `server i inet://h:25 begin`, `end` and six srvman keyword forms: `backlog 010`, `reuseaddr yes`, `single-process on`, `max-children 0x2`, `socket-mode rw-r-----` and `socket-mode 0640`. Each form means the same at the top and in a block. Besides the handler calls, the servers' backlog, address reuse, process model, limit and socket mode must agree, and so must the global limit. Over the first thirteen forms, every file that breaks the property is in one of the first four classes below, checked by classifying all 28,561 files. Over the second family without `reuseaddr yes` (2,801 files), every file on which the code and the reading disagree has `backlog 010`, which is class (6). The same holds over a wider set of 4,681 files that also has `b $A`. With `reuseaddr yes` there is also class (5). (1) A variable reassigned after another variable was assigned drops the later one: after `A=x`, `B=z`, `A=y`, a `$B` stays `$B` (cfg.c:247). (2) A statement after blank lines is numbered at the first blank line (cfg.c:37); TLC's first counterexample is an empty line followed by `m $A`. (3) A server block starts with an empty environment and expansion off, so `$A` assigned before it is not expanded inside, and its own assignments are gone after `end` (smapd.c:655). (4) A port above 65535 is taken modulo 2^16 and accepted: `server j inet://h:70000` listens on port 4464. The `BADPORT` test is dead because `num` is assigned from the `short` `pnum` (url.c:165). (5) `reuseaddr yes` in a server block sets `SRV_KEEP_EXISTING` (smapd.c:456), and `SRVMAN_REUSEADDR` reuses the address only when that flag is clear. So the keyword turns reuse off, while a server without it reuses its address. (6) `backlog` at the top is a `KWT_INT` keyword (smapd.c:805), read in base 10, while in a block `cfg_backlog` reads it with `strtoul(..., 0)`: `backlog 010` is 10 at the top and 8 in a block, and `backlog 0x2` is an error at the top. Compiling the C of `read_line` and `asgn` gives the same results for (1) and (2). |
| registry_invalid_write | `MCRegistryFree.cfg` | violation | `NoInvalidWrite`: no write through a freed or NULL pointer. Three defects break it, each alone. (1) A database whose `init_db` fails is detached and freed by `init_databases`. The loop then stores `p->inst = inst` into the freed database (module.c:316), a write through a dangling pointer. (2) `server_kwtab`'s `allgroups` entry is `KWT_BOOL` with a NULL `ival` (smapd.c:629): every valid boolean word (`yes`, `no`) makes `cfg_parse_bool` write through NULL. (3) The postgres database `d2`, declared `postgres dbname=smap password=a b`, makes `create_conninfo` write `dbname=smap password='a b'` and its NUL, 27 bytes, into the 25 it allocated (postgres.c:169): the length loop leaves out the two quotes and measures from the last `=`. |

Each property of a passing run has a mutant in `PROJECT.json`. A mutant is a
plausible bug in the mapped definition. Examples:
- `>` for `>=` in `SERVER_BUSY`;
- a pid slot not cleared;
- the SIGKILL pass left out;
- the scan restarting at the head after a transform;
- no duplicate check in `cfg_module`;
- `rule_fixup` without its version-1 branch.

TLC finds the property violated under each mutant.

### Bounds

- **Srvman.** 2 listeners with 3 pids is the smallest setting in which:
  - one listener can be busy while the other accepts;
  - the global limit can be reached by two servers;
  - a pid can be reused after reaping.

  Backlog 1 is enough to have a connection waiting on a busy server. Timeout 2
  lets the poll loop run more than once before the kill.
- **Dispatch.** The rule chain has every branch of `dispatch_query_pack`.
  Three requests over two sessions let one session open a database and the
  next one use it after `close_databases`.
- **sed.** Five texts of one or two letters are enough for a command to
  change some values and leave others, to chain two commands, and for the
  main run's command to agree with the reference. The 8 argument words of
  `SedOptionsParsed` are two commands, both flag options, a word that only
  starts with an option's name, a `no` form, a flag with `=`, and a string
  option with and without its value; vectors of up to 4 words put two
  commands before an option, the case the permutation reorders. Commands that need longer
  texts (the Nth flag, a global empty match) are in the table above, from
  evaluating the operators, not in a run.
- **SQL.** One key with a quote (`b'`) is the case where escaping matters;
  the other keys have no special character and reach the server as they
  are. One row, with a value or a NULL, covers the positive reply and its
  NULL column; the other keys give the negative reply. Two server
  settings (backslash escapes read or not) cover both readings of the
  escaped quote. The query is cut down to the string literal the server
  reads (`query=k='${key}'`); the SQL around it adds nothing the model
  server could tell apart.
- **Sockmap and Connection.** `SIZE_T_STRLEN_BOUND` is 4, not 20. The input
  buffer starts at 5 bytes, not 1024. It is still larger than the prefix
  bound, as in the code. The lines are:
  - the empty record `:,`;
  - a 3-byte payload;
  - a 5-byte payload that needs the ERANGE retry.

  The output buffer is 3 bytes, so the 7-byte reply makes it grow once, and the next copy then runs past its end. The
  byte cap, `MaxBytes` 21, is above what three replies can write, so it
  never cuts a session short.
- **Parser.** The vocabulary has every keyword, `default`, a database, a
  host with a length mask, a host that does not resolve, a `unix:` socket,
  and two patterns (one a valid regular expression). Statements of 5 words
  hold two conditions and a database, a `not`, or a transform: every rule of
  the grammar, and every operand rule, is used.
- **Configuration.** `INITBUFSIZE` 4 and `MINBUFSIZE` 2 replace 512 and 8
  so that a line longer than the buffer makes `read_line` double it and read
  on. Four lines are enough for an assignment, another assignment, a
  reassignment and a use, and for a block with a use inside and after it.
  The last line is never the continued one; see "Not modelled".
  The hosts table has one name, which the two server lines use. Port 70000
  is a value that wraps. No line names a port by service, so `Services`
  only keeps `InetPort` total.
- **Registry.** The first configuration has every kind of rule:
  - on a database of a good module;
  - on a database with a module that was never declared;
  - on an undeclared database;
  - a second rule on the same database.

  The second configuration has a duplicate module and database, to reach the
  error exit. The six tables cover the checks that `_load_module` makes and
  `rule_fixup` relies on:
  - version 1;
  - version 2 with both capabilities, and with only one;
  - a capability without its entry;
  - no `free_db`;
  - a version too new.

  The first configuration is run with 9 endings of privilege statements:
  a server user with an extra group and a numeric socket owner; a master
  user with `allgroups yes`; a group before the user; an invalid
  `allgroups` word; an unknown user; an owner user without a group; an
  owner group without a user; `server allgroups no` and an invalid server
  `allgroups` word. The password table has a user whose gid is 0 and one
  with two supplementary groups, so group expansion changes the lists.
  Launch credentials are root or an ordinary user (the non-root branch of
  `smap_daemon`). Every subset of the 5 failing call sites is tried, so
  each branch of `switch_to_privs`, the fallback included, is reached.

### Fairness

- **Srvman.** Weak fairness on the parent's steps: the parent is a process
  that gets the CPU. Weak fairness on each pending signal's handler: the
  kernel delivers a pending, unblocked signal once the process runs. Weak
  fairness on each child's exit: `smap_loop` arms `alarm(idle_timeout)`
  around every read, so a session cannot last forever. Clients (`Connect`)
  and the operator (`SendStop`) owe nothing.
- **Connection.** Weak fairness on `Read`, `Reply` and `MissingMapName`:
  the child runs whenever `recv()` has bytes or end of file to return, and
  a reply, or the exit on a line with no blank, happens without waiting on
  the peer. The peer owes nothing: it may stop
  sending without closing, which is why `MalformedRejected` is about
  detection without further input.
- **Dispatch.** Weak fairness on `dispatch_query_pack`: a process that holds
  a request keeps running. Reading a line depends on the client and is not
  fair.
- **Registry.** Weak fairness on `Next`: startup is one sequential thread
  with no input to wait for.

## Not modelled

- **Databases at `exit(1)`.** A line with no space makes `smap_loop`
  call `exit(1)` with databases open (smapd.c:135). `Connection` models the
  exit (no reply, nothing more read), but not the databases, because the
  code states no promise about closing them at exit.
- **recv() errors.** `size_t n` makes `n < 0` dead code at sockmapstr.c:307.
  A reset connection makes the loop spin until the idle alarm kills the
  child. That is a process-level effect, so recv() errors are left out.
- **sed edge cases.** The empty regexp (`s//x/` reads `str[-1]`,
  transform.c:342), `\u` before an empty group (a write through a NULL case
  buffer, transform.c:557), and the partial output a failed
  `transform_string` leaves in the database's slist for the next call
  (sed.c:301, sed.c:227): the first two are undefined behaviour. The third
  is modelled (`transform_string` returns the list it leaves), but the
  tables of `MCDispatch` are computed from a fresh database for each map
  and key, so no run carries a list from one query to the next. It follows
  `TRE_NOMEM`, which a global command whose regexp matches the empty
  string reaches on every input it does not consume.
- **Privilege divergences that no run checks.** All run slots are in use,
  and these are not covered by a property:
  - An unknown `user` name is only logged (userprivs.c:26), so the
    daemon keeps uid 0 and serves as root. The model has this behaviour
    (`privinfo_set_user`), and `PrivilegesDropped` is stated for a
    configured user only.
  - `smap_inet_server` (inetd mode) never calls `switch_to_privs`; the
    inetd path is not modelled.
  - In single-process mode, a partial switch failure leaves the master
    with uid 0 and a nonzero gid; sessions check `getgid() == 0` and are
    then served as root. Single-process mode is not modelled in `Registry`.
  - Sockets are chowned after the master has dropped root, so the chown
    fails whenever a master user is set. The socket's `chown` call is not
    modelled; only the owner record is.
- **SQL backends, what is left out.**
  - `opendb` and `closedb` with their reference count: a database's open
    is the `OpenOK` table, and a session closes all its databases together,
    so the count has no effect that a reply shows.
  - `flush_result`, which drains further result sets; it does not change
    the reply.
  - `src` and `dst`: the runs' templates do not name them, and the
    sessions' addresses are not turned into dotted text.
  - Both `do_query` functions expand the database's template only; a
    `query=` given at module level is parsed into `def_db` and never used,
    and a database declared without `query=` hands `wordsplit` a NULL
    template. What `wordsplit` does with NULL is not in the repository, and
    no run declares such a database.
  - The server's SQL grammar beyond string literals, and connection
    failures other than a failed open.
  - `create_conninfo` is also run by `modpg_init` on the module's own
    words; the runs give the module no connection words.
- **Version-0 modules.** `_load_module` rejects them. Tables start at
  version 1.
- **Server manager extras.** The idle alarm has no SIGALRM handler.
- **Configuration edge cases found while modelling.** None of these is checked
  by a run.
  - A file whose last line ends in a backslash: `read_line` returns the
    buffer with the backslash still in it (cfg.c:67). What `wordsplit`
    does with a final backslash is not in the repository.
  - A comment line that ends in a backslash swallows the next line. The
    spec does not say whether comments continue, and `CfgSpec` joins
    first, as the code does.
  - Quoting, escapes, `${NAME}`, a variable inside a word, and an empty
    value are left out of the `wordsplit` model.
  - `socket-mode 37777777777` is (mode_t)-1, the "not set" value, so the
    server silently takes the global mode. A signed `max-children -1` is
    accepted by `CFG_GETNUM` as `SIZE_MAX` (size_t keeps `strtoul`'s
    value). Neither word is among the line forms: TLC's integers stop at
    2^31.
  - `parse_int`'s range checks are left out. An int keyword given a number
    above `ULONG_MAX` gets -1 (strtoul saturates, and `(i = n) == n` holds
    for -1). TLC's integers cannot reach these values.
- **URL parsing, what is not checked** (`src/lib/url.c`). `Url` models
  the parser, and config_read checks the port wrap. Not checked:
  - the UNIX socket path check `strlen(path) > sizeof sun_path` lets a
    108-byte path through, and `strcpy` then writes its NUL past
    `sun_path` (url.c:148). A 108-character text is beyond the file bounds
    of config_read;
  - the `INADDR_ANY` arm (url.c:178) is dead, since `split_url` always
    gives a path;
  - the resolver is a table, and allocation failures are left out.

  `Srvman` and `Registry` take servers as constants.
- **Left out.** The following are out of scope or pure formatting:
  - command-line parsing (`cmdline.c` is generated); option parsing is
    modelled for the module option tables only, with `=` as the delimiter
    and without `SMAP_IGNORECASE`, the mode `smap_parseopt` uses; the
    keyword handlers of the configuration other than `server`, the srvman
    keywords and those `Registry` models (not modelled: `user`, `group`,
    `allgroups` and `socket-owner` in a block, which look up the password
    and group databases, and the logging, debug and trace keywords);
  - the backend modules other than sed, mysql and postgres (echo, ldap,
    guile, mailutils: I/O to servers and interpreters outside the
    repository);
  - the `smapc` client;
  - logging.

  Word expansion is modelled only as far as the configuration reader and
  `sed_reply` use it. The library is not in the repository.
