------------------------------ MODULE CfgReader ------------------------------
(***************************************************************************)
(* The configuration reader of smapd (src/src/cfg.c): read_line()'s      *)
(* buffered reading of physical lines with backslash continuation,        *)
(* the "NAME=VALUE" environment of asgn(), and parse_config_loop()'s      *)
(* dispatch on a keyword table, with cfg_server()'s nested loop for a     *)
(* "server ... begin" block.  The file is a text (CString); the reader    *)
(* state r is [pos, eof, cur, line, buf, size, off]: the file offset,     *)
(* feof(infile), cfg_cur_line, cfg_line, and the loop's buffer, its       *)
(* allocated size and read_line()'s offset into it.  A keyword table is a *)
(* function from keywords to [type, fun, rc, block]: fun is NoFun, "fun"  *)
(* for a handler that only records its call and returns rc, or "server"   *)
(* for cfg_server(), whose block is parsed with the table block.          *)
(***************************************************************************)
EXTENDS Url, TLC

CONSTANTS
    INITBUFSIZE,   \* the buffer read_line() allocates first
    MINBUFSIZE     \* the room under which it doubles the buffer

NoFun == "NULL"
Blank == {" ", "\t"}
Letters == ToSet(LowerChars) \cup ToSet(UpperChars)
NameChars == Letters \cup ToSet(Chars("0123456789_"))

(* fgets(buf + off, n, infile) from file offset pos: up to n - 1 bytes,   *)
(* up to and including a newline; NULL when the file is at its end.       *)
(* Reading stops short of n - 1 bytes without a newline only at the end   *)
(* of the file, and that sets the end-of-file indicator.                  *)
fgets(file, pos, n) ==
    LET avail == Len(file) - pos
        nl    == SelectInSubSeq(file, pos + 1, Len(file), LAMBDA c : c = "\n")
        upto  == IF nl = 0 THEN avail ELSE nl - pos
        k     == IF upto < n - 1 THEN upto ELSE n - 1
    IN IF avail = 0 THEN [null |-> TRUE, eof |-> TRUE]
       ELSE [null |-> FALSE, s |-> SubSeq(file, pos + 1, pos + k), pos |-> pos + k,
             eof |-> nl = 0 /\ avail < n - 1]

(* The loop of read_line(): a line without its newline goes on with the  *)
(* next fgets() at the end of the text read, a line ending in a backslash *)
(* at the backslash; an empty line is skipped.  The buffer is the C       *)
(* string: after a backslash-newline it still holds the backslash until   *)
(* the next fgets() writes over it.                                       *)
RECURSIVE ReadLoop(_, _)
ReadLoop(file, r) ==
    LET size == IF r.size - r.off < MINBUFSIZE THEN 2 * r.size ELSE r.size
    IN Bind(fgets(file, r.pos, size - r.off), LAMBDA g :
       IF g.null THEN [r EXCEPT !.size = size, !.eof = TRUE]
       ELSE Bind([r EXCEPT !.size = size, !.pos = g.pos, !.eof = g.eof,
                           !.buf = SubSeq(r.buf, 1, r.off) \o g.s],
                 LAMBDA q :
                   LET len == Len(q.buf)
                       Strip(off) == [q EXCEPT !.buf = SubSeq(@, 1, len - 1),
                                               !.cur = @ + 1, !.off = off]
                       \* [again, r]: whether the loop goes on, and with what
                       nx == CASE len = 0               -> [again |-> TRUE, r |-> q]
                               [] q.buf[len] # "\n"     -> [again |-> TRUE, r |-> [q EXCEPT !.off = len]]
                               [] len = 1               -> [again |-> TRUE, r |-> Strip(q.off)]
                               [] q.buf[len - 1] = "\\" -> [again |-> TRUE, r |-> Strip(len - 2)]
                               [] OTHER                 -> [again |-> FALSE, r |-> Strip(len - 1)]
                   IN Bind(nx, LAMBDA n : IF n.again THEN ReadLoop(file, n.r) ELSE n.r)))

(* read_line(): r.off is the return value; 0 at the end of the file. *)
read_line(file, r) ==
    IF r.eof THEN [r EXCEPT !.off = 0]
    ELSE ReadLoop(file, [r EXCEPT !.line = r.cur, !.off = 0,
                                  !.size = IF @ = 0 THEN INITBUFSIZE ELSE @])

-----------------------------------------------------------------------------
(* wordsplit() with the flags parse_config_loop() passes: words split at  *)
(* runs of blanks, a word starting with '#' ends the line, and, once      *)
(* WRDSF_NOVAR is cleared, a word "$NAME" is replaced by the value of the *)
(* first "NAME=VALUE" entry of the environment, or kept (WRDSF_KEEPUNDEF). *)
SplitBlanks(s) ==
    LET acc == FoldLeft(LAMBDA a, c :
                           IF c \in Blank
                           THEN IF a.w = <<>> THEN a ELSE [ws |-> Append(a.ws, a.w), w |-> <<>>]
                           ELSE [a EXCEPT !.w = Append(@, c)],
                        [ws |-> <<>>, w |-> <<>>], s)
    IN IF acc.w = <<>> THEN acc.ws ELSE Append(acc.ws, acc.w)
IsName(s) == s # <<>> /\ s[1] \in Letters \cup {"_"} /\ ToSet(s) \subseteq NameChars
EnvLookup(env, w) ==
    LET i == SelectInSeq(env, LAMBDA e : IsPrefix(Tail(w) \o <<"=">>, e))
    IN IF i = 0 THEN w ELSE Drop(env[i], Len(w))
wordsplit(buf, env, novar) ==
    LET ws == SplitBlanks(buf)
        c  == SelectInSeq(ws, LAMBDA w : w[1] = "#")
        Expand(w) == IF ~novar /\ w[1] = "$" /\ IsName(Tail(w)) THEN EnvLookup(env, w) ELSE w
    IN [i \in 1..(IF c = 0 THEN Len(ws) ELSE c - 1) |-> Expand(ws[i])]

(* asgn_p(): the word is NAME=... *)
NameEnd(w) == SelectInSeq(w, LAMBDA c : c \notin NameChars)
asgn_p(w) == w[1] \in Letters \cup {"_"} /\ NameEnd(w) > 0 /\ w[NameEnd(w)] = "="

(* find_env_var(): the first entry (from 1) that sets the word's name,    *)
(* or the first free slot.                                                *)
find_env_var(env, w) ==
    LET i == SelectInSeq(env, LAMBDA e : IsPrefix(SubSeq(w, 1, NameEnd(w)), e))
    IN IF i = 0 THEN Len(env) + 1 ELSE i

(* asgn(): the word is stored at that slot and the slot after it is set   *)
(* to NULL; the entries before the first NULL are the environment.        *)
asgn(env, w) == Append(SubSeq(env, 1, find_env_var(env, w) - 1), w)

-----------------------------------------------------------------------------
(* cfg_chkargc(): TRUE when the count is wrong (and cfg_errors is set). *)
cfg_chkargc(wordc, min, max) == wordc < min \/ (max > 0 /\ wordc > max)

cfg_parse_bool(str) ==
    CASE str \in {Chars("yes"), Chars("on"), Chars("t"), Chars("true"), Chars("1")} -> [ok |-> TRUE, v |-> 1]
      [] str \in {Chars("no"), Chars("off"), Chars("nil"), Chars("false"), Chars("0")} -> [ok |-> TRUE, v |-> 0]
      [] OTHER -> [ok |-> FALSE]

(* parse_int(): strtoul() in the base must use the whole word; base 16   *)
(* takes a "0x" first.  The words of the models stay far below 2^31, where *)
(* the range checks of int and unsigned both pass.                        *)
parse_int(str, base) ==
    LET k0 == IF base = 16 /\ At(str, 0) = "0" /\ At(str, 1) \in {"x", "X"}
                 /\ IsDigit(At(str, 2), 16) THEN 2 ELSE 0
        n  == DigitsFrom(str, k0, base, 0)
    IN [ok |-> n.k = Len(str), v |-> n.v]

\* The base of each integer type.
IntBase == [INT |-> 10, UINT |-> 10, INT_O |-> 8, UINT_O |-> 8, INT_X |-> 16, UINT_X |-> 16]

(* save_words(): the words after the keyword (their count is Len - 1). *)
save_words(ws) == Tail(ws)

(* The switch on the keyword type: the value is stored in vals, keyed by  *)
(* the keyword (save_words() keeps the words after it).                    *)
TypeStore(e, s, ws) ==
    LET Store(v) == [s EXCEPT !.vals = (ws[1] :> v) @@ @]
        Conv(p) == IF p.ok THEN Store(p.v) ELSE [s EXCEPT !.errors = TRUE]
    IN CASE e.type = "STRING" -> Store(ws[2])
         [] e.type = "BOOL" -> Conv(cfg_parse_bool(ws[2]))
         [] e.type \in DOMAIN IntBase -> Conv(parse_int(ws[2], IntBase[e.type]))
         [] e.type = "ARR" -> Store(save_words(ws))
         [] e.type = "FUN" -> s
         [] e.type = "EOF" -> [s EXCEPT !.eof = TRUE]

ArgcWrong(e, ws) ==
    CASE e.type = "ARR" -> cfg_chkargc(Len(ws), 2, 0)
      [] e.type \in {"FUN", "EOF"} -> FALSE
      [] OTHER -> cfg_chkargc(Len(ws), 2, 2)

-----------------------------------------------------------------------------
(* parse_config_loop(kwtab): s is [r, env, novar, eof, errors, calls,     *)
(* vals, servers]; env, novar (WRDSF_NOVAR set) and eof are the loop's    *)
(* locals, the rest is shared with the loops it nests: the reader,        *)
(* cfg_errors, the handler calls made ([words, line], line being          *)
(* cfg_line), the stored values and the servers attached.                 *)
RECURSIVE ConfigLoop(_, _, _), Statement(_, _, _, _)
ConfigLoop(file, kwtab, s) ==
    IF s.eof THEN s
    ELSE Bind(read_line(file, s.r), LAMBDA r :
           IF r.off = 0 THEN [s EXCEPT !.r = r]
           ELSE Bind(wordsplit(r.buf, s.env, s.novar), LAMBDA ws :
                Bind(Statement(file, kwtab, [s EXCEPT !.r = r], ws), LAMBDA s1 :
                     ConfigLoop(file, kwtab, s1))))

(* A fresh loop, as cfg_server() starts one for its block: its own buffer *)
(* and environment, variables not expanded until its first assignment.    *)
Fresh(s) == [s EXCEPT !.env = <<>>, !.novar = TRUE, !.eof = FALSE,
                      !.r.buf = <<>>, !.r.size = 0]

(* smap_server_new(): a server [id, url, sa, backlog, flags, max_children, *)
(* mode] for a URL that parses, or NULL (NoServer).  The structure is      *)
(* calloc'ed, so backlog and max_children are 0 and no flag is set; mode  *)
(* is (mode_t)-1, "not set": MODE_UNSET, -1 here, since the modes the      *)
(* words give stay far below 2^32 - 1.                                     *)
MODE_UNSET == -1
SRV_SINGLE_PROCESS == "SRV_SINGLE_PROCESS"
SRV_KEEP_EXISTING == "SRV_KEEP_EXISTING"
NoServer == [id |-> NULL, url |-> NULL, sa |-> [family |-> "NONE"], backlog |-> 0,
             flags |-> {}, max_children |-> 0, mode |-> MODE_UNSET]
smap_server_new(id, url) ==
    Bind(smap_url_parse(url), LAMBDA u :
         IF u.rc # 0 THEN NoServer
         ELSE [NoServer EXCEPT !.id = id, !.url = url, !.sa = u.sa])

(* The setters of srvman.c; the flags word is the set of its bits. *)
smap_server_set_max_children(srv, n) == [srv EXCEPT !.max_children = n]
smap_server_set_backlog(srv, n) == [srv EXCEPT !.backlog = n]
smap_server_set_flags(srv, bit, op) ==
    [srv EXCEPT !.flags = CASE op = "asg" -> {bit}
                            [] op = "set" -> @ \cup {bit}
                            [] op = "clr" -> @ \ {bit}]
smap_server_set_mode(srv, mode) == [srv EXCEPT !.mode = mode]

(* CFG_GETNUM(): strtoul(str, &p, 0) must use the whole word.  The words  *)
(* of the models have no sign and stay far below 2^32, where the range    *)
(* check of unsigned and size_t passes.                                    *)
CFG_GETNUM(str) ==
    LET n == strtoul0(str, 0) IN [ok |-> n.k = Len(str), v |-> n.v]

(* parse_mode_string(): a word starting with an octal digit (or the empty *)
(* word: strchr() finds the terminating NUL) is an octal number that must *)
(* use the whole word; otherwise three "rwx" triples, each letter in its  *)
(* place or '-', and nothing after them.  The mode is the nine bits.       *)
parse_mode_string(str) ==
    IF At(str, 0) \in ToSet(Chars("01234567")) \cup {NUL}
    THEN LET n == DigitsFrom(str, 0, 8, 0) IN [ok |-> n.k = Len(str), v |-> n.v]
    ELSE [ok |-> Len(str) = 9 /\ \A i \in 1..9 : str[i] \in {Chars("rwx")[1 + ((i - 1) % 3)], "-"},
          v |-> FoldLeft(LAMBDA m, c : 2 * m + (IF c = "-" THEN 0 ELSE 1), 0, str)]

(* The handlers of server_kwtab, called with the server of the block:     *)
(* [rc, srv].                                                              *)
cfg_backlog(srv, ws) ==
    LET n == CFG_GETNUM(ws[2])
    IN CASE cfg_chkargc(Len(ws), 2, 2) \/ ~n.ok -> [rc |-> 1, srv |-> srv]
         [] OTHER -> [rc |-> 0, srv |-> smap_server_set_backlog(srv, n.v)]
cfg_server_flag(srv, ws, flag) ==
    LET b == cfg_parse_bool(ws[2])
    IN CASE cfg_chkargc(Len(ws), 2, 2) \/ ~b.ok -> [rc |-> 1, srv |-> srv]
         [] OTHER -> [rc |-> 0, srv |-> smap_server_set_flags(srv, flag,
                                            IF b.v # 0 THEN "set" ELSE "clr")]
cfg_reuseaddr(srv, ws) == cfg_server_flag(srv, ws, SRV_KEEP_EXISTING)
cfg_single_process(srv, ws) == cfg_server_flag(srv, ws, SRV_SINGLE_PROCESS)
cfg_max_children(srv, ws) ==
    LET n == CFG_GETNUM(ws[2])
    IN CASE cfg_chkargc(Len(ws), 2, 2) \/ ~n.ok -> [rc |-> 1, srv |-> srv]
         [] OTHER -> [rc |-> 0, srv |-> smap_server_set_max_children(srv, n.v)]
cfg_srv_socket_mode(srv, ws) ==
    LET m == parse_mode_string(ws[2])
    IN CASE cfg_chkargc(Len(ws), 2, 2) \/ ~m.ok -> [rc |-> 1, srv |-> srv]
         [] OTHER -> [rc |-> 0, srv |-> smap_server_set_mode(srv, m.v)]

(* server_kwtab without the privilege keywords (user, group, allgroups,   *)
(* socket-owner), which look up the password and group databases.          *)
Kw(type, fun) == [type |-> type, fun |-> fun, rc |-> 0, block |-> <<>>]
server_kwtab ==
    (Chars("end") :> Kw("EOF", NoFun)) @@
    (Chars("backlog") :> Kw("FUN", "cfg_backlog")) @@
    (Chars("reuseaddr") :> Kw("FUN", "cfg_reuseaddr")) @@
    (Chars("max-children") :> Kw("FUN", "cfg_max_children")) @@
    (Chars("single-process") :> Kw("FUN", "cfg_single_process")) @@
    (Chars("socket-mode") :> Kw("FUN", "cfg_srv_socket_mode"))
ServerFuns == {"cfg_backlog", "cfg_reuseaddr", "cfg_max_children",
               "cfg_single_process", "cfg_srv_socket_mode"}

(* A server handler applied to the server of the block (the one           *)
(* cfg_server() attached last): [rc, s].                                   *)
ServerHandler(e, s, ws) ==
    LET srv == Last(s.servers)
        h == CASE e.fun = "cfg_backlog" -> cfg_backlog(srv, ws)
               [] e.fun = "cfg_reuseaddr" -> cfg_reuseaddr(srv, ws)
               [] e.fun = "cfg_max_children" -> cfg_max_children(srv, ws)
               [] e.fun = "cfg_single_process" -> cfg_single_process(srv, ws)
               [] e.fun = "cfg_srv_socket_mode" -> cfg_srv_socket_mode(srv, ws)
    IN [rc |-> h.rc, s |-> [s EXCEPT !.servers[Len(s.servers)] = h.srv]]

(* The srvman parameters of smap_kwtab: backlog, reuseaddr and            *)
(* single-process are stored (in vals), max-children and socket-mode are  *)
(* handlers that set srvman_param (the state's param).                     *)
smap_kwtab_srvman ==
    (Chars("socket-mode") :> Kw("FUN", "cfg_socket_mode")) @@
    (Chars("backlog") :> Kw("INT", NoFun)) @@
    (Chars("reuseaddr") :> Kw("BOOL", NoFun)) @@
    (Chars("max-children") :> Kw("FUN", "cfg_global_max_children")) @@
    (Chars("single-process") :> Kw("BOOL", NoFun))
cfg_global_max_children(s, ws) ==
    LET n == CFG_GETNUM(ws[2])
    IN CASE cfg_chkargc(Len(ws), 2, 2) \/ ~n.ok -> [rc |-> 1, s |-> s]
         [] OTHER -> [rc |-> 0, s |-> [s EXCEPT !.param.max_children = n.v]]
cfg_socket_mode(s, ws) ==
    LET m == parse_mode_string(ws[2])
    IN CASE cfg_chkargc(Len(ws), 2, 2) \/ ~m.ok -> [rc |-> 1, s |-> s]
         [] OTHER -> [rc |-> 0, s |-> [s EXCEPT !.param.socket_mode = m.v]]

(* What srvman makes of a server once the file is read: srvman_param's     *)
(* stored value of a keyword (0 when the file does not set it), the        *)
(* backlog srvman_run() defaults to DEFAULT_BACKLOG, and the listen        *)
(* backlog, address reuse, mode (umask) and process model that             *)
(* server_prep() and server_run() use (SRVMAN_BACKLOG, SRVMAN_REUSEADDR).  *)
DEFAULT_BACKLOG == 8
ParamVal(s, kw) == IF Chars(kw) \in DOMAIN s.vals THEN s.vals[Chars(kw)] ELSE 0
SRVMAN_BACKLOG(s, srv) ==
    IF srv.backlog # 0 THEN srv.backlog
    ELSE IF ParamVal(s, "backlog") # 0 THEN ParamVal(s, "backlog") ELSE DEFAULT_BACKLOG
SRVMAN_REUSEADDR(s, srv) ==
    ParamVal(s, "reuseaddr") # 0 \/ SRV_KEEP_EXISTING \notin srv.flags
ServerSettings(s, srv) ==
    [id |-> srv.id, url |-> srv.url, sa |-> srv.sa,
     backlog |-> SRVMAN_BACKLOG(s, srv), reuseaddr |-> SRVMAN_REUSEADDR(s, srv),
     single_process |-> ParamVal(s, "single-process") # 0 \/ SRV_SINGLE_PROCESS \in srv.flags,
     max_children |-> srv.max_children,
     mode |-> IF srv.mode = MODE_UNSET THEN s.param.socket_mode ELSE srv.mode]

(* smap_srvman_attach_server(): the server goes at the tail of the list. *)
smap_srvman_attach_server(servers, srv) == Append(servers, srv)

(* cfg_server(): 3 or 4 words; the server is made from the URL and        *)
(* attached (smap_srvman_attach_server, the servers list), and a fourth   *)
(* word "begin" parses the following lines with the block's table: [rc, s]. *)
cfg_server(file, e, s0, ws) ==
    Bind(smap_server_new(ws[2], ws[3]), LAMBDA srv :
    Bind([s0 EXCEPT !.servers = smap_srvman_attach_server(@, srv)], LAMBDA s :
    CASE cfg_chkargc(Len(ws), 3, 4) -> [rc |-> 1, s |-> [s0 EXCEPT !.errors = TRUE]]
      [] srv.sa.family = "NONE" -> [rc |-> 1, s |-> s0]
      [] Len(ws) = 4 /\ ws[4] # Chars("begin") -> [rc |-> 1, s |-> s]
      [] Len(ws) = 4 ->
            Bind(Fresh(s), LAMBDA f : Bind(ConfigLoop(file, e.block, f), LAMBDA in :
                 [rc |-> 0, s |-> [in EXCEPT !.env = s.env, !.novar = s.novar, !.eof = s.eof,
                                             !.r.buf = s.r.buf, !.r.size = s.r.size]]))
      [] OTHER -> [rc |-> 0, s |-> s]))

(* The handler's call and its return: after a KWT_EOF keyword, 0 goes on *)
(* reading and a negative code is an error; otherwise non-zero is one.     *)
Callback(file, e, s, ws) ==
    Bind([s EXCEPT !.calls = Append(@, [words |-> ws, line |-> s.r.line])], LAMBDA s1 :
    Bind(CASE e.fun = "server" -> cfg_server(file, e, s1, ws)
           [] e.fun \in ServerFuns -> ServerHandler(e, s1, ws)
           [] e.fun = "cfg_global_max_children" -> cfg_global_max_children(s1, ws)
           [] e.fun = "cfg_socket_mode" -> cfg_socket_mode(s1, ws)
           [] OTHER -> [rc |-> e.rc, s |-> s1],
         LAMBDA h :
           CASE h.s.eof /\ h.rc < 0 -> [h.s EXCEPT !.errors = TRUE]
             [] h.s.eof /\ h.rc = 0 -> [h.s EXCEPT !.eof = FALSE]
             [] h.s.eof             -> h.s
             [] h.rc # 0            -> [h.s EXCEPT !.errors = TRUE]
             [] OTHER               -> h.s))

(* One line's words: an assignment, or a keyword of the table. *)
Statement(file, kwtab, s, ws) ==
    CASE ws = <<>> -> s
      [] asgn_p(ws[1]) /\ Len(ws) > 1 -> [s EXCEPT !.errors = TRUE]
      [] asgn_p(ws[1]) -> [s EXCEPT !.env = asgn(@, ws[1]), !.novar = FALSE]
      [] ws[1] \notin DOMAIN kwtab -> [s EXCEPT !.errors = TRUE]
      [] ArgcWrong(kwtab[ws[1]], ws) -> [s EXCEPT !.errors = TRUE]
      [] OTHER -> Bind(TypeStore(kwtab[ws[1]], s, ws), LAMBDA s1 :
                       IF kwtab[ws[1]].fun = NoFun THEN s1
                       ELSE Callback(file, kwtab[ws[1]], s1, ws))

(* main() sets srvman_param's socket mode (0600) and global limit of     *)
(* children (128) before it reads the configuration.                       *)
main_param == [max_children |-> 128, socket_mode |-> 384]

(* parse_config(): cfg_cur_line starts at 1. *)
parse_config(file, kwtab) ==
    ConfigLoop(file, kwtab,
               [r |-> [pos |-> 0, eof |-> FALSE, cur |-> 1, line |-> 0, buf |-> <<>>,
                       size |-> 0, off |-> 0],
                env |-> <<>>, novar |-> TRUE, eof |-> FALSE, errors |-> FALSE,
                calls |-> <<>>, vals |-> <<>>, servers |-> <<>>,
                param |-> main_param])

====
