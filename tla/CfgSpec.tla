------------------------------- MODULE CfgSpec -------------------------------
(***************************************************************************)
(* What a configuration file says, after spec.md section 6: it is read   *)
(* line by line, a line ending in a backslash is joined with the next,    *)
(* '#' starts a comment, NAME=VALUE assigns a variable that every later   *)
(* line expands, and "server ... begin" opens a block of server keywords  *)
(* that a KWT_EOF keyword ("end") closes.  A statement is numbered by the *)
(* first physical line it is on.  The keyword types, argument counts and  *)
(* handlers are those of CfgReader: only the reading of the lines, the    *)
(* variables and the nesting are given here.                               *)
(***************************************************************************)
EXTENDS CfgReader

(* The physical lines of a file, numbered from 1, each without its        *)
(* newline (the files given end with one).                                 *)
PhysLines(file) ==
    LET nl == SetToSortSeq({i \in DOMAIN file : file[i] = "\n"}, <)
        Start(j) == IF j = 1 THEN 1 ELSE nl[j - 1] + 1
    IN [j \in 1..(Len(nl) + 1) |->
          SubSeq(file, Start(j), IF j <= Len(nl) THEN nl[j] - 1 ELSE Len(file))]

(* Logical lines [text, line]: a backslash at the end of a line is taken  *)
(* away and the line joined with the next.                                 *)
LogicalLines(file) ==
    LET ph == PhysLines(file)
        Step(acc, i) ==
            LET t    == acc.pend \o ph[i]
                from == IF acc.from = 0 THEN i ELSE acc.from
            IN IF ph[i] # <<>> /\ Last(ph[i]) = "\\"
               THEN [acc EXCEPT !.pend = Front(t), !.from = from]
               ELSE [out |-> Append(acc.out, [text |-> t, line |-> from]),
                     pend |-> <<>>, from |-> 0]
    IN FoldLeft(Step, [out |-> <<>>, pend |-> <<>>, from |-> 0],
                [i \in 1..(Len(ph) - 1) |-> i]).out

(* The words of a line, each "$NAME" replaced by the variable's value     *)
(* when it has one.                                                        *)
SpecWords(text, env) ==
    LET ws == SplitBlanks(text)
        c  == SelectInSeq(ws, LAMBDA w : w[1] = "#")
        Expand(w) == IF w[1] = "$" /\ Tail(w) \in DOMAIN env THEN env[Tail(w)] ELSE w
    IN [i \in 1..(IF c = 0 THEN Len(ws) ELSE c - 1) |-> Expand(ws[i])]

(* A server URL as smap_url_parse() reads it, except that a port number   *)
(* outside 0 .. 65535 is refused with "bad port number".                   *)
SpecUrl(url) ==
    Bind(split_connection(url), LAMBDA c :
       IF c.rc = 0 /\ c.proto = Chars("inet") /\ c.port # NULL
          /\ Bind(strtol0(c.port), LAMBDA n : n.k = Len(c.port) /\ n.v \notin 0..65535)
       THEN [rc |-> SMAP_URLE_BADPORT]
       ELSE smap_url_parse(url))

(* An unsigned number: decimal, octal after a leading 0, hexadecimal     *)
(* after "0x".                                                             *)
NumIn(w, b) == FoldLeft(LAMBDA v, c : v * b + DigitVal(c), 0, w)
AllDigits(w, b) == w # <<>> /\ \A i \in DOMAIN w : IsDigit(w[i], b)
SpecNumber(w) ==
    CASE Len(w) > 2 /\ w[1] = "0" /\ w[2] \in {"x", "X"} ->
           [ok |-> AllDigits(Drop(w, 2), 16), v |-> NumIn(Drop(w, 2), 16)]
      [] w # <<>> /\ w[1] = "0" -> [ok |-> AllDigits(w, 8), v |-> NumIn(w, 8)]
      [] OTHER -> [ok |-> AllDigits(w, 10), v |-> NumIn(w, 10)]

(* A socket mode: an octal number, or the nine permission letters as     *)
(* "ls -l" shows them ("rw-r-----"), a '-' for each bit not set.           *)
Perms == Chars("rwxrwxrwx")
SpecMode(w) ==
    IF w # <<>> /\ IsDigit(w[1], 8) THEN [ok |-> AllDigits(w, 8), v |-> NumIn(w, 8)]
    ELSE [ok |-> Len(w) = 9 /\ \A k \in 1..9 : w[k] \in {Perms[k], "-"},
          v |-> LET B(k) == IF w[k] = "-" THEN 0 ELSE 1
                    Oct(k) == 4 * B(k) + 2 * B(k + 1) + B(k + 2)
                IN 64 * Oct(1) + 8 * Oct(4) + Oct(7)]

(* The setting a server or srvman keyword's word gives: [ok, key, v],     *)
(* key naming what it sets.                                                *)
Set(key, p) == [ok |-> p.ok, key |-> key, v |-> p.v]
SpecSetting(e, ws) ==
    LET b == cfg_parse_bool(ws[2])
    IN CASE e.fun = "cfg_backlog" -> Set("backlog", SpecNumber(ws[2]))
         [] e.fun \in {"cfg_max_children", "cfg_global_max_children"} ->
              Set("max_children", SpecNumber(ws[2]))
         [] e.fun = "cfg_reuseaddr" -> Set("reuseaddr", [ok |-> b.ok, v |-> b = [ok |-> TRUE, v |-> 1]])
         [] e.fun = "cfg_single_process" ->
              Set("single_process", [ok |-> b.ok, v |-> b = [ok |-> TRUE, v |-> 1]])
         [] e.fun \in {"cfg_srv_socket_mode", "cfg_socket_mode"} -> Set("mode", SpecMode(ws[2]))
SettingFuns == ServerFuns \cup {"cfg_global_max_children", "cfg_socket_mode"}

(* A server takes each setting from its own block; what the block does    *)
(* not set it takes from the keyword of the file (backlog, reuseaddr,     *)
(* single-process, socket-mode) or the default: a backlog of 8, the       *)
(* address reused, a process per connection, no limit of its own.          *)
SpecServerSettings(out, srv) ==
    LET Own(k, d) == IF k \in DOMAIN srv.own THEN srv.own[k] ELSE d
        Global(kw, d) == IF Chars(kw) \in DOMAIN out.vals THEN out.vals[Chars(kw)] ELSE d
    IN [id |-> srv.id, url |-> srv.url, sa |-> srv.sa,
        backlog |-> Own("backlog", Global("backlog", 8)),
        reuseaddr |-> Own("reuseaddr", Global("reuseaddr", 1) = 1),
        single_process |-> Own("single_process", Global("single-process", 0) = 1),
        max_children |-> Own("max_children", 0),
        mode |-> Own("mode", out.param.mode)]

(* A srvman keyword at the top of the file means what it means in a       *)
(* server block: "backlog" takes a number in any C base (SpecNumber), as   *)
(* cfg_backlog's does.  Every other typed keyword is stored by its type.  *)
SpecStore(e, s, ws) ==
    IF e.fun = NoFun /\ ws[1] = Chars("backlog")
    THEN LET p == SpecNumber(ws[2])
         IN IF p.ok THEN [s EXCEPT !.vals = (ws[1] :> p.v) @@ @]
            ELSE [s EXCEPT !.errors = TRUE]
    ELSE TypeStore(e, s, ws)

(* The statements in order, with a stack of keyword tables: [errors,     *)
(* calls, vals, servers] as parse_config() gives them.  SpecStatement is  *)
(* line i, whose words are ws, and SpecKeyword a keyword e of the table   *)
(* on top: both give the next [t (tables), env, o (the result so far)].   *)
SpecKeyword(line, tabs, env, out, ws, e) ==
    Bind(SpecStore(e, [errors |-> out.errors, vals |-> out.vals, eof |-> FALSE], ws), LAMBDA s1 :
    Bind([errors |-> s1.errors, vals |-> s1.vals, servers |-> out.servers, param |-> out.param,
          calls |-> IF e.fun = NoFun THEN out.calls
                    ELSE Append(out.calls, [words |-> ws, line |-> line])], LAMBDA o :
    Bind(IF e.fun = "server" /\ Len(ws) \in 3..4 THEN SpecUrl(ws[3]) ELSE [rc |-> 0, sa |-> NoServer.sa],
         LAMBDA u :
    LET os == [o EXCEPT !.servers = Append(@, [id |-> ws[2], url |-> ws[3], sa |-> u.sa,
                                                own |-> <<>>])]
        Go(t, x) == [t |-> t, env |-> env, o |-> x]
        Err(x) == [x EXCEPT !.errors = TRUE]
        set == SpecSetting(e, ws)
        last == Len(o.servers)
    IN CASE e.fun \in SettingFuns /\ (Len(ws) # 2 \/ ~set.ok) -> Go(tabs, Err(o))
         [] e.fun \in ServerFuns ->
              Go(tabs, [o EXCEPT !.servers[last].own = (set.key :> set.v) @@ @])
         [] e.fun \in SettingFuns -> Go(tabs, [o EXCEPT !.param[set.key] = set.v])
         []  e.fun = "server" /\ cfg_chkargc(Len(ws), 3, 4) -> Go(tabs, Err(o))
         [] e.fun = "server" /\ u.rc # 0 -> Go(tabs, Err(o))
         [] e.fun = "server" /\ Len(ws) = 4 /\ ws[4] # Chars("begin") -> Go(tabs, Err(os))
         [] e.fun = "server" /\ Len(ws) = 4 -> Go(Append(tabs, e.block), os)
         [] e.fun = "server" -> Go(tabs, os)
         [] s1.eof /\ e.fun # NoFun /\ e.rc = 0 -> Go(tabs, o)
         [] s1.eof /\ e.fun # NoFun /\ e.rc < 0 -> Go(Front(tabs), Err(o))
         [] s1.eof -> Go(Front(tabs), o)
         [] e.fun # NoFun /\ e.rc # 0 -> Go(tabs, Err(o))
         [] OTHER -> Go(tabs, o))))

RECURSIVE SpecRun(_, _, _, _, _), SpecStatement(_, _, _, _, _, _)
SpecRun(L, i, tabs, env, out) ==
    IF i > Len(L) \/ tabs = <<>> THEN out
    ELSE Bind(SpecWords(L[i].text, env), LAMBDA ws : SpecStatement(L, i, tabs, env, out, ws))

SpecStatement(L, i, tabs, env, out, ws) ==
    LET Err == [t |-> tabs, env |-> env, o |-> [out EXCEPT !.errors = TRUE]]
    IN Bind(CASE ws = <<>> -> [t |-> tabs, env |-> env, o |-> out]
              [] asgn_p(ws[1]) /\ Len(ws) > 1 -> Err
              [] asgn_p(ws[1]) ->
                   [t |-> tabs, o |-> out,
                    env |-> (SubSeq(ws[1], 1, NameEnd(ws[1]) - 1) :> Drop(ws[1], NameEnd(ws[1]))) @@ env]
              [] ws[1] \notin DOMAIN Last(tabs) \/ ArgcWrong(Last(tabs)[ws[1]], ws) -> Err
              [] OTHER -> SpecKeyword(L[i].line, tabs, env, out, ws, Last(tabs)[ws[1]]),
            LAMBDA a : SpecRun(L, i + 1, a.t, a.env, a.o))

SpecConfig(file, kwtab) ==
    Bind(LogicalLines(file), LAMBDA L :
         SpecRun(L, 1, <<kwtab>>, <<>>,
                 [errors |-> FALSE, calls |-> <<>>, vals |-> <<>>, servers |-> <<>>,
                  param |-> [max_children |-> 128, mode |-> 384]]))

====
