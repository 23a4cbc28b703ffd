---------------------------- MODULE SedTransform ----------------------------
(***************************************************************************)
(* The sed backend (src/modules/sed): sed.c's init_db, xform and query    *)
(* entries over transform.c, which compiles "s/regexp/replacement/flags"  *)
(* commands and applies them to a string.                                  *)
(*                                                                         *)
(* A text is a sequence of one-character strings; offsets are C indices   *)
(* from 0 (At, Slice, Drop).  The POSIX regex library is not part of the  *)
(* repository: RegComp and RegExec stand for regcomp() and regexec() on   *)
(* the EREs built from literals, ".", a starred atom, groups, "^" and "$", *)
(* with the leftmost-longest rule.  SedSpec at the end is what a sed       *)
(* command means (POSIX sed with the GNU case escapes).                    *)
(***************************************************************************)
EXTENDS Naturals, SequencesExt, CString, Parseopt

-----------------------------------------------------------------------------
(* regcomp(): atoms [op, c, star] with op "lit", "any", "open", "close";  *)
(* nsub is re_nsub.  A pattern outside the subset is an error.            *)
RECURSIVE RegAtoms(_, _, _, _, _)
RegAtoms(r, k, acc, open, nsub) ==
    IF k > Len(r) THEN [ok |-> open = <<>>, atoms |-> acc, nsub |-> nsub]
    ELSE LET c == r[k]
             Atom(op, x) == [op |-> op, c |-> x, star |-> FALSE, g |-> 0]
             Mark(op, g) == [op |-> op, c |-> NUL, star |-> FALSE, g |-> g]
         IN CASE c = "(" -> RegAtoms(r, k + 1, Append(acc, Mark("open", nsub + 1)),
                                     Append(open, nsub + 1), nsub + 1)
              [] c = ")" /\ open # <<>> ->
                     RegAtoms(r, k + 1, Append(acc, Mark("close", Last(open))), Front(open), nsub)
              [] c = "*" /\ acc # <<>> /\ Last(acc).op \in {"lit", "any"} /\ ~Last(acc).star ->
                     RegAtoms(r, k + 1, [acc EXCEPT ![Len(acc)].star = TRUE], open, nsub)
              [] c = "\\" /\ k < Len(r) -> RegAtoms(r, k + 2, Append(acc, Atom("lit", r[k + 1])), open, nsub)
              [] c = "." -> RegAtoms(r, k + 1, Append(acc, Atom("any", NUL)), open, nsub)
              [] c \in {"(", ")", "*", "\\", "+", "?", "|", "{", "[", "^", "$"} ->
                     [ok |-> FALSE, atoms |-> acc, nsub |-> nsub]
              [] OTHER -> RegAtoms(r, k + 1, Append(acc, Atom("lit", c)), open, nsub)

RegComp(r, icase) ==
    LET bol  == r # <<>> /\ r[1] = "^"
        eol  == Len(r) > 1 /\ Last(r) = "$" /\ r[Len(r) - 1] # "\\"
        body == SubSeq(r, IF bol THEN 2 ELSE 1, IF eol THEN Len(r) - 1 ELSE Len(r))
        a    == RegAtoms(body, 1, <<>>, <<>>, 0)
    IN [ok |-> a.ok, atoms |-> a.atoms, nsub |-> a.nsub, bol |-> bol, eol |-> eol,
        icase |-> icase]

Fits(re, t, ch) ==
    t.op = "any" \/ t.c = ch \/ (re.icase /\ TOLOWER(t.c) = TOLOWER(ch))

\* Every way atoms a.. match s from offset p: the offset after each atom.
RECURSIVE Paths(_, _, _, _)
Paths(re, s, a, p) ==
    IF a > Len(re.atoms) THEN IF re.eol /\ p # Len(s) THEN {} ELSE {<<>>}
    ELSE LET t    == re.atoms[a]
             ends == CASE t.op \in {"open", "close"} -> {p}
                       [] t.star -> {q \in p..Len(s) : \A i \in (p + 1)..q : Fits(re, t, s[i])}
                       [] OTHER  -> IF p < Len(s) /\ Fits(re, t, s[p + 1]) THEN {p + 1} ELSE {}
         IN UNION {{<<q>> \o r : r \in Paths(re, s, a + 1, q)} : q \in ends}

LexGeq(x, y) == x = y \/ \E i \in DOMAIN x : x[i] > y[i] /\ \A j \in 1..(i - 1) : x[j] = y[j]

(* regexec() from offset "from" (0 for the code, which passes the rest of *)
(* the string): the leftmost start, then the longest match, then earlier  *)
(* atoms longest.  sub[g] is <<rm_so, rm_eo>>, sub[0] the whole match.    *)
(* Each step's result is handed to the next as an argument.               *)
RegBest(re, st, best) ==
    LET Pos(op, g) == best[CHOOSE i \in DOMAIN re.atoms : re.atoms[i].op = op /\ re.atoms[i].g = g]
    IN [ok |-> TRUE,
        sub |-> [g \in 0..re.nsub |-> IF g = 0 THEN <<st, IF best = <<>> THEN st ELSE Last(best)>>
                                      ELSE <<Pos("open", g), Pos("close", g)>>]]
RegLongest(re, st, ps) ==
    LET End(x) == IF x = <<>> THEN st ELSE Last(x)
    IN RegBest(re, st, CHOOSE x \in ps : \A y \in ps :
                           End(x) > End(y) \/ (End(x) = End(y) /\ LexGeq(x, y)))
RegLeftmost(re, s, starts) ==
    IF starts = {} THEN [ok |-> FALSE]
    ELSE RegLongest(re, Min(starts), Paths(re, s, 1, Min(starts)))
RegExec(re, s, from) ==
    RegLeftmost(re, s, {st \in from..Len(s) : (re.bol => st = 0) /\ Paths(re, s, 1, st) # {}})

-----------------------------------------------------------------------------
TRE_INVEXP == 3
TRE_DELIM == 4
TRE_TRAIL == 5
TRE_BADFLAG == 6
TRE_BACKREF == 7
TRE_NOMEM == 2

(* The scan for the next unescaped delimiter in parse_transform_expr(). *)
RECURSIVE ScanDelim(_, _, _)
ScanDelim(e, k, d) ==
    CASE At(e, k) = NUL \/ At(e, k) = d      -> k
      [] At(e, k) = "\\" /\ At(e, k + 1) # NUL -> ScanDelim(e, k + 2, d)
      [] OTHER                                -> ScanDelim(e, k + 1, d)

(* The flags loop, up to ';' or the end: p is where it stopped. *)
RECURSIVE ParseFlags(_, _, _)
ParseFlags(e, p, f) ==
    LET c == At(e, p) IN
    CASE c \in {NUL, ";"} -> [f EXCEPT !.p = p]
      [] c = "g" -> ParseFlags(e, p + 1, [f EXCEPT !.type = "global"])
      [] c = "i" -> ParseFlags(e, p + 1, [f EXCEPT !.icase = TRUE])
      [] c = "x" -> ParseFlags(e, p + 1, f)
      [] IsDigit(c, 10) -> LET n == strtoul0(e, p)
                           IN ParseFlags(e, n.k, [f EXCEPT !.num = n.v])
      [] OTHER -> [f EXCEPT !.rc = TRE_BADFLAG, !.p = p]

Lit(t) == [t |-> "lit", s |-> t, n |-> 0, ctl |-> "stop"]
Ref(n) == [t |-> "ref", s |-> <<>>, n |-> n, ctl |-> "stop"]
Ctl(c) == [t |-> "ctl", s |-> <<>>, n |-> 0, ctl |-> c]
EscapeChar == ("\\" :> "\\") @@ ("a" :> "BEL") @@ ("b" :> "BS") @@ ("f" :> "\f")
              @@ ("n" :> "\n") @@ ("r" :> "\r") @@ ("t" :> "\t") @@ ("v" :> "VT")
              @@ ("&" :> "&")
CaseEscape == ("L" :> "locase") @@ ("l" :> "locase_next") @@ ("U" :> "upcase")
              @@ ("u" :> "upcase_next") @@ ("E" :> "stop")

\* add_literal_segment(): nothing for an empty run.
add_literal_segment(segs, str, beg, cur) ==
    IF cur > beg THEN Append(segs, Lit(Slice(str, beg, cur))) ELSE segs

(* The loop compiling the replacement into segments: a backslash ends the *)
(* literal run and starts a backreference (a number, which must not      *)
(* exceed re_nsub), an escaped character, a case control, or the two     *)
(* characters kept as they are; '&' is backreference 0.                  *)
RECURSIVE ReplSegs(_, _, _, _, _)
ReplSegs(str, cur, beg, segs, nsub) ==
    IF cur >= Len(str) THEN [rc |-> 0, segs |-> add_literal_segment(segs, str, beg, cur)]
    ELSE LET s1 == add_literal_segment(segs, str, beg, cur)
             x  == At(str, cur + 1)
             n  == DigitsFrom(str, cur + 1, 10, 0)
         IN CASE str[cur + 1] = "\\" /\ IsDigit(x, 10) /\ n.v > nsub ->
                     [rc |-> TRE_BACKREF, segs |-> s1]
              [] str[cur + 1] = "\\" /\ IsDigit(x, 10) ->
                     ReplSegs(str, n.k, n.k, Append(s1, Ref(n.v)), nsub)
              [] str[cur + 1] = "\\" ->
                     LET seg == CASE x \in DOMAIN EscapeChar -> Lit(<<EscapeChar[x]>>)
                                  [] x \in DOMAIN CaseEscape -> Ctl(CaseEscape[x])
                                  [] OTHER                   -> Lit(<<"\\", x>>)
                     IN ReplSegs(str, cur + 2, cur + 2, Append(s1, seg), nsub)
              [] str[cur + 1] = "&" ->
                     ReplSegs(str, cur + 1, cur + 1, Append(s1, Ref(0)), nsub)
              [] OTHER -> ReplSegs(str, cur + 1, beg, segs, nsub)

(* parse_transform_expr(): one command from the start of e: the scans    *)
(* for the second delimiter (i) and the third (j), the flags loop, the    *)
(* regexp and the replacement, each step given the results before it.    *)
(* On success tf is [type, num, re, segs] and rest what follows the ';'.  *)
(* A regexp starting with '^' or ending with '$' makes the command        *)
(* "first" (the test reads str[-1] for an empty regexp; not modelled).    *)
ParsedCommand(e, i, j, fl, re, repl) ==
    LET str == Slice(e, 2, i)
    IN CASE At(e, 0) # "s"       -> [rc |-> TRE_INVEXP]
         [] At(e, i) # At(e, 1)  -> [rc |-> TRE_DELIM]
         [] At(e, j) # At(e, 1)  -> [rc |-> TRE_TRAIL]
         [] fl.rc # 0            -> [rc |-> fl.rc]
         [] ~re.ok               -> [rc |-> TRE_INVEXP]
         [] repl.rc # 0          -> [rc |-> repl.rc]
         [] OTHER ->
              [rc   |-> 0,
               tf   |-> [type |-> IF str # <<>> /\ (str[1] = "^" \/ Last(str) = "$")
                                  THEN "first" ELSE fl.type,
                         num  |-> fl.num, re |-> re, segs |-> repl.segs],
               rest |-> Drop(e, IF At(e, fl.p) = ";" THEN fl.p + 1 ELSE fl.p)]
CompiledCommand(e, i, j, fl) ==
    LET re == RegComp(Slice(e, 2, i), fl.icase)
    IN ParsedCommand(e, i, j, fl, re, ReplSegs(Slice(e, i + 1, j), 0, 0, <<>>, re.nsub))
FlaggedCommand(e, i, j, icase) ==
    CompiledCommand(e, i, j, ParseFlags(e, j + 1, [type |-> "first", icase |-> icase,
                                                   num |-> 0, rc |-> 0, p |-> 0]))
DelimitedCommand(e, i, icase) == FlaggedCommand(e, i, ScanDelim(e, i + 1, At(e, 1)), icase)
parse_transform_expr(e, icase) == DelimitedCommand(e, ScanDelim(e, 2, At(e, 1)), icase)

(* transform_compile_incr(): the commands of e are appended to the list;  *)
(* on an error the whole list, earlier arguments' commands included, is  *)
(* freed.                                                                 *)
RECURSIVE transform_compile_incr(_, _, _), CompileNext(_, _, _)
CompileNext(list, r, icase) ==
    IF r.rc # 0 THEN [rc |-> 1, list |-> <<>>]
    ELSE transform_compile_incr(Append(list, r.tf), r.rest, icase)
transform_compile_incr(list, e, icase) ==
    IF e = <<>> THEN [rc |-> 0, list |-> list]
    ELSE CompileNext(list, parse_transform_expr(e, icase), icase)

(* The output list of a sed database (sed.c): transform.c appends the     *)
(* pieces of a command's output with sed_slist_append() and joins them    *)
(* with sed_slist_reduce(), which empties the list, as slist_free() does. *)
(* The pieces one command appends are one text here.  A piece "" of       *)
(* length 1 is a NUL, and the joined string ends at the first NUL.        *)
slist_init == <<>>
slist_free(sl) == slist_init
sed_slist_append(sl, t) == Append(sl, t)
sed_slist_reduce(sl) ==
    LET all == FlattenSeq(sl)
        z   == SelectInSeq(all, LAMBDA c : c = NUL)
    IN IF z = 0 THEN all ELSE SubSeq(all, 1, z - 1)

(* The option table of sed_init() and sed_init_db(), and the defaults.   *)
Opt(name, type, data, value) == [name |-> Chars(name), type |-> type, data |-> data,
                                 value |-> value, enum |-> <<>>]
SedOptions ==
    << Opt("icase", "bitmask", "cflags", {"REG_ICASE"}),
       Opt("extended", "bitmask", "cflags", {"REG_EXTENDED"}),
       Opt("positive-reply", "string", "positive_reply", {}),
       Opt("negative-reply", "string", "negative_reply", {}),
       Opt("onerror-reply", "string", "onerror_reply", {}) >>
SedDefaults == [cflags |-> {"REG_EXTENDED"}, positive_reply |-> Chars("OK ${xform}"),
                negative_reply |-> Chars("NOTFOUND"), onerror_reply |-> NoValue]

(* sed_init(): the module's own arguments set the defaults; any other    *)
(* word is an error.  [rc, vals].                                         *)
sed_init(argv) ==
    smap_parseopt(SedOptions, SedDefaults, argv,
                  [argv0 |-> FALSE, permute |-> FALSE, pindex |-> FALSE])

(* sed_init_db(): the options are parsed with SMAP_PARSEOPT_PERMUTE, then *)
(* every argument from the index on is compiled into the database's list, *)
(* with REG_ICASE when the options set it; the first failure frees the    *)
(* database and init_db returns NULL.                                     *)
CompileArgs(args, icase) ==
    LET Compiled(r) == [ok |-> r.rc = 0, list |-> r.list]
    IN FoldLeft(LAMBDA db, a : IF ~db.ok THEN db
                               ELSE Compiled(transform_compile_incr(db.list, a, icase)),
                [ok |-> TRUE, list |-> <<>>], args)
SedDb(p) ==
    IF p.rc # 0 THEN [ok |-> FALSE, list |-> <<>>]
    ELSE Bind(CompileArgs(Drop(p.argv, p.index), "REG_ICASE" \in p.vals.cflags), LAMBDA c :
              [ok |-> c.ok, list |-> c.list, slist |-> slist_init,
               positive_reply |-> p.vals.positive_reply,
               negative_reply |-> p.vals.negative_reply,
               onerror_reply |-> p.vals.onerror_reply])
sed_init_db(defs, argv) ==
    Bind(smap_parseopt(SedOptions, defs, argv,
                       [argv0 |-> FALSE, permute |-> TRUE, pindex |-> TRUE]), SedDb)

-----------------------------------------------------------------------------
(* run_case_conv(): the first character, or all of them. *)
run_case_conv(ctl, t) ==
    CASE t = <<>>               -> t
      [] ctl = "upcase_next"    -> [t EXCEPT ![1] = TOUPPER(@)]
      [] ctl = "locase_next"    -> [t EXCEPT ![1] = TOLOWER(@)]
      [] ctl = "upcase"         -> [i \in DOMAIN t |-> TOUPPER(t[i])]
      [] ctl = "locase"         -> [i \in DOMAIN t |-> TOLOWER(t[i])]
      [] OTHER                  -> t

(* The case state [out, cc, sc] of the loop: case_ctl and save_ctl, which *)
(* are set once per call, not per match.  CASE_CTL_RESET ends a \u or \l. *)
CASE_CTL_RESET(st) ==
    IF st.cc \in {"upcase_next", "locase_next"}
    THEN [st EXCEPT !.cc = st.sc, !.sc = "stop"] ELSE st
Emit(st, t) ==
    IF st.cc = "stop" THEN [st EXCEPT !.out = @ \o t]
    ELSE CASE_CTL_RESET([st EXCEPT !.out = @ \o run_case_conv(st.cc, t)])
SetCtl(st, c) ==
    IF c \in {"upcase_next", "locase_next"}
    THEN [st EXCEPT !.sc = IF st.sc \in {"stop", "upcase", "locase"} THEN st.cc ELSE @,
                    !.cc = c]
    ELSE [st EXCEPT !.cc = c]

(* The loop over the replacement segments for one match of inp. *)
ApplySegs(segs, inp, sub, st0) ==
    FoldLeft(LAMBDA st, g :
                 CASE g.t = "lit" -> Emit(st, g.s)
                   [] g.t = "ref" -> IF sub[g.n][1] # -1 /\ sub[g.n][2] # -1
                                     THEN Emit(st, Slice(inp, sub[g.n][1], sub[g.n][2]))
                                     ELSE st
                   [] OTHER       -> SetCtl(st, g.ctl),
             st0, segs)

(* _single_transform_name_to_slist(): regexec() on the rest of the input; *)
(* the text before the match is appended; a match before the match_number *)
(* appends the input up to its end; a counted match appends the           *)
(* replacement; "first" appends the rest and stops.  A global command    *)
(* whose counted match is empty does not advance: every later pass        *)
(* appends the replacement again, until an allocation fails (TRE_NOMEM).  *)
RECURSIVE SingleLoop(_, _, _, _), SingleMatch(_, _, _, _, _), SingleReplaced(_, _, _, _, _)
SingleReplaced(tf, inp, n, disp, r) ==
    CASE tf.type = "first" -> [rc |-> 0, out |-> r.out \o Drop(inp, disp)]
      [] disp = 0          -> [rc |-> TRE_NOMEM, out |-> r.out]
      [] OTHER             -> SingleLoop(tf, Drop(inp, disp), n + 1, r)
SingleMatch(tf, inp, n, st, m) ==
    IF ~m.ok THEN [rc |-> 0, out |-> st.out \o inp]
    ELSE LET disp == m.sub[0][2]
             pre  == [st EXCEPT !.out = @ \o Slice(inp, 0, m.sub[0][1])]
         IN IF tf.num # 0 /\ n + 1 < tf.num
            THEN SingleLoop(tf, Drop(inp, disp), n + 1,
                            [pre EXCEPT !.out = @ \o Slice(inp, 0, disp)])
            ELSE SingleReplaced(tf, inp, n, disp, ApplySegs(tf.segs, inp, m.sub, pre))
SingleLoop(tf, inp, n, st) ==
    IF inp = <<>> THEN [rc |-> 0, out |-> st.out]
    ELSE SingleMatch(tf, inp, n, st, RegExec(tf.re, inp, 0))

(* transform_string(): every command is run on the input the caller gave *)
(* (not on the previous command's output); its pieces and a NUL are       *)
(* appended to the list, which is then reduced into the output.  A        *)
(* failing command returns at once and leaves its pieces in the list.     *)
(* An empty command list leaves the output NULL.  [rc, null, out, slist]. *)
TransformCmd(input, acc, tf) ==
    IF acc.rc # 0 THEN acc
    ELSE Bind(SingleLoop(tf, input, 0, [out |-> <<>>, cc |-> "stop", sc |-> "stop"]), LAMBDA r :
              IF r.rc # 0 THEN [acc EXCEPT !.rc = r.rc, !.slist = sed_slist_append(@, r.out)]
              ELSE [acc EXCEPT !.null = FALSE, !.slist = slist_init,
                    !.out = sed_slist_reduce(sed_slist_append(sed_slist_append(acc.slist, r.out),
                                                              <<NUL>>))])
transform_string(list, input, slist) ==
    FoldLeft(LAMBDA acc, tf : TransformCmd(input, acc, tf),
             [rc |-> 0, null |-> TRUE, out |-> <<>>, slist |-> slist], list)

(* sed_xform(): 0 with the output (NULL for an empty list), or 1 when     *)
(* transform_string() fails; the list is left as transform_string() left  *)
(* it.                                                                     *)
XformResult(r) == [r EXCEPT !.rc = IF @ # 0 THEN 1 ELSE 0]
sed_xform(db, v) == XformResult(transform_string(db.list, v, db.slist))

(* wordsplit() as sed_reply() calls it (WRDSF_NOSPLIT | WRDSF_NOCMD |     *)
(* WRDSF_ENV): the template is one word, in which "$NAME" and "${NAME}"  *)
(* are replaced by the value of the first NAME=VALUE of the environment,  *)
(* or by nothing; a "$" before anything else is kept, and a "${" without *)
(* its "}" is an error.  Quoting in a template is not modelled.           *)
WRDSE_CBRACE == 5
WsNameStart == ToSet(LowerChars) \cup ToSet(UpperChars) \cup {"_"}
WsNameChars == WsNameStart \cup ToSet(Chars("0123456789"))
WsEnvValue(env, name) ==
    LET i == SelectInSeq(env, LAMBDA e : IsPrefix(name \o <<"=">>, e))
    IN IF i = 0 THEN <<>> ELSE Drop(env[i], Len(name) + 1)
\* The variable reference t starts with: [len, name]; len is 0 when t
\* starts with none, -1 for an unclosed "${".
WsVarRef(t) ==
    LET close == SelectInSeq(t, LAMBDA c : c = "}")
        stop  == SelectInSeq(Tail(t), LAMBDA c : c \notin WsNameChars)
    IN CASE t[1] # "$" \/ Len(t) = 1 -> [len |-> 0, name |-> <<>>]
         [] t[2] = "{" /\ close = 0  -> [len |-> -1, name |-> <<>>]
         [] t[2] = "{"               -> [len |-> close, name |-> SubSeq(t, 3, close - 1)]
         [] t[2] \notin WsNameStart  -> [len |-> 0, name |-> <<>>]
         [] stop = 0                 -> [len |-> Len(t), name |-> Tail(t)]
         [] OTHER                    -> [len |-> stop, name |-> SubSeq(t, 2, stop)]
RECURSIVE WsExpand(_, _, _)
WsExpand(t, env, acc) ==
    IF t = <<>> THEN [rc |-> 0, word |-> acc]
    ELSE Bind(WsVarRef(t), LAMBDA v :
              IF v.len = -1 THEN [rc |-> WRDSE_CBRACE, word |-> acc]
              ELSE WsExpand(Drop(t, IF v.len = 0 THEN 1 ELSE v.len), env,
                            acc \o (IF v.len = 0 THEN <<t[1]>> ELSE WsEnvValue(env, v.name))))

(* sed_reply(): the environment map=MAP, key=KEY and, when there is an    *)
(* output, xform=OUTPUT (format_env()); the line printed, when            *)
(* wordsplit() succeeds, is the expanded template.  [rc, line].           *)
format_env(var, val) == Chars(var) \o <<"=">> \o val
sed_reply(reply, map, key, xform) ==
    Bind(WsExpand(reply, <<format_env("map", map), format_env("key", key)>>
                         \o (IF xform = NoValue THEN <<>> ELSE <<format_env("xform", xform)>>),
                  <<>>),
         LAMBDA w : [rc |-> w.rc, line |-> IF w.rc = 0 THEN w.word ELSE NoValue])

(* sed_query(): [crash, rc, line, slist].  When the transform fails the   *)
(* onerror reply is written, if there is one, else the query fails; the   *)
(* list is left as the transform left it.  Otherwise the positive reply   *)
(* when the output differs from the key (strcmp), else the negative one,  *)
(* and slist_free().  With an empty command list the output is NULL and   *)
(* strcmp(key, NULL) dereferences it: the process is killed (crash).      *)
QueryResult(db, map, key, r) ==
    LET Replied(t, x, sl) ==
            Bind(sed_reply(t, map, key, x), LAMBDA s :
                 [crash |-> FALSE, rc |-> s.rc, line |-> s.line, slist |-> sl])
    IN CASE r.rc # 0 /\ db.onerror_reply # NoValue -> Replied(db.onerror_reply, NoValue, r.slist)
         [] r.rc # 0    -> [crash |-> FALSE, rc |-> 1, line |-> NoValue, slist |-> r.slist]
         [] r.null      -> [crash |-> TRUE, rc |-> 1, line |-> NoValue, slist |-> r.slist]
         [] r.out # key -> Replied(db.positive_reply, r.out, slist_free(r.slist))
         [] OTHER       -> Replied(db.negative_reply, r.out, slist_free(r.slist))
sed_query(db, map, key) == QueryResult(db, map, key, transform_string(db.list, key, db.slist))
====
