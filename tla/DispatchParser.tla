--------------------------- MODULE DispatchParser ---------------------------
(***************************************************************************)
(* The parser of "dispatch" statements (src/src/query.c): parse_dispatch() *)
(* turns the words of one statement into a struct dispatch_rule and       *)
(* attaches it, or returns 1.  It is a recursive-descent parser over the  *)
(* static "input" word pointer; here the word list is a sequence and each *)
(* parsing operator takes the index of the next word and returns the      *)
(* index after what it consumed.                                          *)
(*                                                                         *)
(* Words are the keywords of query_kwtab (strings) and other words (model *)
(* values: database names, server ids, map and key values, patterns and   *)
(* addresses).  What inet_aton/gethostbyname make of an address word and  *)
(* what fnmatch/regcomp make of a pattern word are the tables Sources and *)
(* Patterns.                                                              *)
(***************************************************************************)
EXTENDS Naturals, SequencesExt, Bitwise

CONSTANTS
    AddrBytes,  \* bytes of an INET address (4 on the real host)
    ByteBits,   \* bits of a byte (8 on the real host)
    Sources,    \* address word -> [family, path, long, resolves, addr, mask, n]
    Patterns    \* pattern word -> [set (the values it matches), re (regcomp ok)]

-----------------------------------------------------------------------------
(* parse_dispatch_from() for an INET address "A/N" or "A/M.M.M.M".  The   *)
(* address is kept in host order (ntohl after inet_aton).  A prefix length *)
(* N becomes a mask by two shifts of 0xffffffff; a dotted mask is stored   *)
(* as inet_aton returned it, in network order, which on a little-endian    *)
(* host is the byte-reversed value.  The record also keeps the mask the    *)
(* administrator meant, for the reference semantics.                       *)
AddrBits == AddrBytes * ByteBits
AllOnes == 2^AddrBits - 1
ByteOf(x, i) == shiftR(x, i * ByteBits) % 2^ByteBits
ByteSwap(x) ==
    SumFunction([i \in 0..(AddrBytes - 1) |->
                    ByteOf(x, i) * 2^((AddrBytes - 1 - i) * ByteBits)])
NetlenMask(len) ==
    IF len = 0 THEN 0
    ELSE (shiftR(AllOnes, AddrBits - len) * 2^(AddrBits - len)) % 2^AddrBits
parse_from_netlen(a, len) ==
    [type |-> "from", family |-> "inet", addr |-> a,
     netmask |-> NetlenMask(len), mask |-> NetlenMask(len)]
parse_from_dotted(a, m) ==
    [type |-> "from", family |-> "inet", addr |-> a,
     netmask |-> ByteSwap(m), mask |-> m]

(* query_kwtab and smap_kwtab_nametotok(): a word is a keyword when it is *)
(* a field of this record.                                                *)
query_kwtab ==
    [from |-> "T_FROM", server |-> "T_SERVER", map |-> "T_MAP",
     like |-> "T_LIKE", fnmatch |-> "T_LIKE", regexp |-> "T_REGEXP",
     eq |-> "T_EQ", is |-> "T_EQ", database |-> "T_DB", not |-> "T_NOT",
     transform |-> "T_TRANSFORM", key |-> "T_KEY"]
Tok(s) == IF s \in DOMAIN query_kwtab THEN query_kwtab[s] ELSE "none"

(* What the resolver and regcomp() make of a word outside the tables: a   *)
(* keyword or unknown name does not resolve and is not a regexp (it does  *)
(* not start with a punctuation character).                               *)
SourceOf(s) ==
    IF s \in DOMAIN Sources THEN Sources[s]
    ELSE [family |-> "inet", resolves |-> FALSE]
PatternOf(s) ==
    IF s \in DOMAIN Patterns THEN Patterns[s] ELSE [set |-> {}, re |-> FALSE]

(* A parse result: rc, the condition built and the next word's index. *)
Ok(c, i) == [rc |-> 0, cond |-> c, pos |-> i]
Err(i) == [rc |-> 1, cond |-> <<>>, pos |-> i]

(* parse_regexp(): the leading punctuation character, its closing twin,  *)
(* the i/b/x flags and regcomp() must all succeed.                        *)
parse_regexp(s) == PatternOf(s).re

parse_dispatch_server(w, i) ==
    IF i > Len(w) THEN Err(i)
    ELSE Ok([type |-> "server", id |-> w[i]], i + 1)

(* parse_dispatch_from(): a UNIX socket path (too long for sun_path is an *)
(* error), or a host that inet_aton or gethostbyname resolves, optionally *)
(* followed by "/N", "/M.M.M.M" (inet_aton must accept it) or garbage.    *)
parse_dispatch_from(w, i) ==
    IF i > Len(w) THEN Err(i)
    ELSE LET src == SourceOf(w[i]) IN
      IF src.family = "unix"
      THEN IF src.long THEN Err(i + 1)
           ELSE Ok([type |-> "from", family |-> "unix", path |-> src.path], i + 1)
      ELSE IF ~src.resolves THEN Err(i + 1)
      ELSE CASE src.mask = "none"   ->
                  Ok([type |-> "from", family |-> "inet", addr |-> src.addr,
                      netmask |-> AllOnes, mask |-> AllOnes], i + 1)
             [] src.mask = "len"    -> Ok(parse_from_netlen(src.addr, src.n), i + 1)
             [] src.mask = "dotted" -> Ok(parse_from_dotted(src.addr, src.n), i + 1)
             [] OTHER               -> Err(i + 1)

(* Mutant of parse_dispatch_comp: after like, eq or regexp the input is  *)
(* not advanced past the operand.                                          *)
parse_dispatch_comp_noskip(w, i, t) ==
    IF i > Len(w) THEN Err(i)
    ELSE LET op == Tok(w[i]) IN
      IF op \in {"T_LIKE", "T_EQ", "T_REGEXP"}
      THEN IF i + 1 > Len(w) THEN Err(i + 1)
           ELSE Ok([type |-> t, op |-> "eq", str |-> w[i + 1]], i + 1)
      ELSE Ok([type |-> t, op |-> "eq", str |-> w[i]], i + 1)

(* parse_dispatch_comp(): an optional like/fnmatch, eq/is or regexp word, *)
(* then the operand; any other keyword is itself the operand of "eq".     *)
parse_dispatch_comp(w, i, t) ==
    IF i > Len(w) THEN Err(i)
    ELSE LET op == Tok(w[i]) IN
      IF op \in {"T_LIKE", "T_EQ", "T_REGEXP"}
      THEN IF i + 1 > Len(w) THEN Err(i + 1)
           ELSE LET s == w[i + 1] IN
             CASE op = "T_LIKE" ->
                    Ok([type |-> t, op |-> "like", pat |-> PatternOf(s).set], i + 2)
               [] op = "T_EQ" -> Ok([type |-> t, op |-> "eq", str |-> s], i + 2)
               [] OTHER -> IF parse_regexp(s)
                           THEN Ok([type |-> t, op |-> "regexp", pat |-> PatternOf(s).set], i + 2)
                           ELSE Err(i + 2)
      ELSE Ok([type |-> t, op |-> "eq", str |-> w[i]], i + 1)

(* The condition keywords, and the switch that parse_subcond() and       *)
(* parse_complex_dispatch() share; parse_dispatch_not() is "not" followed *)
(* by a sub-condition.  tok is the keyword at index i - 1.                *)
CondToks == {"T_NOT", "T_FROM", "T_SERVER", "T_MAP", "T_KEY"}

RECURSIVE parse_cond(_, _, _), parse_subcond(_, _), parse_dispatch_not(_, _)
parse_cond(tok, w, i) ==
    CASE tok = "T_NOT"    -> parse_dispatch_not(w, i)
      [] tok = "T_FROM"   -> parse_dispatch_from(w, i)
      [] tok = "T_SERVER" -> parse_dispatch_server(w, i)
      [] tok = "T_MAP"    -> parse_dispatch_comp(w, i, "map")
      [] tok = "T_KEY"    -> parse_dispatch_comp(w, i, "key")

parse_subcond(w, i) ==
    IF i > Len(w) \/ Tok(w[i]) \notin CondToks THEN Err(i + 1)
    ELSE parse_cond(Tok(w[i]), w, i + 1)

parse_dispatch_not(w, i) ==
    LET r == parse_subcond(w, i) IN
    IF r.rc # 0 THEN r
    ELSE [r EXCEPT !.cond = [type |-> "not", sub |-> r.cond]]

-----------------------------------------------------------------------------
(* "database NAME", alone or after "transform map|key": a second database *)
(* is an error, the name is kept.  st is the loop state of                *)
(* parse_complex_dispatch(): [i, rc, conds, db (<<>> while NULL), xform]. *)
DbArg(w, i, st) ==
    IF i > Len(w) THEN [st EXCEPT !.rc = 1, !.i = i]
    ELSE IF st.db # <<>> THEN [st EXCEPT !.rc = 1, !.i = i + 1]
    ELSE [st EXCEPT !.db = <<w[i]>>, !.i = i + 1]

(* The loop of parse_complex_dispatch(): while words are left and rc is  *)
(* 0.  An unknown word is an error; a condition joins the list; after    *)
(* "transform" the next word must be a keyword, and the code falls       *)
(* through to T_DB before it checks it is map or key.  like, eq and      *)
(* regexp have no case and are passed over.                               *)
RECURSIVE ComplexLoop(_, _)
ComplexLoop(w, st) ==
    IF st.i > Len(w) \/ st.rc # 0 THEN st
    ELSE LET tok == Tok(w[st.i])
             i   == st.i + 1
         IN CASE tok = "none" -> [st EXCEPT !.rc = 1]
              [] tok \in CondToks ->
                   LET r == parse_cond(tok, w, i) IN
                   IF r.rc # 0 THEN [st EXCEPT !.rc = 1, !.i = r.pos]
                   ELSE ComplexLoop(w, [st EXCEPT !.i = r.pos,
                                                  !.conds = Append(@, r.cond)])
              [] tok = "T_TRANSFORM" ->
                   IF i > Len(w) \/ Tok(w[i]) = "none" THEN [st EXCEPT !.rc = 1]
                   ELSE LET r   == DbArg(w, i + 1, st)
                            sub == Tok(w[i])
                        IN ComplexLoop(w,
                             CASE sub = "T_MAP" -> [r EXCEPT !.xform = "map"]
                               [] sub = "T_KEY" -> [r EXCEPT !.xform = "key"]
                               [] OTHER         -> [r EXCEPT !.rc = 1])
              [] tok = "T_DB" -> ComplexLoop(w, DbArg(w, i, st))
              [] OTHER -> ComplexLoop(w, [st EXCEPT !.i = i])

(* A parse_dispatch() result: rc, and the rule dispatch_attach() appended *)
(* (<<>> when none).                                                      *)
Attached(rc, r) == [rc |-> rc, attach |-> r]

(* parse_complex_dispatch(): without a database name it fails with       *)
(* nothing attached; with one it attaches the rule built so far and      *)
(* returns 0, whatever rc the loop ended with.                            *)
parse_complex_dispatch(w) ==
    LET st == ComplexLoop(w, [i |-> 1, rc |-> 0, conds |-> <<>>, db |-> <<>>,
                              xform |-> "none"])
    IN IF st.db = <<>> THEN Attached(1, <<>>)
       ELSE Attached(0, <<[cond |-> st.conds, db |-> st.db[1], xform |-> st.xform]>>)

(* parse_default_dispatch(): exactly "database NAME" after "default". *)
parse_default_dispatch(w) ==
    IF Len(w) = 2 /\ Tok(w[1]) = "T_DB"
    THEN Attached(0, <<[cond |-> <<>>, db |-> w[2], xform |-> "none"]>>)
    ELSE Attached(1, <<>>)

parse_dispatch(w) ==
    IF w[1] = "default" THEN parse_default_dispatch(Tail(w))
    ELSE parse_complex_dispatch(w)

(* cfg_dispatch(): cfg_chkargc(wordc, 3, 0) wants two words after the    *)
(* keyword, then parse_dispatch(wordv + 1).                                *)
cfg_dispatch_parse(w) ==
    IF Len(w) < 2 THEN Attached(1, <<>>) ELSE parse_dispatch(w)

(* The rule list a configuration's dispatch statements leave. *)
ParsedRules(lines) ==
    FoldLeft(LAMBDA acc, l : acc \o cfg_dispatch_parse(l).attach, <<>>, lines)

-----------------------------------------------------------------------------
(* The reference grammar of a dispatch statement, as a generator of the  *)
(* statements of at most n words over the words A, each with the rule it *)
(* means: conditions, one "database NAME" or "transform map|key NAME",    *)
(* in any order; or "default database NAME".  An operand of map/key is    *)
(* any word but an operator word; a regexp must compile; an address must  *)
(* resolve, with no mask, a prefix length or a dotted mask.               *)
OpWords == {"like", "fnmatch", "eq", "is", "regexp"}
OpName == [like |-> "like", fnmatch |-> "like", eq |-> "eq", is |-> "eq",
           regexp |-> "regexp"]
SourceCond(x) ==
    LET src == SourceOf(x) IN
    CASE src.family = "unix" -> [type |-> "from", family |-> "unix", path |-> src.path]
      [] src.mask = "len"    -> parse_from_netlen(src.addr, src.n)
      [] src.mask = "dotted" -> parse_from_dotted(src.addr, src.n)
      [] OTHER -> [type |-> "from", family |-> "inet", addr |-> src.addr,
                   netmask |-> AllOnes, mask |-> AllOnes]
WellFormedSource(x) ==
    LET src == SourceOf(x) IN
    IF src.family = "unix" THEN ~src.long
    ELSE src.resolves /\ src.mask \in {"none", "len", "dotted"}
Operand(t, op, x) ==
    IF op = "eq" THEN [type |-> t, op |-> "eq", str |-> x]
    ELSE [type |-> t, op |-> op, pat |-> PatternOf(x).set]

RECURSIVE RefConds(_, _)
RefConds(A, n) ==
    IF n < 2 THEN {}
    ELSE {[w |-> <<"server", x>>, c |-> [type |-> "server", id |-> x]] : x \in A}
      \cup {[w |-> <<"from", x>>, c |-> SourceCond(x)] : x \in {y \in A : WellFormedSource(y)}}
      \cup {[w |-> <<t, x>>, c |-> Operand(t, "eq", x)] : t \in {"map", "key"}, x \in A \ OpWords}
      \cup {[w |-> <<t, o, x>>, c |-> Operand(t, OpName[o], x)] :
              <<t, o, x>> \in {v \in {"map", "key"} \X (IF n >= 3 THEN A \cap OpWords ELSE {}) \X A :
                                 v[2] = "regexp" => PatternOf(v[3]).re}}
      \cup {[w |-> <<"not">> \o d.w, c |-> [type |-> "not", sub |-> d.c]] : d \in RefConds(A, n - 1)}

RefItems(A, n) ==
    {[w |-> d.w, conds |-> <<d.c>>, db |-> <<>>, xform |-> "none"] : d \in RefConds(A, n)}
    \cup {[w |-> <<"database", x>>, conds |-> <<>>, db |-> <<x>>, xform |-> "none"] :
            x \in (IF n >= 2 THEN A ELSE {})}
    \cup {[w |-> <<"transform", t, x>>, conds |-> <<>>, db |-> <<x>>, xform |-> t] :
            t \in (IF n >= 3 THEN {"map", "key"} ELSE {}), x \in A}

(* Items it followed by the items of s: the database and transform of    *)
(* whichever names one.                                                   *)
Join(it, s) ==
    [w |-> it.w \o s.w, conds |-> it.conds \o s.conds, db |-> it.db \o s.db,
     xform |-> IF it.db # <<>> THEN it.xform ELSE s.xform]
NoItems == [w |-> <<>>, conds |-> <<>>, db |-> <<>>, xform |-> "none"]

RECURSIVE RefSeqs(_, _)
RefSeqs(A, n) ==
    {NoItems} \cup UNION {{Join(it, s) : s \in RefSeqs(A, n - Len(it.w))} : it \in RefItems(A, n)}

(* The well-formed statements of at most n words over A, with their rules. *)
RefStatements(A, n) ==
    {[w |-> s.w, rule |-> [cond |-> s.conds, db |-> s.db[1], xform |-> s.xform]] :
        s \in {s \in RefSeqs(A, n) : Len(s.db) = 1}}
    \cup {[w |-> <<"default", "database", x>>,
           rule |-> [cond |-> <<>>, db |-> x, xform |-> "none"]] : x \in (IF n >= 3 THEN A ELSE {})}

(* The same grammar as a recogniser: the readings of the statement l as  *)
(* a sequence of items, and the rules it means (none when it is not       *)
(* well-formed).                                                          *)
RECURSIVE RefReadings(_)
RefReadings(l) ==
    IF l = <<>> THEN {NoItems}
    ELSE UNION {{Join(it, s) : s \in RefReadings(SubSeq(l, Len(it.w) + 1, Len(l)))} :
                  it \in {x \in RefItems(Range(l), Len(l)) : IsPrefix(x.w, l)}}
RefMeaning(l) ==
    {[cond |-> s.conds, db |-> s.db[1], xform |-> s.xform] :
        s \in {s \in RefReadings(l) : Len(s.db) = 1}}
    \cup (IF Len(l) = 3 /\ l[1] = "default" /\ l[2] = "database"
          THEN {[cond |-> <<>>, db |-> l[3], xform |-> "none"]} ELSE {})
====
