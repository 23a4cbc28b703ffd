------------------------------ MODULE Parseopt ------------------------------
(***************************************************************************)
(* The option parser of the modules' init and init_db entries             *)
(* (src/lib/parseopt.c).  An option table is a sequence of records        *)
(* [name, type, data, value, enum]: name is a text, data names the        *)
(* variable the option sets (a field of the record of option values),     *)
(* value is v.value and enum v.enumstr.  An int used as a bit mask is the *)
(* set of its bits.  smap_parseopt() always parses with SMAP_DELIM_EQ and *)
(* without SMAP_IGNORECASE, the only mode modelled; no table of the       *)
(* modelled modules has a func callback.                                  *)
(***************************************************************************)
EXTENDS CString

SMAP_PARSE_SUCCESS == 0
SMAP_PARSE_NOENT == 1
SMAP_PARSE_INVAL == 2

NoValue == <<NUL>>     \* a NULL value pointer: no C string has a NUL in it

\* The types that take "=VALUE", and those that must not have it.
ValueTypes == {"long", "string", "const_string", "enum"}
FlagTypes == {"bool", "bitmask", "bitmask_rev", "const"}

(* find_opt(): the first entry whose name starts str and whose "=" fits   *)
(* its type, with the value it leaves.  A string longer than "no" that    *)
(* starts with it only matches, without the "no", a bool entry, and its   *)
(* value is NULL; otherwise the value is the whole string, or the text    *)
(* after NAME= for the value types.  [i, value]; i is 0 when none fits.   *)
find_opt(opts, str0) ==
    LET isbool == Len(str0) > 2 /\ SubSeq(str0, 1, 2) = <<"n", "o">>
        str    == IF isbool THEN Drop(str0, 2) ELSE str0
        Eq(o)  == At(str, Len(o.name)) = "="
        Vp(o)  == Drop(str, Len(o.name) + 1)
        Fits(o) ==
            /\ IsPrefix(o.name, str)
            /\ isbool => o.type = "bool"
            /\ o.type \in ValueTypes => Eq(o)
            /\ o.type \in FlagTypes => ~Eq(o)
        i == SelectInSeq(opts, Fits)
        o == opts[i]
    IN [i |-> i,
        value |-> CASE i = 0                -> NoValue
                    [] o.type \in ValueTypes -> Vp(o)
                    [] o.type = "null"       -> IF Eq(o) THEN Vp(o) ELSE NoValue
                    [] OTHER                 -> IF isbool THEN NoValue ELSE str0]

(* find_value(): the index from 0 of value in the enum strings, or -1. *)
find_value(enum, value) == SelectInSeq(enum, LAMBDA e : e = value) - 1

(* smap_parseline(): [rc, vals].  A long must be a whole number           *)
(* (strtol(value, &s, 0) with *s = 0) and an enum one of its strings;    *)
(* otherwise the variable is left alone and the result is INVAL.          *)
ParseLine(opts, vals, f) ==
    LET o    == opts[f.i]
        v    == f.value
        n    == strtol0(v)
        Set(x) == [rc |-> SMAP_PARSE_SUCCESS, vals |-> [vals EXCEPT ![o.data] = x]]
        Inval == [rc |-> SMAP_PARSE_INVAL, vals |-> vals]
    IN CASE f.i = 0 -> [rc |-> SMAP_PARSE_NOENT, vals |-> vals]
         [] o.type = "long" -> IF n.k # Len(v) THEN Inval ELSE Set(n.v)
         [] o.type = "const" -> Set(o.value)
         [] o.type \in {"const_string", "string"} -> Set(v)
         [] o.type = "bool" /\ o.value # {} ->
                Set(IF v # NoValue THEN vals[o.data] \cup o.value ELSE vals[o.data] \ o.value)
         [] o.type = "bool" -> Set(v # NoValue)
         [] o.type = "bitmask" -> Set(vals[o.data] \cup o.value)
         [] o.type = "bitmask_rev" -> Set(vals[o.data] \ o.value)
         [] o.type = "enum" ->
                IF find_value(o.enum, v) = -1 THEN Inval ELSE Set(find_value(o.enum, v))
         [] OTHER -> [rc |-> SMAP_PARSE_SUCCESS, vals |-> vals]
smap_parseline(opts, vals, line) ==
    Bind(find_opt(opts, line), LAMBDA f : ParseLine(opts, vals, f))

-----------------------------------------------------------------------------
(* smap_parseopt(): the loop over argv from index 1 (0 with               *)
(* SMAP_PARSEOPT_PARSE_ARGV0).  An unknown word is an error when the      *)
(* caller asked for no index; otherwise it ends the options, unless       *)
(* SMAP_PARSEOPT_PERMUTE is given and an option follows it: then the      *)
(* first such option is swapped into its place and parsed next.  st is    *)
(* [i, rc, vals, argv, stop]; argv[i] is the C argv[i - 1].               *)
FirstOptionAfter(opts, argv, i) ==
    SelectInSubSeq(argv, i + 1, Len(argv), LAMBDA w : find_opt(opts, w).i # 0)

Swap(argv, i, j) == [argv EXCEPT ![i] = argv[j], ![j] = argv[i]]

(* Mutant of ParseStep: the swapped option skipped (no "--i"). *)
ParseStep_noback(opts, fl, st) ==
    Bind([res |-> smap_parseline(opts, st.vals, st.argv[st.i]),
          j |-> FirstOptionAfter(opts, st.argv, st.i)],
         LAMBDA b : LET Advance(rc) == [st EXCEPT !.i = @ + 1, !.rc = rc, !.vals = b.res.vals]
                    IN CASE b.res.rc = SMAP_PARSE_SUCCESS -> Advance(st.rc)
                         [] b.res.rc = SMAP_PARSE_NOENT /\ fl.pindex /\ fl.permute /\ b.j # 0 ->
                                [st EXCEPT !.argv = Swap(@, st.i, b.j), !.i = @ + 1]
                         [] b.res.rc = SMAP_PARSE_NOENT /\ fl.pindex -> [st EXCEPT !.stop = TRUE]
                         [] OTHER -> Advance(1))

ParseStep(opts, fl, st) ==
    Bind([res |-> smap_parseline(opts, st.vals, st.argv[st.i]),
          j |-> FirstOptionAfter(opts, st.argv, st.i)],
         LAMBDA b : LET Advance(rc) == [st EXCEPT !.i = @ + 1, !.rc = rc, !.vals = b.res.vals]
                    IN CASE b.res.rc = SMAP_PARSE_SUCCESS -> Advance(st.rc)
                         [] b.res.rc = SMAP_PARSE_NOENT /\ fl.pindex /\ fl.permute /\ b.j # 0 ->
                                [st EXCEPT !.argv = Swap(@, st.i, b.j)]
                         [] b.res.rc = SMAP_PARSE_NOENT /\ fl.pindex -> [st EXCEPT !.stop = TRUE]
                         [] OTHER -> Advance(1))

RECURSIVE ParseLoop(_, _, _)
ParseLoop(opts, fl, st) ==
    IF st.stop \/ st.i > Len(st.argv) THEN st
    ELSE Bind(ParseStep(opts, fl, st), LAMBDA nx : ParseLoop(opts, fl, nx))

(* [rc, vals, argv, index]: index is *pindex, the C index of the first    *)
(* argument that is not an option; argv is left permuted.                 *)
smap_parseopt(opts, vals, argv, fl) ==
    Bind(ParseLoop(opts, fl, [i |-> IF fl.argv0 THEN 1 ELSE 2, rc |-> 0,
                              vals |-> vals, argv |-> argv, stop |-> FALSE]),
         LAMBDA st : [rc |-> st.rc, vals |-> st.vals, argv |-> st.argv, index |-> st.i - 1])

-----------------------------------------------------------------------------
(* What SMAP_PARSEOPT_PERMUTE promises, in the sense of getopt's          *)
(* permutation: every option is taken wherever it stands, in the order    *)
(* given, and the other words are left at the end in their own order.     *)
RECURSIVE ApplyOptions(_, _, _)
ApplyOptions(opts, acc, words) ==
    IF words = <<>> THEN acc
    ELSE Bind(smap_parseline(opts, acc.vals, Head(words)),
              LAMBDA r : Bind([rc |-> IF r.rc # 0 THEN 1 ELSE acc.rc, vals |-> r.vals],
                              LAMBDA a : ApplyOptions(opts, a, Tail(words))))
SpecParseopt(opts, vals, argv, fl) ==
    LET IsOpt(w) == find_opt(opts, w).i # 0
    IN Bind(IF fl.argv0 THEN argv ELSE Tail(argv),
            LAMBDA args : Bind(ApplyOptions(opts, [rc |-> 0, vals |-> vals], SelectSeq(args, IsOpt)),
                               LAMBDA fin : [rc |-> fin.rc, vals |-> fin.vals,
                                             rest |-> SelectSeq(args, LAMBDA w : ~IsOpt(w))]))

====
