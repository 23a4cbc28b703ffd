------------------------------ MODULE SedSpec ------------------------------
(***************************************************************************)
(* What a list of sed "s" commands means (POSIX sed, with GNU's case      *)
(* escapes), over the regexp subset and the compiled replacements of      *)
(* SedTransform: the commands are applied in turn, each to the output of  *)
(* the one before; a command replaces the matches of its regexp found     *)
(* left to right through the whole line, "^" matching only at its start;  *)
(* the Nth flag picks the Nth match, "g" every one (from the Nth on).     *)
(***************************************************************************)
EXTENDS SedTransform

(* The matches of re in s, left to right: each search starts where the    *)
(* previous match ended; an empty match right after the previous match is *)
(* not taken, and after an empty match the search moves one character on. *)
RECURSIVE SpecMatches(_, _, _, _), SpecMatchesAt(_, _, _, _, _)
SpecMatchesAt(re, s, p, last, m) ==
    LET so == m.sub[0][1]
        eo == m.sub[0][2]
    IN CASE ~m.ok                 -> <<>>
         [] so = eo /\ so = last  -> SpecMatches(re, s, so + 1, last)
         [] so = eo               -> <<m.sub>> \o SpecMatches(re, s, eo + 1, eo)
         [] OTHER                 -> <<m.sub>> \o SpecMatches(re, s, eo, eo)
SpecMatches(re, s, p, last) ==
    IF p > Len(s) THEN <<>> ELSE SpecMatchesAt(re, s, p, last, RegExec(re, s, p))

\* The matches the flags select: the first, the Nth, or all from the Nth on.
Selected(tf, i) ==
    LET n == IF tf.num = 0 THEN 1 ELSE tf.num
    IN IF tf.type = "global" THEN i >= n ELSE i = n

\* One command on the line s, given its matches ms.
SpecReplace(tf, s, ms) ==
    LET idx == SelectSeq([i \in 1..Len(ms) |-> i], LAMBDA i : Selected(tf, i))
        Step(st, i) ==
            LET pre == [st EXCEPT !.out = @ \o Slice(s, st.pos, ms[i][0][1])]
            IN [ApplySegs(tf.segs, s, ms[i], pre) EXCEPT !.pos = ms[i][0][2]]
        Done(fin) == fin.out \o Drop(s, fin.pos)
    IN Done(FoldLeft(Step, [out |-> <<>>, cc |-> "stop", sc |-> "stop", pos |-> 0], idx))
SpecSubst(tf, s) == SpecReplace(tf, s, SpecMatches(tf.re, s, 0, -1))

\* The commands in turn, each on the output of the one before.
SedSpecString(list, s) == FoldLeft(LAMBDA t, tf : SpecSubst(tf, t), s, list)

\* The database "sed ARGS...": the options wherever they stand, and the
\* commands of the other arguments in the order given.
SpecSedInitDb(defs, argv) ==
    LET p == SpecParseopt(SedOptions, defs, argv,
                          [argv0 |-> FALSE, permute |-> TRUE, pindex |-> TRUE])
    IN IF p.rc # 0 THEN [ok |-> FALSE, list |-> <<>>]
       ELSE Bind(CompileArgs(p.rest, "REG_ICASE" \in p.vals.cflags), LAMBDA c :
                 [ok |-> c.ok, list |-> c.list,
                  positive_reply |-> p.vals.positive_reply,
                  negative_reply |-> p.vals.negative_reply])

\* A query: the key through the commands; the positive reply when that
\* changed it, else the negative one, with ${xform} the result.  No list of
\* commands, the empty one included, fails or stops the server.
SpecQueryReply(db, map, key) ==
    Bind(SedSpecString(db.list, key), LAMBDA o :
         sed_reply(IF o # key THEN db.positive_reply ELSE db.negative_reply, map, key, o))
=============================================================================
