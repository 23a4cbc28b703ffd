------------------------------ MODULE Dispatch ------------------------------
(***************************************************************************)
(* One serving process of smapd: smap_loop() (src/src/smapd.c) reads      *)
(* request lines and hands each to dispatch_query() (src/src/query.c),    *)
(* which scans the rule list with match_cond(), opens databases lazily,   *)
(* chains transforms and calls the backend's query entry; at the end of   *)
(* the session close_databases() (src/src/module.c) closes what was       *)
(* opened.  A forked child serves one session; in single-process mode the *)
(* daemon itself serves the sessions one after another, keeping the       *)
(* database instances, and their opened flags, between them.              *)
(*                                                                         *)
(* Backends are abstracted by the tables Xform, Answer and OpenOK; the    *)
(* "dblog" history records the calls the core makes into them.  SpecXform *)
(* and SpecAnswer are what the backends promise: the abstract spec is     *)
(* given those, so a backend whose code departs from its promise shows.   *)
(***************************************************************************)
EXTENDS Naturals, SequencesExt, DispatchParser

CONSTANTS Values, DBs, Replies, NOTFOUND, Fail, Crash, NoChange, Conns,
          Xform, Answer, OpenOK, Requests, MaxRequests, MaxSessions,
          RuleLines,  \* the words of the configuration's dispatch statements
          SpecXform, SpecAnswer

VARIABLES
    conn,    \* the session's listener id and client address (smap_conninfo)
    pc,      \* "read" (in smap_loop), "dispatch" (in dispatch_query_pack),
             \*   "done" (session over), "exited" (exit(1) on a bad line)
    req,     \* the request as read: <<map, key>>
    qp,      \* query_pack map and key, as rewritten by transforms
    next,    \* the do-while's "next" rule: 0 is NULL, Len(dispatch)+1 past the end
    opened,  \* [DBs -> BOOLEAN]: dbi->opened
    dblog,   \* calls into backends: <<"open", d, ok>>, <<"query", d>>,
             \*   <<"close", d>>
    out,     \* reply lines written to the client
    nreq,    \* requests read so far
    nsess,   \* current session number
    dispatch, \* the rule list parse_config() built (DCLLIST dispatch)
    xforms,   \* what each database's xform entry makes of a value, as init_db
              \*   configured it (the table Xform)
    answers   \* what each database's query entry writes for a request, as
              \*   init_db configured it (the table Answer)

vars == <<conn, pc, req, qp, next, opened, dblog, out, nreq, nsess, dispatch, xforms, answers>>

-----------------------------------------------------------------------------
(* parse_config() runs cfg_dispatch() on each statement: the rule list   *)
(* is what the parser attached, and main() exits with EX_CONFIG before   *)
(* serving when one statement returned non-zero.                          *)
dispatch_list == ParsedRules(RuleLines)
ConfigAccepted == \A i \in DOMAIN RuleLines : cfg_dispatch_parse(RuleLines[i]).rc = 0

(* match_sockaddr(): families must agree; INET compares the rule's address *)
(* with the client's address masked by the stored netmask; UNIX compares   *)
(* non-empty paths.                                                        *)
match_sockaddr(c) ==
    /\ c.family = conn.client.family
    /\ IF c.family = "inet"
       THEN c.addr = (conn.client.addr & c.netmask)
       ELSE c.path # "" /\ conn.client.path # "" /\ c.path = conn.client.path

\* compare(): "eq" is strcmp, "like" (fnmatch) and "regexp" (regexec) are
\* abstracted by the set of values the pattern accepts.
compare(c, v) == IF c.op = "eq" THEN c.str = v ELSE v \in c.pat

RECURSIVE match_cond(_, _)
match_cond(c, q) ==
    CASE c.type = "not"    -> match_cond(c.sub, q)
      [] c.type = "from"   -> match_sockaddr(c)
      [] c.type = "server" -> c.id = conn.server
      [] c.type = "map"    -> compare(c, q[1])
      [] c.type = "key"    -> compare(c, q[2])

\* Mutant: the condition list is satisfied by any one of its conditions.
match_cond_list_any(i, q) == \E j \in 1..Len(dispatch[i].cond) : match_cond(dispatch[i].cond[j], q)

match_cond_list(i, q) == \A j \in 1..Len(dispatch[i].cond) : match_cond(dispatch[i].cond[j], q)

\* find_dispatch_rule(): the first matching rule at or after start, 0 if none.
RECURSIVE find_dispatch_rule(_, _)
find_dispatch_rule(q, start) ==
    IF start > Len(dispatch) THEN 0
    ELSE IF match_cond_list(start, q) THEN start
    ELSE find_dispatch_rule(q, start + 1)

-----------------------------------------------------------------------------
\* Mutant: the databases are closed but their opened flags are kept.
close_databases_keepflag ==
    LET os == SetToSeq({d \in DBs : opened[d]})
    IN /\ dblog' = dblog \o [i \in 1..Len(os) |-> <<"close", os[i]>>]
       /\ opened' = opened

(* close_databases(): every opened database is closed and marked closed.  *)
OpenedSeq == SetToSeq({d \in DBs : opened[d]})
close_databases ==
    /\ dblog' = dblog \o [i \in 1..Len(OpenedSeq) |-> <<"close", OpenedSeq[i]>>]
    /\ opened' = [d \in DBs |-> FALSE]

(* One pass of smap_loop(): the line read is a request, which is handed   *)
(* to dispatch_query(); end of input or a read error, after which the     *)
(* loop ends and close_databases() runs; or a line without a space, on    *)
(* which the process calls exit(1).                                        *)
smap_loop ==
    /\ pc = "read"
    /\ \/ \E q \in Requests :
             /\ nreq < MaxRequests
             /\ req' = q /\ qp' = q /\ next' = 0
             /\ nreq' = nreq + 1
             /\ pc' = "dispatch"
             /\ UNCHANGED <<opened, dblog>>
       \/ /\ close_databases
          /\ pc' = "done"
          /\ UNCHANGED <<req, qp, next, nreq>>
       \/ /\ pc' = "exited"
          /\ UNCHANGED <<req, qp, next, opened, dblog, nreq>>
    /\ UNCHANGED <<conn, out, nsess, dispatch, xforms, answers>>

Reply(r) == out' = Append(out, r) /\ pc' = "read"

\* Mutant: after a transform the scan restarts at the head of the list.
xform_step_restart(qr) ==
    LET r  == dispatch[qr]
        at == IF r.xform = "map" THEN 1 ELSE 2
        nv == xforms[r.db][qp[at]]
    IN /\ qp' = IF nv \in {NoChange, Fail} THEN qp ELSE [qp EXCEPT ![at] = nv]
       /\ next' = 0
       /\ UNCHANGED <<out, pc>>

\* Mutant: the scan resumes one rule too far (qr->next->next).
xform_step_skip(qr) ==
    LET r  == dispatch[qr]
        at == IF r.xform = "map" THEN 1 ELSE 2
        nv == xforms[r.db][qp[at]]
    IN /\ qp' = IF nv \in {NoChange, Fail} THEN qp ELSE [qp EXCEPT ![at] = nv]
       /\ next' = qr + 2
       /\ IF next' > Len(dispatch) THEN Reply(NOTFOUND) ELSE UNCHANGED <<out, pc>>

(* The transform branch: the backend's xform entry rewrites the map or    *)
(* the key (a NULL result or a failure leaves it as it is) and the scan   *)
(* continues after the rule; past the last rule the do-while ends and     *)
(* NOTFOUND is written.                                                   *)
xform_step(qr) ==
    LET r  == dispatch[qr]
        at == IF r.xform = "map" THEN 1 ELSE 2
        nv == xforms[r.db][qp[at]]
    IN /\ qp' = IF nv \in {NoChange, Fail} THEN qp ELSE [qp EXCEPT ![at] = nv]
       /\ next' = qr + 1
       /\ IF next' > Len(dispatch) THEN Reply(NOTFOUND) ELSE UNCHANGED <<out, pc>>

(* The query branch: the backend's query entry writes the answer and the  *)
(* dispatch returns; a failing query breaks out to the final NOTFOUND; a  *)
(* query entry that kills the process (Crash) leaves no reply.            *)
query_step(qr) ==
    LET d == dispatch[qr].db
    IN /\ IF answers[d][qp] = Crash
          THEN pc' = "exited" /\ UNCHANGED out
          ELSE Reply(IF answers[d][qp] = Fail THEN NOTFOUND ELSE answers[d][qp])
       /\ UNCHANGED <<qp, next>>

(* One iteration of the do-while of dispatch_query_pack(): find the rule  *)
(* from "next" (NULL meaning the head); none answers NOTFOUND.  A         *)
(* database not yet opened is opened; a failing open answers NOTFOUND and *)
(* returns without marking anything.  Then the transform or query branch. *)
dispatch_query_pack ==
    /\ pc = "dispatch"
    /\ LET qr == find_dispatch_rule(qp, IF next = 0 THEN 1 ELSE next)
           d  == dispatch[qr].db
           openlog == IF opened[d] THEN <<>> ELSE <<<<"open", d, OpenOK[d]>>>>
       IN \/ /\ qr = 0
             /\ Reply(NOTFOUND)
             /\ UNCHANGED <<qp, next, opened, dblog>>
          \/ /\ qr # 0
             /\ ~opened[d] /\ ~OpenOK[d]
             /\ dblog' = dblog \o openlog
             /\ Reply(NOTFOUND)
             /\ UNCHANGED <<qp, next, opened>>
          \/ /\ qr # 0
             /\ opened[d] \/ OpenOK[d]
             /\ opened' = [opened EXCEPT ![d] = TRUE]
             /\ dispatch[qr].xform # "none"
             /\ dblog' = dblog \o openlog
             /\ xform_step(qr)
          \/ /\ qr # 0
             /\ opened[d] \/ OpenOK[d]
             /\ opened' = [opened EXCEPT ![d] = TRUE]
             /\ dispatch[qr].xform = "none"
             /\ dblog' = dblog \o openlog \o <<<<"query", d>>>>
             /\ query_step(qr)
    /\ UNCHANGED <<conn, req, nreq, nsess, dispatch, xforms, answers>>

(* Single-process mode: smap_session_server() returns and the server      *)
(* manager runs the next connection in the same process.                  *)
NextSession ==
    /\ pc = "done"
    /\ nsess < MaxSessions
    /\ pc' = "read"
    /\ nsess' = nsess + 1
    /\ conn' \in Conns
    /\ UNCHANGED <<req, qp, next, opened, dblog, out, nreq, dispatch, xforms, answers>>

\* The process is gone, or has nothing left to serve.
Halted ==
    /\ pc = "exited" \/ (pc = "done" /\ nsess = MaxSessions)
    /\ UNCHANGED vars

Init ==
    /\ conn \in Conns
    /\ pc = IF ConfigAccepted THEN "read" ELSE "exited"
    /\ req = <<>>
    /\ qp = <<>>
    /\ next = 0
    /\ opened = [d \in DBs |-> FALSE]
    /\ dblog = <<>>
    /\ out = <<>>
    /\ nreq = 0
    /\ nsess = 1
    /\ dispatch = dispatch_list
    /\ xforms = Xform
    /\ answers = Answer

Next == smap_loop \/ dispatch_query_pack \/ NextSession \/ Halted

\* The process runs while it has a request in hand: dispatch is not starved.
Spec == Init /\ [][Next]_vars /\ WF_vars(dispatch_query_pack)
-----------------------------------------------------------------------------
TypeOK ==
    /\ conn \in Conns
    /\ pc \in {"read", "dispatch", "done", "exited"}
    /\ req \in Requests \cup {<<>>}
    /\ qp \in (Values \X Values) \cup {<<>>}
    /\ next \in 0..(Len(dispatch) + 1)
    /\ opened \in [DBs -> BOOLEAN]
    /\ out \in Seq(Replies \cup {NOTFOUND})
    /\ nreq \in 0..MaxRequests
    /\ nsess \in 1..MaxSessions

(* The dispatcher implements section 4.4: every reply the code writes is  *)
(* the reply the ordered, first-match, transform-chaining rule semantics  *)
(* gives for the request as read.                                          *)
(* The refinement mapping gives the abstract spec the rules each          *)
(* statement means by the reference grammar of DispatchParser, and says   *)
(* whether every statement is well-formed.                                *)
SpecWellFormed == \A i \in DOMAIN RuleLines : RefMeaning(RuleLines[i]) # {}
SpecRules ==
    IF SpecWellFormed
    THEN [i \in DOMAIN RuleLines |-> CHOOSE r \in RefMeaning(RuleLines[i]) : TRUE]
    ELSE <<>>
DS == INSTANCE DispatchSpec WITH Rules <- SpecRules, WellFormed <- SpecWellFormed,
                                 Xform <- SpecXform, Answer <- SpecAnswer
DispatchRefinement == DS!SafeSpec

(* Every request read is answered: the transform chain of                 *)
(* dispatch_query_pack() always moves past the rule it applied, so the    *)
(* do-while ends in a query, a NOTFOUND or the end of the rule list.      *)
RequestAnswered == pc = "dispatch" ~> pc = "read"

(* Database lifecycle across the calls the core makes into a backend:     *)
(* open is not called on a database that is open, query and close are    *)
(* are only called on a database whose open succeeded and which has not   *)
(* been closed since, and the opened flag agrees with that history, also  *)
(* across the sessions a single process serves.                           *)
IsOpenAt(d, i) ==
    \E j \in 1..(i - 1) :
        /\ dblog[j] = <<"open", d, TRUE>>
        /\ \A l \in (j + 1)..(i - 1) : dblog[l] # <<"close", d>>
DbLifecycle ==
    /\ \A i \in 1..Len(dblog) :
          IF dblog[i][1] = "open" THEN ~IsOpenAt(dblog[i][2], i)
                                  ELSE IsOpenAt(dblog[i][2], i)
    /\ \A d \in DBs : opened[d] <=> IsOpenAt(d, Len(dblog) + 1)

=============================================================================
