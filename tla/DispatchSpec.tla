---------------------------- MODULE DispatchSpec ----------------------------
(***************************************************************************)
(* What the dispatcher promises (spec.md, section 4.4 and section 8): the *)
(* reply to a request "MAP KEY" is determined by the ordered rule list.   *)
(* Scan from the head; the first rule whose AND-ed conditions all hold    *)
(* wins; "not" inverts; a transform rule rewrites the map or the key and  *)
(* the scan resumes after it; a query rule answers; no match, a database  *)
(* that cannot be opened or a failing query gives NOTFOUND.               *)
(*                                                                         *)
(* The whole dispatch of one request is a single step here.               *)
(***************************************************************************)
EXTENDS Naturals, Sequences, Bitwise

CONSTANTS
    Values,      \* map names and keys a request or a transform can carry
    DBs,         \* declared database instances
    Replies,     \* reply lines a backend query can produce
    NOTFOUND,    \* the fixed NOTFOUND reply
    Fail,        \* marks a failing xform or query entry
    NoChange,    \* an xform that succeeds without producing a new value
    Rules,       \* Seq of [cond: Seq(Cond), db: DBs, xform: {"none","map","key"}]
    WellFormed,  \* no dispatch statement has a syntax error
    Conns,       \* [server: listener ids, client: client addresses] of sessions
    Xform,       \* [DBs -> [Values -> Values \cup {NoChange, Fail}]]
    Answer,      \* [DBs -> [Values \X Values -> Replies \cup {Fail}]]
    OpenOK,      \* [DBs -> BOOLEAN]: whether the database's open entry succeeds
    Requests,    \* the well-formed request lines, as <<map, key>>
    MaxRequests, \* requests one process reads in total
    MaxSessions  \* sessions one process serves (1 in forking mode)

VARIABLES pc, conn, req, out, nreq, nsess


specvars == <<pc, conn, req, out, nreq, nsess>>

(* Condition meaning intended by section 4.4: for an INET "from" the     *)
(* rule's address and the client's share the bits of the intended mask.  *)
RECURSIVE SpecMatch(_, _)
SpecMatch(c, q) ==
    CASE c.type = "not"    -> ~SpecMatch(c.sub, q)
      [] c.type = "from"   ->
            /\ c.family = conn.client.family
            /\ IF c.family = "inet"
               THEN (c.addr & c.mask) = (conn.client.addr & c.mask)
               ELSE c.path # "" /\ conn.client.path # "" /\ c.path = conn.client.path
      [] c.type = "server" -> c.id = conn.server
      [] c.type = "map"    -> IF c.op = "eq" THEN c.str = q[1] ELSE q[1] \in c.pat
      [] c.type = "key"    -> IF c.op = "eq" THEN c.str = q[2] ELSE q[2] \in c.pat

SpecRuleMatches(i, q) == \A j \in 1..Len(Rules[i].cond) : SpecMatch(Rules[i].cond[j], q)

SpecFirst(i, q) ==
    LET js == {j \in i..Len(Rules) : SpecRuleMatches(j, q)}
    IN IF js = {} THEN 0 ELSE CHOOSE j \in js : \A l \in js : j <= l

SpecApply(r, q) ==
    LET at == IF r.xform = "map" THEN 1 ELSE 2
        nv == Xform[r.db][q[at]]
    IN IF nv \in {NoChange, Fail} THEN q ELSE [q EXCEPT ![at] = nv]

RECURSIVE SpecReply(_, _)
SpecReply(i, q) ==
    LET j == SpecFirst(i, q)
        r == Rules[j]
    IN CASE j = 0                 -> NOTFOUND
         [] ~OpenOK[r.db]         -> NOTFOUND
         [] r.xform # "none"      -> SpecReply(j + 1, SpecApply(r, q))
         [] Answer[r.db][q] = Fail -> NOTFOUND
         [] OTHER                 -> Answer[r.db][q]

(* Section 5 (b): a configuration with bad rule syntax is not served. *)
SpecInit ==
    /\ pc = IF WellFormed THEN "read" ELSE "exited"
    /\ conn \in Conns
    /\ req = <<>>
    /\ out = <<>>
    /\ nreq = 0
    /\ nsess = 1

\* A line is read: a request, end of input, or a line without a space.
SpecReceive ==
    /\ pc = "read"
    /\ \/ \E q \in Requests :
             /\ nreq < MaxRequests
             /\ req' = q /\ nreq' = nreq + 1 /\ pc' = "dispatch"
       \/ pc' = "done" /\ UNCHANGED <<req, nreq>>
       \/ pc' = "exited" /\ UNCHANGED <<req, nreq>>
    /\ UNCHANGED <<conn, out, nsess>>

\* The request is answered with the reply section 4.4 determines.
SpecAnswer ==
    /\ pc = "dispatch"
    /\ out' = Append(out, SpecReply(1, req))
    /\ pc' = "read"
    /\ UNCHANGED <<conn, req, nreq, nsess>>

\* The process takes the next session.
SpecNextSession ==
    /\ pc = "done"
    /\ nsess < MaxSessions
    /\ pc' = "read"
    /\ nsess' = nsess + 1
    /\ conn' \in Conns
    /\ UNCHANGED <<req, out, nreq>>

SpecNext == SpecReceive \/ SpecAnswer \/ SpecNextSession

SafeSpec == SpecInit /\ [][SpecNext]_specvars

Spec == SafeSpec /\ WF_specvars(SpecAnswer)
=============================================================================
