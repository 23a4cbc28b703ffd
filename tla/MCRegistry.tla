----------------------------- MODULE MCRegistry -----------------------------
(* Two configurations.  The first declares two modules, three databases   *)
(* (d3 names a module that is never declared) and rules of every kind,    *)
(* one for a database that is never declared.  The second declares a      *)
(* module and a database twice.  A module object may export any of the    *)
(* tables below or be missing.  The first configuration ends with one of  *)
(* the privilege statement lists MCPrivLines, resolved against the small *)
(* password and group tables MCPasswd, MCGroupDb and MCMembers.           *)
EXTENDS Registry, TLC

CONSTANTS m1, m2, mx, d1, d2, d3, dz, k1, h1, hbad, u1, ulong, p1, p2

Mod(id) == [kw |-> "module", id |-> id]
Db(id, m) == [kw |-> "database", id |-> id, mod |-> m]
Dispatch(ws) == [kw |-> "dispatch", words |-> ws]

Conf1 ==
    << Mod(m1), Mod(m2), Db(d1, m1), Db(d2, m2), Db(d3, mx),
       Dispatch(<<"transform", "key", d1>>),
       Dispatch(<<"key", "like", p1, "from", h1, "database", d2>>),
       Dispatch(<<"database", d3>>), Dispatch(<<"database", dz>>),
       Dispatch(<<"default", "database", d1>>),
       Dispatch(<<"not", "key", k1, "transform", "map", d2>>) >>
Conf2 ==
    << Mod(m1), Db(d1, m1), Mod(m1), Db(d1, m2),
       Dispatch(<<"from", hbad, "database", d1>>),
       Dispatch(<<"default", "database", d1>>) >>

User(n) == [kw |-> "user", name |-> n]
Group(ns) == [kw |-> "group", names |-> ns]
Allgroups(w) == [kw |-> "allgroups", val |-> w]
SrvUser(n) == [kw |-> "srv_user", name |-> n]
SrvGroup(ns) == [kw |-> "srv_group", names |-> ns]
SrvAllgroups(w) == [kw |-> "srv_allgroups", val |-> w]
Owner(u, g) == [kw |-> "socket_owner", user |-> u, group |-> g]

\* The privilege statements that follow Conf1's declarations: a server
\* user and groups with a numeric socket owner; a master user whose gid is
\* not 0 with its groups expanded, so the server's settings are ignored;
\* a master keeping gid 0 ("wheel" first), whose children switch without
\* root, once to the same user and once to another; unknown names; an
\* owner that is neither a name nor a number; an owner group only; a
\* server "allgroups" with a boolean word and with another word.
MCPrivLines ==
    { << SrvGroup(<<"staff">>), SrvUser("bob"), Owner("7", "mail") >>,
      << User("alice"), Allgroups("yes"), SrvUser("bob") >>,
      << Group(<<"wheel">>), User("alice"), SrvGroup(<<"wheel">>), SrvUser("alice") >>,
      << Group(<<"wheel">>), User("alice"), Allgroups("maybe"), SrvUser("bob") >>,
      << User("carol"), SrvUser("carol"), SrvGroup(<<"nogroup">>), Owner("bob", "") >>,
      << Owner("nobody", NoGroup) >>,
      << SrvUser("bob"), Owner("", "staff") >>,
      << SrvUser("alice"), SrvAllgroups("no") >>,
      << SrvUser("alice"), SrvAllgroups("maybe") >> }

MCConfigs == {Conf1 \o p : p \in MCPrivLines} \cup {Conf2}

\* alice (uid 1, gid 1) is in staff; bob (uid 2, gid 0) in mail and staff.
MCPasswd == ("alice" :> [uid |-> 1, gid |-> 1]) @@ ("bob" :> [uid |-> 2, gid |-> 0])
MCGroupDb == ("staff" :> 2) @@ ("mail" :> 3) @@ ("wheel" :> 0)
MCMembers == (0 :> <<0>>) @@ (1 :> <<2>>) @@ (2 :> <<3, 2>>)
MCNumeric == "7" :> 7

\* Started by root, or by an ordinary user.
MCStartCreds ==
    { [ruid |-> 0, euid |-> 0, suid |-> 0, rgid |-> 0, egid |-> 0, sgid |-> 0, groups |-> {0}],
      [ruid |-> 1, euid |-> 1, suid |-> 1, rgid |-> 1, egid |-> 1, sgid |-> 1, groups |-> {1, 2}] }

\* Address words: a network with a prefix length, one with a dotted mask,
\* a host name that does not resolve, a UNIX socket path, and a path too
\* long for sun_path.  Pattern words: one that compiles and one that does
\* not.  Addresses are 4 bits in 2 bytes of 2, as in MCDispatch.
MCSources ==
    [x \in {h1, hbad, u1, ulong} |->
        CASE x = h1    -> [family |-> "inet", resolves |-> TRUE, addr |-> 4, mask |-> "len", n |-> 2]
          [] x = hbad  -> [family |-> "inet", resolves |-> FALSE]
          [] x = u1    -> [family |-> "unix", path |-> u1, long |-> FALSE]
          [] x = ulong -> [family |-> "unix", path |-> ulong, long |-> TRUE]]
MCPatterns == [x \in {p1, p2} |-> [set |-> {k1}, re |-> x = p1]]

\* m2 names the postgres module, and d2 is declared with a connection
\* parameter whose value holds a blank ("password=a b"): create_conninfo()
\* quotes it, in two bytes its first loop did not count.
Sql == INSTANCE SqlBackend
D2Words == <<"postgres", "dbname=smap", "password=a b">>
MCDbOverrun ==
    [d \in DbIds |-> d = d2 /\ Sql!modpg_init_db([i \in DOMAIN D2Words |-> Sql!Chars(D2Words[i])]).overrun]

MCVocabulary == DOMAIN query_kwtab \cup {"default", d1, h1, hbad, u1, p1, p2}

Table(v, c, q, x, f) ==
    [version |-> v, capa |-> c, query |-> q, xform |-> x, init_db |-> TRUE, free_db |-> f]

\* A version 1 module (no capabilities word), a version 2 module for both
\* operations, a transform-only one, one claiming QUERY without a query
\* entry, one without free_db, and one built for a newer interface.
MCTables ==
    { Table(1, {}, TRUE, FALSE, TRUE),
      Table(2, {"QUERY", "XFORM"}, TRUE, TRUE, TRUE),
      Table(2, {"XFORM"}, FALSE, TRUE, TRUE),
      Table(2, {"QUERY"}, FALSE, TRUE, TRUE),
      Table(2, {"QUERY"}, TRUE, FALSE, FALSE),
      Table(3, {"QUERY"}, TRUE, FALSE, TRUE) }
====
