------------------------------ MODULE Registry ------------------------------
(***************************************************************************)
(* The module and database registry of smapd and its startup sequence in  *)
(* main() (smapd.c): parse_config() runs the "module", "database" and     *)
(* "dispatch" callbacks line by line, then smap_modules_load(),           *)
(* init_databases() and link_dispatch_rules() cut the declarations down   *)
(* to what works; the daemon serves; free_databases() runs at exit.       *)
(*                                                                         *)
(* The registries are the doubly linked lists of DCLIDLIST (smapd.h): a   *)
(* list is a sequence of ids, _attach is Append, _detach a SelectSeq and  *)
(* _locate membership.  What a module's shared object exports (its        *)
(* struct smap_module, or nothing when lt_dlopen fails) and what its      *)
(* init and init_db callbacks return are the environment's choice.  The   *)
(* loops of the three startup passes touch one list element at a time     *)
(* with nothing in between, so each pass is one step.                     *)
(***************************************************************************)
EXTENDS Naturals, Sequences, SequencesExt, DispatchParser, Privileges

CONSTANTS
    Configs,    \* configuration files: sequences of declaration lines
    Tables,     \* struct smap_module values a module object may export
    NoLib,      \* lt_dlopenadvise() or lt_dlsym() found no module
    NULL,
    Vocabulary,     \* the words of the dispatch statements ParserAgrees tries
    StatementWords, \* and their greatest length
    StartCreds,     \* the credentials smapd may be started with
    DbOverrun       \* database id -> TRUE when its init_db, given the
                    \*   database's words, writes past a block it allocated

SMAP_MODULE_VERSION == 2

VARIABLES
    phase,      \* "config", "load", "initdb", "link", "daemon" (in smap_daemon),
                \* "serve", "done", "exit_config" (main() exits with EX_CONFIG),
                \* "exit_unavailable" (smap_daemon() exits with EX_UNAVAILABLE),
                \* "crashed" (killed by SIGSEGV while reading the configuration)
    cfg,        \* the configuration file being read
    lineno,     \* cfg_line: the next line parse_config_loop() reads
    cfg_errors, \* set by a callback's non-zero return
    modules,    \* module_head list: declared module ids, in order
    module,     \* id -> the loaded struct smap_module (inst->module)
    databases,  \* database_head list: declared database ids, in order
    modname,    \* database id -> the module id it was declared with
    dbh,        \* database id -> TRUE when init_db returned a handle
    inst,       \* database id -> the module instance init_databases() set
    freed,      \* database instances released by database_free()
    uaf,        \* a freed database instance was written to
    overrun,    \* an init_db wrote past the end of a block it allocated
    rules,      \* dispatch_head list of [cond, db, xform], with dbi once linked
    initdb,     \* databases whose init_db returned a handle
    freedb,     \* the smap_free_db calls of free_databases(), in order
    gpriv,      \* global_privs, filled by "user", "group" and "allgroups"
    spriv,      \* the server's privinfo (its server data), NoId until created
    owner,      \* the server's socket owner [uid, gid], NoId for -1
    launch,     \* the credentials smapd was started with
    creds,      \* the daemon process's credentials
    session,    \* NoId, or a connection's child: [st, from, cr], st "served"
                \*   or "refused", from and cr its credentials at fork and after
    nullw       \* a configuration callback wrote through a NULL pointer

procvars == <<gpriv, spriv, owner, launch, creds, session, nullw>>
vars == <<phase, cfg, lineno, cfg_errors, modules, module, databases, modname,
          dbh, inst, freed, uaf, overrun, rules, initdb, freedb, procvars>>

Lines  == UNION {Range(c) : c \in Configs}
ModIds == {x.id : x \in {x \in Lines : x.kw = "module"}}
          \cup {x.mod : x \in {x \in Lines : x.kw = "database"}}
DbIds  == {x.id : x \in {x \in Lines : x.kw = "database"}}

-----------------------------------------------------------------------------
(* database_detach() of every database in ds: the list without them. *)
Detach(list, ds) == SelectSeq(list, LAMBDA x : x \notin ds)

(* Mutant of cfg_module: module_locate() not consulted. *)
cfg_module_nodup(d) ==
    /\ modules' = Append(modules, d.id)
    /\ UNCHANGED cfg_errors

(* cfg_module() -> module_declare(): a second declaration of an id is an  *)
(* error; otherwise the instance is attached at the tail.                 *)
cfg_module(d) ==
    IF d.id \in Range(modules)
    THEN /\ cfg_errors' = TRUE
         /\ UNCHANGED modules
    ELSE /\ modules' = Append(modules, d.id)
         /\ UNCHANGED cfg_errors

(* cfg_database() -> database_declare(): likewise, keeping the module     *)
(* name; dbh and inst start NULL (ecalloc).                               *)
cfg_database(d) ==
    IF d.id \in Range(databases)
    THEN /\ cfg_errors' = TRUE
         /\ UNCHANGED <<databases, modname>>
    ELSE /\ databases' = Append(databases, d.id)
         /\ modname' = [modname EXCEPT ![d.id] = d.mod]
         /\ UNCHANGED cfg_errors

(* cfg_dispatch() -> parse_dispatch(): the rule, if one is attached,    *)
(* joins dispatch_head with its database name, resolved at link time; a   *)
(* non-zero return sets cfg_errors.                                       *)
cfg_dispatch(d) ==
    LET r == cfg_dispatch_parse(d.words) IN
    /\ rules' = rules \o r.attach
    /\ cfg_errors' = (cfg_errors \/ r.rc # 0)

(* The privilege statements (smapd.c): "user", "group" and "allgroups" at *)
(* top level fill global_privs; inside a server block cfg_srv_user,       *)
(* cfg_srv_group, cfg_srv_allgroups and cfg_srv_chown fill the server's   *)
(* privinfo, created on first use by get_server_privinfo().               *)
SrvPi == IF spriv = NoId THEN PrivInfo0 ELSE spriv
AddGroups(pi, names) == FoldLeft(privinfo_add_grpnam, pi, names)
PrivKw == {"user", "group", "allgroups", "srv_user", "srv_group", "srv_allgroups", "socket_owner"}

(* cfg_parse_bool(): the words it knows, 1 or 0, and -1 for an error (it *)
(* sets cfg_errors and leaves *res alone).                                *)
cfg_parse_bool(w) ==
    IF w \in {"yes", "on", "t", "true", "1"} THEN 1
    ELSE IF w \in {"no", "off", "nil", "false", "0"} THEN 0 ELSE -1

cfg_user(d) == gpriv' = privinfo_set_user(gpriv, d.name) /\ UNCHANGED <<spriv, owner, cfg_errors>>
cfg_group(d) == gpriv' = AddGroups(gpriv, d.names) /\ UNCHANGED <<spriv, owner, cfg_errors>>
\* "allgroups" is a KWT_BOOL keyword stored straight into global_privs.
cfg_allgroups(d) ==
    /\ IF cfg_parse_bool(d.val) = -1
       THEN cfg_errors' = TRUE /\ UNCHANGED gpriv
       ELSE gpriv' = [gpriv EXCEPT !.allgroups = (cfg_parse_bool(d.val) = 1)]
            /\ UNCHANGED cfg_errors
    /\ UNCHANGED <<spriv, owner>>
cfg_srv_user(d) == spriv' = privinfo_set_user(SrvPi, d.name) /\ UNCHANGED <<gpriv, owner, cfg_errors>>
cfg_srv_group(d) == spriv' = AddGroups(SrvPi, d.names) /\ UNCHANGED <<gpriv, owner, cfg_errors>>
\* The flag is set whatever the argument says.
cfg_srv_allgroups(d) ==
    spriv' = [SrvPi EXCEPT !.allgroups = TRUE] /\ UNCHANGED <<gpriv, owner>>

(* The server block's "allgroups" is KWT_BOOL with a NULL ival: a word    *)
(* cfg_parse_bool() knows is stored through NULL and the process dies     *)
(* (SIGSEGV); any other word is an error, after which parse_config_loop() *)
(* still calls cfg_srv_allgroups.                                         *)
srv_allgroups_line(d) ==
    IF cfg_parse_bool(d.val) # -1
    THEN /\ nullw' = TRUE /\ phase' = "crashed"
         /\ UNCHANGED <<gpriv, spriv, owner, cfg_errors>>
    ELSE cfg_errors' = TRUE /\ cfg_srv_allgroups(d) /\ UNCHANGED <<phase, nullw>>
ChownDone(r) ==
    /\ spriv' = r.pi /\ owner' = r.owner
    /\ cfg_errors' = (cfg_errors \/ r.rc # 0)
    /\ UNCHANGED gpriv

cfg_privilege(d) ==
    \/ /\ d.kw # "srv_allgroups"
       /\ CASE d.kw = "user"         -> cfg_user(d)
            [] d.kw = "group"        -> cfg_group(d)
            [] d.kw = "allgroups"    -> cfg_allgroups(d)
            [] d.kw = "srv_user"     -> cfg_srv_user(d)
            [] d.kw = "srv_group"    -> cfg_srv_group(d)
            [] d.kw = "socket_owner" -> ChownDone(cfg_srv_chown(spriv, owner, d.user, d.group))
       /\ UNCHANGED <<phase, nullw>>
    \/ d.kw = "srv_allgroups" /\ srv_allgroups_line(d)

(* One line of parse_config_loop(): the keyword's callback; a non-zero    *)
(* return sets cfg_errors and reading goes on.                            *)
ReadLine ==
    /\ phase = "config"
    /\ lineno <= Len(cfg)
    /\ LET d == cfg[lineno] IN
         \/ /\ d.kw \notin PrivKw
            /\ CASE d.kw = "module"   -> cfg_module(d) /\ UNCHANGED <<databases, modname, rules>>
                 [] d.kw = "database" -> cfg_database(d) /\ UNCHANGED <<modules, rules>>
                 [] d.kw = "dispatch" -> cfg_dispatch(d) /\ UNCHANGED <<modules, databases, modname>>
            /\ UNCHANGED <<gpriv, spriv, owner, phase, nullw>>
         \/ /\ d.kw \in PrivKw
            /\ cfg_privilege(d)
            /\ UNCHANGED <<modules, databases, modname, rules>>
    /\ lineno' = lineno + 1
    /\ UNCHANGED <<cfg, module, dbh, inst, freed, uaf, overrun, initdb, freedb,
                   launch, creds, session>>

(* parse_config() returns cfg_errors at end of file; main() exits with    *)
(* EX_CONFIG when it is set and goes on to smap_modules_init() else.      *)
EndConfig ==
    /\ phase = "config"
    /\ lineno > Len(cfg)
    /\ phase' = IF cfg_errors THEN "exit_config" ELSE "load"
    /\ UNCHANGED procvars
    /\ UNCHANGED <<cfg, lineno, cfg_errors, modules, module, databases, modname,
                   dbh, inst, freed, uaf, overrun, rules, initdb, freedb>>

(* Mutant of _load_module: the capability asserts of a version 2 module  *)
(* left out.                                                              *)
_load_module_nocapa(t, initok) ==
    /\ t # NoLib
    /\ t.version <= SMAP_MODULE_VERSION
    /\ t.init_db /\ t.free_db
    /\ t.version = 1 => t.query
    /\ initok

(* _load_module(): lt_dlopen and lt_dlsym("module") succeed, the version  *)
(* is not newer than SMAP_MODULE_VERSION, the entries MODULE_ASSERT       *)
(* demands are present and the module's init (if any) returns 0.          *)
_load_module(t, initok) ==
    /\ t # NoLib
    /\ t.version <= SMAP_MODULE_VERSION
    /\ t.init_db /\ t.free_db
    /\ IF t.version = 1 THEN t.query
       ELSE /\ "QUERY" \in t.capa => t.query
            /\ "XFORM" \in t.capa => t.xform
    /\ initok

(* remove_dependent_databases(): the databases declared with one of the  *)
(* module names ms.                                                       *)
remove_dependent_databases(ms) == {d \in Range(databases) : modname[d] \in ms}

(* smap_modules_load(): a module that fails to load is detached and      *)
(* freed after remove_dependent_databases() has detached and freed every  *)
(* database declared with its name.                                       *)
smap_modules_load ==
    /\ phase = "load"
    /\ \E t \in [Range(modules) -> Tables \cup {NoLib}],
          initok \in [Range(modules) -> BOOLEAN] :
         LET failed == {m \in Range(modules) : ~_load_module(t[m], initok[m])}
             dropped == remove_dependent_databases(failed)
         IN /\ modules' = Detach(modules, failed)
            /\ module' = [m \in ModIds |-> IF m \in Range(modules) \ failed
                                            THEN t[m] ELSE NULL]
            /\ databases' = Detach(databases, dropped)
            /\ freed' = freed \cup dropped
    /\ phase' = "initdb"
    /\ UNCHANGED procvars
    /\ UNCHANGED <<cfg, lineno, cfg_errors, modname, dbh, inst, uaf, overrun, rules,
                   initdb, freedb>>

(* Mutant of init_databases: only a database without a module is         *)
(* removed ("if (!inst)" for "if (!p->dbh)").                             *)
init_databases_nodetach ==
    /\ phase = "initdb"
    /\ \E ok \in [Range(databases) -> BOOLEAN] :
         LET live   == {d \in Range(databases) : modname[d] \in Range(modules)}
             got    == {d \in live : ok[d]}
             failed == Range(databases) \ live
         IN /\ dbh' = [d \in DbIds |-> d \in got]
            /\ inst' = [d \in DbIds |-> IF d \in live THEN modname[d]
                                       ELSE IF d \in Range(databases) THEN NULL
                                       ELSE inst[d]]
            /\ databases' = Detach(databases, failed)
            /\ freed' = freed \cup failed
            /\ uaf' = (uaf \/ failed # {})
            /\ overrun' = (overrun \/ \E d \in live : DbOverrun[d])
            /\ initdb' = got
    /\ phase' = "link"
    /\ UNCHANGED procvars
    /\ UNCHANGED <<cfg, lineno, cfg_errors, modules, module, modname, rules, freedb>>

(* init_databases(): each database whose module is still declared gets    *)
(* init_db's handle; one without a module or a handle is detached and     *)
(* freed, and then "p->inst = inst" (module.c:316) stores into the freed  *)
(* instance.  An init_db that runs may overrun a block it allocated       *)
(* (DbOverrun).                                                           *)
init_databases ==
    /\ phase = "initdb"
    /\ \E ok \in [Range(databases) -> BOOLEAN] :
         LET live   == {d \in Range(databases) : modname[d] \in Range(modules)}
             got    == {d \in live : ok[d]}
             failed == Range(databases) \ got
         IN /\ dbh' = [d \in DbIds |-> d \in got]
            /\ inst' = [d \in DbIds |-> IF d \in live THEN modname[d]
                                       ELSE IF d \in Range(databases) THEN NULL
                                       ELSE inst[d]]
            /\ databases' = Detach(databases, failed)
            /\ freed' = freed \cup failed
            /\ uaf' = (uaf \/ failed # {})
            /\ overrun' = (overrun \/ \E d \in live : DbOverrun[d])
            /\ initdb' = got
    /\ phase' = "link"
    /\ UNCHANGED procvars
    /\ UNCHANGED <<cfg, lineno, cfg_errors, modules, module, modname, rules, freedb>>

(* rule_fixup(): the database must exist; a version 1 module takes no    *)
(* transform rule; a later version needs SMAP_CAPA_XFORM for a transform  *)
(* rule and SMAP_CAPA_QUERY for a query rule.                             *)
rule_fixup(r) ==
    /\ r.db \in Range(databases)
    /\ LET t == module[inst[r.db]] IN
         IF t.version = 1 THEN r.xform = "none"
         ELSE IF t.version > 1
              THEN IF r.xform # "none" THEN "XFORM" \in t.capa ELSE "QUERY" \in t.capa
              ELSE TRUE

(* link_dispatch_rules(): a rule that fails rule_fixup() is detached;     *)
(* the others get p->dbi.                                                 *)
link_dispatch_rules ==
    /\ phase = "link"
    /\ LET kept == SelectSeq(rules, rule_fixup)
       IN rules' = [i \in DOMAIN kept |-> [cond |-> kept[i].cond, db |-> kept[i].db,
                                            xform |-> kept[i].xform, dbi |-> kept[i].db]]
    /\ phase' = "daemon"
    /\ UNCHANGED procvars
    /\ UNCHANGED <<cfg, lineno, cfg_errors, modules, module, databases, modname,
                   dbh, inst, freed, uaf, overrun, initdb, freedb>>

(* smap_daemon(), up to smap_srvman_open(): daemon() may fail (exit with  *)
(* EX_UNAVAILABLE); a master started with real gid 0 expands its groups   *)
(* and switches to global_privs, a failed switch ending the process with  *)
(* EX_UNAVAILABLE; then expand_srv_groups() runs on the server's data.    *)
ServersExpanded(x) == spriv' = x.pi /\ owner' = x.owner
MasterSwitched(r) ==
    /\ creds' = r.cr
    /\ IF r.rc # 0
       THEN phase' = "exit_unavailable" /\ UNCHANGED <<spriv, owner>>
       ELSE phase' = "serve" /\ ServersExpanded(expand_srv_groups(spriv, owner))
smap_daemon ==
    /\ phase = "daemon"
    /\ \/ /\ phase' = "exit_unavailable"
          /\ UNCHANGED <<gpriv, spriv, owner, creds>>
       \/ /\ creds.rgid = 0
          /\ gpriv' = privinfo_expand_user_groups(gpriv)
          /\ \E F \in SUBSET FailSites :
               MasterSwitched(switch_to_privs(privinfo_expand_user_groups(gpriv), creds, F))
       \/ /\ creds.rgid # 0
          /\ phase' = "serve"
          /\ ServersExpanded(expand_srv_groups(spriv, owner))
          /\ UNCHANGED <<gpriv, creds>>
    /\ UNCHANGED <<cfg, lineno, cfg_errors, modules, module, databases, modname,
                   dbh, inst, freed, uaf, overrun, rules, initdb, freedb, launch, session, nullw>>

(* smap_session_server() in a child forked for a connection: with server *)
(* data and a real gid of 0 it switches to the server's privileges and     *)
(* refuses the connection (EX_UNAVAILABLE) when that fails; otherwise the  *)
(* settings are ignored.  One connection is enough: each child starts     *)
(* from the daemon's unchanging credentials.                              *)
Forked(st, cr) == session' = [st |-> st, from |-> creds, cr |-> cr]
ChildSwitched(r) == Forked(IF r.rc # 0 THEN "refused" ELSE "served", r.cr)
smap_session_server ==
    /\ phase = "serve"
    /\ session = NoId
    /\ IF spriv # NoId /\ creds.rgid = 0
       THEN \E F \in SUBSET FailSites : ChildSwitched(switch_to_privs(spriv, creds, F))
       ELSE Forked("served", creds)
    /\ UNCHANGED <<phase, cfg, lineno, cfg_errors, modules, module, databases, modname,
                   dbh, inst, freed, uaf, overrun, rules, initdb, freedb,
                   gpriv, spriv, owner, launch, creds, nullw>>

(* smap_daemon() or smap_inet_server() returns and main() calls          *)
(* free_databases(): smap_free_db on every database still listed, in     *)
(* list order.  Serving itself is the Srvman and Dispatch models.         *)
free_databases ==
    /\ phase = "serve"
    /\ freedb' = freedb \o SelectSeq(databases, LAMBDA d : module[inst[d]].free_db)
    /\ phase' = "done"
    /\ UNCHANGED procvars
    /\ UNCHANGED <<cfg, lineno, cfg_errors, modules, module, databases, modname,
                   dbh, inst, freed, uaf, overrun, rules, initdb>>

(* main() has exited. *)
Exited == phase \in {"done", "exit_config", "exit_unavailable", "crashed"} /\ UNCHANGED vars

Init ==
    /\ phase = "config"
    /\ cfg \in Configs
    /\ lineno = 1
    /\ cfg_errors = FALSE
    /\ modules = <<>>
    /\ module = [m \in ModIds |-> NULL]
    /\ databases = <<>>
    /\ modname = [d \in DbIds |-> NULL]
    /\ dbh = [d \in DbIds |-> FALSE]
    /\ inst = [d \in DbIds |-> NULL]
    /\ freed = {}
    /\ uaf = FALSE
    /\ overrun = FALSE
    /\ rules = <<>>
    /\ initdb = {}
    /\ freedb = <<>>
    /\ gpriv = PrivInfo0
    /\ spriv = NoId
    /\ owner = [uid |-> NoId, gid |-> NoId]
    /\ launch \in StartCreds
    /\ creds = launch
    /\ session = NoId
    /\ nullw = FALSE

Next ==
    \/ ReadLine \/ EndConfig
    \/ smap_modules_load \/ init_databases \/ link_dispatch_rules
    \/ smap_daemon \/ smap_session_server \/ free_databases \/ Exited

Spec == Init /\ [][Next]_vars /\ WF_vars(Next)

-----------------------------------------------------------------------------
TypeOK ==
    /\ phase \in {"config", "load", "initdb", "link", "daemon", "serve", "done",
                  "exit_config", "exit_unavailable", "crashed"}
    /\ lineno \in 1..(Len(cfg) + 1)
    /\ cfg_errors \in BOOLEAN /\ uaf \in BOOLEAN /\ overrun \in BOOLEAN /\ nullw \in BOOLEAN
    /\ IsInjective(modules) /\ Range(modules) \subseteq ModIds
    /\ IsInjective(databases) /\ Range(databases) \subseteq DbIds
    /\ module \in [ModIds -> Tables \cup {NULL}]
    /\ modname \in [DbIds -> ModIds \cup {NULL}]
    /\ dbh \in [DbIds -> BOOLEAN] /\ inst \in [DbIds -> ModIds \cup {NULL}]
    /\ freed \subseteq DbIds /\ initdb \subseteq DbIds
    /\ \A i \in DOMAIN rules : rules[i].xform \in {"none", "map", "key"}
    /\ freedb \in Seq(DbIds)
    /\ gpriv.gids \in Seq(Nat) /\ spriv \in {NoId} \cup [uid : Nat, gids : Seq(Nat), allgroups : BOOLEAN]
    /\ session \in {NoId} \cup [st : {"served", "refused"}, from : Creds, cr : Creds]

(* The operations a module declares: version 1 modules answer queries     *)
(* only; later versions say so in smap_capabilities.                      *)
Capa(t) == IF t.version = 1 THEN {"QUERY"} ELSE t.capa
Op(r) == IF r.xform = "none" THEN "QUERY" ELSE "XFORM"

(* Once the daemon serves, dispatch_query_pack() can follow every rule:  *)
(* its dbi is a listed database with a handle, whose inst is a loaded     *)
(* module with the query or xform entry the rule calls.  Nothing freed    *)
(* or NULL is reached through a rule.                                     *)
RulesCallable ==
    phase \in {"serve", "done"} =>
        \A i \in DOMAIN rules :
            LET d == rules[i].dbi IN
            /\ d \in Range(databases) /\ d \notin freed /\ dbh[d]
            /\ inst[d] \in Range(modules)
            /\ IF rules[i].xform = "none" THEN module[inst[d]].query
               ELSE module[inst[d]].xform

(* Every handle init_db returned is given back to free_db exactly once at *)
(* exit, and free_db is never called for a database that has none.       *)
HandlesFreedOnce ==
    phase = "done" => IsInjective(freedb) /\ Range(freedb) = initdb

(* Startup writes only memory it owns: no database instance is written   *)
(* after database_free() released it (init_databases), and no keyword     *)
(* callback stores through a NULL pointer (parse_config_loop), and no     *)
(* init_db writes past the block it allocated (postgres's                *)
(* create_conninfo()).                                                    *)
NoInvalidWrite == ~uaf /\ ~nullw /\ ~overrun

(* The credentials a switch to pi must leave: all three uids pi's user,   *)
(* the effective gid the head of its group list, and, when the switch was *)
(* made as root, the real and saved gids too and exactly its groups.      *)
Dropped(pi, cr, asroot) ==
    /\ cr.ruid = pi.uid /\ cr.euid = pi.uid /\ cr.suid = pi.uid
    /\ cr.egid = pi.gids[1]
    /\ asroot => /\ cr.rgid = pi.gids[1] /\ cr.sgid = pi.gids[1]
                 /\ cr.groups = Range(pi.gids)

(* Section 3 of spec.md: the privilege drop is irreversible and made      *)
(* before a connection is handled, and a failure is fatal to it.  Once    *)
(* smap_daemon() serves, a master started with real gid 0 and given a    *)
(* user holds exactly that user's ids; a connection whose child started  *)
(* with real gid 0 and whose server names a user is served only with that *)
(* user's ids (smap_session_server, switch_to_privs), whatever the order  *)
(* of the statements, the groups expanded, the master's own switch and    *)
(* the set*id calls that fail with EAGAIN or ENOMEM.                      *)
PrivilegesDropped ==
    /\ phase \in {"serve", "done"} /\ launch.rgid = 0 /\ gpriv.uid # 0
       => Dropped(gpriv, creds, launch.euid = 0)
    /\ session # NoId /\ session.st = "served" /\ session.from.rgid = 0
       /\ spriv # NoId /\ spriv.uid # 0
       => Dropped(spriv, session.cr, session.from.euid = 0)

(* parse_dispatch() builds, for every well-formed dispatch statement of   *)
(* at most StatementWords words over Vocabulary, the rule the reference  *)
(* grammar gives it (conditions in order, database, transform), attaches  *)
(* it and returns 0: the recursive descent, the "transform" fall-through  *)
(* to "database" and the operand rules of map/key lose or misread no      *)
(* statement.  It is stated of the states where parse_config() has not    *)
(* yet read a line, the parser being fixed code that every line meets.    *)
ParserAgreesAll ==
    \A s \in RefStatements(Vocabulary, StatementWords) :
        cfg_dispatch_parse(s.w) = Attached(0, <<s.rule>>)
ParserAgrees == phase = "config" /\ lineno = 1 => ParserAgreesAll
====
