----------------------------- MODULE Privileges -----------------------------
(***************************************************************************)
(* The privilege helper of smapd (src/src/userprivs.c) and the            *)
(* configuration callbacks that fill its records (src/src/smapd.c).  A    *)
(* struct privinfo is a record [uid, gids, allgroups]: gids is the        *)
(* ordered group list (its doubling allocation is not modelled) whose     *)
(* head becomes the process gid.  The password and group databases are   *)
(* the constants Passwd, GroupDb and Members; words are strings and       *)
(* Numeric says which of them strtoul() reads as a whole number.          *)
(*                                                                         *)
(* A process's credentials are a record [ruid, euid, suid, rgid, egid,    *)
(* sgid, groups].  Each set*id call follows Linux: with euid 0 it may     *)
(* set anything, otherwise only to ids the process already holds.  A call *)
(* that would change the real uid may fail with EAGAIN (RLIMIT_NPROC) and *)
(* setgroups() with ENOMEM: the set F of call sites that meet such a      *)
(* failure is the environment's choice.                                   *)
(***************************************************************************)
EXTENDS Naturals, Sequences, SequencesExt

CONSTANTS
    Passwd,     \* getpwnam(): user name -> [uid, gid]
    GroupDb,    \* getgrnam(): group name -> gid
    Members,    \* getgrent() scan: uid -> the gids of the groups listing the user
    Numeric,    \* word -> its value, for the words strtoul(w, &endp, 0) reads whole
    NoId,       \* (uid_t)-1 and (gid_t)-1
    NoGroup     \* a socket-owner word without '.' or ':'

(* ecalloc(1, sizeof(struct privinfo)), and the static global_privs. *)
PrivInfo0 == [uid |-> 0, gids |-> <<>>, allgroups |-> FALSE]

privinfo_add_grpgid(pi, gid) == [pi EXCEPT !.gids = Append(@, gid)]

(* An unknown name is only logged: the record is left as it was. *)
privinfo_set_user(pi, name) ==
    IF name \in DOMAIN Passwd
    THEN privinfo_add_grpgid([pi EXCEPT !.uid = Passwd[name].uid], Passwd[name].gid)
    ELSE pi

privinfo_add_grpnam(pi, name) ==
    IF name \in DOMAIN GroupDb THEN privinfo_add_grpgid(pi, GroupDb[name]) ELSE pi

(* Every group that lists the user (getpwuid(pi->uid)) is appended, in     *)
(* the order getgrent() returns them.                                      *)
get_user_groups(pi) ==
    IF pi.uid \in DOMAIN Members THEN [pi EXCEPT !.gids = @ \o Members[pi.uid]] ELSE pi

privinfo_expand_user_groups(pi) ==
    IF pi.allgroups THEN [get_user_groups(pi) EXCEPT !.allgroups = FALSE] ELSE pi

-----------------------------------------------------------------------------
(* cfg_srv_chown(): "socket-owner USER[:GROUP]".  A name is looked up      *)
(* first and a number taken otherwise; a word that is neither is an error *)
(* returned before anything changes.  When both ids are known the gid     *)
(* joins the server's group list; smap_server_set_owner() then keeps the *)
(* old value of an id given as -1.  pi is NoId while the server has no    *)
(* privinfo: get_server_privinfo() creates it.                             *)
OwnerUid(u) ==
    IF u = "" THEN NoId
    ELSE IF u \in DOMAIN Passwd THEN Passwd[u].uid ELSE Numeric[u]
OwnerGid(u, g) ==
    IF g \in {NoGroup, ""}
    THEN IF u \in DOMAIN Passwd /\ g = NoGroup THEN Passwd[u].gid ELSE NoId
    ELSE IF g \in DOMAIN GroupDb THEN GroupDb[g] ELSE Numeric[g]
ChownOK(u, g) ==
    /\ u \in {""} \cup DOMAIN Passwd \cup DOMAIN Numeric
    /\ g \in {NoGroup, ""} \cup DOMAIN GroupDb \cup DOMAIN Numeric
SetOwner(owner, uid, gid) ==
    [uid |-> IF uid = NoId THEN owner.uid ELSE uid,
     gid |-> IF gid = NoId THEN owner.gid ELSE gid]
cfg_srv_chown(pi, owner, u, g) ==
    LET uid == OwnerUid(u)
        gid == OwnerGid(u, g)
        srvpi == IF pi = NoId THEN PrivInfo0 ELSE pi
    IN IF ~ChownOK(u, g) THEN [rc |-> 1, pi |-> pi, owner |-> owner]
       ELSE [rc |-> 0,
             pi |-> IF uid # NoId /\ gid # NoId THEN privinfo_add_grpgid(srvpi, gid) ELSE pi,
             owner |-> SetOwner(owner, uid, gid)]

(* expand_srv_groups(), run by smap_daemon() after the master's switch:   *)
(* the supplementary groups are expanded; a server with a user gets a     *)
(* socket owned by that user and its first group when no owner group was *)
(* configured, and the owner group joins its group list otherwise.        *)
expand_srv_groups(pi, owner) ==
    IF pi = NoId THEN [pi |-> pi, owner |-> owner]
    ELSE LET xp == privinfo_expand_user_groups(pi) IN
         IF xp.uid = 0 THEN [pi |-> xp, owner |-> owner]
         ELSE IF owner.gid = NoId
         THEN [pi |-> xp,
               owner |-> SetOwner(owner, IF owner.uid = NoId THEN xp.uid ELSE owner.uid, xp.gids[1])]
         ELSE [pi |-> privinfo_add_grpgid(xp, owner.gid), owner |-> owner]

-----------------------------------------------------------------------------
Creds == [ruid : Nat, euid : Nat, suid : Nat, rgid : Nat, egid : Nat, sgid : Nat,
          groups : SUBSET Nat]

(* The system calls: [ok, cr], cr the credentials after the call. *)
Failed(cr) == [ok |-> FALSE, cr |-> cr]
Done(cr) == [ok |-> TRUE, cr |-> cr]

setgroups(cr, gids, fail) ==
    IF cr.euid = 0 /\ ~fail THEN Done([cr EXCEPT !.groups = Range(gids)]) ELSE Failed(cr)

setegid(cr, g) ==
    IF cr.euid = 0 \/ g \in {cr.rgid, cr.egid, cr.sgid}
    THEN Done([cr EXCEPT !.egid = g]) ELSE Failed(cr)

setgid(cr, g) ==
    IF cr.euid = 0 THEN Done([cr EXCEPT !.rgid = g, !.egid = g, !.sgid = g])
    ELSE IF g \in {cr.rgid, cr.sgid} THEN Done([cr EXCEPT !.egid = g])
    ELSE Failed(cr)

setuid(cr, u, fail) ==
    IF cr.euid = 0
    THEN IF fail /\ u # cr.ruid THEN Failed(cr)
         ELSE Done([cr EXCEPT !.ruid = u, !.euid = u, !.suid = u])
    ELSE IF u \in {cr.ruid, cr.suid} THEN Done([cr EXCEPT !.euid = u])
    ELSE Failed(cr)

(* setreuid(r, -1): setting the real uid also sets the saved one to euid. *)
setreuid(cr, r, fail) ==
    IF (cr.euid = 0 \/ r \in {cr.ruid, cr.euid}) /\ ~(fail /\ r # cr.ruid)
    THEN Done([cr EXCEPT !.ruid = r, !.suid = cr.euid])
    ELSE Failed(cr)

-----------------------------------------------------------------------------
(* switch_to_privs(), in the order of the code: [rc, cr].  Each stage    *)
(* takes the previous stage's result.                                      *)

(* The uid check after setuid(uid): the call failed, or left the          *)
(* effective uid elsewhere, or a real uid other than uid while root is     *)
(* still held.                                                             *)
SetuidMissed(s, uid) ==
    \/ ~s.ok
    \/ s.cr.euid # uid
    \/ s.cr.ruid # uid /\ (s.cr.euid = 0 \/ s.cr.ruid = 0)

(* The setreuid(uid, -1) fallback and the second setuid(uid). *)
SecondSetuid(reok, s2) == [rc |-> IF reok /\ s2.ok THEN 0 ELSE 1, cr |-> s2.cr]
Fallback(uid, r, F) == SecondSetuid(r.ok, setuid(r.cr, uid, "setuid2" \in F))

(* Lines 147-174: setuid(uid), and the fallback when it missed with the   *)
(* effective uid still not uid; a miss with euid = uid is just an error.  *)
SetUidStage(uid, s, F) ==
    IF ~SetuidMissed(s, uid) THEN [rc |-> 0, cr |-> s.cr]
    ELSE IF s.cr.euid # uid THEN Fallback(uid, setreuid(s.cr, uid, "setreuid" \in F), F)
    ELSE [rc |-> 1, cr |-> s.cr]

(* Lines 176-183: root must not be regainable (setuid(0) failing), nor a  *)
(* non-root effective uid other than uid.                                  *)
RegainCheck(uid, euid, u, z) ==
    IF z.ok THEN [rc |-> 1, cr |-> z.cr]
    ELSE IF uid # euid /\ setuid(z.cr, euid, FALSE).ok
    THEN [rc |-> 1, cr |-> setuid(z.cr, euid, FALSE).cr]
    ELSE [rc |-> u.rc, cr |-> z.cr]
UidPart(uid, u, F) == RegainCheck(uid, u.cr.euid, u, setuid(u.cr, 0, "setuid0" \in F))

(* Lines 143-184, entered only with rc = 0. *)
SwitchUid(uid, g, F) ==
    IF g.rc # 0 THEN g
    ELSE UidPart(uid, SetUidStage(uid, setuid(g.cr, uid, "setuid" \in F), F), F)

(* Lines 132-141: setgid(gid) unless gid is 0, and the getegid() check.    *)
SetGidStage(gid, s) ==
    [rc |-> IF ~s.ok THEN -1 ELSE IF s.cr.egid # gid THEN 1 ELSE 0, cr |-> s.cr]

(* Lines 113-141: setegid(gids[0]), then setgid. *)
SwitchGid(gid, e) ==
    IF ~e.ok THEN [rc |-> -1, cr |-> e.cr]
    ELSE IF gid = 0 THEN [rc |-> 0, cr |-> e.cr]
    ELSE SetGidStage(gid, setgid(e.cr, gid))

(* Mutant of AfterGroups: a failing setgroups() not checked. *)
AfterGroups_nocheck(pi, r, F) ==
    SwitchUid(pi.uid, SwitchGid(pi.gids[1], setegid(r.cr, pi.gids[1])), F)

(* Lines 104-108: setgroups() when running as root; failing returns 1. *)
AfterGroups(pi, r, F) ==
    IF ~r.ok THEN [rc |-> 1, cr |-> r.cr]
    ELSE SwitchUid(pi.uid, SwitchGid(pi.gids[1], setegid(r.cr, pi.gids[1])), F)
SetGroupsStage(pi, cr, F) ==
    IF cr.euid = 0 THEN setgroups(cr, pi.gids, "setgroups" \in F) ELSE Done(cr)

(* A record without a user (uid 0) changes nothing. *)
switch_to_privs(pi, cr, F) ==
    IF pi.uid = 0 THEN [rc |-> 0, cr |-> cr]
    ELSE AfterGroups(pi, SetGroupsStage(pi, cr, F), F)

(* The call sites whose transient failure F may contain. *)
FailSites == {"setgroups", "setuid", "setreuid", "setuid2", "setuid0"}

====
