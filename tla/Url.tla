--------------------------------- MODULE Url ---------------------------------
(***************************************************************************)
(* smap_url_parse() (src/lib/url.c): a server URL "/path",                *)
(* "unix://path", "local://path" or "inet://host:port" made into a        *)
(* socket address [family, path] or [family, addr, port], or an error.    *)
(* The resolver is a table: Hosts maps the host names that resolve to     *)
(* their IPv4 address, Services the service names to their port.          *)
(* Allocation failures (SMAP_URLE_NOMEM) are not modelled.                *)
(***************************************************************************)
EXTENDS CString

CONSTANTS Hosts, Services

NULL == <<NUL>>      \* a NULL pointer: no C string has a NUL in it
SMAP_URLE_INVALID == 2
SMAP_URLE_PORT == 3
SMAP_URLE_NAME2LONG == 4
SMAP_URLE_NOABS == 5
SMAP_URLE_NOPORT == 6
SMAP_URLE_BADPORT == 7
SMAP_URLE_UNKPORT == 8
SMAP_URLE_UNKHOST == 9
SMAP_URLE_BADPROTO == 11

SunPathSize == 108      \* sizeof addr.s_un.sun_path

\* strchr(): the index from 1 of the first c, 0 when there is none.
StrChr(s, c) == LET I == {i \in DOMAIN s : s[i] = c}
                IN IF I = {} THEN 0 ELSE Min(I)

(* split_url(): what follows "//" is path[:port]. *)
split_url(cstr) ==
    Bind(StrChr(cstr, ":"), LAMBDA p :
       IF p = 0 THEN [rc |-> 0, port |-> NULL, path |-> cstr]
       ELSE [rc |-> 0, path |-> SubSeq(cstr, 1, p - 1), port |-> Drop(cstr, p)])

(* split_connection(): an absolute path is a UNIX socket; otherwise       *)
(* proto "://" and the rest for split_url().                              *)
split_connection(cstr) ==
    Bind(StrChr(cstr, ":"), LAMBDA p :
       CASE p = 0 /\ At(cstr, 0) = "/" ->
              [rc |-> 0, proto |-> Chars("unix"), port |-> NULL, path |-> cstr]
         [] p = 0 -> [rc |-> SMAP_URLE_NOABS]
         [] At(cstr, p) = "/" /\ At(cstr, p + 1) = "/" ->
              Bind(split_url(Drop(cstr, p + 2)), LAMBDA u :
                   [rc |-> u.rc, proto |-> SubSeq(cstr, 1, p - 1), port |-> u.port, path |-> u.path])
         [] OTHER -> [rc |-> SMAP_URLE_INVALID])

(* The port of an inet URL: a number strtol(port, &p, 0) takes whole      *)
(* (an empty one is 0), stored in a short; or a service name.  num is     *)
(* assigned from pnum, so the range test never fails and the port is the  *)
(* number modulo 2^16.                                                    *)
InetPort(port) ==
    Bind(strtol0(port), LAMBDA n :
       CASE n.k = Len(port) -> [rc |-> 0, port |-> n.v % 65536]
         [] port \in DOMAIN Services -> [rc |-> 0, port |-> Services[port]]
         [] OTHER -> [rc |-> SMAP_URLE_UNKPORT])

(* parse_url0(). *)
parse_url0(proto, port, path) ==
    CASE proto \in {NULL, Chars("unix"), Chars("local")} ->
           (CASE port # NULL -> [rc |-> SMAP_URLE_PORT]
              [] Len(path) > SunPathSize -> [rc |-> SMAP_URLE_NAME2LONG]
              [] OTHER -> [rc |-> 0, sa |-> [family |-> "UNIX", path |-> path]])
      [] proto = Chars("inet") /\ port = NULL -> [rc |-> SMAP_URLE_NOPORT]
      [] proto = Chars("inet") ->
           Bind(InetPort(port), LAMBDA pn :
                CASE pn.rc # 0 -> pn
                  [] path = NULL -> [rc |-> 0, sa |-> [family |-> "INET", addr |-> 0, port |-> pn.port]]
                  [] path \notin DOMAIN Hosts -> [rc |-> SMAP_URLE_UNKHOST]
                  [] OTHER -> [rc |-> 0, sa |-> [family |-> "INET", addr |-> Hosts[path], port |-> pn.port]])
      [] OTHER -> [rc |-> SMAP_URLE_BADPROTO]

(* smap_url_parse(): [rc, sa]. *)
smap_url_parse(cstr) ==
    Bind(split_connection(cstr), LAMBDA c :
         IF c.rc # 0 THEN c ELSE parse_url0(c.proto, c.port, c.path))

====
