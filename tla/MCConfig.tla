------------------------------ MODULE MCConfig ------------------------------
(***************************************************************************)
(* Configuration files of up to four lines, read by parse_config() with a *)
(* table like smapd's (a string, an unsigned, a handler and "server") and *)
(* a server block table (a handler and "end").  The file is chosen at the *)
(* start and the state does not change.                                    *)
(***************************************************************************)
EXTENDS CfgSpec

VARIABLE file

Handler == [type |-> "FUN", fun |-> "fun", rc |-> 0, block |-> <<>>]
ServerKw == (Chars("b") :> Handler) @@ server_kwtab
TopKw == (Chars("s") :> [type |-> "STRING", fun |-> NoFun, rc |-> 0, block |-> <<>>]) @@
         (Chars("n") :> [type |-> "UINT", fun |-> NoFun, rc |-> 0, block |-> <<>>]) @@
         (Chars("m") :> Handler) @@
         (Chars("server") :> [type |-> "FUN", fun |-> "server", rc |-> 0, block |-> ServerKw]) @@
         smap_kwtab_srvman

\* The lines files are made of; "m x\" is continued by the line after it.
MCLines == {"A=x", "A=y", "B=z", "m $A", "s $B", "n 1z", "", "# c",
            "server i inet://h:25 begin", "server j inet://h:70000", "b $A", "end", "m x\\"}
\* The srvman keywords, which mean the same at the top and in a block,
\* with a server block around them.
SrvmanLines == {"server i inet://h:25 begin", "end", "reuseaddr yes", "backlog 010",
                "single-process on", "max-children 0x2", "socket-mode rw-r-----",
                "socket-mode 0640"}
Files(L) == {FlattenSeq([i \in 1..Len(ls) |-> Chars(ls[i]) \o <<"\n">>]) :
               ls \in {ls \in BoundedSeq(L, 4) : ls = <<>> \/ Last(ls) # "m x\\"}}
MCFiles == Files(MCLines) \cup Files(SrvmanLines)

MCHosts == Chars("h") :> 1
MCServices == Chars("smtp") :> 25

Init == file \in MCFiles
Next == UNCHANGED file

(* parse_config() acts on a file as its syntax says: it finds an error    *)
(* exactly when the file has one, and in a file without errors every     *)
(* handler is called with the words of its statement, variables expanded *)
(* to the value last assigned, at the line the statement starts on, the  *)
(* same values are stored, and the servers get the addresses their URLs  *)
(* name and the backlog, address reuse, process model, limit and socket  *)
(* mode their blocks and the srvman keywords give them (read_line(),     *)
(* asgn(), parse_config_loop(), cfg_server(), smap_url_parse(), the       *)
(* server_kwtab handlers and server_prep()'s SRVMAN_ macros).             *)
ConfigRead ==
    Bind(parse_config(file, TopKw), LAMBDA c : Bind(SpecConfig(file, TopKw), LAMBDA r :
       /\ c.errors = r.errors
       /\ ~r.errors =>
            /\ c.calls = r.calls /\ c.vals = r.vals
            /\ c.param.max_children = r.param.max_children
            /\ [i \in DOMAIN c.servers |-> ServerSettings(c, c.servers[i])]
                 = [i \in DOMAIN r.servers |-> SpecServerSettings(r, r.servers[i])]))

====
