---------------------------- MODULE MCConnection ----------------------------
(* Requests, malformed inputs and replies for checking one session.       *)
EXTENDS Connection

(* "a a": a request whose record fits the initial buffer; "" (just the    *)
(* terminator): the empty record ":,"; "a aaa": a record one byte larger   *)
(* than the initial buffer, so the read method reports ERANGE.            *)
MCLines == { <<"a", " ", "a", "\n">>, <<"\n">>,
             <<"a", " ", "a", "a", "a", "\n">> }

(* A non-digit length ("abc:hello," of the spec), a record whose last     *)
(* byte is not ',', and Bound bytes with no colon.                        *)
MCGarbage == { <<"x", ":", "a", ",">>, <<"1", ":", "a", "a">>,
               <<"a", "a", "a", "a">> }

(* smap_stream_printf(ostr, "%s\n", reply) of a short reply or of an     *)
(* empty one; the echo module's separate writes of a word and of the      *)
(* terminator; a reply whose value holds a newline (a multi-line          *)
(* database value).                                                       *)
MCReplies == { << <<"a", "\n">> >>, << <<"\n">> >>, << <<"a">>, <<"\n">> >>,
               << <<"a", "\n", "a", "a", "a", "a", "\n">> >> }
====
