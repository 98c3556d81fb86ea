---------------------------- MODULE MCHelloNames ----------------------------
(***************************************************************************)
(* Clusters a, a-b and a-server-b with role groups b, b-global and global. *)
(* The names of the first two share words; the first and the third are     *)
(* rivals.                                                                 *)
(***************************************************************************)
EXTENDS HelloNames, TLC

Words  == {"a", "b", "global", "server"}
Groups == {<<"b">>, <<"b", "global">>, <<"global">>}

Three  == {<<"a">>, <<"a", "b">>, <<"a", "server", "b">>}
Specs  == {[groups |-> <<"b">> :> None @@ <<"b", "global">> :> 2, stopped |-> FALSE],
           [groups |-> <<"global">> :> 2, stopped |-> TRUE]}

Two        == {<<"a">>, <<"a", "server", "b">>}
SimpleSpec == {[groups |-> <<"b">> :> 1, stopped |-> FALSE]}
=============================================================================
