---------------------------- MODULE MCCommandLine ----------------------------
(***************************************************************************)
(* Two upstreams and three paths; the files of a and b have the same stem, *)
(* and the stem of c is the name that the second of them gets.             *)
(***************************************************************************)
EXTENDS CommandLine

CONSTANTS u1, u2, a, b, c, f1, f2, work

MCStem == a :> <<work>> @@ b :> <<work>> @@ c :> <<work, 2>>

MCEntries == [path : {a, b}, upstream : {NoUpstream, u2},
              filters : {<<>>, <<<<f1>>>>, <<<<f1, f2>>, <<f2>>>>, <<<<>>, <<f1>>>>}]

MCFiles ==
    {[upstream |-> u1, sockets |-> <<"one">> :> e] : e \in MCEntries}
        \cup {[upstream |-> u1, sockets |-> <<"one">> :> d @@ <<"two">> :> e] :
                 d \in MCEntries, e \in MCEntries}
=============================================================================
