---------------------------- MODULE MCConnection ----------------------------
(* An instance of Connection for TLC: a modem that finds no cell, one of the *)
(* second of two operators, or more cells than there is room for.            *)
EXTENDS Connection

MCLists == {<<>>, <<<<"OPERATOR", 1>>, <<"OPERATOR", 2>>, <<"CELL", 2>>>>,
            <<<<"OPERATOR", 1>>, <<"CELL", 1>>, <<"CELL", 1>>>>}
=============================================================================
