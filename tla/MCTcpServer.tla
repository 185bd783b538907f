---------------------------- MODULE MCTcpServer ----------------------------
(* Instances of TcpServer for TLC. *)
EXTENDS TcpServer

(* Two services of the same name, and one in package p.                    *)
MCServices == {[name |-> <<"Order">>, methods |-> {"make"}],
               [name |-> <<"Order">>, methods |-> {"make", "query"}],
               [name |-> <<"p", "Order">>, methods |-> {"make"}]}

(* Names with no, one and two dots.                                        *)
MCNames == {<< >>, <<"Order">>, <<"Order", "make">>, <<"Order", "query">>,
            <<"Order", "make", "make">>, <<"p", "Order", "make">>}

MCRequests ==
  [name : MCNames, parses : {TRUE}, serializes : {TRUE}]
    \cup {[name |-> <<"Order", "make">>, parses |-> p, serializes |-> ~p] : p \in BOOLEAN}

(* Many clients that come and go, more than there are descriptors; few     *)
(* clients that send two requests; clients whose descriptors the table     *)
(* does not reach with one growth, and then does.                          *)
MCWorkloads ==
  {[first_fd |-> 4, clients |-> 5, requests |-> 0, leave |-> TRUE, registers |-> 0],
   [first_fd |-> 4, clients |-> 2, requests |-> 2, leave |-> TRUE, registers |-> 2],
   [first_fd |-> 6, clients |-> 3, requests |-> 0, leave |-> TRUE, registers |-> 0]}
=============================================================================
