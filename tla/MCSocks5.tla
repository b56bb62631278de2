------------------------------ MODULE MCSocks5 ------------------------------
(* Clients for TLC: a good client with any of its fields replaced by one that *)
(* is refused, or by another address type.                                    *)
EXTENDS Socks5

Wish(vers, methods, cred, cmd, addr) ==
  [vers |-> vers, methods |-> methods, user |-> cred[1], pass |-> cred[2], cmd |-> cmd,
   atyp |-> addr[1], host |-> addr[2], port |-> <<0, 9>>]

User == <<7>>
Pass == <<7, 8>>
Good == <<User, Pass>>
Versions == {<<5, 1, 5>>, <<4, 1, 5>>, <<5, 0, 5>>, <<5, 1, 4>>}
CredSets == {Good, <<Pass, Pass>>, <<User, User>>, <<User, <<7, 8, 7, 8>> >>}
Domain == <<3, <<7, 9, 8>> >>
Addresses == {Domain, <<3, <<7, 200>> >>, <<1, <<10, 0, 0, 1>> >>, <<4, [i \in 1..16 |-> i]>>, <<9, <<1>> >>}

MCClients ==
  {[w EXCEPT !.kind = "peer"] : w \in
     {[kind |-> "peer"] @@ Wish(v, m, c, k, a) :
        v \in Versions, m \in {<<>>, <<2>>, <<0>>, <<0, 2>>}, c \in CredSets, k \in {1, 2}, a \in Addresses}}
  \cup {[kind |-> "client_connect"] @@ Wish(<<5, 1, 5>>, <<2>>, c, 1, a) :
        c \in CredSets, a \in {Domain, <<3, <<7, 9, 8, 7>> >>, <<3, <<7, 200>> >>}}
=============================================================================
