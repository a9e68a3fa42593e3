---- MODULE MCEchFixture ----
EXTENDS EchFixture

MCBytes ==
    [n \in SvcbNames \cup EchNames |->
        CASE n = "green.secret.test" -> <<103, 46, 116>>
          [] n = "retry.secret.test" -> <<114, 46, 116>>
          [] n = "disabled.secret.test" -> <<100, 46, 116>>
          [] n = "alias.svcb.test" -> <<97, 46, 116>>
          [] n = "nodefaultalpn.svcb.test" -> <<110, 46, 116>>
          [] n = "mandatory.svcb.test" -> <<109, 46, 116>>
          [] n = "h3only.svcb.test" -> <<104, 46, 116>>
          [] OTHER -> <<117, 46, 116>>]

Green == QueryFor(<<103, 46, 116>>, 65)
\* Names the peers ask for: upper case, one label that holds a dot, ports that are not ports
Upper == QueryFor(<<71, 46, 84>>, 65)
Dotted == SubSeq(Green, 1, 12) \o <<3, 103, 46, 116, 0, 0, 65, 0, 1>>
NoPort == QueryFor(<<95, 120, 46>> \o https \o <<46, 103, 46, 116>>, 65)
BigPort == QueryFor(<<95, 54, 53, 53, 51, 54, 46>> \o https \o <<46, 103, 46, 116>>, 65)
Bodies ==
    {Upper, Dotted, NoPort, BigPort, QueryFor(<<103, 46, 116>>, 28), Green \o Green}
    \cup {SubSeq(Green, 1, n) : n \in {0, 11, 12, 16, 17, 18, 20}}
    \cup {[Green EXCEPT ![i] = b] : i \in {13, 15, 17}, b \in {0, 3, 7, 8, 64, 192}}

MCRequests ==
    {[method |-> "POST", decodable |-> TRUE, body |-> b] : b \in Bodies}
    \cup {[method |-> "GET", decodable |-> FALSE, body |-> << >>], [method |-> "PUT", decodable |-> TRUE, body |-> Green]}
====
