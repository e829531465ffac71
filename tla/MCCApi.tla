-------------------------------- MODULE MCCApi --------------------------------
(* Module CApi with the instance that TLC checks. *)
EXTENDS CApi

Text(a, b) == <<a, ":">> \o b
Closed(commands) == [open |-> FALSE, commands |-> commands]
MCArgumentTexts ==
  { Closed(<<>>), [open |-> TRUE, commands |-> <<Text("w", <<"ip1">>)>>],
    Closed(<<Text("a", <<"h", ":", "v", ":", "v">>), Text("u", <<"h", ":">>),
             Text("r", <<"h", ":", "v">>)>>),
    Closed(<<Text("b", <<"name", ":", "word">>), Text("b", <<"name">>), Text("k", <<"key">>),
             <<"key">>>>),
    Closed(<<Text("w", <<"ip1", ",", "ip2">>), Text("w", <<",">>), Text("x", <<"https">>)>>),
    Closed(<<Text("x", <<"localServerTls">>), Text("x", <<"other">>), Text("x", <<"xff", ":">>),
             <<":", "x">>>>) }
MCHeaderLists ==
  { <<>>, <<HeaderMod("Add", <<"h">>, <<(<<"v">>)>>)>>,
    <<HeaderMod("Update", <<"h">>, <<(<<"v">>)>>), HeaderMod("Remove", <<"h">>, <<>>)>> }
MCBasicAuthLists == {<<[username |-> <<"name">>, password |-> <<"wo", ":", "rd">>]>>}
MCBearerLists == { <<(<<"x", ":">>)>>, <<(<<"key">>), <<>>>> }
MCWhiteLists == { <<>>, <<(<<"ip1">>), <<"v6", ":", "ip2">>>> }

MCAddresses ==
  { Address("", NoHost, 80), Address("", "", 80), Address("https", "host", 80),
    Address("tcp", "host", 0), [Address("tcp", "v6", 81) EXCEPT !.found = 0],
    [Address("https", "v6", 81) EXCEPT !.found = 1],
    [Address("", "v6", 81) EXCEPT !.bare = TRUE, !.found = 1],
    [Address("", "v6", 81) EXCEPT !.bare = TRUE, !.found = 0],
    Address("", "v6", 81), Address("ftp", "host", 80) }

Entry(type, domain, to) == [type |-> type, domain |-> domain, to |-> to]
MCEntryLists ==
  { <<Entry("tcp", "name", Address("", "host", 80)), Entry("http", "", Address("https", NoHost, 81))>>,
    <<Entry("tcp", "name", Address("", "host", 80)), Entry("", "ip", Address("", "host", 81))>>,
    <<Entry("tcp", "name", Address("", "host", 80)), Entry("", "", Address("", "host", 81))>>,
    <<Entry("no type", "", Address("", "v6", 80)), Entry("http", "", Address("", "host", 81))>> }
=============================================================================
