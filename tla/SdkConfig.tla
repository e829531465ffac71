------------------------------ MODULE SdkConfig ------------------------------
(***************************************************************************)
(* The configuration of a tunnel (sdk/SdkConfig.cc): its settings, the     *)
(* arguments for the server as structured settings and as one text, and    *)
(* the forwardings with the texts they are parsed from.                    *)
(*                                                                         *)
(* A text that is taken apart is a sequence of symbols, of which ":" and   *)
(* "," separate.  The text of all arguments is the sequence of its         *)
(* commands, and whether it ends in an open quote or a backslash (open):   *)
(* quoting commands and splitting them again (ShlexJoinStrings,            *)
(* ShlexSplitString) gives back those that are not empty.  Settings that   *)
(* are only stored and handed on are left out.                             *)
(***************************************************************************)
EXTENDS Naturals, SequencesExt

\* SplitString with limit 1: an empty part at the end is dropped.
SplitOnce(text, sep) ==
  IF text = <<>> THEN <<>>
  ELSE IF \A i \in DOMAIN text : text[i] # sep THEN <<text>>
  ELSE LET i == CHOOSE i \in DOMAIN text : text[i] = sep /\ \A j \in 1 .. i - 1 : text[j] # sep
       IN  IF i = Len(text) THEN <<SubSeq(text, 1, i - 1)>>
           ELSE <<SubSeq(text, 1, i - 1), SubSeq(text, i + 1, Len(text))>>

\* SplitString without a limit.
SplitAll(text, sep) ==
  LET parts == FoldLeft(LAMBDA acc, x : IF x = sep THEN Append(acc, <<>>)
                                        ELSE Front(acc) \o <<Append(Last(acc), x)>>,
                        <<(<<>>)>>, text)
  IN  IF Last(parts) = <<>> THEN Front(parts) ELSE parts

JoinString(parts, sep) ==
  FoldLeft(LAMBDA acc, p : IF acc = <<>> THEN p ELSE acc \o <<sep>> \o p, <<>>, parts)
-----------------------------------------------------------------------------
(* The arguments.                                                          *)

Options == {"xff", "https", "fullurl", "passpreflight", "noreverseproxy"}

\* resetArguments: also what the constructor gives them.
NoArguments ==
  [headers |-> <<>>, basic |-> <<>>, bearer |-> <<>>, white |-> <<>>, options |-> {},
   localServerTls |-> <<>>]

HeaderMod(action, header, values) == [action |-> action, header |-> header, values |-> values]

\* One command of SetArguments: its letter and what follows the first colon.
\* Whatever the letter, a header manipulation adds.
ApplyCommand(a, letter, text) ==
  LET bodies == SplitOnce(text, ":")
  IN  CASE letter \in {"a", "u", "r"} /\ Len(bodies) = 2 ->
             [a EXCEPT !.headers = Append(@, HeaderMod("Add", bodies[1], <<bodies[2]>>))]
        [] letter = "b" /\ Len(bodies) = 2 ->
             [a EXCEPT !.basic = Append(@, [username |-> bodies[1], password |-> bodies[2]])]
        [] letter = "k" -> [a EXCEPT !.bearer = Append(@, text)]
        [] letter = "w" -> [a EXCEPT !.white = @ \o SplitAll(text, ",")]
        [] letter = "x" /\ Len(bodies[1]) = 1 /\ bodies[1][1] \in Options ->
             [a EXCEPT !.options = @ \cup {bodies[1][1]}]
        [] letter = "x" /\ bodies[1] = <<"localServerTls">> ->
             [a EXCEPT !.localServerTls = IF Len(bodies) = 2 THEN bodies[2] ELSE <<"localhost">>]
        [] OTHER -> a

\* A command without a colon, or with nothing on one side of it, is ignored.
Command(a, cmd) ==
  LET vals == SplitOnce(cmd, ":")
  IN  IF Len(vals) < 2 \/ vals[1] = <<>> THEN a ELSE ApplyCommand(a, cmd[1], vals[2])

\* Mutant: the arguments that were set before stay.
AddArguments(a, text) ==
  [arguments |-> IF text.open THEN a ELSE FoldLeft(Command, a, text.commands),
   raised |-> text.open]

\* What was set before is gone when the text is split, which throws if it is open.
SetArguments(a, text) ==
  [arguments |-> IF text.open THEN NoArguments ELSE FoldLeft(Command, NoArguments, text.commands),
   raised |-> text.open]

Pair(x, y) == x \o <<":">> \o y
HeaderCommands(h) ==
  CASE h.action = "Add" -> [i \in DOMAIN h.values |-> <<"a", ":">> \o Pair(h.header, h.values[i])]
    [] h.action = "Update" ->
         [i \in DOMAIN h.values |-> <<"u", ":">> \o Pair(h.header, h.values[i])]
    [] h.action = "Remove" -> <<(<<"r", ":">> \o h.header)>>
    [] OTHER -> <<>>

WhiteList(a) == IF a.white = <<>> THEN <<>> ELSE <<(<<"w", ":">> \o JoinString(a.white, ","))>>

Commands(a) ==
  WhiteList(a)
  \o [i \in DOMAIN a.basic |-> <<"b", ":">> \o Pair(a.basic[i].username, a.basic[i].password)]
  \o [i \in DOMAIN a.bearer |-> <<"k", ":">> \o a.bearer[i]]
  \o FlattenSeq([i \in DOMAIN a.headers |-> HeaderCommands(a.headers[i])])
  \o [i \in 1 .. Cardinality(a.options) |-> <<"x", ":", SetToSeq(a.options)[i]>>]
  \o IF a.localServerTls = <<>> THEN <<>>
     ELSE <<(<<"x", ":", "localServerTls", ":">> \o a.localServerTls)>>

GetArguments(a) == [open |-> FALSE, commands |-> Commands(a)]
-----------------------------------------------------------------------------
(* The forwardings.  The text of an address to forward to has a schema,    *)
(* maybe a host, and a port that may be no number (0).  A host "v6" stands *)
(* between brackets unless bare.  Two texts are cut in the wrong place,    *)
(* and found is the port that is read there, if any: between brackets      *)
(* after a schema the port is searched for at a position of another text,  *)
(* and bare the host ends at its first colon, which leaves another host.   *)

Types == {"http", "tcp", "tls", "tlstcp", "udp"}
NoHost == "no host"
Address(schema, host, port) ==
  [schema |-> schema, host |-> host, bare |-> FALSE, port |-> port, found |-> port]
Throws == [mode |-> "throws"]

\* parseForwardTo: the port, or 0 if it throws, and the host.
Misread(to) == to.host = "v6" /\ (to.bare \/ to.schema # "")
PortOf(to) == IF Misread(to) THEN to.found ELSE to.port
HostOf(to) ==
  IF to.host = NoHost THEN "localhost"
  ELSE IF to.host = "v6" /\ to.bare THEN "text" ELSE to.host

Forwarding(mode, domain, to) ==
  [mode |-> mode, domain |-> domain, host |-> HostOf(to), port |-> PortOf(to),
   localServerTls |-> to.schema = "https"]

\* parseForwarding with a type and a domain, which must not be an IP address.
ParseForwarding(type, domain, to) ==
  IF domain = "ip" \/ type \notin Types \cup {""} \/ PortOf(to) = 0 THEN Throws
  ELSE Forwarding(IF type = "" THEN "http" ELSE type, domain, to)

\* parseForwarding of an address alone: its schema is the type.
ParseSimple(to) ==
  IF PortOf(to) = 0 \/ to.schema \notin Types \cup {"", "https"} THEN Throws
  ELSE Forwarding(IF to.schema \in {"", "https"} THEN "http" ELSE to.schema, "", to)

\* GetForwardings: a host goes out without its brackets.  What would be found in it is
\* open; its port stands for it.
GetForwardings(list) ==
  [i \in DOMAIN list |->
     [type |-> list[i].mode, domain |-> list[i].domain,
      to |-> [Address(IF list[i].localServerTls THEN "https" ELSE "", list[i].host, list[i].port)
                EXCEPT !.bare = list[i].host = "v6"]]]

\* The entries of a list.  TunnelTypeFromTunnelMode gives "unknown" for what is no type,
\* also for none.
Parsed(entries) ==
  [i \in DOMAIN entries |->
     IF entries[i].type \notin Types THEN Throws
     ELSE ParseForwarding(entries[i].type, entries[i].domain, entries[i].to)]
Good(parsed) == \A i \in DOMAIN parsed : parsed[i] # Throws

\* Mutant: what has been added before the entry that throws stays.
KeepGoodOnes(entries) ==
  IF Good(Parsed(entries)) THEN [list |-> Parsed(entries), raised |-> FALSE]
  ELSE [list |-> SelectSeq(Parsed(entries), LAMBDA f : f # Throws), raised |-> TRUE]

\* The text of a list taken for an address: it begins with a bracket, which the first
\* address in brackets closes, unless a schema in it comes to be the type.
Bracketed(entries) == {i \in DOMAIN entries : entries[i].to.host = "v6" /\ ~entries[i].to.bare}
ListAsAddress(entries) ==
  IF Bracketed(entries) = {} \/ \E i \in DOMAIN entries : entries[i].to.schema # "" THEN Throws
  ELSE LET i == CHOOSE i \in Bracketed(entries) : \A j \in Bracketed(entries) : i <= j
       IN  ParseSimple(Address("", "text", entries[i].to.port))

\* SetForwarding of a list: when an entry throws, the list is reset and its text is
\* taken for an address.
SetForwardings(entries) ==
  IF Good(Parsed(entries)) THEN [list |-> Parsed(entries), raised |-> FALSE]
  ELSE IF ListAsAddress(entries) = Throws THEN [list |-> <<>>, raised |-> TRUE]
  ELSE [list |-> <<ListAsAddress(entries)>>, raised |-> FALSE]

\* SetForwarding of another text.
SetForwardingText(to) ==
  IF ParseSimple(to) = Throws THEN [list |-> <<>>, raised |-> TRUE]
  ELSE [list |-> <<ParseSimple(to)>>, raised |-> FALSE]

\* AddForwarding.
AddForwarding(list, forwarding) ==
  IF forwarding = Throws THEN [list |-> list, raised |-> TRUE]
  ELSE [list |-> Append(list, forwarding), raised |-> FALSE]
-----------------------------------------------------------------------------
\* The constructor; validate gives a server where there is none.
DefaultServer == "a.pinggy.io:443"
NewSDKConfig ==
  [server |-> "", token |-> <<>>, force |-> FALSE, autoReconnectInterval |-> 5,
   arguments |-> NoArguments, forwardings |-> <<>>]

ClampInterval(n) == IF n > 1 THEN n ELSE 1
Validate(c) == IF c.server = "" THEN [c EXCEPT !.server = DefaultServer] ELSE c

\* getUser: the parts of the token that are not types, and force.
GetUser(c) ==
  SelectSeq(c.token, LAMBDA part : part \notin Types)
  \o IF c.force THEN <<"force">> ELSE <<>>
=============================================================================
