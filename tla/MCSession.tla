------------------------------ MODULE MCSession ------------------------------
(* An instance of Session with the serializer of the code: a server newer  *)
(* than the client, and one too old.                                       *)
EXTENDS Session, Serialization

MCServerVersions == {PINGGY_SESSION_VERSION_1_02 + 1, PINGGY_SESSION_VERSION_1_01}

MCSerialize(defs, tree) == Encode([defs |-> defs, stream |-> <<>>], tree, ROOT_PATH_ID)
MCDeserialize(stream, known) == Decode(stream, known)

\* What an end can have registered: its hello, and then any messages, of which those
\* that have been sent before add nothing.
MCDefinitions(e) ==
  LET after[n \in 0 .. Cardinality(Sendable(e))] ==
        IF n = 0 THEN {MCSerialize(<<>>, Tree(m)).defs : m \in HellosOf(e)}
        ELSE {MCSerialize(defs, Tree(m)).defs : defs \in after[n - 1], m \in Sendable(e)}
  IN  {<<>>} \cup after[Cardinality(Sendable(e))]
=============================================================================
