-------------------------------- MODULE CApi --------------------------------
(***************************************************************************)
(* The C API (sdk/Pinggy_c.cc) as an application sees it: references to    *)
(* configurations and tunnels, the setters and getters of a configuration, *)
(* and the calls on a tunnel up to its start.  A call looks its reference  *)
(* up in the table; if it finds no object of the class that it works on,   *)
(* it does nothing, and a C++ exception goes to the exception callback.    *)
(* What a started tunnel does is in SdkLifecycle.  References to channels  *)
(* are left out: they are made for OnNewVisitorConnectionReceived, and     *)
(* nothing sets appHandlesNewChannel, on which the SDK calls it.           *)
(*                                                                         *)
(* The application frees each reference once, and takes a tunnel whose     *)
(* reference is INVALID_PINGGY_REF for a failure, as client_main.c does.   *)
(***************************************************************************)
EXTENDS RefTable, SdkConfig

CONSTANTS ArgumentTexts,   \* texts for SetArguments
          HeaderLists,     \* what SetHeaderManipulations may get, in JSON
          BasicAuthLists,  \* what SetBasicAuths may get
          BearerLists,     \* what SetBearerTokenAuths may get
          WhiteLists,      \* what SetIpWhiteList may get
          Addresses,       \* addresses to forward to
          EntryLists,      \* lists for SetForwardings; AddForwarding gets their entries
          MaxObjects,      \* configurations and tunnels ever made
          MaxEdits         \* calls that change a configuration

\* What JSON gives, or the caller: texts, and ports that are no negative numbers.
AddressTexts == [schema : STRING, host : STRING, bare : BOOLEAN, port : Nat, found : Nat]
Entries == [type : STRING, domain : STRING, to : AddressTexts]
HeaderTexts == [action : STRING, header : Seq(STRING), values : Seq(Seq(STRING))]
AuthTexts == [username : Seq(STRING), password : Seq(STRING)]

CommandTexts == [open : BOOLEAN, commands : Seq(Seq(STRING))]

ASSUME CApiAssumption ==
  /\ ArgumentTexts \subseteq CommandTexts
  /\ WhiteLists \subseteq Seq(Seq(STRING)) /\ BearerLists \subseteq Seq(Seq(STRING))
  /\ HeaderLists \subseteq Seq(HeaderTexts) /\ BasicAuthLists \subseteq Seq(AuthTexts)
  /\ Addresses \subseteq AddressTexts /\ EntryLists \subseteq Seq(Entries)

VARIABLES
  refs,     \* refTable
  objects,  \* every object ever made, in order
  held,     \* [ref, obj]: the references that the application has
  edits,    \* calls that have changed a configuration
  raised,   \* the last call has raised an exception
  crashed   \* a null pointer has been used
vars == <<refs, objects, held, edits, raised, crashed>>

INVALID_PINGGY_REF == 0
-----------------------------------------------------------------------------
SDKConfig(c) == [kind |-> "SDKConfig", config |-> c]
\* A tunnel has the configuration it was initiated with, shared until Start copies it,
\* and the permit of its semaphore (module SdkLock).
Sdk(conf, ref) ==
  [kind |-> "Sdk", conf |-> conf, own |-> NewSDKConfig, user |-> <<>>, state |-> "Initial",
   permit |-> TRUE, ref |-> ref]

Init ==
  /\ refs = NewRefTable
  /\ objects = <<>>
  /\ held = {}
  /\ edits = 0
  /\ raised = FALSE
  /\ crashed = FALSE

\* getSDKConfig and getSdk: the object of that class, if there is one.
Is(ref, kind) == GetObj(refs, ref) # NoObj /\ objects[GetObj(refs, ref)].kind = kind
Obj(ref) == objects[GetObj(refs, ref)]

\* Making an object; the reference comes back in any case.
MayMake == ~crashed /\ Len(objects) < MaxObjects
Make(object) ==
  /\ objects' = Append(objects, object)
  /\ refs' = GetRef(refs, Len(objects) + 1)
  /\ raised' = FALSE
  /\ UNCHANGED <<edits, crashed>>
Keep == held' = held \cup {[ref |-> NextRef(refs), obj |-> Len(objects) + 1]}

\* pinggy_create_config.
CreateConfig == MayMake /\ Make(SDKConfig(NewSDKConfig)) /\ Keep

\* pinggy_tunnel_initiate of a reference that is no configuration.
InitiateFails(ref) ==
  /\ ~crashed /\ ~Is(ref, "SDKConfig")
  /\ raised' = FALSE
  /\ UNCHANGED <<refs, objects, held, edits, crashed>>

\* pinggy_tunnel_initiate.  The handler of its events knows the reference.
Initiate(ref) ==
  /\ MayMake /\ Is(ref, "SDKConfig")
  /\ Make(Sdk(GetObj(refs, ref), NextRef(refs)))
  /\ IF NextRef(refs) = INVALID_PINGGY_REF THEN UNCHANGED held ELSE Keep

\* pinggy_free_ref.
FreeRef(h) ==
  /\ ~crashed
  /\ refs' = RemoveRef(refs, h.ref)
  /\ held' = held \ {h}
  /\ raised' = FALSE
  /\ UNCHANGED <<objects, edits, crashed>>
-----------------------------------------------------------------------------
(* Setters.  On another object than a configuration they do nothing.       *)

Edit(ref, config, throws) ==
  /\ ~crashed /\ edits < MaxEdits /\ Is(ref, "SDKConfig")
  /\ objects' = [objects EXCEPT ![GetObj(refs, ref)] = SDKConfig(config)]
  /\ edits' = edits + 1
  /\ raised' = throws
  /\ UNCHANGED <<refs, held, crashed>>
Config(ref) == Obj(ref).config

SetServerAddress(ref) == Edit(ref, [Config(ref) EXCEPT !.server = "t.pinggy.io:443"], FALSE)

\* An address that is no URL, or a text that is no JSON: the parser throws before
\* anything is stored.
SetMalformed(ref) == Edit(ref, Config(ref), TRUE)

SetToken(ref) ==
  \E token \in {<<"http", "id">>, <<"id">>} : Edit(ref, [Config(ref) EXCEPT !.token = token], FALSE)
SetForce(ref) == Edit(ref, [Config(ref) EXCEPT !.force = TRUE], FALSE)
SetReconnectInterval(ref) ==
  \E n \in {0, 7} :
    Edit(ref, [Config(ref) EXCEPT !.autoReconnectInterval = ClampInterval(n)], FALSE)

EditArguments(ref, r) == Edit(ref, [Config(ref) EXCEPT !.arguments = r.arguments], r.raised)
SetArgument(ref) ==
  \E text \in ArgumentTexts : EditArguments(ref, SetArguments(Config(ref).arguments, text))

SetHeaderManipulations(ref) ==
  \E list \in HeaderLists : Edit(ref, [Config(ref) EXCEPT !.arguments.headers = list], FALSE)
SetBasicAuths(ref) ==
  \E list \in BasicAuthLists : Edit(ref, [Config(ref) EXCEPT !.arguments.basic = list], FALSE)
SetBearerTokenAuths(ref) ==
  \E list \in BearerLists : Edit(ref, [Config(ref) EXCEPT !.arguments.bearer = list], FALSE)
SetIpWhiteList(ref) ==
  \E list \in WhiteLists : Edit(ref, [Config(ref) EXCEPT !.arguments.white = list], FALSE)
SetOption(ref) ==
  \E option \in {"https", "noreverseproxy"} :
    Edit(ref, [Config(ref) EXCEPT !.arguments.options = @ \cup {option}], FALSE)
SetLocalServerTls(ref) ==
  Edit(ref, [Config(ref) EXCEPT !.arguments.localServerTls = <<"x">>], FALSE)

EditForwardings(ref, r) == Edit(ref, [Config(ref) EXCEPT !.forwardings = r.list], r.raised)
AddForwardingCall(ref) ==
  \E entries \in EntryLists : \E i \in DOMAIN entries :
    LET f == ParseForwarding(entries[i].type, entries[i].domain, entries[i].to)
    IN  EditForwardings(ref, AddForwarding(Config(ref).forwardings, f))
AddForwardingSimple(ref) ==
  \E to \in Addresses : EditForwardings(ref, AddForwarding(Config(ref).forwardings, ParseSimple(to)))
SetForwardingsCall(ref) ==
  \/ \E entries \in EntryLists : EditForwardings(ref, SetForwardings(entries))
  \/ \E to \in Addresses : EditForwardings(ref, SetForwardingText(to))
ResetForwardings(ref) == EditForwardings(ref, [list |-> <<>>, raised |-> FALSE])
-----------------------------------------------------------------------------
(* A tunnel.                                                               *)

Tunnel(ref, sdk, throws) ==
  /\ objects' = [objects EXCEPT ![GetObj(refs, ref)] = sdk]
  /\ raised' = throws
  /\ UNCHANGED <<refs, held, edits>>

\* Sdk::Start copies the configuration, and the copy of a missing server address is a
\* call through a null pointer; validate comes after it.
Start(ref) ==
  /\ ~crashed /\ Is(ref, "Sdk") /\ Obj(ref).state = "Initial"
  /\ LET config == objects[Obj(ref).conf].config
     IN  IF config.server = ""
         THEN Tunnel(ref, Obj(ref), FALSE) /\ crashed' = TRUE
         ELSE /\ Tunnel(ref, [Obj(ref) EXCEPT !.own = Validate(config), !.user = GetUser(config),
                                             !.state = "Started"], FALSE)
              /\ UNCHANGED crashed

\* ResumeTunnel: an exception before Start, the clean-up after Stop; a tunnel may
\* also come to its end.
Resume(ref) ==
  /\ ~crashed /\ Is(ref, "Sdk") /\ Obj(ref).state # "Ended"
  /\ \/ Obj(ref).state = "Initial" /\ Tunnel(ref, Obj(ref), TRUE)
     \/ Obj(ref).state = "Stopped" /\ Tunnel(ref, [Obj(ref) EXCEPT !.state = "Ended"], FALSE)
     \/ /\ Obj(ref).state = "Started"
        /\ \E s \in {"Started", "Ended"} : Tunnel(ref, [Obj(ref) EXCEPT !.state = s], FALSE)
  /\ UNCHANGED crashed

\* Stop, which refuses a tunnel that has stopped.  Before Start no thread is the one
\* that runs the tunnel, so Stop waits for the permit and raises with it in its hands
\* ("The tunnel is not ready now"); another such call never returns.
Stop(ref) ==
  /\ ~crashed /\ Is(ref, "Sdk")
  /\ \/ Obj(ref).state = "Started" /\ Tunnel(ref, [Obj(ref) EXCEPT !.state = "Stopped"], FALSE)
     \/ /\ Obj(ref).state = "Initial" /\ Obj(ref).permit
        /\ Tunnel(ref, [Obj(ref) EXCEPT !.permit = FALSE], TRUE)
  /\ UNCHANGED crashed

ConfigCall(ref) ==
  \/ SetServerAddress(ref) \/ SetMalformed(ref) \/ SetToken(ref) \/ SetForce(ref) \/ SetReconnectInterval(ref)
  \/ SetArgument(ref) \/ SetHeaderManipulations(ref) \/ SetBasicAuths(ref)
  \/ SetBearerTokenAuths(ref) \/ SetIpWhiteList(ref) \/ SetOption(ref) \/ SetLocalServerTls(ref)
  \/ AddForwardingCall(ref) \/ AddForwardingSimple(ref) \/ SetForwardingsCall(ref)
  \/ ResetForwardings(ref)
TunnelCall(ref) == Start(ref) \/ Resume(ref) \/ Stop(ref)

Next ==
  \/ CreateConfig
  \/ \E h \in held :
       \/ InitiateFails(h.ref) \/ Initiate(h.ref) \/ FreeRef(h)
       \/ ConfigCall(h.ref) \/ TunnelCall(h.ref)

Spec == Init /\ [][Next]_vars
-----------------------------------------------------------------------------
(* Properties.                                                             *)

\* A reference finds the object that it was made for until it is freed, however the
\* table grows and uses its slots again; no two references share a slot, and the
\* handler of a tunnel passes on the tunnel's own.  A slot in use that the
\* application knows nothing of is that of INVALID_PINGGY_REF.
RefsResolve ==
  /\ \A h \in held :
       /\ GetObj(refs, h.ref) = h.obj
       /\ objects[h.obj].kind = "Sdk" => objects[h.obj].ref = h.ref
  /\ \A ref \in DOMAIN refs.table :
       refs.table[ref] # NoObj =>
         ref = INVALID_PINGGY_REF \/ \E h \in held : h.ref = ref /\ h.obj = refs.table[ref]

\* What the commands can say: header manipulations that add one value, and names,
\* values, tokens and lists without empty parts and without the separator.
Without(sep, text) == text # <<>> /\ \A i \in DOMAIN text : text[i] # sep
Sayable(a) ==
  /\ \A i \in DOMAIN a.headers :
       /\ a.headers[i].action = "Add" /\ Len(a.headers[i].values) = 1
       /\ Without(":", a.headers[i].header) /\ a.headers[i].values[1] # <<>>
  /\ \A i \in DOMAIN a.basic : Without(":", a.basic[i].username) /\ a.basic[i].password # <<>>
  /\ \A i \in DOMAIN a.bearer : a.bearer[i] # <<>>
  /\ \A i \in DOMAIN a.white : Without(",", a.white[i])

\* A configuration survives that what its getters return is set again, which is also
\* how the server learns it (GetArguments, SetArguments, GetForwardings,
\* SetForwarding): the arguments as far as the commands can say them, and the
\* forwardings unless one has an IPv6 address.
ArgumentsSurvive(a) ==
  Sayable(a) => SetArguments(a, GetArguments(a)) = [arguments |-> a, raised |-> FALSE]
ForwardingsSurvive(list) ==
  (\A k \in DOMAIN list : list[k].host # "v6") =>
    SetForwardings(GetForwardings(list)) = [list |-> list, raised |-> FALSE]
ConfigSurvives ==
  \A i \in DOMAIN objects :
    objects[i].kind = "SDKConfig" =>
      /\ ArgumentsSurvive(objects[i].config.arguments)
      /\ ForwardingsSurvive(objects[i].config.forwardings)

\* A call that raises an exception is contained: it changes one object at most, and
\* that one not half way to what was asked for.  A configuration is as it was, or has
\* lost its forwardings, or all its arguments, also those of other setters, which
\* SetArguments resets before it splits a text that may throw (SdkConfig.cc:329-330).
\* A tunnel is as it was, or its permit stays taken (Sdk.cc:255-262).
Remnants(o) ==
  IF o.kind = "SDKConfig"
  THEN {SDKConfig([o.config EXCEPT !.forwardings = <<>>]),
        SDKConfig([o.config EXCEPT !.arguments = NoArguments])}
  ELSE {[o EXCEPT !.permit = FALSE]}
FailureContained ==
  raised' =>
    \/ objects' = objects
    \/ \E n \in DOMAIN objects : \E o \in Remnants(objects[n]) :
         objects' = [objects EXCEPT ![n] = o]
FailuresAreContained == [][FailureContained]_vars

\* pinggy.h:446: "By default, the server address is set to "a.pinggy.io:443"": a tunnel
\* can be started without one, and then has the default.
StartSuppliesServer ==
  /\ ~crashed
  /\ \A i \in DOMAIN objects :
       objects[i].kind = "Sdk" /\ objects[i].state = "Started" => objects[i].own.server # ""
=============================================================================
