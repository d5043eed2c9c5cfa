-------------------------- MODULE ConfigurationProofs --------------------------
(* Proofs about Configuration, for every first file, all defaults, any number  *)
(* of readers and whatever the editor sets, writes or leaves half-written.     *)
EXTENDS Configuration, TLAPS, WellFoundedInduction, NaturalsInduction

\* What an object that may be read from holds is valid, and so is what was taken
\* from it.
ReaderOK(u) ==
  /\ op[u] \in {"load", "failed"}
  /\ kind = "gw6c" /\ bValid[u] => pc[u] = "idle" /\ ValidateConfigData(nv[u])
  /\ kind = "hap6" /\ pc[u] = "idle" /\ op[u] = "load" => InvalidMappings(nv[u]) = {}
  /\ \A c \in conf[u] : IF kind = "gw6c" THEN Usable(c) ELSE InvalidMappings(c) = {}

\* Each user has an object.
ObjectsOK ==
  /\ kind \in {"gw6c", "hap6"}
  /\ DOMAIN pc = User /\ DOMAIN op = User /\ DOMAIN nv = User /\ DOMAIN conf = User
  /\ bValid \in [User -> BOOLEAN]

Inv == ObjectsOK /\ \A u \in Readers : ReaderOK(u)

-------------------------------------------------------------------------------
(* Settings                                                                     *)

LEMMA StrtolIsNatural == \A v : Strtol(v) \in Nat
  BY DEF Strtol

LEMMA InvalidGivesNone ==
  ASSUME NEW f, NEW options, NEW families, NEW valid \in BOOLEAN,
         tspInitialize(f, valid, options, families) # {}
  PROVE  valid
  BY DEF tspInitialize, tspReadConfigFile

\* The checks across settings are those a client needs, and the command line
\* replaces a name by another.
LEMMA ValidIsUsable ==
  ASSUME NEW f, ValidateConfigData(f), NEW valid,
         NEW options \in CommandLines, NEW families,
         NEW c \in tspInitialize(f, valid, options, families)
  PROVE  Usable(c)
<1> DEFINE mode == Get(f, "tunnel_mode")
<1>1. ValidateConfigData(f)
      /\ Get(f, "server") # ""
      /\ \E t \in FirstTransport(Get(f, "tunnel_mode"), families) : c = Completed(Conf(f), options, t)
  <2>1. /\ Get(f, "server") # ""
        /\ \E t \in FirstTransport(Conf(f).tunnel.tunnel_mode, families) : c = Completed(Conf(f), options, t)
    BY DEF tspInitialize, tspReadConfigFile
  <2>2. Conf(f).tunnel.tunnel_mode = Get(f, "tunnel_mode")
    BY DEF Conf, TunnelConf
  <2>3. QED
    BY <2>1, <2>2
<1>2. PICK t \in FirstTransport(Get(f, "tunnel_mode"), families) : c = Completed(Conf(f), options, t)
  BY <1>1, Zenon
<1>3. /\ c.account = AccountConf(f) /\ c.connection = ConnectionConf(f)
      /\ c.tunnel = ParseArguments(options, TunnelConf(f)) /\ c.transport = t
  BY <1>2 DEF Completed, Conf, TunnelConf
<1>4. /\ c.tunnel.tunnel_mode = mode
      /\ c.tunnel.proxy_client = (Get(f, "proxy_client") = "yes")
      /\ c.tunnel.if_tunnel_v6v4 = Given(options, "i", Get(f, "if_tunnel_v6v4"))
      /\ c.tunnel.if_tunnel_v6udpv4 = Given(options, "u", Get(f, "if_tunnel_v6udpv4"))
      /\ c.tunnel.if_tunnel_v4v6 = Get(f, "if_tunnel_v4v6")
  BY <1>3 DEF ParseArguments, TunnelConf, Flag
<1>5. \A letter, value : value # "" => Given(options, letter, value) # ""
  BY ConfigurationAssumption DEF Given
<1>6. /\ c.account.server # ""
      /\ c.account.auth_method # "anonymous" => c.account.passwd # ""
      /\ c.account.host_type = "router" => c.account.if_prefix # ""
  <2>1. /\ c.account.server = Get(f, "server") /\ c.account.auth_method = Get(f, "auth_method")
        /\ c.account.passwd = Get(f, "passwd") /\ c.account.host_type = Get(f, "host_type")
        /\ c.account.if_prefix = Get(f, "if_prefix")
    BY <1>3 DEF AccountConf
  <2>2. /\ Get(f, "auth_method") # "anonymous" => Get(f, "passwd") # ""
        /\ Get(f, "host_type") = "router" => Get(f, "if_prefix") # ""
    BY <1>1 DEF ValidateConfigData, CrossChecks, PasswordSupplied, RouterPrefixed
  <2>3. QED
    BY <1>1, <2>1, <2>2
<1>7. c.connection.keepalive => c.connection.keepalive_interval > 0
  <2>1. /\ c.connection.keepalive = (Get(f, "keepalive") = "yes")
        /\ c.connection.keepalive_interval = Strtol(Get(f, "keepalive_interval"))
    BY <1>3 DEF ConnectionConf, Flag, Number
  <2>2. Get(f, "keepalive") = "yes" => Strtol(Get(f, "keepalive_interval")) # 0
    BY <1>1 DEF ValidateConfigData, CrossChecks, IntervalValid
  <2>3. Strtol(Get(f, "keepalive_interval")) \in Nat
    BY StrtolIsNatural
  <2>4. Get(f, "keepalive") = "yes" => Strtol(Get(f, "keepalive_interval")) > 0
    BY <2>2, <2>3
  <2>5. QED
    BY <2>1, <2>4
<1>8. /\ mode \in {"v6v4", "v6anyv4"} => Get(f, "if_tunnel_v6v4") # ""
      /\ mode \in {"v6udpv4", "v6anyv4"} => Get(f, "if_tunnel_v6udpv4") # ""
      /\ mode = "v4v6" => Get(f, "if_tunnel_v4v6") # ""
  BY <1>1 DEF ValidateConfigData, CrossChecks, InterfacesNamed, TunnelInterfaces
<1>9. c.tunnel.proxy_client => mode # "v6udpv4"
  BY <1>1, <1>4 DEF ValidateConfigData, CrossChecks, ProxyModeValid
<1>10. c.transport = "RUDP6" => mode # "v6udpv4"
  BY <1>2, <1>3 DEF FirstTransport
<1>11. QED
  BY <1>4, <1>5, <1>6, <1>7, <1>8, <1>9, <1>10 DEF Usable

-------------------------------------------------------------------------------
(* Device mappings                                                              *)

LEMMA RemovalValidates == \A f : InvalidMappings(Without(f, InvalidMappings(f))) = {}
  BY DEF InvalidMappings, Without

LEMMA ListIsData == \A f : InvalidMappings(f) = {} => InvalidMappings(GetDeviceList(f)) = {}
  BY DEF InvalidMappings, GetDeviceList, GetVariableValue

-------------------------------------------------------------------------------
(* The steps                                                                    *)

LEMMA InvInit == Init => Inv
<1> SUFFICES ASSUME Init PROVE Inv
  OBVIOUS
<1>1. ObjectsOK
  BY DEF Init, ObjectsOK
<1>2. ASSUME NEW u \in Readers PROVE ReaderOK(u)
  BY DEF Init, ReaderOK, User
<1>3. QED
  BY <1>1, <1>2 DEF Inv

LEMMA ValidityIsBoolean == \A f : ValidateConfigData(f) \in BOOLEAN
  BY DEF ValidateConfigData

\* A step of another user.
Untouched(u) ==
  /\ kind' = kind /\ pc'[u] = pc[u] /\ op'[u] = op[u]
  /\ nv'[u] = nv[u] /\ bValid'[u] = bValid[u] /\ conf'[u] = conf[u]

LEMMA UntouchedStaysOK ==
  ASSUME NEW u, ReaderOK(u), Untouched(u)
  PROVE  ReaderOK(u)'
  BY DEF ReaderOK, Untouched

LEMMA EditorStep ==
  ASSUME Inv, Editing
  PROVE  Inv'
<1>0. ObjectsOK /\ Editor \in User /\ Readers \subseteq User /\ Editor \notin Readers
  BY ConfigurationAssumption DEF Inv, User
<1> DEFINE Kept == ObjectsOK' /\ \A u \in Readers : Untouched(u)
<1>1. CASE \E e \in Edits[kind] : Set(e[1], e[2])
  <2>1. Kept
    BY <1>0, <1>1
       DEF Set, SetVariableValue, Count, ObjectsOK, Untouched
  <2>2. QED
    BY <2>1, UntouchedStaysOK DEF Inv
<1>2. CASE \E e \in Edits[kind] : AddDeviceMapping(e[1], e[2])
  <2>1. Kept
    BY <1>0, <1>2
       DEF AddDeviceMapping, SetVariableValue, Count, ObjectsOK, Untouched
  <2>2. QED
    BY <2>1, UntouchedStaysOK DEF Inv
<1>3. CASE \E e \in Edits[kind] : DelDeviceMapping(e[1])
  <2>1. Kept
    BY <1>0, <1>3
       DEF DelDeviceMapping, RemoveVariables, Count, ObjectsOK, Untouched
  <2>2. QED
    BY <2>1, UntouchedStaysOK DEF Inv
<1>4. CASE CancelChanges
  <2>1. Kept
    BY <1>0, <1>4
       DEF CancelChanges, StartReading, Goto, Count, ObjectsOK, Untouched
  <2>2. QED
    BY <2>1, UntouchedStaysOK DEF Inv
<1>5. CASE LoadDefaults
  <2>1. Kept
    BY <1>0, <1>5
       DEF LoadDefaults, StartReading, Goto, Count, ObjectsOK, Untouched
  <2>2. QED
    BY <2>1, UntouchedStaysOK DEF Inv
<1>6. CASE DefaultsRead
  <2>1. Kept
    BY <1>0, <1>6
       DEF DefaultsRead, StartWriting, Goto, ObjectsOK, Untouched
  <2>2. QED
    BY <2>1, UntouchedStaysOK DEF Inv
<1>7. CASE Save
  <2>1. Kept
    BY <1>0, <1>7
       DEF Save, StartWriting, Goto, Count, ObjectsOK, Untouched
  <2>2. QED
    BY <2>1, UntouchedStaysOK DEF Inv
<1>8. CASE SaveMappings
  <2>1. Kept
    BY <1>0, <1>8
       DEF SaveMappings, StartWriting, RemoveVariables, Goto, Count, ObjectsOK, Untouched
  <2>2. QED
    BY <2>1, UntouchedStaysOK DEF Inv
<1>9. CASE WriteLine
  <2>1. Kept
    BY <1>0, <1>9
       DEF WriteLine, objectVars, ObjectsOK, Untouched
  <2>2. QED
    BY <2>1, UntouchedStaysOK DEF Inv
<1>10. CASE WriteEnds
  <2>1. Kept
    BY <1>0, <1>10, ValidityIsBoolean
       DEF WriteEnds, Goto, ObjectsOK, Untouched
  <2>2. QED
    BY <2>1, UntouchedStaysOK DEF Inv
<1>11. CASE WriteFails
  <2>1. Kept
    BY <1>0, <1>11
       DEF WriteFails, Goto, ObjectsOK, Untouched
  <2>2. QED
    BY <2>1, UntouchedStaysOK DEF Inv
<1>12. CASE EditorEnds
  <2>1. Kept
    BY <1>0, <1>12
       DEF EditorEnds, Goto, ObjectsOK, Untouched
  <2>2. QED
    BY <2>1, UntouchedStaysOK DEF Inv
<1>13. QED
  BY <1>1, <1>2, <1>3, <1>4, <1>5, <1>6, <1>7, <1>8, <1>9, <1>10, <1>11, <1>12 DEF Editing

\* What a step of u must do to the object of u.
LEMMA ReadingKeepsOthers ==
  ASSUME Inv, NEW u \in User, Reading(u)
  PROVE  ObjectsOK' /\ \A other \in Readers \ {u} : Untouched(other)
<1>0. ObjectsOK /\ Readers \subseteq User
  BY DEF Inv, User
<1>1. CASE initialize(u)
  BY <1>0, <1>1
     DEF initialize, Load, StartReading, Goto, Count, ObjectsOK, Untouched
<1>2. CASE init_hap6_devmap(u)
  BY <1>0, <1>2
     DEF init_hap6_devmap, Load, StartReading, Goto, Count, ObjectsOK, Untouched
<1>3. CASE LoadFails(u)
  BY <1>0, <1>3
     DEF LoadFails, Goto, objectVars, Count, ObjectsOK, Untouched
<1>4. CASE Reload(u)
  BY <1>0, <1>4
     DEF Reload, StartReading, Goto, ObjectsOK, Untouched
<1>5. CASE ReadLine(u)
  BY <1>0, <1>5
     DEF ReadLine, AddNameValue, Goto, ObjectsOK, Untouched
<1>6. CASE LoadEnds(u)
  BY <1>0, <1>6, ValidityIsBoolean
     DEF LoadEnds, Goto, ObjectsOK, Untouched
<1>7. CASE MappingsLoaded(u)
  BY <1>0, <1>7
     DEF MappingsLoaded, Goto, ObjectsOK, Untouched
<1>8. CASE CancelEnds(u)
  BY <1>0, <1>8
     DEF CancelEnds, Goto, ObjectsOK, Untouched
<1>9. CASE get_device_mapping(u)
  BY <1>0, <1>9
     DEF get_device_mapping, objectVars, ObjectsOK, Untouched
<1>10. CASE UnInitialize(u)
  BY <1>0, <1>10
     DEF UnInitialize, Goto, ObjectsOK, Untouched
<1>11. QED
  BY <1>1, <1>2, <1>3, <1>4, <1>5, <1>6, <1>7, <1>8, <1>9, <1>10 DEF Reading

LEMMA ReaderStep ==
  ASSUME Inv, NEW u \in Readers, Reading(u)
  PROVE  ReaderOK(u)'
<1>0. ObjectsOK /\ u \in User /\ ReaderOK(u)
  BY DEF Inv, User
<1>1. CASE initialize(u)
  BY <1>0, <1>1
     DEF initialize, Load, StartReading, Goto, Count, ObjectsOK, ReaderOK
<1>2. CASE init_hap6_devmap(u)
  BY <1>0, <1>2
     DEF init_hap6_devmap, Load, StartReading, Goto, Count, ObjectsOK, ReaderOK
<1>3. CASE LoadFails(u)
  BY <1>0, <1>3
     DEF LoadFails, Goto, objectVars, Count, ObjectsOK, ReaderOK
<1>4. CASE Reload(u)
  BY <1>0, <1>4
     DEF Reload, StartReading, Goto, ObjectsOK, ReaderOK
<1>5. CASE ReadLine(u)
  BY <1>0, <1>5
     DEF ReadLine, AddNameValue, Goto, ObjectsOK, ReaderOK
<1>6. CASE LoadEnds(u)
  BY <1>0, <1>6
     DEF LoadEnds, Goto, ObjectsOK, ReaderOK
<1>7. CASE MappingsLoaded(u)
  <2>1. /\ kind = "hap6" /\ kind' = kind /\ op' = op /\ conf' = conf
        /\ nv'[u] = Without(nv[u], InvalidMappings(nv[u]))
    BY <1>0, <1>7 DEF MappingsLoaded, ObjectsOK
  <2>2. InvalidMappings(nv'[u]) = {}
    BY <2>1, RemovalValidates
  <2>3. QED
    BY <1>0, <2>1, <2>2 DEF ReaderOK
<1>8. CASE CancelEnds(u)
  BY <1>0, <1>8
     DEF CancelEnds, Goto, ObjectsOK, ReaderOK
<1>9. CASE get_device_mapping(u)
  <2>1. /\ kind = "hap6" /\ pc[u] = "idle" /\ op[u] = "load"
        /\ UNCHANGED <<kind, pc, op, nv, bValid>> /\ conf'[u] = {GetDeviceList(nv[u])}
    BY <1>0, <1>9 DEF get_device_mapping, objectVars, ObjectsOK, ReaderOK
  <2>2. InvalidMappings(GetDeviceList(nv[u])) = {}
    BY <1>0, <2>1, ListIsData DEF ReaderOK
  <2>3. QED
    BY <1>0, <2>1, <2>2 DEF ReaderOK
<1>10. CASE UnInitialize(u)
  <2>1. /\ kind' = kind /\ op' = op /\ pc'[u] = "none" /\ bValid'[u] = FALSE
    BY <1>0, <1>10 DEF UnInitialize, Goto, ObjectsOK
  <2>2. CASE kind = "gw6c"
    <3>1. PICK options \in CommandLines, families \in SUBSET {"v4", "v6"} :
            conf'[u] = tspInitialize(nv[u], bValid[u], options, families)
      BY <1>0, <1>10, <2>2 DEF UnInitialize, ObjectsOK
    <3>2. ASSUME NEW c \in conf'[u] PROVE Usable(c)
      <4>1. c \in tspInitialize(nv[u], bValid[u], options, families) /\ bValid[u] \in BOOLEAN
        BY <1>0, <3>1, <3>2 DEF ObjectsOK
      <4>2. bValid[u]
        BY <4>1, InvalidGivesNone
      <4>3. ValidateConfigData(nv[u])
        BY <1>0, <2>2, <4>2 DEF ReaderOK
      <4>4. QED
        BY <4>1, <4>3, ValidIsUsable
    <3>3. QED
      BY <1>0, <2>1, <2>2, <3>2 DEF ReaderOK
  <2>3. CASE kind # "gw6c"
    <3>1. conf' = conf
      BY <1>10, <2>3 DEF UnInitialize
    <3>2. QED
      BY <1>0, <2>1, <2>3, <3>1 DEF ReaderOK
  <2>4. QED
    BY <2>2, <2>3
<1>11. QED
  BY <1>1, <1>2, <1>3, <1>4, <1>5, <1>6, <1>7, <1>8, <1>9, <1>10 DEF Reading

-------------------------------------------------------------------------------
(* The theorems                                                                 *)

LEMMA InvStep == Inv /\ [Next]_vars => Inv'
<1> SUFFICES ASSUME Inv, [Next]_vars PROVE Inv'
  OBVIOUS
<1>1. CASE Editing
  BY <1>1, EditorStep
<1>2. ASSUME NEW u \in User, Reading(u) PROVE Inv'
  <2>1. ObjectsOK' /\ \A other \in Readers \ {u} : Untouched(other)
    BY <1>2, ReadingKeepsOthers
  <2>2. ASSUME NEW other \in Readers PROVE ReaderOK(other)'
    <3>1. CASE other = u
      BY <1>2, <3>1, ReaderStep
    <3>2. CASE other # u
      BY <2>1, <3>2, UntouchedStaysOK DEF Inv
    <3>3. QED
      BY <3>1, <3>2
  <2>3. QED
    BY <2>1, <2>2 DEF Inv
<1>3. CASE UNCHANGED vars
  BY <1>3 DEF vars, objectVars, Inv, ObjectsOK, ReaderOK
<1>4. QED
  BY <1>1, <1>2, <1>3 DEF Next

\* Whatever the file holds, however far it had been written when it was read and
\* whatever the command line says, a client runs only with settings that go
\* together, and HAP6 is given only mappings of a device to an address.
THEOREM AcceptedUsable == Spec => []AcceptedIsUsable
<1>1. Inv => AcceptedIsUsable
  BY DEF Inv, ReaderOK, AcceptedIsUsable
<1>2. QED
  BY <1>1, InvInit, InvStep, PTL DEF Spec

-------------------------------------------------------------------------------
(* What an object holds and what the file does                                  *)

\* A line as an object keeps it: without its value.
KnownLine ==
  [type : {"NV"}, text : Name] \cup [type : {"COMMENT"}, text : {COMMENT}]
  \cup [type : {"EMPTYLINE"}, text : {""}]

TypesOK ==
  /\ kind \in {"gw6c", "hap6"}
  /\ file \in Seq(FileLine)
  /\ pc \in [User -> {"none", "idle", "reading", "writing"}]
  /\ op \in [User -> {"load", "failed", "cancel", "defaults", "save"}]
  /\ pos \in [User -> Nat]
  /\ DOMAIN lines = User /\ DOMAIN nv = User /\ DOMAIN basis = User
  /\ bValid \in [User -> BOOLEAN]
  /\ \A u \in Readers : pc[u] # "writing"

Data(f) == f \in [DOMAIN f -> Value]

\* The two halves of an object's data fit.
DataOK(u) ==
  /\ lines[u] \in Seq(KnownLine)
  /\ Data(nv[u])
  /\ DOMAIN nv[u] = NamesOf(lines[u])

\* The names of the first k lines.
NamesTo(ls, k) == {ls[i].text : i \in {j \in 1..k : ls[j].type = "NV"}}

\* Each setting of the file f has the value it has in s.
HasValues(f, s) ==
  \A i \in 1..Len(f) :
    /\ f[i].type # "BAD"
    /\ f[i].type = "NV" => f[i].text \in DOMAIN s /\ f[i].value = s[f[i].text]

TrimmedData(s) == [n \in DOMAIN s |-> Trim(s[n])]

\* No value is nothing but blanks: what is given stays given when it is trimmed.
NotBlank(s) == \A n \in DOMAIN s : s[n] = "" \/ Trim(s[n]) # ""

\* What may be saved; no device mapping has blanks to lose.
Savable(s) ==
  IF kind = "gw6c" THEN ValidateConfigData(s) ELSE InvalidMappings(s) = {}

MappingsTrimmed ==
  kind = "hap6" => \A u \in User : \A n \in DOMAIN nv[u] : Trim(nv[u][n]) = nv[u][n]

\* While the editor writes, the file has what it knew of the lines written so far,
\* and no object rests on it.
WriteInv ==
  pc[Editor] = "writing" =>
    /\ saved = {} /\ \A u \in User : basis[u] = {}
    /\ pos[Editor] <= Len(lines[Editor])
    /\ HasValues(file, nv[Editor]) /\ NamesOf(file) = NamesTo(lines[Editor], pos[Editor])
    /\ Savable(nv[Editor])

\* The file is the one saved.
SavedInv ==
  \A s \in saved :
    /\ Data(s) /\ DOMAIN s \subseteq Name
    /\ HasValues(file, s) /\ NamesOf(file) = DOMAIN s
    /\ Savable(s) /\ (kind = "hap6" => TrimmedData(s) = s)

DefaultsInv ==
  pc[Editor] = "reading" /\ op[Editor] = "defaults" =>
    /\ kind = "gw6c" /\ basis[Editor] = {}
    /\ pos[Editor] <= Len(DefaultFile)
    /\ \A i \in 1..pos[Editor] : DefaultFile[i].type # "BAD"
    /\ nv[Editor] = SettingsOf(SubSeq(DefaultFile, 1, pos[Editor]))

\* What k lines of the file f, saved as s, give.
LoadedTo(f, s, k) == [n \in NamesTo(f, k) |-> Trim(s[n])]

\* What an object has read so far of the file saved as s.
Loaded(u, s) ==
  /\ pc[u] = "reading" =>
       /\ op[u] \in {"load", "cancel"} /\ pos[u] <= Len(file)
       /\ nv[u] = LoadedTo(file, s, pos[u])
  /\ pc[u] = "idle" =>
       /\ nv[u] = TrimmedData(s)
       /\ op[u] = "load" /\ NotBlank(s) => bValid[u]

BasisInv(u) ==
  /\ pc[u] = "none" => basis[u] = {}
  /\ \A s \in basis[u] : s \in saved /\ Loaded(u, s)

-------------------------------------------------------------------------------
(* Lines                                                                        *)

\* A set of numbers that is not empty has a least element: with the set of the
\* counterexamples it serves as induction.
LEMMA LeastNumber ==
  ASSUME NEW T, T \subseteq Nat, T # {}
  PROVE  \E x \in T : \A y \in T : x <= y
<1> DEFINE R == OpToRel(<, Nat)
<1>1. IsWellFoundedOn(R, Nat)
  BY NatLessThanWellFounded
<1>2. R = {ss \in Nat \X Nat : ss[1] < ss[2]}
  BY DEF OpToRel
<1> HIDE DEF R
<1>3. PICK x \in T : \A y \in T : <<y, x>> \notin R
  BY <1>1, WFMin
<1>4. \A y \in T : <<y, x>> \in R <=> y < x
  BY <1>2
<1>5. \A y \in T : ~(y < x)
  BY <1>3, <1>4
<1>6. \A y \in T : y \in Int
  OBVIOUS
<1>7. QED
  BY <1>5, <1>6

LEMMA NamesToStep ==
  ASSUME NEW ls, NEW k \in Nat
  PROVE  /\ NamesTo(ls, 0) = {}
         /\ ls[k + 1].type = "NV" => NamesTo(ls, k + 1) = NamesTo(ls, k) \cup {ls[k + 1].text}
         /\ ls[k + 1].type # "NV" => NamesTo(ls, k + 1) = NamesTo(ls, k)
  BY DEF NamesTo

LEMMA NamesToCongruent ==
  ASSUME NEW ls, NEW ms, NEW k, \A i \in 1..k : ls[i] = ms[i]
  PROVE  NamesTo(ls, k) = NamesTo(ms, k)
  BY DEF NamesTo

LEMMA NamesOfAppend ==
  ASSUME NEW S, NEW ls \in Seq(S), NEW line \in S
  PROVE  /\ Append(ls, line) \in Seq(S)
         /\ line.type = "NV" => NamesOf(Append(ls, line)) = NamesOf(ls) \cup {line.text}
         /\ line.type # "NV" => NamesOf(Append(ls, line)) = NamesOf(ls)
<1> DEFINE ms == Append(ls, line)
<1>1. /\ ms \in Seq(S) /\ Len(ls) \in Nat /\ Len(ms) = Len(ls) + 1
      /\ ms[Len(ls) + 1] = line /\ \A i \in 1..Len(ls) : ls[i] = ms[i]
  OBVIOUS
<1> HIDE DEF ms
<1>2. NamesTo(ls, Len(ls)) = NamesTo(ms, Len(ls))
  BY <1>1, NamesToCongruent
<1>3. NamesOf(ls) = NamesTo(ls, Len(ls)) /\ NamesOf(ms) = NamesTo(ms, Len(ms))
  BY DEF NamesOf, NamesTo
<1>4. /\ ms[Len(ls) + 1].type = "NV" => NamesTo(ms, Len(ls) + 1) = NamesTo(ms, Len(ls)) \cup {ms[Len(ls) + 1].text}
      /\ ms[Len(ls) + 1].type # "NV" => NamesTo(ms, Len(ls) + 1) = NamesTo(ms, Len(ls))
  BY <1>1, NamesToStep
<1>5. QED
  BY <1>1, <1>2, <1>3, <1>4 DEF ms

\* The recursive function in RemoveLines exists: of the numbers of lines for which
\* there is none, no one is the least.
KeptTo(ls, names, n, g) ==
  g = [i \in 0..n |->
         IF i = 0 THEN <<>>
         ELSE IF ls[i].type = "NV" /\ ls[i].text \in names THEN g[i - 1]
         ELSE Append(g[i - 1], ls[i])]

LEMMA KeptExists ==
  ASSUME NEW ls, NEW names, NEW n \in Nat
  PROVE  \E g : KeptTo(ls, names, n, g)
<1> DEFINE Step(prev, i) == IF ls[i].type = "NV" /\ ls[i].text \in names THEN prev
                            ELSE Append(prev, ls[i])
           Works(g, k) == g = [i \in 0..k |-> IF i = 0 THEN <<>> ELSE Step(g[i - 1], i)]
           T == {k \in Nat : ~ \E g : Works(g, k)}
<1> HIDE DEF Step
<1>0. \A g, k : Works(g, k) => KeptTo(ls, names, k, g)
  BY DEF KeptTo, Step
<1>1. SUFFICES ASSUME T # {} PROVE FALSE
  BY <1>0
<1>2. PICK m \in T : \A y \in T : m <= y
  BY <1>1, LeastNumber
<1>3. m # 0
  <2>1. Works([i \in 0..0 |-> <<>>], 0)
    OBVIOUS
  <2>2. QED
    BY <1>2, <2>1
<1>4. m - 1 \in Nat /\ ~(m <= m - 1)
  BY <1>2, <1>3
<1>5. PICK h : Works(h, m - 1)
  BY <1>2, <1>4
<1> DEFINE g == [i \in 0..m |-> IF i = m THEN Step(h[m - 1], m) ELSE h[i]]
<1>6. ASSUME NEW i \in 0..m
      PROVE  g[i] = IF i = 0 THEN <<>> ELSE Step(g[i - 1], i)
  <2>1. CASE i = m
    BY <1>4, <2>1
  <2>2. CASE i # m
    <3>1. i \in 0..(m - 1) /\ g[i] = h[i]
      BY <1>4, <2>2
    <3>2. h[i] = IF i = 0 THEN <<>> ELSE Step(h[i - 1], i)
      BY <1>5, <3>1
    <3>3. i # 0 => g[i - 1] = h[i - 1]
      BY <1>4, <3>1
    <3>4. QED
      BY <3>1, <3>2, <3>3
  <2>3. QED
    BY <2>1, <2>2
<1>7. Works(g, m)
  BY <1>6
<1>8. QED
  BY <1>2, <1>7

\* What is left has the names that were not removed.
LEMMA RemoveLinesNames ==
  ASSUME NEW S, NEW ls \in Seq(S), NEW names
  PROVE  /\ RemoveLines(ls, names) \in Seq(S)
         /\ NamesOf(RemoveLines(ls, names)) = NamesOf(ls) \ names
<1>0. Len(ls) \in Nat /\ \A i \in 1..Len(ls) : ls[i] \in S
  OBVIOUS
<1> DEFINE kept == CHOOSE g : KeptTo(ls, names, Len(ls), g)
<1>1. RemoveLines(ls, names) = kept[Len(ls)]
  BY DEF RemoveLines, KeptTo
<1>2. KeptTo(ls, names, Len(ls), kept)
  BY <1>0, KeptExists
<1> HIDE DEF kept
<1>3. /\ kept[0] = <<>>
      /\ \A i \in 1..Len(ls) :
           kept[i] = IF ls[i].type = "NV" /\ ls[i].text \in names THEN kept[i - 1]
                     ELSE Append(kept[i - 1], ls[i])
  <2>1. \A i \in 0..Len(ls) : kept[i] = IF i = 0 THEN <<>>
         ELSE IF ls[i].type = "NV" /\ ls[i].text \in names THEN kept[i - 1]
         ELSE Append(kept[i - 1], ls[i])
    BY <1>2 DEF KeptTo
  <2>2. QED
    BY <1>0, <2>1
<1> DEFINE Right(k) == kept[k] \in Seq(S) /\ NamesOf(kept[k]) = NamesTo(ls, k) \ names
           T == {k \in 0..Len(ls) : ~Right(k)}
<1>4. T = {}
  <2>1. SUFFICES ASSUME T # {} PROVE FALSE
    OBVIOUS
  <2>2. PICK m \in T : \A y \in T : m <= y
    <3>1. T \subseteq Nat
      BY <1>0
    <3> HIDE DEF T
    <3>2. QED
      BY <2>1, <3>1, LeastNumber
  <2>3. m \in 0..Len(ls) /\ ~Right(m)
    BY <2>2
  <2>4. m # 0
    <3>1. <<>> \in Seq(S) /\ NamesOf(<<>>) = {}
      BY DEF NamesOf
    <3>2. NamesTo(ls, 0) = {}
      BY NamesToStep
    <3>3. QED
      BY <1>3, <2>3, <3>1, <3>2
  <2>5. m - 1 \in 0..Len(ls) /\ m \in 1..Len(ls) /\ ~(m <= m - 1) /\ (m - 1) + 1 = m /\ m - 1 \in Nat
    BY <1>0, <2>3, <2>4
  <2>6. Right(m - 1)
    BY <2>2, <2>5
  <2>7. kept[m - 1] \in Seq(S) /\ NamesOf(kept[m - 1]) = NamesTo(ls, m - 1) \ names
    BY <2>6
  <2>8. /\ ls[m].type = "NV" => NamesTo(ls, m) = NamesTo(ls, m - 1) \cup {ls[m].text}
        /\ ls[m].type # "NV" => NamesTo(ls, m) = NamesTo(ls, m - 1)
    BY <2>5, NamesToStep
  <2>9. CASE ls[m].type = "NV" /\ ls[m].text \in names
    BY <1>3, <2>3, <2>5, <2>7, <2>8, <2>9
  <2>10. CASE ~(ls[m].type = "NV" /\ ls[m].text \in names)
    <3>1. kept[m] = Append(kept[m - 1], ls[m]) /\ ls[m] \in S
      BY <1>0, <1>3, <2>5, <2>10
    <3>2. /\ kept[m] \in Seq(S)
          /\ ls[m].type = "NV" => NamesOf(kept[m]) = NamesOf(kept[m - 1]) \cup {ls[m].text}
          /\ ls[m].type # "NV" => NamesOf(kept[m]) = NamesOf(kept[m - 1])
      BY <2>7, <3>1, NamesOfAppend
    <3>3. NamesOf(kept[m]) = NamesTo(ls, m) \ names
      BY <2>7, <2>8, <2>10, <3>2
    <3>4. QED
      BY <2>3, <3>2, <3>3
  <2>11. QED
    BY <2>9, <2>10
<1>5. Right(Len(ls))
  BY <1>0, <1>4
<1>6. NamesOf(ls) = NamesTo(ls, Len(ls))
  BY DEF NamesOf, NamesTo
<1>7. QED
  BY <1>1, <1>5, <1>6

-------------------------------------------------------------------------------
(* The two halves of the data                                                   *)

LEMMA PutData ==
  ASSUME NEW f, Data(f), NEW n, NEW v \in Value
  PROVE  Data(Put(f, n, v)) /\ DOMAIN Put(f, n, v) = DOMAIN f \cup {n}
  BY DEF Put, Data

LEMMA WithoutData ==
  ASSUME NEW f, Data(f), NEW names
  PROVE  /\ Data(Without(f, names))
         /\ DOMAIN Without(f, names) = DOMAIN f \ names
  BY DEF Without, Data

LEMMA KnownLines ==
  /\ \A n \in Name : [type |-> "NV", text |-> n] \in KnownLine
  /\ [type |-> "EMPTYLINE", text |-> ""] \in KnownLine
  /\ [type |-> "COMMENT", text |-> COMMENT] \in KnownLine
  BY DEF KnownLine

LEMMA Kept ==
  ASSUME NEW u, DataOK(u), lines'[u] = lines[u], nv'[u] = nv[u]
  PROVE  DataOK(u)'
  BY DEF DataOK

LEMMA Cleared ==
  ASSUME NEW u, lines'[u] = <<>>, nv'[u] = <<>>
  PROVE  DataOK(u)'
  BY DEF DataOK, NamesOf, Data

LEMMA LineAdded ==
  ASSUME NEW u, DataOK(u), NEW line \in KnownLine, line.type # "NV",
         lines'[u] = Append(lines[u], line), nv'[u] = nv[u]
  PROVE  DataOK(u)'
<1>1. /\ Append(lines[u], line) \in Seq(KnownLine)
      /\ NamesOf(Append(lines[u], line)) = NamesOf(lines[u])
  BY NamesOfAppend DEF DataOK
<1>2. QED
  BY <1>1 DEF DataOK

LEMMA NameAdded ==
  ASSUME NEW u, DataOK(u), NEW n \in Name, NEW v \in Value,
         lines'[u] = Append(lines[u], [type |-> "NV", text |-> n]), nv'[u] = Put(nv[u], n, v)
  PROVE  DataOK(u)'
<1> DEFINE line == [type |-> "NV", text |-> n]
<1>1. line \in KnownLine /\ line.type = "NV" /\ line.text = n
  BY KnownLines
<1> HIDE DEF line
<1>2. /\ Append(lines[u], line) \in Seq(KnownLine)
      /\ NamesOf(Append(lines[u], line)) = NamesOf(lines[u]) \cup {n}
  BY <1>1, NamesOfAppend DEF DataOK
<1>3. lines'[u] = Append(lines[u], line)
  BY DEF line
<1>4. Data(nv'[u]) /\ DOMAIN nv'[u] = DOMAIN nv[u] \cup {n}
  <2>1. Data(nv[u])
    BY DEF DataOK
  <2>2. Data(Put(nv[u], n, v)) /\ DOMAIN Put(nv[u], n, v) = DOMAIN nv[u] \cup {n}
    BY <2>1, PutData
  <2>3. QED
    BY <2>2
<1>5. QED
  BY <1>2, <1>3, <1>4 DEF DataOK

LEMMA NameSet ==
  ASSUME NEW u \in User, TypesOK, DataOK(u), NEW n \in Name, NEW v \in Value,
         SetVariableValue(u, n, v)
  PROVE  DataOK(u)'
<1>1. nv'[u] = Put(nv[u], n, v)
  BY DEF SetVariableValue, TypesOK
<1>2. CASE \E i \in 1..Len(lines[u]) : lines[u][i].text = n
  <2>1. lines'[u] = lines[u]
    BY <1>2 DEF SetVariableValue, TypesOK
  <2>2. PICK i \in 1..Len(lines[u]) : lines[u][i].text = n
    BY <1>2
  <2>3. lines[u][i] \in KnownLine
    BY DEF DataOK
  <2>4. lines[u][i].type = "NV"
    BY <2>2, <2>3, ConfigurationAssumption DEF KnownLine
  <2>5. n \in NamesOf(lines[u])
    BY <2>2, <2>4 DEF NamesOf
  <2>6. Data(nv'[u]) /\ DOMAIN nv'[u] = DOMAIN nv[u] \cup {n}
    <3>1. Data(nv[u])
      BY DEF DataOK
    <3>2. Data(Put(nv[u], n, v)) /\ DOMAIN Put(nv[u], n, v) = DOMAIN nv[u] \cup {n}
      BY <3>1, PutData
    <3>3. QED
      BY <1>1, <3>2
  <2>7. QED
    BY <2>1, <2>5, <2>6 DEF DataOK
<1>3. CASE ~ \E i \in 1..Len(lines[u]) : lines[u][i].text = n
  <2>1. lines'[u] = Append(lines[u], [type |-> "NV", text |-> n])
    BY <1>3 DEF SetVariableValue, TypesOK
  <2>2. QED
    BY <1>1, <2>1, NameAdded
<1>4. QED
  BY <1>2, <1>3

LEMMA NamesRemoved ==
  ASSUME NEW u, NEW names, NEW ls \in Seq(KnownLine), NamesOf(ls) = NamesOf(lines[u]), DataOK(u),
         lines'[u] = RemoveLines(ls, names), nv'[u] = Without(nv[u], names)
  PROVE  DataOK(u)'
<1>1. lines'[u] \in Seq(KnownLine) /\ NamesOf(lines'[u]) = NamesOf(lines[u]) \ names
  BY RemoveLinesNames
<1>2. Data(nv'[u]) /\ DOMAIN nv'[u] = DOMAIN nv[u] \ names
  <2>1. Data(nv[u])
    BY DEF DataOK
  <2>2. Data(Without(nv[u], names)) /\ DOMAIN Without(nv[u], names) = DOMAIN nv[u] \ names
    BY <2>1, WithoutData
  <2>3. QED
    BY <2>2
<1>3. QED
  BY <1>1, <1>2 DEF DataOK

\* What WriteLine adds to the file.
LEMMA WrittenLines ==
  ASSUME NEW line \in KnownLine, NEW f, Data(f)
  PROVE  /\ Written(line, f) \in Seq(FileLine)
         /\ line.type # "NV" => Written(line, f) = <<line>>
         /\ line.type = "NV" /\ line.text \in DOMAIN f =>
              Written(line, f) = <<[type |-> "NV", text |-> line.text, value |-> f[line.text]]>>
<1>1. CASE line.type # "NV"
  <2>1. Written(line, f) = <<line>>
    BY <1>1 DEF Written
  <2>2. line \in FileLine
    BY <1>1 DEF KnownLine, FileLine
  <2>3. QED
    BY <1>1, <2>1, <2>2
<1>2. CASE line.type = "NV" /\ line.text \in DOMAIN f
  <2>1. Written(line, f) = <<[type |-> "NV", text |-> line.text, value |-> f[line.text]]>>
    BY <1>2 DEF Written
  <2>2. line.text \in Name /\ f[line.text] \in Value
    BY <1>2 DEF KnownLine, Data
  <2>3. [type |-> "NV", text |-> line.text, value |-> f[line.text]] \in FileLine
    BY <2>2 DEF FileLine
  <2>4. QED
    BY <1>2, <2>1, <2>3
<1>3. CASE line.type = "NV" /\ line.text \notin DOMAIN f
  <2>1. Written(line, f) = <<>>
    BY <1>3 DEF Written
  <2>2. QED
    BY <1>3, <2>1
<1>4. QED
  BY <1>1, <1>2, <1>3

-------------------------------------------------------------------------------
(* The steps: every name has its line                                           *)

DataInv == TypesOK /\ \A u \in User : DataOK(u)

\* Only the object of u changes.
OnlyAt(u) == \A w \in User \ {u} : lines'[w] = lines[w] /\ nv'[w] = nv[w]

LEMMA DataAt ==
  ASSUME DataInv, NEW u \in User, TypesOK', OnlyAt(u), DataOK(u)'
  PROVE  DataInv'
<1>1. ASSUME NEW w \in User \ {u} PROVE DataOK(w)'
  BY <1>1, Kept DEF OnlyAt, DataInv
<1>2. QED
  BY <1>1 DEF DataInv, User

LEMMA DataSame ==
  ASSUME DataInv, TypesOK', lines' = lines, nv' = nv
  PROVE  DataInv'
<1>1. ASSUME NEW w \in User PROVE DataOK(w)'
  BY <1>1, Kept DEF DataInv
<1>2. QED
  BY <1>1 DEF DataInv, User

LEMMA DataInit == Init => DataInv
<1> SUFFICES ASSUME Init PROVE DataInv
  OBVIOUS
<1>1. TypesOK
  <2>1. kind \in {"gw6c", "hap6"} /\ file \in Seq(FileLine)
    BY ConfigurationAssumption DEF Init
  <2>2. QED
    BY <2>1 DEF Init, TypesOK, User
<1>2. ASSUME NEW u \in User PROVE DataOK(u)
  BY DEF Init, DataOK, NamesOf, Data
<1>3. QED
  BY <1>1, <1>2 DEF DataInv

LEMMA Edited ==
  ASSUME TypesOK, NEW e \in Edits[kind]
  PROVE  e[1] \in Name /\ e[2] \in Value /\ Slashes(e[2]) \in Value
BY ConfigurationAssumption DEF TypesOK

LEMMA EditingData ==
  ASSUME DataInv, Editing
  PROVE  DataInv'
<1>0. TypesOK /\ DataOK(Editor) /\ Editor \in User /\ Readers \subseteq User /\ Editor \notin Readers
  BY ConfigurationAssumption DEF DataInv, User
<1>1. CASE \E e \in Edits[kind] : Set(e[1], e[2])
  <2>1. PICK e \in Edits[kind] : Set(e[1], e[2])
    BY <1>1
  <2> DEFINE v == IF e[1] = "hap6_document_root" THEN Slashes(e[2]) ELSE e[2]
  <2>2. SetVariableValue(Editor, e[1], v) /\ e[1] \in Name /\ v \in Value
    BY <1>0, <2>1, Edited DEF Set
  <2> HIDE DEF v
  <2>3. DataOK(Editor)'
    BY <1>0, <2>2, NameSet
  <2>4. TypesOK' /\ OnlyAt(Editor)
    BY <1>0, <2>1 DEF Set, SetVariableValue, TypesOK, OnlyAt
  <2>5. QED
    BY <1>0, <2>3, <2>4, DataAt
<1>2. CASE \E e \in Edits[kind] : AddDeviceMapping(e[1], e[2])
  <2>1. PICK e \in Edits[kind] : AddDeviceMapping(e[1], e[2])
    BY <1>2
  <2>2. SetVariableValue(Editor, e[1], e[2]) /\ e[1] \in Name /\ e[2] \in Value
    BY <1>0, <2>1, Edited DEF AddDeviceMapping
  <2>3. DataOK(Editor)'
    BY <1>0, <2>2, NameSet
  <2>4. TypesOK' /\ OnlyAt(Editor)
    BY <1>0, <2>1 DEF AddDeviceMapping, SetVariableValue, TypesOK, OnlyAt
  <2>5. QED
    BY <1>0, <2>3, <2>4, DataAt
<1>3. CASE \E e \in Edits[kind] : DelDeviceMapping(e[1])
  <2>1. PICK e \in Edits[kind] : DelDeviceMapping(e[1])
    BY <1>3
  <2>2. lines'[Editor] = RemoveLines(lines[Editor], {e[1]}) /\ nv'[Editor] = Without(nv[Editor], {e[1]})
    BY <1>0, <2>1 DEF DelDeviceMapping, RemoveVariables, TypesOK
  <2>3. lines[Editor] \in Seq(KnownLine)
    BY <1>0 DEF DataOK
  <2>4. DataOK(Editor)'
    BY <1>0, <2>2, <2>3, NamesRemoved
  <2>5. TypesOK' /\ OnlyAt(Editor)
    BY <1>0, <2>1 DEF DelDeviceMapping, RemoveVariables, TypesOK, OnlyAt
  <2>6. QED
    BY <1>0, <2>4, <2>5, DataAt
<1>4. CASE CancelChanges
  <2>1. TypesOK' /\ OnlyAt(Editor) /\ lines'[Editor] = <<>> /\ nv'[Editor] = <<>>
    BY <1>0, <1>4 DEF CancelChanges, StartReading, Goto, TypesOK, OnlyAt
  <2>2. QED
    BY <1>0, <2>1, Cleared, DataAt
<1>5. CASE LoadDefaults
  <2>1. TypesOK' /\ OnlyAt(Editor) /\ lines'[Editor] = <<>> /\ nv'[Editor] = <<>>
    BY <1>0, <1>5 DEF LoadDefaults, StartReading, Goto, TypesOK, OnlyAt
  <2>2. QED
    BY <1>0, <2>1, Cleared, DataAt
<1>6. CASE DefaultsRead
  <2>1. TypesOK' /\ OnlyAt(Editor)
    BY <1>0, <1>6 DEF DefaultsRead, StartWriting, Goto, TypesOK, OnlyAt
  <2>2. lines'[Editor] = Append(lines[Editor], [type |-> "EMPTYLINE", text |-> ""]) /\ nv'[Editor] = nv[Editor]
    BY <1>0, <1>6 DEF DefaultsRead, AddEmptyLine, TypesOK
  <2>3. QED
    BY <1>0, <2>1, <2>2, KnownLines, LineAdded, DataAt
<1>7. CASE Save
  <2>1. TypesOK'
    <3>1. CASE StartWriting /\ op' = [op EXCEPT ![Editor] = "save"]
      BY <1>0, <1>7, <3>1 DEF Save, StartWriting, Goto, TypesOK
    <3>2. CASE UNCHANGED <<file, pc, op, pos, saved, basis>>
      BY <1>0, <1>7, <3>2 DEF Save, TypesOK
    <3>3. QED
      BY <1>7, <3>1, <3>2 DEF Save
  <2>2. lines' = lines /\ nv' = nv
    BY <1>7 DEF Save
  <2>3. QED
    BY <2>1, <2>2, DataSame
<1>8. CASE SaveMappings
  <2>1. TypesOK' /\ OnlyAt(Editor)
    <3>1. CASE StartWriting /\ op' = [op EXCEPT ![Editor] = "save"] /\ UNCHANGED <<nv, lines>>
      BY <1>0, <1>8, <3>1 DEF SaveMappings, StartWriting, Goto, TypesOK, OnlyAt
    <3>2. CASE RemoveVariables(Editor, InvalidMappings(nv[Editor])) /\ UNCHANGED <<file, pc, op, pos, saved, basis>>
      BY <1>0, <1>8, <3>2 DEF SaveMappings, RemoveVariables, TypesOK, OnlyAt
    <3>3. QED
      BY <1>8, <3>1, <3>2 DEF SaveMappings
  <2>2. CASE lines' = lines /\ nv' = nv
    BY <2>1, <2>2, DataSame
  <2>3. CASE RemoveVariables(Editor, InvalidMappings(nv[Editor]))
    <3>1. lines'[Editor] = RemoveLines(lines[Editor], InvalidMappings(nv[Editor]))
          /\ nv'[Editor] = Without(nv[Editor], InvalidMappings(nv[Editor]))
      BY <1>0, <2>3 DEF RemoveVariables, TypesOK
    <3>2. lines[Editor] \in Seq(KnownLine)
      BY <1>0 DEF DataOK
    <3>3. DataOK(Editor)'
      BY <1>0, <3>1, <3>2, NamesRemoved
    <3>4. QED
      BY <1>0, <2>1, <3>3, DataAt
  <2>4. QED
    BY <1>8, <2>2, <2>3 DEF SaveMappings
<1>9. CASE WriteLine
  <2>1. lines' = lines /\ nv' = nv /\ UNCHANGED <<kind, pc, op, bValid, basis>>
    BY <1>9 DEF WriteLine, objectVars
  <2>2. file' \in Seq(FileLine)
    <3> DEFINE line == lines[Editor][pos[Editor] + 1]
    <3>1. pos[Editor] \in Nat /\ pos[Editor] < Len(lines[Editor]) /\ lines[Editor] \in Seq(KnownLine)
      BY <1>0, <1>9 DEF WriteLine, TypesOK, DataOK
    <3>2. line \in KnownLine
      BY <3>1
    <3>3. file' = file \o Written(line, nv[Editor]) /\ file \in Seq(FileLine) /\ Data(nv[Editor])
      BY <1>0, <1>9 DEF WriteLine, TypesOK, DataOK
    <3> HIDE DEF line
    <3>4. Written(line, nv[Editor]) \in Seq(FileLine)
      BY <3>2, <3>3, WrittenLines
    <3>5. QED
      BY <3>3, <3>4
  <2>3. pos' \in [User -> Nat]
    BY <1>0, <1>9 DEF WriteLine, TypesOK
  <2>4. QED
    BY <1>0, <2>1, <2>2, <2>3, DataSame DEF TypesOK
<1>10. CASE WriteEnds
  <2>1. TypesOK'
    BY <1>0, <1>10, ValidityIsBoolean DEF WriteEnds, Goto, TypesOK
  <2>2. lines' = lines /\ nv' = nv
    BY <1>10 DEF WriteEnds
  <2>3. QED
    BY <2>1, <2>2, DataSame
<1>11. CASE WriteFails
  <2>1. TypesOK' /\ OnlyAt(Editor)
    BY <1>0, <1>11 DEF WriteFails, Goto, TypesOK, OnlyAt
  <2>2. lines'[Editor] = Append(lines[Editor], [type |-> "EMPTYLINE", text |-> ""]) /\ nv'[Editor] = nv[Editor]
    BY <1>0, <1>11 DEF WriteFails, AddEmptyLine, TypesOK
  <2>3. QED
    BY <1>0, <2>1, <2>2, KnownLines, LineAdded, DataAt
<1>12. CASE EditorEnds
  <2>1. TypesOK' /\ OnlyAt(Editor) /\ lines'[Editor] = <<>> /\ nv'[Editor] = <<>>
    BY <1>0, <1>12 DEF EditorEnds, Goto, TypesOK, OnlyAt
  <2>2. QED
    BY <1>0, <2>1, Cleared, DataAt
<1>13. QED
  BY <1>1, <1>2, <1>3, <1>4, <1>5, <1>6, <1>7, <1>8, <1>9, <1>10, <1>11, <1>12 DEF Editing

\* The line a user reads next.
LEMMA LineRead ==
  ASSUME TypesOK, NEW u \in User, pos[u] < Len(Source(u))
  PROVE  /\ Source(u)[pos[u] + 1] \in FileLine /\ pos[u] + 1 \in 1..Len(Source(u))
         /\ Source(u) \in Seq(FileLine)
<1>1. Source(u) \in Seq(FileLine) /\ pos[u] \in Nat
  BY ConfigurationAssumption DEF Source, TypesOK
<1>2. Len(Source(u)) \in Nat
  BY <1>1
<1>3. pos[u] + 1 \in 1..Len(Source(u))
  BY <1>1, <1>2
<1>4. QED
  BY <1>1, <1>3

LEMMA ReadingData ==
  ASSUME DataInv, NEW u \in User, Reading(u)
  PROVE  DataInv'
<1>0. TypesOK /\ DataOK(u)
  BY DEF DataInv
<1>1. CASE initialize(u)
  <2>1. TypesOK' /\ OnlyAt(u) /\ lines'[u] = <<>> /\ nv'[u] = <<>>
    BY <1>0, <1>1 DEF initialize, Load, StartReading, Goto, TypesOK, OnlyAt
  <2>2. QED
    BY <2>1, Cleared, DataAt
<1>2. CASE init_hap6_devmap(u)
  <2>1. TypesOK' /\ OnlyAt(u) /\ lines'[u] = <<>> /\ nv'[u] = <<>>
    BY <1>0, <1>2 DEF init_hap6_devmap, Load, StartReading, Goto, TypesOK, OnlyAt
  <2>2. QED
    BY <2>1, Cleared, DataAt
<1>3. CASE LoadFails(u)
  <2>1. TypesOK' /\ lines' = lines /\ nv' = nv
    BY <1>0, <1>3 DEF LoadFails, Goto, objectVars, TypesOK
  <2>2. QED
    BY <2>1, DataSame
<1>4. CASE Reload(u)
  <2>1. TypesOK' /\ OnlyAt(u) /\ lines'[u] = <<>> /\ nv'[u] = <<>>
    BY <1>0, <1>4 DEF Reload, StartReading, Goto, TypesOK, OnlyAt
  <2>2. QED
    BY <2>1, Cleared, DataAt
<1>5. CASE ReadLine(u)
  <2> DEFINE line == Source(u)[pos[u] + 1]
  <2>1. line \in FileLine
    BY <1>0, <1>5, LineRead DEF ReadLine
  <2>2. TypesOK' /\ OnlyAt(u)
    <3>1. /\ DOMAIN lines' = User /\ DOMAIN nv' = User /\ OnlyAt(u)
          /\ UNCHANGED <<kind, file, bValid>> /\ pos' = [pos EXCEPT ![u] = @ + 1]
      BY <1>0, <1>5 DEF ReadLine, AddNameValue, TypesOK, OnlyAt
    <3>2. \/ UNCHANGED <<pc, op, basis>>
          \/ Goto(u, "idle") /\ op' = [op EXCEPT ![u] = "failed"] /\ basis' = [basis EXCEPT ![u] = {}]
      BY <1>5 DEF ReadLine
    <3>3. CASE UNCHANGED <<pc, op, basis>>
      BY <1>0, <3>1, <3>3 DEF TypesOK
    <3>4. CASE Goto(u, "idle") /\ op' = [op EXCEPT ![u] = "failed"] /\ basis' = [basis EXCEPT ![u] = {}]
      BY <1>0, <3>1, <3>4 DEF Goto, TypesOK
    <3>5. QED
      BY <3>2, <3>3, <3>4
  <2>3. CASE line.type = "NV"
    <3>1. AddNameValue(u, line.text, line.value) /\ line.text \in Name \cup {""} /\ line.value \in Value
      BY <1>5, <2>1, <2>3 DEF ReadLine, FileLine
    <3> HIDE DEF line
    <3>2. CASE line.text = ""
      <4>1. lines'[u] = lines[u] /\ nv'[u] = nv[u]
        BY <1>0, <3>1, <3>2 DEF AddNameValue, TypesOK
      <4>2. QED
        BY <1>0, <2>2, <4>1, Kept, DataAt
    <3>3. CASE line.text # ""
      <4>1. /\ lines'[u] = Append(lines[u], [type |-> "NV", text |-> line.text])
            /\ nv'[u] = Put(nv[u], line.text, Trim(line.value))
        BY <1>0, <3>1, <3>3 DEF AddNameValue, TypesOK
      <4>2. line.text \in Name /\ Trim(line.value) \in Value
        BY <3>1, <3>3, ConfigurationAssumption
      <4>3. DataOK(u)'
        BY <1>0, <4>1, <4>2, NameAdded
      <4>4. QED
        BY <2>2, <4>3, DataAt
    <3>4. QED
      BY <3>2, <3>3
  <2>4. CASE line.type = "COMMENT"
    <3>1. line.text = COMMENT
      BY <2>1, <2>4 DEF FileLine
    <3>2. lines'[u] = Append(lines[u], [type |-> "COMMENT", text |-> COMMENT]) /\ nv'[u] = nv[u]
      BY <1>0, <1>5, <2>4, <3>1 DEF ReadLine, AddComment, TypesOK
    <3>3. QED
      BY <1>0, <2>2, <3>2, KnownLines, LineAdded, DataAt
  <2>5. CASE line.type = "EMPTYLINE"
    <3>1. lines'[u] = Append(lines[u], [type |-> "EMPTYLINE", text |-> ""]) /\ nv'[u] = nv[u]
      BY <1>0, <1>5, <2>5 DEF ReadLine, AddEmptyLine, TypesOK
    <3>2. QED
      BY <1>0, <2>2, <3>1, KnownLines, LineAdded, DataAt
  <2>6. CASE line.type = "BAD"
    <3>1. lines' = lines /\ nv' = nv
      BY <1>5, <2>6 DEF ReadLine
    <3>2. QED
      BY <2>2, <3>1, DataSame
  <2>7. QED
    BY <2>1, <2>3, <2>4, <2>5, <2>6 DEF FileLine
<1>6. CASE LoadEnds(u)
  <2>1. TypesOK' /\ OnlyAt(u)
    BY <1>0, <1>6, ValidityIsBoolean DEF LoadEnds, Goto, TypesOK, OnlyAt
  <2>2. lines'[u] = Append(lines[u], [type |-> "EMPTYLINE", text |-> ""]) /\ nv'[u] = nv[u]
    BY <1>0, <1>6 DEF LoadEnds, AddEmptyLine, TypesOK
  <2>3. QED
    BY <1>0, <2>1, <2>2, KnownLines, LineAdded, DataAt
<1>7. CASE MappingsLoaded(u)
  <2> DEFINE names == InvalidMappings(nv[u])
             ls == Append(lines[u], [type |-> "EMPTYLINE", text |-> ""])
  <2>1. lines'[u] = RemoveLines(ls, names) /\ nv'[u] = Without(nv[u], names)
    BY <1>0, <1>7 DEF MappingsLoaded, AddEmptyLine, TypesOK
  <2>2. ls \in Seq(KnownLine) /\ NamesOf(ls) = NamesOf(lines[u])
    BY <1>0, KnownLines, NamesOfAppend DEF DataOK
  <2>3. TypesOK' /\ OnlyAt(u)
    BY <1>0, <1>7 DEF MappingsLoaded, Goto, TypesOK, OnlyAt
  <2> HIDE DEF names, ls
  <2>4. DataOK(u)'
    BY <1>0, <2>1, <2>2, NamesRemoved
  <2>5. QED
    BY <2>3, <2>4, DataAt
<1>8. CASE CancelEnds(u)
  <2>1. TypesOK' /\ OnlyAt(u)
    BY <1>0, <1>8 DEF CancelEnds, Goto, TypesOK, OnlyAt
  <2>2. lines'[u] = Append(lines[u], [type |-> "EMPTYLINE", text |-> ""]) /\ nv'[u] = nv[u]
    BY <1>0, <1>8 DEF CancelEnds, AddEmptyLine, TypesOK
  <2>3. QED
    BY <1>0, <2>1, <2>2, KnownLines, LineAdded, DataAt
<1>9. CASE get_device_mapping(u)
  <2>1. TypesOK' /\ lines' = lines /\ nv' = nv
    BY <1>0, <1>9 DEF get_device_mapping, objectVars, TypesOK
  <2>2. QED
    BY <2>1, DataSame
<1>10. CASE UnInitialize(u)
  <2>1. TypesOK' /\ OnlyAt(u) /\ lines'[u] = <<>> /\ nv'[u] = <<>>
    BY <1>0, <1>10 DEF UnInitialize, Goto, TypesOK, OnlyAt
  <2>2. QED
    BY <2>1, Cleared, DataAt
<1>11. QED
  BY <1>1, <1>2, <1>3, <1>4, <1>5, <1>6, <1>7, <1>8, <1>9, <1>10 DEF Reading

LEMMA DataStep == DataInv /\ [Next]_vars => DataInv'
<1> SUFFICES ASSUME DataInv, [Next]_vars PROVE DataInv'
  OBVIOUS
<1>1. CASE UNCHANGED vars
  <2>1. TypesOK' /\ lines' = lines /\ nv' = nv
    BY <1>1 DEF vars, objectVars, DataInv, TypesOK
  <2>2. QED
    BY <2>1, DataSame
<1>2. QED
  BY <1>1, EditingData, ReadingData DEF Next

\* Whatever is read, set, removed and written, the two halves of an object's data
\* stay together: what is set will be written and what is removed will not.
THEOREM NamesHaveLines == Spec => []EveryNameHasALine
<1>1. DataInv => EveryNameHasALine
  BY DEF DataInv, DataOK, EveryNameHasALine
<1>2. QED
  BY <1>1, DataInit, DataStep, PTL DEF Spec

-------------------------------------------------------------------------------
(* Blanks                                                                       *)

LEMMA TrimIdempotent == \A v : Trim(Trim(v)) = Trim(v)
  BY DEF Trim

LEMMA NoNumber == \A v : v \notin Digits => Strtol(v) = 0
  BY DEF Digits, Strtol

LEMMA TrimKeepsNumber == \A v : Strtol(Trim(v)) = Strtol(v)
<1>1. {"", "  ", "secret", " secret"} \cap Digits = {}
  BY DEF Digits
<1>2. \A v : Trim(v) = v \/ {v, Trim(v)} \subseteq {"", "  ", "secret", " secret"}
  BY DEF Trim
<1>3. QED
  BY <1>1, <1>2, NoNumber

\* Of the settings that take no text at will none takes " secret".
LEMMA TrimIsValid ==
  ASSUME NEW n \in Setting, Validate(n, " secret")
  PROVE  Validate(n, "secret")
<1>1. CASE n \in {"userid", "passwd", "server", "if_prefix", "dns_server", "if_tunnel_v6v4",
            "if_tunnel_v6udpv4", "if_tunnel_v4v6", "client_v4", "client_v6", "broker_list", "last_server",
            "log_filename"}
  BY <1>1 DEF Validate, Validate_UserID, Validate_Passwd, Validate_Server, Validate_IfPrefix,
         Validate_DnsServer, Validate_IfTunV6V4, Validate_IfTunV6UDPV4, Validate_IfTunV4V6,
         Validate_ClientV4, Validate_ClientV6, Validate_BrokerLstFile, Validate_LastServFile,
         Validate_LogFileName, FacultativeText, ILLFORMED
<1>2. CASE n \in {"gw6_dir", "hap6_document_root"}
  BY <1>2 DEF Validate, Validate_Gw6cDir, Validate_Hap6DocumentRoot, Directory, NODIR
<1>3. CASE n \in {"auto_retry_connect", "keepalive", "proxy_client", "always_use_same_server", "log_rotation",
            "log_rotation_delete", "hap6_proxy_enabled", "hap6_web_enabled"}
  BY <1>3 DEF Validate, Validate_AutoRetryConnect, Validate_KeepAlive, Validate_ProxyClient,
         Validate_AlwaysUseLastSrv, Validate_LogRotation, Validate_LogRotationDel,
         Validate_Hap6ProxyEnabled, Validate_Hap6WebEnabled, Facultative, YesNo
<1>4. CASE n \in {"host_type", "auth_method", "tunnel_mode", "template", "log_rotation_size",
            "syslog_facility"}
  BY <1>4 DEF Validate, Validate_HostType, Validate_AuthMethod, Validate_TunnelMode, Validate_Template,
         Validate_LogRotationSz, Validate_SysLogFacility, Facultative
<1>5. CASE n \in {"prefixlen", "retry_delay", "keepalive_interval"}
  <2>1. " secret" # "" /\ " secret" \notin Digits
    BY DEF Digits
  <2>2. ~Validate_PrefixLen(" secret") /\ ~Validate_RetryDelay(" secret") /\ ~Validate_KeepAliveInterval(" secret")
    <3>1. ~Validate_PrefixLen(" secret")
      BY <2>1, Zenon DEF Validate_PrefixLen
    <3>2. ~Validate_RetryDelay(" secret")
      <4>1. \A v : Validate_RetryDelay(v) => v = "" \/ v \in Digits
        BY DEF Validate_RetryDelay
      <4>2. QED
        BY <2>1, <4>1
    <3>3. ~Validate_KeepAliveInterval(" secret")
      BY <2>1 DEF Validate_KeepAliveInterval, Facultative
    <3>4. QED
      BY <3>1, <3>2, <3>3
  <2>3. \/ n = "prefixlen" /\ Validate(n, " secret") = Validate_PrefixLen(" secret")
        \/ n = "retry_delay" /\ Validate(n, " secret") = Validate_RetryDelay(" secret")
        \/ n = "keepalive_interval" /\ Validate(n, " secret") = Validate_KeepAliveInterval(" secret")
    BY <1>5 DEF Validate
  <2>4. QED
    BY <2>2, <2>3
<1>6. CASE n \in {"log_console", "log_stderr", "log_syslog", "log_file"}
  <2>1. Trim(" secret") = "secret" /\ " secret" # ""
    BY DEF Trim
  <2>2. Validate(n, " secret") = Validate_LogLevel(" secret") /\ Validate(n, "secret") = Validate_LogLevel("secret")
    BY <1>6 DEF Validate
  <2>3. QED
    BY <2>1, <2>2, TrimKeepsNumber DEF Validate_LogLevel
<1>7. QED
  BY <1>1, <1>2, <1>3, <1>4, <1>5, <1>6
     DEF Setting, AccountDefaults, ConnectionDefaults, TunnelDefaults, FileDefaults, LogLevelDefaults,
         LogDefaults, Hap6Defaults

LEMMA TrimmedValue ==
  ASSUME NEW s, NotBlank(s), NEW n
  PROVE  /\ GetVariableValue(TrimmedData(s), n) = Trim(GetVariableValue(s, n))
         /\ GetVariableValue(s, n) = "" <=> GetVariableValue(TrimmedData(s), n) = ""
<1>1. Trim("") = ""
  BY DEF Trim
<1>2. QED
  BY <1>1 DEF GetVariableValue, TrimmedData, NotBlank

LEMMA TrimmedGet ==
  ASSUME NEW s, NotBlank(s), NEW n
  PROVE  /\ Get(s, n) = "" <=> Get(TrimmedData(s), n) = ""
         /\ Strtol(Get(TrimmedData(s), n)) = Strtol(Get(s, n))
         /\ \A x : x \notin {"", "  ", " secret", "secret"} => (Get(s, n) = x <=> Get(TrimmedData(s), n) = x)
<1> DEFINE v == GetVariableValue(s, n)  w == GetVariableValue(TrimmedData(s), n)
<1>1. w = Trim(v) /\ (v = "" <=> w = "")
  BY TrimmedValue
<1> HIDE DEF v, w
<1>2. CASE v = ""
  <2>1. Get(s, n) = Default(n) /\ Get(TrimmedData(s), n) = Default(n)
    BY <1>1, <1>2 DEF Get, v, w
  <2>2. QED
    BY <2>1
<1>3. CASE v # ""
  <2>1. Get(s, n) = v /\ Get(TrimmedData(s), n) = w
    BY <1>1, <1>3 DEF Get, v, w
  <2>2. Strtol(w) = Strtol(v)
    BY <1>1, TrimKeepsNumber
  <2>3. \A x : x \notin {"", "  ", " secret", "secret"} => (v = x <=> w = x)
    BY <1>1, <1>3 DEF Trim
  <2>4. QED
    BY <1>1, <2>1, <2>2, <2>3
<1>4. QED
  BY <1>2, <1>3

\* Valid settings stay valid when the blanks around their values go.
LEMMA TrimmedIsValid ==
  ASSUME NEW s, NotBlank(s), ValidateConfigData(s)
  PROVE  ValidateConfigData(TrimmedData(s))
<1> DEFINE t == TrimmedData(s)
<1>1. FieldsValid(t)
  <2>1. SUFFICES ASSUME NEW n \in Validated PROVE Validate(n, GetVariableValue(t, n))
    BY DEF FieldsValid
  <2> DEFINE v == GetVariableValue(s, n)  w == GetVariableValue(t, n)
  <2>2. n \in Setting /\ Validate(n, v)
    BY DEF Validated, ValidateConfigData, FieldsValid
  <2>3. w = Trim(v) /\ (v = "" <=> w = "")
    BY TrimmedValue
  <2> HIDE DEF v, w
  <2>4. w = v \/ (v = " secret" /\ w = "secret")
    BY <2>3 DEF Trim
  <2>5. Validate(n, w)
    BY <2>2, <2>4, TrimIsValid
  <2>6. QED
    BY <2>5 DEF w
<1> DEFINE Same(n) ==
      /\ Get(s, n) = "" <=> Get(t, n) = ""
      /\ \A x : x \notin {"", "  ", " secret", "secret"} => (Get(s, n) = x <=> Get(t, n) = x)
<1>2. \A n : Same(n) /\ Strtol(Get(t, n)) = Strtol(Get(s, n))
  BY TrimmedGet
<1> HIDE DEF t
<1>3. CrossChecks(s)
  BY DEF ValidateConfigData
<1>4. PasswordSupplied(t)
  BY <1>2, <1>3 DEF CrossChecks, PasswordSupplied
<1>5. ProxyModeValid(t)
  BY <1>2, <1>3 DEF CrossChecks, ProxyModeValid
<1>6. IntervalValid(t)
  <2>1. Get(t, "keepalive") = "yes" => Get(s, "keepalive") = "yes"
    BY <1>2
  <2>2. Get(s, "keepalive") = "yes" => Strtol(Get(s, "keepalive_interval")) # 0
    BY <1>3 DEF CrossChecks, IntervalValid
  <2>3. QED
    BY <1>2, <2>1, <2>2 DEF IntervalValid
<1>7. InterfacesNamed(t)
  BY <1>2, <1>3 DEF CrossChecks, InterfacesNamed, TunnelInterfaces
<1>8. RouterPrefixed(t)
  BY <1>2, <1>3 DEF CrossChecks, RouterPrefixed
<1>9. WebRootGiven(t)
  BY <1>2, <1>3 DEF CrossChecks, WebRootGiven
<1>10. Hap6ModeValid(t)
  BY <1>2, <1>3 DEF CrossChecks, Hap6ModeValid
<1>11. QED
  BY <1>1, <1>4, <1>5, <1>6, <1>7, <1>8, <1>9, <1>10 DEF ValidateConfigData, CrossChecks, t

-------------------------------------------------------------------------------
(* The settings of a file                                                       *)

IsLast(ls, n, i) ==
  /\ i \in 1..Len(ls) /\ IsSetting(ls[i], n)
  /\ \A j \in (i + 1)..Len(ls) : ~IsSetting(ls[j], n)

\* The first of the distances to the end is that of the last line.
LEMMA LastExists ==
  ASSUME NEW ls \in Seq(FileLine), NEW n, \E i \in 1..Len(ls) : IsSetting(ls[i], n)
  PROVE  \E i : IsLast(ls, n, i)
<1> DEFINE T == {d \in Nat : d < Len(ls) /\ IsSetting(ls[Len(ls) - d], n)}
<1>0. Len(ls) \in Nat
  OBVIOUS
<1>1. T \subseteq Nat
  OBVIOUS
<1>2. T # {}
  <2>1. PICK i \in 1..Len(ls) : IsSetting(ls[i], n)
    OBVIOUS
  <2>2. Len(ls) - i \in Nat /\ Len(ls) - i < Len(ls) /\ Len(ls) - (Len(ls) - i) = i
    BY <1>0
  <2>3. QED
    BY <2>1, <2>2
<1>3. PICK d \in T : \A e \in T : d <= e
  <2> HIDE DEF T
  <2>1. QED
    BY <1>1, <1>2, LeastNumber
<1> DEFINE i == Len(ls) - d
<1>4. d \in Nat /\ i \in 1..Len(ls) /\ IsSetting(ls[i], n)
  BY <1>0, <1>3
<1>5. ASSUME NEW j \in (i + 1)..Len(ls) PROVE ~IsSetting(ls[j], n)
  <2>1. Len(ls) - j \in Nat /\ Len(ls) - j < Len(ls) /\ Len(ls) - (Len(ls) - j) = j /\ ~(d <= Len(ls) - j)
    BY <1>0, <1>4
  <2>2. QED
    BY <1>3, <2>1
<1>6. QED
  BY <1>4, <1>5 DEF IsLast

LEMMA SettingsAt ==
  ASSUME NEW ls \in Seq(FileLine), NEW n \in Name, NEW i, IsLast(ls, n, i)
  PROVE  n \in DOMAIN SettingsOf(ls) /\ SettingsOf(ls)[n] = Trim(ls[i].value)
<1> DEFINE last == CHOOSE k \in 1..Len(ls) : IsSetting(ls[k], n) /\ \A j \in (k + 1)..Len(ls) : ~IsSetting(ls[j], n)
<1>0. Len(ls) \in Nat /\ i \in 1..Len(ls)
  BY DEF IsLast
<1>1. n \in DOMAIN SettingsOf(ls) /\ SettingsOf(ls)[n] = Trim(ls[last].value)
  BY <1>0 DEF SettingsOf, IsLast
<1>2. IsLast(ls, n, last)
  BY DEF IsLast
<1> HIDE DEF last
<1>3. last \in 1..Len(ls) /\ ~(last + 1 <= i) /\ ~(i + 1 <= last)
  BY <1>0, <1>2 DEF IsLast
<1>4. last = i
  BY <1>0, <1>3
<1>5. QED
  BY <1>1, <1>4

LEMMA SettingsNames ==
  ASSUME NEW ls \in Seq(FileLine)
  PROVE  /\ \A n : n \in DOMAIN SettingsOf(ls) <=> n \in Name /\ \E i \in 1..Len(ls) : IsSetting(ls[i], n)
         /\ SettingsOf(ls) = [n \in DOMAIN SettingsOf(ls) |-> SettingsOf(ls)[n]]
  BY DEF SettingsOf

\* One more line gives its setting the value of the line.
LEMMA SettingsStep ==
  ASSUME NEW ls \in Seq(FileLine), NEW line \in FileLine
  PROVE  LET ms == Append(ls, line)
         IN IF line.type = "NV" /\ line.text # ""
            THEN SettingsOf(ms) = Put(SettingsOf(ls), line.text, Trim(line.value))
            ELSE SettingsOf(ms) = SettingsOf(ls)
<1> DEFINE ms == Append(ls, line)
           k == Len(ls) + 1
           new == line.type = "NV" /\ line.text # ""
<1>1. /\ ms \in Seq(FileLine) /\ Len(ls) \in Nat /\ Len(ms) = k /\ k \in 1..k
      /\ ms[k] = line /\ \A i \in 1..Len(ls) : ms[i] = ls[i]
  OBVIOUS
<1> HIDE DEF ms
<1>2. line.type = "NV" => line.text \in Name \cup {""}
  BY DEF FileLine
<1>3. \A n \in Name : IsSetting(line, n) <=> new /\ n = line.text
  BY <1>2, ConfigurationAssumption DEF IsSetting
<1>4. new => IsLast(ms, line.text, k)
  <2>1. (k + 1)..k = {}
    BY <1>1
  <2>2. QED
    BY <1>1, <2>1 DEF IsLast, IsSetting
<1>5. ASSUME NEW n \in Name, ~IsSetting(line, n), NEW i, IsLast(ls, n, i) PROVE IsLast(ms, n, i)
  <2>1. i \in 1..Len(ls)
    BY <1>5 DEF IsLast
  <2>2. i \in 1..Len(ms) /\ ms[i] = ls[i]
    BY <1>1, <2>1
  <2>3. ASSUME NEW j \in (i + 1)..Len(ms) PROVE ~IsSetting(ms[j], n)
    <3>1. j = k \/ (j \in (i + 1)..Len(ls) /\ j \in 1..Len(ls))
      BY <1>1, <2>1
    <3>2. QED
      BY <1>1, <1>5, <3>1 DEF IsLast
  <2>4. QED
    BY <1>5, <2>2, <2>3 DEF IsLast
<1>6. ASSUME NEW n \in Name, ~IsSetting(line, n)
      PROVE  /\ n \in DOMAIN SettingsOf(ms) <=> n \in DOMAIN SettingsOf(ls)
             /\ n \in DOMAIN SettingsOf(ls) => SettingsOf(ms)[n] = SettingsOf(ls)[n]
  <2>1. n \in DOMAIN SettingsOf(ms) <=> n \in DOMAIN SettingsOf(ls)
    <3>1. \A i : i \in 1..k <=> i \in 1..Len(ls) \/ i = k
      BY <1>1
    <3>2. (\E i \in 1..Len(ms) : IsSetting(ms[i], n)) <=> \E i \in 1..Len(ls) : IsSetting(ls[i], n)
      BY <1>1, <1>6, <3>1
    <3>3. QED
      BY <1>1, <3>2, SettingsNames
  <2>2. ASSUME n \in DOMAIN SettingsOf(ls) PROVE SettingsOf(ms)[n] = SettingsOf(ls)[n]
    <3>1. PICK i : IsLast(ls, n, i)
      BY <2>2, LastExists, SettingsNames
    <3>2. IsLast(ms, n, i)
      BY <1>5, <1>6, <3>1
    <3>3. ms[i] = ls[i]
      BY <1>1, <3>1 DEF IsLast
    <3>4. SettingsOf(ms)[n] = Trim(ms[i].value) /\ SettingsOf(ls)[n] = Trim(ls[i].value)
      BY <1>1, <3>1, <3>2, SettingsAt
    <3>5. QED
      BY <3>3, <3>4
  <2>3. QED
    BY <2>1, <2>2
<1> DEFINE f == SettingsOf(ls)
           g == SettingsOf(ms)
<1>7. /\ f = [n \in DOMAIN f |-> f[n]] /\ g = [n \in DOMAIN g |-> g[n]]
      /\ DOMAIN f \subseteq Name /\ DOMAIN g \subseteq Name
  BY <1>1, SettingsNames
<1>8. CASE new
  <2>1. line.text \in Name
    BY <1>2, <1>8
  <2>2. line.text \in DOMAIN g /\ g[line.text] = Trim(line.value)
    BY <1>1, <1>4, <1>8, <2>1, SettingsAt
  <2>3. \A n \in Name : n # line.text => /\ n \in DOMAIN g <=> n \in DOMAIN f
                                         /\ n \in DOMAIN f => g[n] = f[n]
    BY <1>3, <1>6
  <2> HIDE DEF f, g
  <2>4. DOMAIN g = DOMAIN f \cup {line.text}
    BY <1>7, <2>1, <2>2, <2>3
  <2>5. g = Put(f, line.text, Trim(line.value))
    BY <1>7, <2>2, <2>3, <2>4 DEF Put
  <2>6. QED
    BY <1>8, <2>5 DEF f, g, ms
<1>9. CASE ~new
  <2>1. \A n \in Name : /\ n \in DOMAIN g <=> n \in DOMAIN f
                        /\ n \in DOMAIN f => g[n] = f[n]
    BY <1>3, <1>6, <1>9
  <2> HIDE DEF f, g
  <2>2. DOMAIN g = DOMAIN f
    BY <1>7, <2>1
  <2>3. g = f
    BY <1>7, <2>1, <2>2
  <2>4. QED
    BY <1>9, <2>3 DEF f, g, ms
<1>10. QED
  BY <1>8, <1>9

-------------------------------------------------------------------------------
(* The steps of reading                                                         *)

SameAt(w) ==
  /\ pc'[w] = pc[w] /\ op'[w] = op[w] /\ pos'[w] = pos[w] /\ nv'[w] = nv[w]
  /\ lines'[w] = lines[w] /\ bValid'[w] = bValid[w] /\ basis'[w] = basis[w]

SameFile == kind' = kind /\ file' = file /\ saved' = saved

LEMMA BasisKept ==
  ASSUME NEW w, BasisInv(w), SameAt(w), SameFile
  PROVE  BasisInv(w)'
  BY DEF BasisInv, Loaded, SameAt, SameFile

LEMMA SavedKept ==
  ASSUME SavedInv, SameFile
  PROVE  SavedInv'
  BY DEF SavedInv, Savable, SameFile

LEMMA DefaultsKept ==
  ASSUME DefaultsInv, SameAt(Editor), SameFile
  PROVE  DefaultsInv'
  BY DEF DefaultsInv, SameAt, SameFile

LEMMA ReadingFrame ==
  ASSUME TypesOK, NEW u \in User, Reading(u)
  PROVE  /\ SameFile /\ \A w \in User \ {u} : SameAt(w)
         /\ pc[u] # "writing" /\ pc'[u] # "writing"
         /\ basis'[u] \in {{}, saved, basis[u]}
<1>1. CASE initialize(u)
  BY <1>1 DEF initialize, Load, StartReading, Goto, TypesOK, SameAt, SameFile
<1>2. CASE init_hap6_devmap(u)
  BY <1>2 DEF init_hap6_devmap, Load, StartReading, Goto, TypesOK, SameAt, SameFile
<1>3. CASE LoadFails(u)
  BY <1>3 DEF LoadFails, objectVars, Goto, TypesOK, SameAt, SameFile
<1>4. CASE Reload(u)
  BY <1>4 DEF Reload, StartReading, Goto, TypesOK, SameAt, SameFile
<1>5. CASE ReadLine(u)
  BY <1>5 DEF ReadLine, AddNameValue, Goto, TypesOK, SameAt, SameFile
<1>6. CASE LoadEnds(u)
  BY <1>6 DEF LoadEnds, AtEnd, Goto, TypesOK, SameAt, SameFile
<1>7. CASE MappingsLoaded(u)
  BY <1>7 DEF MappingsLoaded, AtEnd, Goto, TypesOK, SameAt, SameFile
<1>8. CASE CancelEnds(u)
  BY <1>8 DEF CancelEnds, AtEnd, Goto, TypesOK, SameAt, SameFile
<1>9. CASE get_device_mapping(u)
  BY <1>9 DEF get_device_mapping, objectVars, TypesOK, SameAt, SameFile
<1>10. CASE UnInitialize(u)
  BY <1>10 DEF UnInitialize, Goto, TypesOK, SameAt, SameFile
<1>11. QED
  BY <1>1, <1>2, <1>3, <1>4, <1>5, <1>6, <1>7, <1>8, <1>9, <1>10 DEF Reading

\* An object that starts to read rests on what was saved.
LEMMA StartedBasis ==
  ASSUME TypesOK, NEW u \in User, NEW operation \in {"load", "cancel"}, StartReading(u, operation)
  PROVE  BasisInv(u)'
<1>1. /\ pc'[u] = "reading" /\ op'[u] = operation /\ pos'[u] = 0 /\ nv'[u] = <<>> /\ basis'[u] = saved
      /\ file' = file /\ saved' = saved
  BY DEF StartReading, Goto, TypesOK
<1>2. NamesTo(file, 0) = {} /\ 0 <= Len(file)
  <2>1. file \in Seq(FileLine)
    BY DEF TypesOK
  <2>2. QED
    BY <2>1 DEF NamesTo
<1>3. ASSUME NEW s \in saved PROVE <<>> = LoadedTo(file, s, 0)
  BY <1>2 DEF LoadedTo
<1>4. QED
  BY <1>1, <1>2, <1>3 DEF BasisInv, Loaded

\* One more line of what was saved has been read.
LEMMA LineLoaded ==
  ASSUME NEW s, NEW f \in Seq(FileLine), HasValues(f, s), DOMAIN s \subseteq Name,
         NEW k \in Nat, k < Len(f), NEW nvs, nvs = LoadedTo(f, s, k)
  PROVE  LET line == f[k + 1] IN
         /\ line.type # "BAD"
         /\ line.type = "NV" => /\ line.text # ""
                                /\ Put(nvs, line.text, Trim(line.value)) = LoadedTo(f, s, k + 1)
         /\ line.type # "NV" => nvs = LoadedTo(f, s, k + 1)
<1> DEFINE line == f[k + 1]
<1>1. k + 1 \in 1..Len(f)
  OBVIOUS
<1>2. line.type # "BAD" /\ (line.type = "NV" => line.text \in DOMAIN s /\ line.value = s[line.text])
  BY <1>1 DEF HasValues
<1>3. /\ line.type = "NV" => NamesTo(f, k + 1) = NamesTo(f, k) \cup {line.text}
      /\ line.type # "NV" => NamesTo(f, k + 1) = NamesTo(f, k)
  BY NamesToStep
<1>4. line.type = "NV" => line.text # ""
  BY <1>2, ConfigurationAssumption
<1> HIDE DEF line
<1>5. ASSUME line.type = "NV"
      PROVE  Put(nvs, line.text, Trim(line.value)) = LoadedTo(f, s, k + 1)
  BY <1>2, <1>3, <1>5 DEF Put, LoadedTo
<1>6. QED
  BY <1>2, <1>3, <1>4, <1>5 DEF line, LoadedTo

\* All of it has been read.
LEMMA AllLoaded ==
  ASSUME TypesOK, NEW u \in User, AtEnd(u), NEW s, Loaded(u, s), NamesOf(file) = DOMAIN s
  PROVE  nv[u] = TrimmedData(s)
<1>1. pos[u] <= Len(file) /\ nv[u] = LoadedTo(file, s, pos[u])
      /\ ~(op[u] = "defaults")
  BY DEF AtEnd, Loaded
<1>2. pos[u] >= Len(file)
  BY <1>1 DEF AtEnd, Source
<1>3. pos[u] = Len(file)
  <2>1. pos[u] \in Nat /\ Len(file) \in Nat
    BY DEF TypesOK
  <2>2. QED
    BY <1>1, <1>2, <2>1
<1>4. NamesTo(file, pos[u]) = DOMAIN s
  BY <1>3 DEF NamesTo, NamesOf
<1>5. QED
  BY <1>1, <1>4 DEF TrimmedData, LoadedTo

LEMMA ReadingBasis ==
  ASSUME TypesOK, SavedInv, NEW u \in User, BasisInv(u), Reading(u)
  PROVE  BasisInv(u)'
<1>0. /\ SameFile /\ kind \in {"gw6c", "hap6"}
      /\ DOMAIN pc = User /\ DOMAIN op = User /\ DOMAIN pos = User /\ DOMAIN nv = User
      /\ DOMAIN bValid = User /\ DOMAIN basis = User
  BY ReadingFrame DEF TypesOK
<1>1. CASE initialize(u)
  BY <1>1, StartedBasis DEF initialize, Load
<1>2. CASE init_hap6_devmap(u)
  BY <1>2, StartedBasis DEF init_hap6_devmap, Load
<1>3. CASE LoadFails(u)
  <2>1. basis'[u] = {}
    BY <1>3 DEF LoadFails, BasisInv
  <2>2. QED
    BY <2>1 DEF BasisInv
<1>4. CASE Reload(u)
  BY <1>4, StartedBasis DEF Reload
<1>5. CASE ReadLine(u)
  <2>1. CASE basis'[u] = {}
    <3>1. pc[u] = "reading"
      BY <1>5 DEF ReadLine
    <3>2. QED
      BY <2>1 DEF BasisInv
  <2>2. CASE basis'[u] # {}
    <3> DEFINE line == Source(u)[pos[u] + 1]
    <3>1. line.type # "BAD" /\ UNCHANGED <<pc, op, basis>> /\ pos'[u] = pos[u] + 1
          /\ pc[u] = "reading" /\ pos[u] < Len(Source(u))
      BY <1>0, <1>5, <2>2 DEF ReadLine
    <3>2. ASSUME NEW s \in basis[u]
          PROVE  /\ s \in saved /\ op[u] \in {"load", "cancel"} /\ pos[u] + 1 <= Len(file)
                 /\ nv'[u] = LoadedTo(file, s, pos[u] + 1)
      <4>1. s \in saved /\ op[u] \in {"load", "cancel"} /\ nv[u] = LoadedTo(file, s, pos[u])
        BY <3>1 DEF BasisInv, Loaded
      <4>2. Source(u) = file
        BY <4>1 DEF Source
      <4>3. file \in Seq(FileLine) /\ pos[u] \in Nat /\ pos[u] < Len(file)
        BY <3>1, <4>2 DEF TypesOK
      <4>4. HasValues(file, s) /\ DOMAIN s \subseteq Name
        BY <4>1 DEF SavedInv
      <4>5. /\ line.type = "NV" => /\ line.text # ""
                                   /\ Put(nv[u], line.text, Trim(line.value)) = LoadedTo(file, s, pos[u] + 1)
            /\ line.type # "NV" => nv[u] = LoadedTo(file, s, pos[u] + 1)
        BY <4>1, <4>2, <4>3, <4>4, LineLoaded
      <4>6. /\ line.type # "NV" => nv' = nv
            /\ line.type = "NV" /\ line.text # "" => nv'[u] = Put(nv[u], line.text, Trim(line.value))
        BY <1>0, <1>5, <3>1 DEF ReadLine, AddNameValue
      <4> HIDE DEF line
      <4>7. pos[u] + 1 <= Len(file)
        BY <4>3
      <4>8. QED
        BY <4>1, <4>5, <4>6, <4>7
    <3>3. QED
      BY <1>0, <3>1, <3>2 DEF BasisInv, Loaded, SameFile
  <2>3. QED
    BY <2>1, <2>2
<1>6. CASE LoadEnds(u)
  <2>1. /\ pc'[u] = "idle" /\ nv' = nv /\ basis' = basis /\ kind = "gw6c" /\ AtEnd(u)
        /\ bValid'[u] = ValidateConfigData(nv[u])
    BY <1>0, <1>6 DEF LoadEnds, Goto
  <2>2. ASSUME NEW s \in basis[u]
        PROVE  s \in saved /\ nv[u] = TrimmedData(s) /\ (NotBlank(s) => ValidateConfigData(nv[u]))
    <3>1. s \in saved /\ Loaded(u, s)
      BY DEF BasisInv
    <3>2. NamesOf(file) = DOMAIN s /\ ValidateConfigData(s)
      BY <2>1, <3>1 DEF SavedInv, Savable
    <3>3. QED
      BY <2>1, <3>1, <3>2, AllLoaded, TrimmedIsValid
  <2>3. QED
    BY <1>0, <2>1, <2>2 DEF BasisInv, Loaded, SameFile, NotBlank
<1>7. CASE MappingsLoaded(u)
  <2>1. /\ pc'[u] = "idle" /\ nv'[u] = Without(nv[u], InvalidMappings(nv[u])) /\ basis' = basis /\ kind = "hap6"
        /\ bValid'[u] = (InvalidMappings(nv[u]) = {}) /\ AtEnd(u)
    BY <1>0, <1>7 DEF MappingsLoaded, Goto
  <2>2. ASSUME NEW s \in basis[u]
        PROVE  s \in saved /\ nv'[u] = TrimmedData(s) /\ bValid'[u]
    <3>1. s \in saved /\ Loaded(u, s)
      BY DEF BasisInv
    <3>2. NamesOf(file) = DOMAIN s /\ InvalidMappings(s) = {} /\ TrimmedData(s) = s
      BY <2>1, <3>1 DEF SavedInv, Savable
    <3>3. nv[u] = TrimmedData(s)
      BY <2>1, <3>1, <3>2, AllLoaded
    <3>4. Without(TrimmedData(s), {}) = TrimmedData(s)
      BY DEF Without, TrimmedData
    <3>5. QED
      BY <2>1, <3>1, <3>2, <3>3, <3>4
  <2>3. QED
    BY <1>0, <2>1, <2>2 DEF BasisInv, Loaded, SameFile
<1>8. CASE CancelEnds(u)
  <2>1. pc'[u] = "idle" /\ nv' = nv /\ basis' = basis /\ op' = op /\ op[u] = "cancel" /\ AtEnd(u)
    BY <1>0, <1>8 DEF CancelEnds, Goto
  <2>2. ASSUME NEW s \in basis[u]
        PROVE  s \in saved /\ nv[u] = TrimmedData(s)
    <3>1. s \in saved /\ Loaded(u, s)
      BY DEF BasisInv
    <3>2. NamesOf(file) = DOMAIN s
      BY <3>1 DEF SavedInv
    <3>3. QED
      BY <2>1, <3>1, <3>2, AllLoaded
  <2>3. QED
    BY <1>0, <2>1, <2>2 DEF BasisInv, Loaded, SameFile
<1>9. CASE get_device_mapping(u)
  <2>1. SameAt(u)
    BY <1>9 DEF get_device_mapping, objectVars, SameAt
  <2>2. QED
    BY <1>0, <2>1, BasisKept
<1>10. CASE UnInitialize(u)
  BY <1>0, <1>10 DEF UnInitialize, Goto, BasisInv
<1>11. QED
  BY <1>1, <1>2, <1>3, <1>4, <1>5, <1>6, <1>7, <1>8, <1>9, <1>10 DEF Reading

LEMMA OneMore ==
  ASSUME NEW S, NEW ls \in Seq(S), NEW k \in Nat, k < Len(ls)
  PROVE  /\ SubSeq(ls, 1, k) \in Seq(S) /\ ls[k + 1] \in S
         /\ SubSeq(ls, 1, k + 1) = Append(SubSeq(ls, 1, k), ls[k + 1])
<1>1. /\ SubSeq(ls, 1, k) \in Seq(S) /\ ls[k + 1] \in S
      /\ Len(SubSeq(ls, 1, k)) = k /\ Len(SubSeq(ls, 1, k + 1)) = k + 1
      /\ SubSeq(ls, 1, k + 1) \in Seq(S)
  OBVIOUS
<1>2. SubSeq(ls, 1, k + 1) = Append(SubSeq(ls, 1, k), ls[k + 1])
  BY <1>1
<1>3. QED
  BY <1>1, <1>2

LEMMA DefaultsStarted ==
  ASSUME nv'[Editor] = <<>>, pos'[Editor] = 0, basis'[Editor] = {}, kind' = "gw6c"
  PROVE  DefaultsInv'
<1>1. DefaultFile \in Seq(FileLine) /\ 0 <= Len(DefaultFile)
  <2>1. DefaultFile \in Seq(FileLine)
    BY ConfigurationAssumption
  <2>2. QED
    BY <2>1
<1>2. SubSeq(DefaultFile, 1, 0) = <<>>
  BY <1>1
<1>3. SettingsOf(<<>>) = <<>>
  BY DEF SettingsOf
<1>4. 1..0 = {}
  OBVIOUS
<1>5. QED
  BY <1>1, <1>2, <1>3, <1>4 DEF DefaultsInv

LEMMA ReadingDefaults ==
  ASSUME TypesOK, Editor \in User, Editor \notin Readers, DefaultsInv, Reading(Editor)
  PROVE  DefaultsInv'
<1>0. SameFile /\ DOMAIN pc = User /\ DOMAIN op = User /\ DOMAIN pos = User /\ DOMAIN nv = User
  BY ReadingFrame DEF TypesOK
<1>1. CASE initialize(Editor)
  BY <1>0, <1>1 DEF initialize, Load, StartReading, DefaultsInv
<1>2. CASE init_hap6_devmap(Editor)
  BY <1>0, <1>2 DEF init_hap6_devmap, Load, StartReading, DefaultsInv
<1>3. CASE LoadFails(Editor)
  BY <1>0, <1>3 DEF LoadFails, Goto, DefaultsInv
<1>4. CASE Reload(Editor)
  BY <1>4 DEF Reload
<1>5. CASE ReadLine(Editor)
  <2> DEFINE k == pos[Editor]
             line == Source(Editor)[k + 1]
  <2>1. CASE line.type = "BAD"
    BY <1>0, <1>5, <2>1 DEF ReadLine, Goto, DefaultsInv
  <2>2. CASE line.type # "BAD" /\ op[Editor] # "defaults"
    BY <1>0, <1>5, <2>2 DEF ReadLine, DefaultsInv
  <2>3. CASE line.type # "BAD" /\ op[Editor] = "defaults"
    <3>1. /\ UNCHANGED <<pc, op, basis, kind>> /\ pos'[Editor] = k + 1 /\ pc[Editor] = "reading"
          /\ Source(Editor) = DefaultFile /\ k < Len(DefaultFile)
      BY <1>0, <1>5, <2>3 DEF ReadLine, Source, SameFile
    <3>2. /\ kind = "gw6c" /\ basis[Editor] = {} /\ \A i \in 1..k : DefaultFile[i].type # "BAD"
          /\ nv[Editor] = SettingsOf(SubSeq(DefaultFile, 1, k))
      BY <2>3, <3>1 DEF DefaultsInv
    <3>3. DefaultFile \in Seq(FileLine) /\ k \in Nat
      BY ConfigurationAssumption DEF TypesOK
    <3> DEFINE ls == SubSeq(DefaultFile, 1, k)
               next == DefaultFile[k + 1]
    <3>4. /\ ls \in Seq(FileLine) /\ next \in FileLine /\ line = next
          /\ SubSeq(DefaultFile, 1, k + 1) = Append(ls, next)
      <4>1. k \in Nat /\ k < Len(DefaultFile) /\ line = next
        BY <3>1, <3>3
      <4> HIDE DEF k, line
      <4>2. QED
        BY <3>3, <4>1, OneMore
    <3>5. nv'[Editor] = IF next.type = "NV" /\ next.text # "" THEN Put(nv[Editor], next.text, Trim(next.value))
                        ELSE nv[Editor]
      <4>1. \/ line.type = "NV" /\ AddNameValue(Editor, line.text, line.value)
            \/ line.type \in {"COMMENT", "EMPTYLINE"} /\ nv' = nv
        BY <1>5, <2>3 DEF ReadLine
      <4> HIDE DEF line, next
      <4>2. QED
        BY <1>0, <3>4, <4>1 DEF AddNameValue
    <3>6. nv'[Editor] = SettingsOf(SubSeq(DefaultFile, 1, k + 1))
      <4>1. nv[Editor] = SettingsOf(ls)
        BY <3>2
      <4> HIDE DEF ls, next
      <4>2. QED
        <5>1. next.type = "NV" /\ next.text # "" =>
                SettingsOf(Append(ls, next)) = Put(SettingsOf(ls), next.text, Trim(next.value))
          BY <3>4, SettingsStep
        <5>2. ~(next.type = "NV" /\ next.text # "") => SettingsOf(Append(ls, next)) = SettingsOf(ls)
          BY <3>4, SettingsStep
        <5>3. QED
          BY <3>4, <3>5, <4>1, <5>1, <5>2
    <3>7. \A i \in 1..(k + 1) : DefaultFile[i].type # "BAD"
      <4>1. \A i \in 1..(k + 1) : i \in 1..k \/ i = k + 1
        BY <3>3
      <4>2. next.type # "BAD"
        BY <2>3, <3>4
      <4>3. QED
        BY <3>2, <4>1, <4>2
    <3>8. k + 1 <= Len(DefaultFile)
      BY <3>1, <3>3
    <3> HIDE DEF k, line, ls, next
    <3>9. QED
      BY <3>1, <3>2, <3>6, <3>7, <3>8 DEF DefaultsInv
  <2>4. QED
    BY <2>1, <2>2, <2>3
<1>6. CASE LoadEnds(Editor)
  BY <1>0, <1>6 DEF LoadEnds, Goto, DefaultsInv
<1>7. CASE MappingsLoaded(Editor)
  BY <1>0, <1>7 DEF MappingsLoaded, Goto, DefaultsInv
<1>8. CASE CancelEnds(Editor)
  BY <1>0, <1>8 DEF CancelEnds, Goto, DefaultsInv
<1>9. CASE get_device_mapping(Editor)
  BY <1>9 DEF get_device_mapping
<1>10. CASE UnInitialize(Editor)
  BY <1>10 DEF UnInitialize
<1>11. QED
  BY <1>1, <1>2, <1>3, <1>4, <1>5, <1>6, <1>7, <1>8, <1>9, <1>10 DEF Reading

-------------------------------------------------------------------------------
(* Device mappings have no blanks                                               *)

LEMMA TrimmedKept ==
  ASSUME DataInv, MappingsTrimmed, kind' = kind, NEW u \in User,
         \A w \in User \ {u} : nv'[w] = nv[w],
         kind = "hap6" =>
           \/ nv'[u] \in {<<>>, nv[u]}
           \/ \E names : nv'[u] = Without(nv[u], names)
           \/ \E n, v : Trim(v) = v /\ nv'[u] = Put(nv[u], n, v)
  PROVE  MappingsTrimmed'
<1>1. SUFFICES ASSUME kind = "hap6", NEW w \in User, NEW m \in DOMAIN nv'[w]
               PROVE  Trim(nv'[w][m]) = nv'[w][m]
  BY DEF MappingsTrimmed, User
<1>2. \A n \in DOMAIN nv[w] : Trim(nv[w][n]) = nv[w][n]
  BY <1>1 DEF MappingsTrimmed
<1>3. CASE nv'[w] = nv[w]
  BY <1>2, <1>3
<1>4. CASE nv'[w] = <<>>
  BY <1>1, <1>4
<1>5. CASE w = u /\ \E names : nv'[u] = Without(nv[u], names)
  BY <1>2, <1>5 DEF Without
<1>6. CASE w = u /\ \E n, v : Trim(v) = v /\ nv'[u] = Put(nv[u], n, v)
  BY <1>2, <1>6 DEF Put
<1>7. QED
  BY <1>1, <1>3, <1>4, <1>5, <1>6

LEMMA ReadingTrimmed ==
  ASSUME DataInv, MappingsTrimmed, NEW u \in User, Reading(u)
  PROVE  MappingsTrimmed'
<1>0. TypesOK /\ DOMAIN nv = User /\ kind' = kind /\ \A w \in User \ {u} : nv'[w] = nv[w]
  BY ReadingFrame DEF DataInv, TypesOK, SameFile, SameAt
<1> DEFINE Fits == \/ nv'[u] \in {<<>>, nv[u]}
                   \/ \E names : nv'[u] = Without(nv[u], names)
                   \/ \E n, v : Trim(v) = v /\ nv'[u] = Put(nv[u], n, v)
<1>1. CASE initialize(u)
  <2>1. Fits
    BY <1>0, <1>1 DEF initialize, Load, StartReading
  <2>2. QED
    BY <1>0, <2>1, TrimmedKept
<1>2. CASE init_hap6_devmap(u)
  <2>1. Fits
    BY <1>0, <1>2 DEF init_hap6_devmap, Load, StartReading
  <2>2. QED
    BY <1>0, <2>1, TrimmedKept
<1>3. CASE LoadFails(u)
  <2>1. Fits
    BY <1>3 DEF LoadFails, objectVars
  <2>2. QED
    BY <1>0, <2>1, TrimmedKept
<1>4. CASE Reload(u)
  <2>1. Fits
    BY <1>0, <1>4 DEF Reload, StartReading
  <2>2. QED
    BY <1>0, <2>1, TrimmedKept
<1>5. CASE ReadLine(u)
  <2> DEFINE line == Source(u)[pos[u] + 1]
  <2>1. nv'[u] = nv[u] \/ nv'[u] = Put(nv[u], line.text, Trim(line.value))
    BY <1>0, <1>5 DEF ReadLine, AddNameValue
  <2> HIDE DEF line
  <2>2. Fits
    BY <2>1, TrimIdempotent
  <2>3. QED
    BY <1>0, <2>2, TrimmedKept
<1>6. CASE LoadEnds(u)
  <2>1. Fits
    BY <1>6 DEF LoadEnds
  <2>2. QED
    BY <1>0, <2>1, TrimmedKept
<1>7. CASE MappingsLoaded(u)
  <2>1. Fits
    BY <1>0, <1>7 DEF MappingsLoaded
  <2>2. QED
    BY <1>0, <2>1, TrimmedKept
<1>8. CASE CancelEnds(u)
  <2>1. Fits
    BY <1>8 DEF CancelEnds
  <2>2. QED
    BY <1>0, <2>1, TrimmedKept
<1>9. CASE get_device_mapping(u)
  <2>1. Fits
    BY <1>9 DEF get_device_mapping, objectVars
  <2>2. QED
    BY <1>0, <2>1, TrimmedKept
<1>10. CASE UnInitialize(u)
  <2>1. Fits
    BY <1>0, <1>10 DEF UnInitialize
  <2>2. QED
    BY <1>0, <2>1, TrimmedKept
<1>11. QED
  BY <1>1, <1>2, <1>3, <1>4, <1>5, <1>6, <1>7, <1>8, <1>9, <1>10 DEF Reading

-------------------------------------------------------------------------------
(* Writing                                                                      *)

LEMMA HasValuesAppend ==
  ASSUME NEW f \in Seq(FileLine), NEW line \in FileLine, NEW s, HasValues(f, s), line.type # "BAD",
         line.type = "NV" => line.text \in DOMAIN s /\ line.value = s[line.text]
  PROVE  HasValues(Append(f, line), s)
<1> DEFINE g == Append(f, line)
<1>1. /\ Len(f) \in Nat /\ Len(g) = Len(f) + 1 /\ g[Len(f) + 1] = line
      /\ \A i \in 1..Len(f) : g[i] = f[i]
  OBVIOUS
<1> HIDE DEF g
<1>2. ASSUME NEW i \in 1..Len(g)
      PROVE  g[i].type # "BAD" /\ (g[i].type = "NV" => g[i].text \in DOMAIN s /\ g[i].value = s[g[i].text])
  <2>1. i \in 1..Len(f) \/ i = Len(f) + 1
    BY <1>1
  <2>2. QED
    BY <1>1, <2>1 DEF HasValues
<1>3. QED
  BY <1>2 DEF HasValues, g

LEMMA WritingStarted ==
  ASSUME TypesOK, Editor \in User, StartWriting, kind' = kind, nv' = nv, Savable(nv[Editor]), lines'[Editor] \in Seq(KnownLine)
  PROVE  WriteInv' /\ SavedInv' /\ DefaultsInv' /\ \A u \in User : BasisInv(u)'
<1>1. /\ pc'[Editor] = "writing" /\ pos'[Editor] = 0 /\ file' = <<>> /\ saved' = {} /\ \A u \in User : basis'[u] = {}
  BY DEF StartWriting, Goto, TypesOK
<1>2. 0 <= Len(lines'[Editor])
  OBVIOUS
<1>3. NamesOf(<<>>) = {} /\ NamesTo(lines'[Editor], 0) = {} /\ HasValues(<<>>, nv[Editor])
  BY DEF NamesOf, NamesTo, HasValues
<1>4. WriteInv'
  BY <1>1, <1>2, <1>3 DEF WriteInv, Savable
<1>5. QED
  BY <1>1, <1>4 DEF SavedInv, DefaultsInv, BasisInv

LEMMA LineWritten ==
  ASSUME DataInv, Editor \in User, WriteInv, WriteLine
  PROVE  WriteInv'
<1> DEFINE k == pos[Editor]
           line == lines[Editor][k + 1]
           s == nv[Editor]
<1>1. /\ pc[Editor] = "writing" /\ k < Len(lines[Editor]) /\ file' = file \o Written(line, s)
      /\ UNCHANGED <<kind, pc, nv, lines, saved, basis>>
      /\ pos' = [pos EXCEPT ![Editor] = k + 1] /\ DOMAIN pos = User /\ k \in Nat
  BY DEF WriteLine, objectVars, DataInv, TypesOK
<1>2. /\ lines[Editor] \in Seq(KnownLine) /\ Data(s) /\ DOMAIN s = NamesOf(lines[Editor]) /\ file \in Seq(FileLine)
  BY DEF DataInv, DataOK, TypesOK
<1>3. saved = {} /\ \A u \in User : basis[u] = {}
  BY <1>1 DEF WriteInv
<1>4. HasValues(file, s) /\ NamesOf(file) = NamesTo(lines[Editor], k) /\ Savable(s)
  BY <1>1 DEF WriteInv
<1>5. k + 1 \in 1..Len(lines[Editor]) /\ line \in KnownLine /\ pos'[Editor] = k + 1
  BY <1>1, <1>2
<1>6. /\ line.type = "NV" => NamesTo(lines[Editor], k + 1) = NamesTo(lines[Editor], k) \cup {line.text}
      /\ line.type # "NV" => NamesTo(lines[Editor], k + 1) = NamesTo(lines[Editor], k)
  BY <1>1, NamesToStep
<1>7. line.type = "NV" => line.text \in DOMAIN s
  BY <1>2, <1>5 DEF NamesOf
<1> HIDE DEF k, line, s
<1>8. HasValues(file', s) /\ NamesOf(file') = NamesTo(lines[Editor], k + 1)
  <2>1. CASE line.type # "NV"
    <3>1. file' = file \o <<line>>
      BY <1>1, <1>2, <1>5, <2>1, WrittenLines
    <3>2. line \in FileLine /\ line.type # "BAD"
      BY <1>5, <2>1 DEF KnownLine, FileLine
    <3>3. file' = Append(file, line)
      BY <1>2, <3>1, <3>2
    <3>4. HasValues(file', s)
      BY <1>2, <1>4, <2>1, <3>2, <3>3, HasValuesAppend
    <3>5. NamesOf(file') = NamesOf(file)
      BY <1>2, <2>1, <3>2, <3>3, NamesOfAppend
    <3>6. QED
      BY <1>4, <1>6, <2>1, <3>4, <3>5
  <2>2. CASE line.type = "NV"
    <3> DEFINE new == [type |-> "NV", text |-> line.text, value |-> s[line.text]]
    <3>1. file' = file \o <<new>>
      BY <1>1, <1>2, <1>5, <1>7, <2>2, WrittenLines
    <3>2. line.text \in Name /\ s[line.text] \in Value
      BY <1>2, <1>5, <1>7, <2>2 DEF KnownLine, Data
    <3>3. new \in FileLine /\ new.type = "NV" /\ new.text = line.text /\ new.value = s[new.text]
      BY <3>2 DEF FileLine
    <3> HIDE DEF new
    <3>4. file' = Append(file, new)
      BY <1>2, <3>1, <3>3
    <3>5. HasValues(file', s)
      BY <1>2, <1>4, <1>7, <2>2, <3>3, <3>4, HasValuesAppend
    <3>6. NamesOf(file') = NamesOf(file) \cup {new.text}
      BY <1>2, <3>3, <3>4, NamesOfAppend
    <3>7. QED
      BY <1>4, <1>6, <2>2, <3>3, <3>5, <3>6
  <2>3. QED
    BY <2>1, <2>2
<1>9. k + 1 <= Len(lines[Editor])
  BY <1>5
<1>10. QED
  BY <1>1, <1>3, <1>4, <1>5, <1>8, <1>9 DEF WriteInv, Savable, s

\* What has been written to the end is what the editor has.
LEMMA WritingEnded ==
  ASSUME DataInv, Editor \in User, MappingsTrimmed, WriteInv, WriteEnds
  PROVE  SavedInv'
<1> DEFINE s == nv[Editor]
<1>1. /\ pc[Editor] = "writing" /\ pos[Editor] = Len(lines[Editor])
      /\ kind' = kind /\ file' = file /\ saved' = {s}
  BY DEF WriteEnds
<1>2. /\ lines[Editor] \in Seq(KnownLine) /\ Data(s) /\ DOMAIN s = NamesOf(lines[Editor])
  BY DEF DataInv, DataOK
<1>3. NamesOf(lines[Editor]) \subseteq Name
  <2>1. \A i \in 1..Len(lines[Editor]) : lines[Editor][i] \in KnownLine
    BY <1>2
  <2>2. QED
    BY <2>1 DEF NamesOf, KnownLine
<1>4. NamesOf(lines[Editor]) = NamesTo(lines[Editor], pos[Editor])
  BY <1>1 DEF NamesOf, NamesTo
<1>5. HasValues(file, s) /\ NamesOf(file) = DOMAIN s /\ Savable(s)
  BY <1>1, <1>2, <1>4 DEF WriteInv
<1>6. kind = "hap6" => TrimmedData(s) = s
  <2>1. s = [n \in DOMAIN s |-> s[n]]
    BY <1>2 DEF Data
  <2>2. kind = "hap6" => \A n \in DOMAIN s : Trim(s[n]) = s[n]
    BY DEF MappingsTrimmed
  <2> HIDE DEF s
  <2>3. QED
    BY <2>1, <2>2 DEF TrimmedData
<1> HIDE DEF s
<1>7. QED
  BY <1>1, <1>2, <1>3, <1>5, <1>6 DEF SavedInv, Savable

-------------------------------------------------------------------------------
(* The steps of editing                                                         *)

\* How the objects and the file fit together.
FileInv == WriteInv /\ SavedInv /\ DefaultsInv /\ \A u \in User : BasisInv(u)

SaveInv == DataInv /\ Inv /\ MappingsTrimmed /\ FileInv

\* The editor does something else than write.
LEMMA NotWriting ==
  ASSUME FileInv, SameFile, Editor \in User, \A u \in User \ {Editor} : SameAt(u),
         pc'[Editor] # "writing", DefaultsInv', BasisInv(Editor)'
  PROVE  FileInv'
<1>1. ASSUME NEW u \in User PROVE BasisInv(u)'
  <2>1. CASE u = Editor
    BY <2>1
  <2>2. CASE u # Editor
    BY <2>2, BasisKept DEF FileInv
  <2>3. QED
    BY <2>1, <2>2
<1>2. WriteInv'
  BY DEF WriteInv
<1>3. SavedInv'
  BY SavedKept DEF FileInv
<1>4. QED
  BY <1>1, <1>2, <1>3 DEF FileInv, User

\* The editor changes a value.
LEMMA ValueChanged ==
  ASSUME TypesOK, FileInv, SameFile, Editor \in User, \A u \in User \ {Editor} : SameAt(u),
         pc[Editor] = "idle", pc' = pc, basis'[Editor] = {}
  PROVE  FileInv'
<1>1. pc'[Editor] = "idle"
  OBVIOUS
<1>2. DefaultsInv' /\ BasisInv(Editor)'
  BY <1>1 DEF DefaultsInv, BasisInv
<1>3. QED
  BY <1>1, <1>2, NotWriting

LEMMA EditingFiles ==
  ASSUME SaveInv, Editing
  PROVE  FileInv'
<1>0. /\ TypesOK /\ FileInv /\ DataOK(Editor) /\ Editor \in User /\ Editor \notin Readers
      /\ DOMAIN pc = User /\ DOMAIN op = User /\ DOMAIN pos = User /\ DOMAIN nv = User /\ DOMAIN lines = User
      /\ DOMAIN bValid = User /\ DOMAIN basis = User
  BY ConfigurationAssumption DEF SaveInv, FileInv, DataInv, TypesOK, User
<1>1. CASE \E e \in Edits[kind] : Set(e[1], e[2])
  <2>1. SameFile /\ (\A u \in User \ {Editor} : SameAt(u)) /\ pc[Editor] = "idle" /\ pc' = pc /\ basis'[Editor] = {}
    BY <1>0, <1>1 DEF Set, SetVariableValue, SameFile, SameAt
  <2>2. QED
    BY <1>0, <2>1, ValueChanged
<1>2. CASE \E e \in Edits[kind] : AddDeviceMapping(e[1], e[2])
  <2>1. SameFile /\ (\A u \in User \ {Editor} : SameAt(u)) /\ pc[Editor] = "idle" /\ pc' = pc /\ basis'[Editor] = {}
    BY <1>0, <1>2 DEF AddDeviceMapping, SetVariableValue, SameFile, SameAt
  <2>2. QED
    BY <1>0, <2>1, ValueChanged
<1>3. CASE \E e \in Edits[kind] : DelDeviceMapping(e[1])
  <2>1. SameFile /\ (\A u \in User \ {Editor} : SameAt(u)) /\ pc[Editor] = "idle" /\ pc' = pc /\ basis'[Editor] = {}
    BY <1>0, <1>3 DEF DelDeviceMapping, RemoveVariables, SameFile, SameAt
  <2>2. QED
    BY <1>0, <2>1, ValueChanged
<1>4. CASE CancelChanges
  <2>1. SameFile /\ (\A u \in User \ {Editor} : SameAt(u)) /\ pc'[Editor] = "reading" /\ op'[Editor] = "cancel"
    BY <1>0, <1>4 DEF CancelChanges, StartReading, Goto, SameFile, SameAt
  <2>2. BasisInv(Editor)'
    BY <1>0, <1>4, StartedBasis DEF CancelChanges
  <2>3. DefaultsInv'
    BY <2>1 DEF DefaultsInv
  <2>4. QED
    BY <1>0, <2>1, <2>2, <2>3, NotWriting
<1>5. CASE LoadDefaults
  <2>1. SameFile /\ (\A u \in User \ {Editor} : SameAt(u)) /\ pc'[Editor] = "reading" /\ kind' = "gw6c"
        /\ nv'[Editor] = <<>> /\ pos'[Editor] = 0 /\ basis'[Editor] = {}
    BY <1>0, <1>5 DEF LoadDefaults, StartReading, Goto, SameFile, SameAt
  <2>2. BasisInv(Editor)'
    BY <2>1 DEF BasisInv
  <2>3. DefaultsInv'
    BY <2>1, DefaultsStarted
  <2>4. QED
    BY <1>0, <2>1, <2>2, <2>3, NotWriting
<1>6. CASE DefaultsRead
  <2>1. StartWriting /\ kind' = kind /\ nv' = nv /\ lines'[Editor] = Append(lines[Editor], [type |-> "EMPTYLINE", text |-> ""])
    BY <1>0, <1>6 DEF DefaultsRead, AddEmptyLine
  <2>2. lines'[Editor] \in Seq(KnownLine)
    <3> DEFINE line == [type |-> "EMPTYLINE", text |-> ""]
    <3>1. lines'[Editor] = Append(lines[Editor], line) /\ line \in KnownLine /\ lines[Editor] \in Seq(KnownLine)
      BY <1>0, <2>1, KnownLines DEF DataOK
    <3> HIDE DEF line
    <3>2. QED
      BY <3>1
  <2>3. pc[Editor] = "reading" /\ op[Editor] = "defaults" /\ pos[Editor] >= Len(DefaultFile)
    BY <1>6 DEF DefaultsRead, AtEnd, Source
  <2>4. /\ kind = "gw6c" /\ pos[Editor] <= Len(DefaultFile)
        /\ \A i \in 1..pos[Editor] : DefaultFile[i].type # "BAD"
        /\ nv[Editor] = SettingsOf(SubSeq(DefaultFile, 1, pos[Editor]))
    BY <1>0, <2>3 DEF FileInv, DefaultsInv
  <2>5. DefaultFile \in Seq(FileLine) /\ pos[Editor] = Len(DefaultFile)
    <3>1. DefaultFile \in Seq(FileLine) /\ pos[Editor] \in Nat
      BY <1>0, ConfigurationAssumption DEF TypesOK
    <3>2. QED
      BY <2>3, <2>4, <3>1
  <2>6. SubSeq(DefaultFile, 1, pos[Editor]) = DefaultFile
    BY <2>5
  <2>7. Savable(nv[Editor])
    BY <2>4, <2>5, <2>6, ConfigurationAssumption DEF Savable
  <2>8. QED
    BY <1>0, <2>1, <2>2, <2>7, WritingStarted DEF FileInv
<1>7. CASE Save
  <2>1. kind = "gw6c" /\ kind' = kind /\ nv' = nv /\ lines' = lines /\ pc[Editor] = "idle"
        /\ bValid' = [bValid EXCEPT ![Editor] = TRUE]
    BY <1>7 DEF Save
  <2>2. CASE ValidateConfigData(nv[Editor]) /\ StartWriting
    <3>1. lines'[Editor] \in Seq(KnownLine) /\ Savable(nv[Editor])
      BY <1>0, <2>1, <2>2 DEF DataOK, Savable
    <3>2. QED
      BY <1>0, <2>1, <2>2, <3>1, WritingStarted DEF FileInv
  <2>3. CASE UNCHANGED <<file, pc, op, pos, saved, basis>>
    <3>1. SameFile /\ \A u \in User \ {Editor} : SameAt(u)
      BY <1>0, <2>1, <2>3 DEF SameFile, SameAt
    <3>2. DefaultsInv'
      BY <2>1, <2>3 DEF DefaultsInv
    <3>3. bValid'[Editor] /\ pc'[Editor] = "idle" /\ basis' = basis /\ saved' = saved /\ nv' = nv /\ BasisInv(Editor)
      BY <1>0, <2>1, <2>3 DEF FileInv
    <3>4. BasisInv(Editor)'
      BY <2>1, <3>3 DEF BasisInv, Loaded
    <3>5. QED
      BY <1>0, <3>1, <3>2, <3>3, <3>4, NotWriting
  <2>4. QED
    BY <1>7, <2>2, <2>3 DEF Save
<1>8. CASE SaveMappings
  <2>1. kind = "hap6" /\ kind' = kind /\ pc[Editor] = "idle" /\ bValid' = bValid
    BY <1>8 DEF SaveMappings
  <2>2. CASE InvalidMappings(nv[Editor]) = {}
    <3>1. StartWriting /\ nv' = nv /\ lines' = lines
      BY <1>8, <2>2 DEF SaveMappings
    <3>2. lines'[Editor] \in Seq(KnownLine) /\ Savable(nv[Editor])
      BY <1>0, <2>1, <2>2, <3>1 DEF DataOK, Savable
    <3>3. QED
      BY <1>0, <2>1, <3>1, <3>2, WritingStarted DEF FileInv
  <2>3. CASE InvalidMappings(nv[Editor]) # {}
    <3>1. RemoveVariables(Editor, InvalidMappings(nv[Editor])) /\ UNCHANGED <<file, pc, op, pos, saved, basis>>
      BY <1>8, <2>3 DEF SaveMappings
    <3>2. SameFile /\ \A u \in User \ {Editor} : SameAt(u)
      BY <1>0, <2>1, <3>1 DEF RemoveVariables, SameFile, SameAt
    <3>3. DefaultsInv'
      BY <2>1, <3>1 DEF DefaultsInv
    <3>4. basis[Editor] = {}
      <4>1. SUFFICES ASSUME NEW s \in basis[Editor] PROVE FALSE
        OBVIOUS
      <4>2. s \in saved /\ nv[Editor] = TrimmedData(s)
        BY <1>0, <2>1 DEF FileInv, BasisInv, Loaded
      <4>3. TrimmedData(s) = s /\ InvalidMappings(s) = {}
        BY <1>0, <2>1, <4>2 DEF FileInv, SavedInv, Savable
      <4>4. QED
        BY <2>3, <4>2, <4>3
    <3>5. pc'[Editor] = "idle" /\ BasisInv(Editor)'
      BY <2>1, <3>1, <3>4 DEF BasisInv
    <3>6. QED
      BY <1>0, <3>2, <3>3, <3>5, NotWriting
  <2>4. QED
    BY <2>2, <2>3
<1>9. CASE WriteLine
  <2>1. WriteInv'
    BY <1>0, <1>9, LineWritten DEF SaveInv, FileInv
  <2>2. pc[Editor] = "writing" /\ pc' = pc /\ saved' = saved /\ basis' = basis
    BY <1>9 DEF WriteLine
  <2>3. saved = {} /\ \A u \in User : basis[u] = {}
    BY <1>0, <2>2 DEF FileInv, WriteInv
  <2>4. QED
    BY <2>1, <2>2, <2>3 DEF FileInv, SavedInv, DefaultsInv, BasisInv, User
<1>10. CASE WriteEnds
  <2>1. SavedInv'
    BY <1>0, <1>10, WritingEnded DEF SaveInv, FileInv
  <2>2. pc[Editor] = "writing" /\ pc'[Editor] = "idle" /\ basis' = basis
    BY <1>0, <1>10 DEF WriteEnds, Goto
  <2>3. \A u \in User : basis[u] = {}
    BY <1>0, <2>2 DEF FileInv, WriteInv
  <2>4. QED
    BY <2>1, <2>2, <2>3 DEF FileInv, WriteInv, DefaultsInv, BasisInv, User
<1>11. CASE WriteFails
  <2>1. SameFile /\ (\A u \in User \ {Editor} : SameAt(u)) /\ pc'[Editor] = "idle" /\ basis' = basis
        /\ pc[Editor] = "reading" /\ op[Editor] = "defaults"
    BY <1>0, <1>11 DEF WriteFails, AtEnd, Goto, SameFile, SameAt
  <2>2. basis[Editor] = {}
    BY <1>0, <2>1 DEF FileInv, DefaultsInv
  <2>3. DefaultsInv' /\ BasisInv(Editor)'
    BY <2>1, <2>2 DEF DefaultsInv, BasisInv
  <2>4. QED
    BY <1>0, <2>1, <2>3, NotWriting
<1>12. CASE EditorEnds
  <2>1. SameFile /\ (\A u \in User \ {Editor} : SameAt(u)) /\ pc'[Editor] = "none" /\ basis'[Editor] = {}
    BY <1>0, <1>12 DEF EditorEnds, Goto, SameFile, SameAt
  <2>2. DefaultsInv' /\ BasisInv(Editor)'
    BY <2>1 DEF DefaultsInv, BasisInv
  <2>3. QED
    BY <1>0, <2>1, <2>2, NotWriting
<1>13. QED
  BY <1>1, <1>2, <1>3, <1>4, <1>5, <1>6, <1>7, <1>8, <1>9, <1>10, <1>11, <1>12 DEF Editing

LEMMA ReadingFiles ==
  ASSUME SaveInv, NEW u \in User, Reading(u)
  PROVE  FileInv'
<1>0. /\ TypesOK /\ FileInv /\ Editor \in User /\ Editor \notin Readers /\ DOMAIN basis = User
  BY ConfigurationAssumption DEF SaveInv, FileInv, DataInv, TypesOK, User
<1>1. /\ SameFile /\ \A w \in User \ {u} : SameAt(w)
      /\ pc[u] # "writing" /\ pc'[u] # "writing"
      /\ basis'[u] \in {{}, saved, basis[u]}
  BY <1>0, ReadingFrame
<1>2. ASSUME NEW w \in User PROVE BasisInv(w)'
  <2>1. CASE w = u
    BY <1>0, <2>1, ReadingBasis DEF FileInv
  <2>2. CASE w # u
    BY <1>0, <1>1, <2>2, BasisKept DEF FileInv
  <2>3. QED
    BY <2>1, <2>2
<1>3. SavedInv'
  BY <1>0, <1>1, SavedKept DEF FileInv
<1>4. DefaultsInv'
  <2>1. CASE u = Editor
    BY <1>0, <2>1, ReadingDefaults DEF FileInv
  <2>2. CASE u # Editor
    BY <1>0, <1>1, <2>2, DefaultsKept DEF FileInv
  <2>3. QED
    BY <2>1, <2>2
<1>5. WriteInv'
  <2>1. CASE u = Editor
    BY <1>1, <2>1 DEF WriteInv
  <2>2. CASE u # Editor
    <3>1. SUFFICES ASSUME pc'[Editor] = "writing" PROVE WriteInv'
      BY DEF WriteInv
    <3>2. pc[Editor] = "writing" /\ SameAt(Editor) /\ SameFile /\ WriteInv
      BY <1>0, <1>1, <2>2, <3>1 DEF SameAt, FileInv
    <3>3. saved = {} /\ \A w \in User : basis[w] = {}
      BY <3>2 DEF WriteInv
    <3>4. \A w \in User : basis'[w] = {}
      BY <1>1, <3>3 DEF SameAt
    <3>5. QED
      BY <3>2, <3>3, <3>4 DEF WriteInv, Savable, SameAt, SameFile
  <2>3. QED
    BY <2>1, <2>2
<1>6. QED
  BY <1>2, <1>3, <1>4, <1>5 DEF FileInv, User

LEMMA EditingTrimmed ==
  ASSUME DataInv, MappingsTrimmed, Editing
  PROVE  MappingsTrimmed'
<1>0. Editor \in User /\ DOMAIN nv = User
  BY DEF User, DataInv, TypesOK
<1> DEFINE Fits == /\ kind' = kind /\ \A w \in User \ {Editor} : nv'[w] = nv[w]
                   /\ kind = "hap6" =>
                        \/ nv'[Editor] \in {<<>>, nv[Editor]}
                        \/ \E names : nv'[Editor] = Without(nv[Editor], names)
                        \/ \E n, v : Trim(v) = v /\ nv'[Editor] = Put(nv[Editor], n, v)
<1>1. CASE \E e \in Edits[kind] : Set(e[1], e[2])
  BY <1>0, <1>1, TrimmedKept DEF Set, SetVariableValue
<1>2. CASE \E e \in Edits[kind] : AddDeviceMapping(e[1], e[2])
  <2>1. PICK e \in Edits[kind] : AddDeviceMapping(e[1], e[2])
    BY <1>2
  <2>2. kind = "hap6" /\ kind' = kind /\ nv'[Editor] = Put(nv[Editor], e[1], e[2])
        /\ \A w \in User \ {Editor} : nv'[w] = nv[w]
    BY <1>0, <2>1 DEF AddDeviceMapping, SetVariableValue
  <2>3. Trim(e[2]) = e[2]
    BY <2>1, <2>2, ConfigurationAssumption
  <2>4. Fits
    BY <2>2, <2>3
  <2>5. QED
    BY <1>0, <2>4, TrimmedKept
<1>3. CASE \E e \in Edits[kind] : DelDeviceMapping(e[1])
  BY <1>0, <1>3, TrimmedKept DEF DelDeviceMapping, RemoveVariables
<1>4. CASE CancelChanges
  BY <1>0, <1>4, TrimmedKept DEF CancelChanges, StartReading
<1>5. CASE LoadDefaults
  BY <1>0, <1>5, TrimmedKept DEF LoadDefaults, StartReading
<1>6. CASE DefaultsRead
  BY <1>0, <1>6, TrimmedKept DEF DefaultsRead
<1>7. CASE Save
  BY <1>0, <1>7, TrimmedKept DEF Save
<1>8. CASE SaveMappings
  BY <1>0, <1>8, TrimmedKept DEF SaveMappings, RemoveVariables
<1>9. CASE WriteLine
  BY <1>0, <1>9, TrimmedKept DEF WriteLine, objectVars
<1>10. CASE WriteEnds
  BY <1>0, <1>10, TrimmedKept DEF WriteEnds
<1>11. CASE WriteFails
  BY <1>0, <1>11, TrimmedKept DEF WriteFails
<1>12. CASE EditorEnds
  BY <1>0, <1>12, TrimmedKept DEF EditorEnds
<1>13. QED
  BY <1>1, <1>2, <1>3, <1>4, <1>5, <1>6, <1>7, <1>8, <1>9, <1>10, <1>11, <1>12 DEF Editing

LEMMA SaveInit == Init => SaveInv
<1> SUFFICES ASSUME Init PROVE SaveInv
  OBVIOUS
<1>1. \A u \in User : nv[u] = <<>> /\ pc[u] = "none" /\ basis[u] = {}
  BY DEF Init
<1>2. Editor \in User
  BY DEF User
<1>3. MappingsTrimmed
  BY <1>1 DEF MappingsTrimmed
<1>4. WriteInv /\ DefaultsInv /\ \A u \in User : BasisInv(u)
  BY <1>1, <1>2 DEF WriteInv, DefaultsInv, BasisInv
<1>5. SavedInv
  BY DEF Init, SavedInv
<1>6. QED
  BY <1>3, <1>4, <1>5, DataInit, InvInit DEF SaveInv, FileInv

LEMMA SaveStep == SaveInv /\ [Next]_vars => SaveInv'
<1> SUFFICES ASSUME SaveInv, [Next]_vars PROVE SaveInv'
  OBVIOUS
<1>1. DataInv' /\ Inv'
  BY DataStep, InvStep DEF SaveInv, FileInv
<1>2. MappingsTrimmed' /\ FileInv'
  <2>1. CASE Editing
    BY <2>1, EditingTrimmed, EditingFiles DEF SaveInv, FileInv
  <2>2. ASSUME NEW u \in User, Reading(u) PROVE MappingsTrimmed' /\ FileInv'
    BY <2>2, ReadingTrimmed, ReadingFiles DEF SaveInv, FileInv
  <2>3. CASE UNCHANGED vars
    <3>1. SameFile /\ (\A w \in User : SameAt(w)) /\ Editor \in User
      BY <2>3 DEF vars, objectVars, SameFile, SameAt, User
    <3>2. MappingsTrimmed'
      BY <2>3 DEF vars, objectVars, MappingsTrimmed, SaveInv, User
    <3>3. WriteInv' /\ SavedInv' /\ DefaultsInv'
      BY <2>3, <3>1, SavedKept, DefaultsKept DEF SaveInv, FileInv, WriteInv, Savable, vars, objectVars, User
    <3>4. \A u \in User : BasisInv(u)'
      BY <3>1, BasisKept DEF SaveInv, FileInv
    <3>5. QED
      BY <3>2, <3>3, <3>4 DEF FileInv, User
  <2>4. QED
    BY <2>1, <2>2, <2>3 DEF Next
<1>3. QED
  BY <1>1, <1>2 DEF SaveInv, FileInv

\* What was saved to the end and then read undisturbed is what the editor had but
\* for the blanks, and valid.
THEOREM SavedLoaded == Spec => []SavedIsLoaded
<1>1. SaveInv => SavedIsLoaded
  BY DEF SaveInv, FileInv, BasisInv, Loaded, TrimmedData, NotBlank, SavedIsLoaded
<1>2. QED
  BY <1>1, SaveInit, SaveStep, PTL DEF Spec
================================================================================
