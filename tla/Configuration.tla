----------------------------- MODULE Configuration -----------------------------
(***************************************************************************)
(* The configuration objects of gw6c-config and the file they share: an    *)
(* editor (the user interface, through GW6CConfig or, for the HAP6 device  *)
(* mappings, HAP6DeviceMappingConfig) and readers (clients, through the C  *)
(* wrappers).  Nothing locks the file: it is read and written line by      *)
(* line while others do the same, and the editor may end between two       *)
(* lines.                                                                  *)
(***************************************************************************)
EXTENDS Settings, Sequences

CONSTANTS
  Editor,         \* the process that changes the file
  Readers,        \* the processes that read it
  Name,           \* the names of settings and devices
  Value,          \* what they may be set to
  InitialFiles,   \* [kind -> set of files there may be at first]
  CommandLines,   \* the options a client may be started with
  DefaultFile,    \* the settings LoadDefaults puts in the file's place
  Edits,          \* [kind -> set of <<name, value>> the editor may set]
  MaxOperations,  \* bound: operations of the editor
  MaxReads        \* bound: objects a reader makes

COMMENT == "#"

\* A line of the file.  BAD is a line of nothing but separators.
FileLine ==
  [type : {"NV"}, text : Name \cup {""}, value : Value] \cup [type : {"COMMENT"}, text : {COMMENT}]
  \cup [type : {"EMPTYLINE", "BAD"}, text : {""}]

\* The settings a file holds: of each name, the last value.
IsSetting(line, n) == line.type = "NV" /\ line.text = n
SettingsOf(ls) ==
  [n \in {m \in Name : \E i \in 1..Len(ls) : IsSetting(ls[i], m)} |->
     LET last == CHOOSE i \in 1..Len(ls) : IsSetting(ls[i], n) /\ \A j \in (i + 1)..Len(ls) : ~IsSetting(ls[j], n)
     IN Trim(ls[last].value)]

\* A name is neither empty nor a comment, and an address that has blanks is
\* ILLFORMED.  The default settings are valid, as those of gw6c.conf.in are.
ASSUME ConfigurationAssumption ==
  /\ Editor \notin Readers
  /\ MaxOperations \in Nat /\ MaxReads \in Nat
  /\ "" \notin Name /\ COMMENT \notin Name
  /\ \A v \in Value : Trim(v) \in Value /\ Slashes(v) \in Value
  /\ \A k \in {"gw6c", "hap6"} : InitialFiles[k] \subseteq Seq(FileLine) /\ Edits[k] \subseteq Name \X Value
  /\ \A e \in Edits["hap6"] : Trim(e[2]) = e[2]
  /\ DefaultFile \in Seq(FileLine)
  /\ (\A i \in 1..Len(DefaultFile) : DefaultFile[i].type # "BAD") => ValidateConfigData(SettingsOf(DefaultFile))
  /\ \A options \in CommandLines : \A letter \in DOMAIN options : options[letter] # ""

User == {Editor} \cup Readers

VARIABLES
  kind,       \* the settings of the client, or the mappings of HAP6
  file,       \* the lines of the file
  pc,         \* none (no object), idle, reading or writing
  op,         \* what it reads or writes for, or that the last reading failed
  pos,        \* lines it has read or written
  nv,         \* m_NameValue
  lines,      \* m_FullFileData: what each line is, without the values
  bValid,     \* m_bValid
  conf,       \* what a reader has taken: a client its tConf, HAP6 the mappings
  used,       \* operations so far
  saved,      \* history: the settings last written to the end, none meanwhile
  basis       \* history: those an object holds, read undisturbed and not edited

objectVars == <<nv, lines, bValid>>
vars == <<kind, file, pc, op, pos, objectVars, conf, used, saved, basis>>

Bound(u) == IF u = Editor THEN MaxOperations ELSE MaxReads
Count(u) ==
  /\ used[u] < Bound(u)
  /\ used' = [used EXCEPT ![u] = @ + 1]

Goto(u, place) == pc' = [pc EXCEPT ![u] = place]

-------------------------------------------------------------------------------
(* NameValueParser and NameValueConfig: the data of an object                  *)

Put(f, n, v) == [x \in DOMAIN f \cup {n} |-> IF x = n THEN v ELSE f[x]]
Without(f, names) == [x \in DOMAIN f \ names |-> f[x]]
NamesOf(ls) == {ls[i].text : i \in {j \in 1..Len(ls) : ls[j].type = "NV"}}

\* list::remove: the lines of these names go, the others stay in their order.
RemoveLines(ls, names) ==
  LET kept[i \in 0..Len(ls)] ==
        IF i = 0 THEN <<>>
        ELSE IF ls[i].type = "NV" /\ ls[i].text \in names THEN kept[i - 1]
        ELSE Append(kept[i - 1], ls[i])
  IN kept[Len(ls)]

AddEmptyLine(ls) == Append(ls, [type |-> "EMPTYLINE", text |-> ""])
AddComment(ls, text) == Append(ls, [type |-> "COMMENT", text |-> text])

\* Each occurrence of a name has its line; the map keeps the last value.
AddNameValue(u, n, v) ==
  /\ lines' = [lines EXCEPT ![u] = IF n = "" THEN @ ELSE Append(@, [type |-> "NV", text |-> n])]
  /\ nv' = [nv EXCEPT ![u] = IF n = "" THEN @ ELSE Put(@, n, Trim(v))]

\* Mutant: a new name has no line.
SetVariableValue_NoLine(u, n, v) ==
  /\ nv' = [nv EXCEPT ![u] = Put(@, n, v)]
  /\ UNCHANGED lines

\* A name is new when no line, of whatever kind, has its text.
SetVariableValue(u, n, v) ==
  /\ lines' = [lines EXCEPT ![u] = IF \E i \in 1..Len(@) : @[i].text = n THEN @
                                   ELSE Append(@, [type |-> "NV", text |-> n])]
  /\ nv' = [nv EXCEPT ![u] = Put(@, n, v)]

RemoveVariables(u, names) ==
  /\ lines' = [lines EXCEPT ![u] = RemoveLines(@, names)]
  /\ nv' = [nv EXCEPT ![u] = Without(@, names)]

-------------------------------------------------------------------------------
(* HAP6 device mappings: the name of a device and its address                  *)

ValidateDeviceName(n) == n \notin {"", ILLFORMED}
ValidateIPAddress(v) == v \notin {"", ILLFORMED}
InvalidMappings(f) == {n \in DOMAIN f : ~ValidateDeviceName(n) \/ ~ValidateIPAddress(f[n])}

-------------------------------------------------------------------------------
(* Reading                                                                     *)

Source(u) == IF op[u] = "defaults" THEN DefaultFile ELSE file

\* ReadConfigurationData opens the file and clears the data.
StartReading(u, operation) ==
  /\ Goto(u, "reading")
  /\ op' = [op EXCEPT ![u] = operation]
  /\ pos' = [pos EXCEPT ![u] = 0]
  /\ nv' = [nv EXCEPT ![u] = <<>>]
  /\ lines' = [lines EXCEPT ![u] = <<>>]
  /\ basis' = [basis EXCEPT ![u] = IF operation = "defaults" THEN {} ELSE saved]
  /\ UNCHANGED <<kind, file, bValid, conf, saved>>

\* A new object: Initialize and Load.  The file may not open.
Load(u) ==
  /\ pc[u] = "none" /\ Count(u)
  /\ StartReading(u, "load")

\* The wrappers of both kinds of object.
initialize(u) == kind = "gw6c" /\ Load(u)
init_hap6_devmap(u) == kind = "hap6" /\ Load(u)

LoadFails(u) ==
  /\ pc[u] = "none" /\ Count(u)
  /\ Goto(u, "idle")
  /\ op' = [op EXCEPT ![u] = "failed"]
  /\ UNCHANGED <<kind, file, pos, objectVars, conf, saved, basis>>

\* reload_hap6_devmap.
Reload(u) ==
  /\ u \in Readers /\ kind = "hap6" /\ pc[u] = "idle"
  /\ StartReading(u, "load")
  /\ UNCHANGED used

CancelChanges ==
  /\ pc[Editor] = "idle" /\ Count(Editor)
  /\ StartReading(Editor, "cancel")

LoadDefaults ==
  /\ kind = "gw6c" /\ pc[Editor] = "idle" /\ Count(Editor)
  /\ StartReading(Editor, "defaults")

\* A line of nothing but separators ends the reading with an exception, and
\* leaves what has been read.
ReadLine(u) ==
  /\ pc[u] = "reading" /\ pos[u] < Len(Source(u))
  /\ pos' = [pos EXCEPT ![u] = @ + 1]
  /\ LET line == Source(u)[pos[u] + 1] IN
     \/ line.type = "NV" /\ AddNameValue(u, line.text, line.value) /\ UNCHANGED <<pc, op, basis>>
     \/ line.type = "COMMENT" /\ lines' = [lines EXCEPT ![u] = AddComment(@, line.text)]
        /\ UNCHANGED <<nv, pc, op, basis>>
     \/ line.type = "EMPTYLINE" /\ lines' = [lines EXCEPT ![u] = AddEmptyLine(@)]
        /\ UNCHANGED <<nv, pc, op, basis>>
     \/ line.type = "BAD" /\ Goto(u, "idle") /\ op' = [op EXCEPT ![u] = "failed"] /\ basis' = [basis EXCEPT ![u] = {}]
        /\ UNCHANGED <<nv, lines>>
  /\ UNCHANGED <<kind, file, bValid, conf, used, saved>>

\* What follows the last end of line is one more empty line.
AtEnd(u) == pc[u] = "reading" /\ pos[u] >= Len(Source(u))

LoadEnds(u) ==
  /\ AtEnd(u) /\ op[u] = "load" /\ kind = "gw6c"
  /\ lines' = [lines EXCEPT ![u] = AddEmptyLine(@)]
  /\ bValid' = [bValid EXCEPT ![u] = ValidateConfigData(nv[u])]
  /\ Goto(u, "idle")
  /\ UNCHANGED <<kind, file, op, pos, nv, conf, used, saved, basis>>

\* ValidateConfig removes the mappings that are not valid.
MappingsLoaded(u) ==
  /\ AtEnd(u) /\ op[u] = "load" /\ kind = "hap6"
  /\ LET names == InvalidMappings(nv[u])
     IN /\ lines' = [lines EXCEPT ![u] = RemoveLines(AddEmptyLine(@), names)]
        /\ nv' = [nv EXCEPT ![u] = Without(@, names)]
        /\ bValid' = [bValid EXCEPT ![u] = names = {}]
  /\ Goto(u, "idle")
  /\ UNCHANGED <<kind, file, op, pos, conf, used, saved, basis>>

\* Nothing is validated.
CancelEnds(u) ==
  /\ AtEnd(u) /\ op[u] = "cancel"
  /\ lines' = [lines EXCEPT ![u] = AddEmptyLine(@)]
  /\ Goto(u, "idle")
  /\ UNCHANGED <<kind, file, op, pos, nv, bValid, conf, used, saved, basis>>

GetDeviceList(f) == [n \in DOMAIN f |-> GetVariableValue(f, n)]

\* A reading of the mappings that did not fail: what was not valid was removed.
get_device_mapping(u) ==
  /\ u \in Readers /\ kind = "hap6" /\ pc[u] = "idle" /\ op[u] # "failed"
  /\ conf' = [conf EXCEPT ![u] = {GetDeviceList(nv[u])}]
  /\ UNCHANGED <<kind, file, pc, op, pos, objectVars, used, saved, basis>>

\* The client takes its settings, completes them and destroys the object, or
\* gives up.
UnInitialize(u) ==
  /\ u \in Readers /\ pc[u] = "idle"
  /\ IF kind = "gw6c"
     THEN \E options \in CommandLines, families \in SUBSET {"v4", "v6"} :
            conf' = [conf EXCEPT ![u] = tspInitialize(nv[u], bValid[u], options, families)]
     ELSE UNCHANGED conf
  /\ Goto(u, "none")
  /\ nv' = [nv EXCEPT ![u] = <<>>]
  /\ lines' = [lines EXCEPT ![u] = <<>>]
  /\ bValid' = [bValid EXCEPT ![u] = FALSE]
  /\ basis' = [basis EXCEPT ![u] = {}]
  /\ UNCHANGED <<kind, file, op, pos, used, saved>>

-------------------------------------------------------------------------------
(* Editing and writing                                                         *)

\* Set_X; an exception leaves everything as it was.
Set(n, v) ==
  /\ kind = "gw6c" /\ pc[Editor] = "idle" /\ bValid[Editor] /\ Validate(n, v) /\ Count(Editor)
  /\ SetVariableValue(Editor, n, IF n = "hap6_document_root" THEN Slashes(v) ELSE v)
  /\ basis' = [basis EXCEPT ![Editor] = {}]
  /\ UNCHANGED <<kind, file, pc, op, pos, bValid, conf, saved>>

\* Whatever is given.
AddDeviceMapping(n, v) ==
  /\ kind = "hap6" /\ pc[Editor] = "idle" /\ Count(Editor)
  /\ SetVariableValue(Editor, n, v)
  /\ basis' = [basis EXCEPT ![Editor] = {}]
  /\ UNCHANGED <<kind, file, pc, op, pos, bValid, conf, saved>>

DelDeviceMapping(n) ==
  /\ kind = "hap6" /\ pc[Editor] = "idle" /\ Count(Editor)
  /\ RemoveVariables(Editor, {n})
  /\ basis' = [basis EXCEPT ![Editor] = {}]
  /\ UNCHANGED <<kind, file, pc, op, pos, bValid, conf, saved>>

\* WriteConfigurationData opens the file, which empties it.
StartWriting ==
  /\ Goto(Editor, "writing")
  /\ pos' = [pos EXCEPT ![Editor] = 0]
  /\ file' = <<>>
  /\ saved' = {}
  /\ basis' = [u \in User |-> {}]

\* Mutant: the settings are written first and validated after.
Save_Unchecked ==
  /\ kind = "gw6c" /\ pc[Editor] = "idle" /\ Count(Editor)
  /\ bValid' = [bValid EXCEPT ![Editor] = TRUE]
  /\ StartWriting /\ op' = [op EXCEPT ![Editor] = "save"]
  /\ UNCHANGED <<kind, nv, lines, conf>>

\* GW6CConfig::Save: the data is called valid again whatever the outcome.
Save ==
  /\ kind = "gw6c" /\ pc[Editor] = "idle" /\ Count(Editor)
  /\ bValid' = [bValid EXCEPT ![Editor] = TRUE]
  /\ \/ ValidateConfigData(nv[Editor]) /\ StartWriting /\ op' = [op EXCEPT ![Editor] = "save"]
     \/ UNCHANGED <<file, pc, op, pos, saved, basis>>  \* not valid, or the file does not open
  /\ UNCHANGED <<kind, nv, lines, conf>>

SaveMappings ==
  /\ kind = "hap6" /\ pc[Editor] = "idle" /\ Count(Editor)
  /\ IF InvalidMappings(nv[Editor]) = {}
     THEN StartWriting /\ op' = [op EXCEPT ![Editor] = "save"] /\ UNCHANGED <<nv, lines>>
     ELSE RemoveVariables(Editor, InvalidMappings(nv[Editor])) /\ UNCHANGED <<file, pc, op, pos, saved, basis>>
  /\ UNCHANGED <<kind, bValid, conf>>

\* OverrideConfiguration: the defaults replace the file, then are validated.
DefaultsRead ==
  /\ AtEnd(Editor) /\ op[Editor] = "defaults"
  /\ lines' = [lines EXCEPT ![Editor] = AddEmptyLine(@)]
  /\ StartWriting
  /\ UNCHANGED <<kind, op, nv, bValid, conf, used>>

Written(line, f) ==
  CASE line.type # "NV" -> <<line>>
    [] line.type = "NV" /\ line.text \in DOMAIN f -> <<[type |-> "NV", text |-> line.text, value |-> f[line.text]]>>
    [] OTHER -> <<>>

WriteLine ==
  /\ pc[Editor] = "writing" /\ pos[Editor] < Len(lines[Editor])
  /\ file' = file \o Written(lines[Editor][pos[Editor] + 1], nv[Editor])
  /\ pos' = [pos EXCEPT ![Editor] = @ + 1]
  /\ UNCHANGED <<kind, pc, op, objectVars, conf, used, saved, basis>>

WriteEnds ==
  /\ pc[Editor] = "writing" /\ pos[Editor] = Len(lines[Editor])
  /\ Goto(Editor, "idle")
  /\ bValid' = [bValid EXCEPT ![Editor] = op[Editor] = "defaults" => ValidateConfigData(nv[Editor])]
  /\ saved' = {nv[Editor]}
  /\ UNCHANGED <<kind, file, op, pos, nv, lines, conf, used, basis>>

\* The file does not open for writing.
WriteFails ==
  /\ kind = "gw6c" /\ AtEnd(Editor) /\ op[Editor] = "defaults"
  /\ lines' = [lines EXCEPT ![Editor] = AddEmptyLine(@)]
  /\ Goto(Editor, "idle")
  /\ UNCHANGED <<kind, file, op, pos, nv, bValid, conf, used, saved, basis>>

\* The editor ends, wherever it is, and may be started again.
EditorEnds ==
  /\ pc[Editor] # "none"
  /\ Goto(Editor, "none")
  /\ nv' = [nv EXCEPT ![Editor] = <<>>]
  /\ lines' = [lines EXCEPT ![Editor] = <<>>]
  /\ bValid' = [bValid EXCEPT ![Editor] = FALSE]
  /\ basis' = [basis EXCEPT ![Editor] = {}]
  /\ UNCHANGED <<kind, file, op, pos, conf, used, saved>>

-------------------------------------------------------------------------------
Init ==
  /\ kind \in {"gw6c", "hap6"}
  /\ file \in InitialFiles[kind]
  /\ pc = [u \in User |-> "none"] /\ op = [u \in User |-> "load"] /\ pos = [u \in User |-> 0]
  /\ nv = [u \in User |-> <<>>] /\ lines = [u \in User |-> <<>>] /\ bValid = [u \in User |-> FALSE]
  /\ conf = [u \in User |-> {}] /\ used = [u \in User |-> 0]
  /\ saved = {} /\ basis = [u \in User |-> {}]

Reading(u) ==
  \/ initialize(u) \/ init_hap6_devmap(u) \/ LoadFails(u) \/ Reload(u) \/ ReadLine(u) \/ LoadEnds(u) \/ MappingsLoaded(u)
  \/ CancelEnds(u) \/ get_device_mapping(u) \/ UnInitialize(u)

Editing ==
  \/ \E e \in Edits[kind] : Set(e[1], e[2])
  \/ \E e \in Edits[kind] : AddDeviceMapping(e[1], e[2])
  \/ \E e \in Edits[kind] : DelDeviceMapping(e[1])
  \/ CancelChanges \/ LoadDefaults \/ DefaultsRead
  \/ Save \/ SaveMappings \/ WriteLine \/ WriteEnds \/ WriteFails \/ EditorEnds

Next == Editing \/ \E u \in User : Reading(u)

Spec == Init /\ [][Next]_vars

-------------------------------------------------------------------------------
(* Properties                                                                  *)

\* Every name an object knows has a line, and every line's name is known: what
\* is set will be written, and what is removed will not come back.
EveryNameHasALine == \A u \in User : DOMAIN nv[u] = NamesOf(lines[u])

\* What was saved to the end and is then read with no save in between is what
\* the editor had, but for the blanks around a value; and if it is the client's
\* settings they are valid, unless the password was nothing but blanks.
SavedIsLoaded ==
  \A u \in User : pc[u] = "idle" =>
    \A s \in basis[u] :
      /\ nv[u] = [n \in DOMAIN s |-> Trim(s[n])]
      /\ (op[u] = "load" /\ \A n \in DOMAIN s : s[n] = "" \/ Trim(s[n]) # "") => bValid[u]

\* Settings a client can work with.
Usable(c) ==
  /\ c.account.server # ""
  /\ c.account.auth_method # "anonymous" => c.account.passwd # ""
  /\ c.account.host_type = "router" => c.account.if_prefix # ""
  /\ c.connection.keepalive => c.connection.keepalive_interval > 0
  /\ LET tunnel == c.tunnel IN
     /\ tunnel.tunnel_mode \in {"v6v4", "v6anyv4"} => tunnel.if_tunnel_v6v4 # ""
     /\ tunnel.tunnel_mode \in {"v6udpv4", "v6anyv4"} => tunnel.if_tunnel_v6udpv4 # ""
     /\ tunnel.tunnel_mode = "v4v6" => tunnel.if_tunnel_v4v6 # ""
     /\ tunnel.proxy_client \/ c.transport = "RUDP6" => tunnel.tunnel_mode # "v6udpv4"

\* Whatever the file was when it was read, also while it was being written, a
\* client runs only with settings it can work with, and every mapping HAP6 is
\* given names a device and an address.
AcceptedIsUsable ==
  \A u \in Readers : \A c \in conf[u] :
    IF kind = "gw6c" THEN Usable(c) ELSE InvalidMappings(c) = {}
===============================================================================
