-------------------------------- MODULE Settings --------------------------------
(***************************************************************************)
(* The settings of the client (gw6c-config): how a NAME=VALUE pair is      *)
(* trimmed, the values that are accepted for each setting, the defaults of *)
(* the settings that are empty, the checks across settings, and the tConf  *)
(* record the client fills from them.  A value is a string of a small set: *)
(* of the ill-formed ones (a wrong character, too long, not one of the     *)
(* values listed) ILLFORMED stands for all, NODIR for the path of a        *)
(* directory that does not exist.                                          *)
(***************************************************************************)
EXTENDS Integers

CONSTANT HAP6   \* is the client built with HAP6?

ASSUME SettingsAssumption == HAP6 \in BOOLEAN

ILLFORMED == "?"
NODIR == "nowhere"

\* What trim makes of values with blanks around them.
Trim(v) ==
  CASE v = "  " -> ""
    [] v = " secret" -> "secret"
    [] OTHER -> v

\* replace(_, "\\", "/"), for the path of the web root.
Slashes(v) == IF v = "web\\root" THEN "web/root" ELSE v

\* The strings of digits, as strtol reads them; of any other text it makes 0.
Digits ==
  {"0", "3", "4", "16", "30", "32", "64", "128", "129", "1024", "3600", "3601", "65600"}
Strtol(v) ==
  CASE v = "3" -> 3 [] v = "4" -> 4 [] v = "16" -> 16 [] v = "30" -> 30 [] v = "32" -> 32
    [] v = "64" -> 64 [] v = "128" -> 128 [] v = "129" -> 129 [] v = "1024" -> 1024
    [] v = "3600" -> 3600 [] v = "3601" -> 3601 [] v = "65600" -> 65600
    [] OTHER -> 0
CFG_MAX_RETRYDELAY == 3600
AsShort(n) == ((n + 32768) % 65536) - 32768

\* An empty value is accepted: the default stands in for it.
Facultative(v, domain) == v = "" \/ v \in domain
YesNo == {"yes", "no"}
FacultativeText(v) == v # ILLFORMED
Directory(v) == v # NODIR

-------------------------------------------------------------------------------
(* Validate_X: is the value accepted for the setting?                          *)

Validate_UserID(v) == FacultativeText(v)
Validate_Passwd(v) == FacultativeText(v)
Validate_Server(v) == FacultativeText(v)
Validate_HostType(v) == Facultative(v, {"host", "router"})
Validate_PrefixLen(v) == v = "" \/ (v \in Digits /\ AsShort(Strtol(v)) \in 1..128)
Validate_IfPrefix(v) == FacultativeText(v)
Validate_DnsServer(v) == FacultativeText(v)
Validate_Gw6cDir(v) == Directory(v)
Validate_AuthMethod(v) == Facultative(v, {"anonymous", "any", "digest-md5", "plain", "passdss-3des-1"})
Validate_AutoRetryConnect(v) == Facultative(v, YesNo)
Validate_RetryDelay(v) == v = "" \/ (v \in Digits /\ Strtol(v) \in 0..CFG_MAX_RETRYDELAY)
Validate_KeepAlive(v) == Facultative(v, YesNo)
Validate_KeepAliveInterval(v) == Facultative(v, Digits)
Validate_TunnelMode(v) == Facultative(v, {"v6anyv4", "v6v4", "v6udpv4", "v4v6"})
Validate_IfTunV6V4(v) == FacultativeText(v)
Validate_IfTunV6UDPV4(v) == FacultativeText(v)
Validate_IfTunV4V6(v) == FacultativeText(v)
Validate_ClientV4(v) == FacultativeText(v)
Validate_ClientV6(v) == FacultativeText(v)
Validate_Template(v) ==
  v \in {"checktunnel", "freebsd", "netbsd", "linux", "windows", "darwin", "cisco", "solaris",
         "openbsd", "openwrt", "dongle6"}
Validate_ProxyClient(v) == Facultative(v, YesNo)
Validate_BrokerLstFile(v) == FacultativeText(v)
Validate_LastServFile(v) == FacultativeText(v)
Validate_AlwaysUseLastSrv(v) == Facultative(v, YesNo)
Validate_LogLevel(v) == v = "" \/ Strtol(v) \in 0..3
Validate_LogFileName(v) == FacultativeText(v)
Validate_LogRotation(v) == Facultative(v, YesNo)
Validate_LogRotationSz(v) == Facultative(v, {"16", "32", "128", "1024"})
Validate_LogRotationDel(v) == Facultative(v, YesNo)
Validate_SysLogFacility(v) == Facultative(v, {"USER", "LOCAL0", "LOCAL7"})  \* and those between
Validate_Hap6ProxyEnabled(v) == Facultative(v, YesNo)
Validate_Hap6WebEnabled(v) == Facultative(v, YesNo)
Validate_Hap6DocumentRoot(v) == Directory(v)

\* The validation of each setting, by its name in the file.
Validate(n, v) ==
  CASE n = "userid" -> Validate_UserID(v)
    [] n = "passwd" -> Validate_Passwd(v)
    [] n = "server" -> Validate_Server(v)
    [] n = "host_type" -> Validate_HostType(v)
    [] n = "prefixlen" -> Validate_PrefixLen(v)
    [] n = "if_prefix" -> Validate_IfPrefix(v)
    [] n = "dns_server" -> Validate_DnsServer(v)
    [] n = "gw6_dir" -> Validate_Gw6cDir(v)
    [] n = "auth_method" -> Validate_AuthMethod(v)
    [] n = "auto_retry_connect" -> Validate_AutoRetryConnect(v)
    [] n = "retry_delay" -> Validate_RetryDelay(v)
    [] n = "keepalive" -> Validate_KeepAlive(v)
    [] n = "keepalive_interval" -> Validate_KeepAliveInterval(v)
    [] n = "tunnel_mode" -> Validate_TunnelMode(v)
    [] n = "if_tunnel_v6v4" -> Validate_IfTunV6V4(v)
    [] n = "if_tunnel_v6udpv4" -> Validate_IfTunV6UDPV4(v)
    [] n = "if_tunnel_v4v6" -> Validate_IfTunV4V6(v)
    [] n = "client_v4" -> Validate_ClientV4(v)
    [] n = "client_v6" -> Validate_ClientV6(v)
    [] n = "template" -> Validate_Template(v)
    [] n = "proxy_client" -> Validate_ProxyClient(v)
    [] n = "broker_list" -> Validate_BrokerLstFile(v)
    [] n = "last_server" -> Validate_LastServFile(v)
    [] n = "always_use_same_server" -> Validate_AlwaysUseLastSrv(v)
    [] n \in {"log_console", "log_stderr", "log_syslog", "log_file"} -> Validate_LogLevel(v)
    [] n = "log_filename" -> Validate_LogFileName(v)
    [] n = "log_rotation" -> Validate_LogRotation(v)
    [] n = "log_rotation_size" -> Validate_LogRotationSz(v)
    [] n = "log_rotation_delete" -> Validate_LogRotationDel(v)
    [] n = "syslog_facility" -> Validate_SysLogFacility(v)
    [] n = "hap6_proxy_enabled" -> Validate_Hap6ProxyEnabled(v)
    [] n = "hap6_web_enabled" -> Validate_Hap6WebEnabled(v)
    [] n = "hap6_document_root" -> Validate_Hap6DocumentRoot(v)

-------------------------------------------------------------------------------
(* Get_X: the value of a setting, or its default                               *)

AccountDefaults ==
  [userid |-> "", passwd |-> "", server |-> "", host_type |-> "host", prefixlen |-> "64",
   if_prefix |-> "", dns_server |-> "", gw6_dir |-> "", auth_method |-> "any"]
ConnectionDefaults ==
  [auto_retry_connect |-> "yes", retry_delay |-> "30", keepalive |-> "yes", keepalive_interval |-> "30"]
TunnelDefaults ==
  [tunnel_mode |-> "v6anyv4", if_tunnel_v6v4 |-> "", if_tunnel_v6udpv4 |-> "", if_tunnel_v4v6 |-> "",
   client_v4 |-> "auto", client_v6 |-> "auto", template |-> "", proxy_client |-> "no"]
FileDefaults ==
  [broker_list |-> "tsp-broker-list.txt", last_server |-> "tsp-last-server.txt",
   always_use_same_server |-> "no"]
LogLevelDefaults ==
  [log_console |-> "0", log_stderr |-> "1", log_syslog |-> "0", log_file |-> "0"]
LogDefaults ==
  [log_filename |-> "gw6c.log", log_rotation |-> "yes", log_rotation_size |-> "32",
   log_rotation_delete |-> "no", syslog_facility |-> "USER"]
Hap6Defaults ==
  [hap6_proxy_enabled |-> "no", hap6_web_enabled |-> "no", hap6_document_root |-> ""]

Setting ==
  UNION {DOMAIN AccountDefaults, DOMAIN ConnectionDefaults, DOMAIN TunnelDefaults, DOMAIN FileDefaults,
         DOMAIN LogLevelDefaults, DOMAIN LogDefaults, DOMAIN Hap6Defaults}
Default(n) ==
  CASE n \in DOMAIN AccountDefaults -> AccountDefaults[n]
    [] n \in DOMAIN ConnectionDefaults -> ConnectionDefaults[n]
    [] n \in DOMAIN TunnelDefaults -> TunnelDefaults[n]
    [] n \in DOMAIN FileDefaults -> FileDefaults[n]
    [] n \in DOMAIN LogLevelDefaults -> LogLevelDefaults[n]
    [] n \in DOMAIN LogDefaults -> LogDefaults[n]
    [] n \in DOMAIN Hap6Defaults -> Hap6Defaults[n]

\* nv is m_NameValue: a function from the names present to their values.
GetVariableValue(nv, n) == IF n \in DOMAIN nv THEN nv[n] ELSE ""
Get(nv, n) == IF GetVariableValue(nv, n) = "" THEN Default(n) ELSE GetVariableValue(nv, n)

-------------------------------------------------------------------------------
(* ValidateConfigData                                                          *)

\* The settings that are validated one by one: all but one.
Validated == Setting \ {"auto_retry_connect"}
FieldsValid(nv) == \A n \in Validated : Validate(n, GetVariableValue(nv, n))

PasswordSupplied(nv) == Get(nv, "auth_method") = "anonymous" \/ Get(nv, "passwd") # ""
ProxyModeValid(nv) == ~(Get(nv, "proxy_client") = "yes" /\ Get(nv, "tunnel_mode") = "v6udpv4")
\* Mutant: an interval is given, it may be 0.
IntervalValid_Given(nv) == Get(nv, "keepalive") = "yes" => Get(nv, "keepalive_interval") # ""

IntervalValid(nv) == Get(nv, "keepalive") = "yes" => Strtol(Get(nv, "keepalive_interval")) # 0
\* The names of the interfaces have no default.
TunnelInterfaces(nv) ==
  CASE Get(nv, "tunnel_mode") = "v6anyv4" -> {"if_tunnel_v6v4", "if_tunnel_v6udpv4"}
    [] Get(nv, "tunnel_mode") = "v6v4" -> {"if_tunnel_v6v4"}
    [] Get(nv, "tunnel_mode") = "v6udpv4" -> {"if_tunnel_v6udpv4"}
    [] Get(nv, "tunnel_mode") = "v4v6" -> {"if_tunnel_v4v6"}
InterfacesNamed(nv) == \A n \in TunnelInterfaces(nv) : Get(nv, n) # ""
RouterPrefixed(nv) == Get(nv, "host_type") = "router" => Get(nv, "if_prefix") # ""
WebRootGiven(nv) == HAP6 /\ Get(nv, "hap6_web_enabled") = "yes" => Get(nv, "hap6_document_root") # ""
\* The second name compared with "yes" is that of the tunnel mode.
Hap6ModeValid(nv) ==
  HAP6 => ~( /\ Get(nv, "hap6_web_enabled") = "yes" \/ Get(nv, "tunnel_mode") = "yes"
             /\ Get(nv, "tunnel_mode") = "v4v6" )

CrossChecks(nv) ==
  /\ PasswordSupplied(nv) /\ ProxyModeValid(nv) /\ IntervalValid(nv) /\ InterfacesNamed(nv)
  /\ RouterPrefixed(nv) /\ WebRootGiven(nv) /\ Hap6ModeValid(nv)

ValidateConfigData(nv) == FieldsValid(nv) /\ CrossChecks(nv)

-------------------------------------------------------------------------------
(* tspReadConfigFile: the client's tConf                                       *)

Number(nv, n) == Strtol(Get(nv, n))
Flag(nv, n) == Get(nv, n) = "yes"

AccountConf(nv) ==
  [userid |-> Get(nv, "userid"), passwd |-> Get(nv, "passwd"), server |-> Get(nv, "server"),
   host_type |-> Get(nv, "host_type"), prefixlen |-> Number(nv, "prefixlen"),
   if_prefix |-> Get(nv, "if_prefix"), dns_server |-> Get(nv, "dns_server"),
   gw6_dir |-> Get(nv, "gw6_dir"), auth_method |-> Get(nv, "auth_method")]
ConnectionConf(nv) ==
  [auto_retry_connect |-> Flag(nv, "auto_retry_connect"), retry_delay |-> Number(nv, "retry_delay"),
   keepalive |-> Flag(nv, "keepalive"), keepalive_interval |-> Number(nv, "keepalive_interval")]
TunnelConf(nv) ==
  [tunnel_mode |-> Get(nv, "tunnel_mode"), if_tunnel_v6v4 |-> Get(nv, "if_tunnel_v6v4"),
   if_tunnel_v6udpv4 |-> Get(nv, "if_tunnel_v6udpv4"), if_tunnel_v4v6 |-> Get(nv, "if_tunnel_v4v6"),
   client_v4 |-> Get(nv, "client_v4"), client_v6 |-> Get(nv, "client_v6"),
   template |-> Get(nv, "template"), proxy_client |-> Flag(nv, "proxy_client")]
FileConf(nv) ==
  [broker_list |-> Get(nv, "broker_list"), last_server |-> Get(nv, "last_server"),
   always_use_same_server |-> Flag(nv, "always_use_same_server")]
LogConf(nv) ==
  [level |-> [n \in DOMAIN LogLevelDefaults |-> Number(nv, n)],
   log_filename |-> Get(nv, "log_filename"), log_rotation |-> Flag(nv, "log_rotation"),
   log_rotation_size |-> Number(nv, "log_rotation_size"),
   log_rotation_delete |-> Flag(nv, "log_rotation_delete"), syslog_facility |-> Get(nv, "syslog_facility")]
Hap6Conf(nv) ==
  [hap6_proxy_enabled |-> Flag(nv, "hap6_proxy_enabled"), hap6_web_enabled |-> Flag(nv, "hap6_web_enabled"),
   hap6_document_root |-> Slashes(Get(nv, "hap6_document_root"))]

Conf(nv) ==
  [account |-> AccountConf(nv), connection |-> ConnectionConf(nv), tunnel |-> TunnelConf(nv),
   files |-> FileConf(nv), log |-> LogConf(nv), hap6 |-> Hap6Conf(nv), transport |-> "RUDP"]

\* {} for INVALID_CONFIG_FILE; here the server must be given.
tspReadConfigFile(nv, valid) == IF valid /\ Get(nv, "server") # "" THEN {Conf(nv)} ELSE {}

-------------------------------------------------------------------------------
(* tspInitialize: the command line and the families of the server's addresses  *)

Given(options, letter, value) == IF letter \in DOMAIN options THEN options[letter] ELSE value

\* The settings that -i, -u and -s stand for.  (-r is parsed too, and never
\* looked at again.)
ParseArguments(options, tunnel) ==
  [tunnel EXCEPT !.if_tunnel_v6v4 = Given(options, "i", @),
                 !.if_tunnel_v6udpv4 = Given(options, "u", @),
                 !.client_v4 = Given(options, "s", @)]

\* The transports the first attempt may use; none is INVALID_SERVER.
FirstTransport(mode, families) ==
  CASE mode = "v6anyv4" -> {"RUDP"}
    [] mode = "v4v6" -> IF "v6" \in families THEN {"RUDP6"} ELSE IF "v4" \in families THEN {"RUDP"} ELSE {}
    [] mode = "v6v4" -> IF "v4" \in families THEN {"RUDP"} ELSE IF "v6" \in families THEN {"RUDP6"} ELSE {}
    [] mode = "v6udpv4" -> IF "v4" \in families THEN {"RUDP"} ELSE {}

Completed(c, options, t) == [c EXCEPT !.tunnel = ParseArguments(options, @), !.transport = t]

\* {} for any error.
tspInitialize(nv, valid, options, families) ==
  UNION {{Completed(c, options, t) : t \in FirstTransport(c.tunnel.tunnel_mode, families)} :
         c \in tspReadConfigFile(nv, valid)}
===============================================================================
