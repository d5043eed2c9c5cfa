--------------------------- MODULE MC_Configuration ---------------------------
(* Configuration for TLC: short files, edits that each cross-check and each   *)
(* conversion tells apart.                                                     *)
EXTENDS Configuration

NameValue(n, v) == [type |-> "NV", text |-> n, value |-> v]
CommentLine == [type |-> "COMMENT", text |-> COMMENT]
EmptyLine == [type |-> "EMPTYLINE", text |-> ""]
BadLine == [type |-> "BAD", text |-> ""]

MCName == Setting \cup {"camera", "door", ILLFORMED}
MCValue ==
  {"", "  ", ILLFORMED, "broker", "linux", "any", "anonymous", " secret", "secret", "v6v4", "v6udpv4", "v4v6",
   "sit1", "tun", "30", "0", "65600", "web\\root", "web/root", "2001:db8::1", "10.0.0.1", "10.0.0.2"}

MCCommandLines == {<<>>, [i |-> "sit2", s |-> "10.0.0.3", r |-> "5"]}

\* A usable file; one with a name twice; one written by hand that is not usable.
MCInitialFiles ==
  [gw6c |->
     {<<CommentLine, NameValue("server", "broker"), NameValue("template", "linux"),
        NameValue("auth_method", "anonymous"), NameValue("tunnel_mode", "v6v4"),
        NameValue("if_tunnel_v6v4", "sit1")>>,
      <<NameValue("server", "broker"), NameValue("template", "linux"), NameValue("passwd", " secret"),
        NameValue("tunnel_mode", "v6v4"), NameValue("if_tunnel_v6v4", "sit1"),
        NameValue("keepalive_interval", "30"), NameValue("keepalive_interval", "0")>>,
      <<NameValue("template", "linux"), BadLine>>},
   hap6 |->
     {<<NameValue("camera", "2001:db8::1"), EmptyLine, NameValue("camera", "10.0.0.1")>>,
      <<NameValue("camera", ILLFORMED), BadLine>>,
      <<CommentLine, NameValue(ILLFORMED, "10.0.0.1"), NameValue("", "10.0.0.2")>>}]

MCDefaultFile ==
  <<NameValue("server", "broker"), NameValue("template", "linux"), NameValue("passwd", " secret"),
    NameValue("if_tunnel_v6v4", "sit1"), NameValue("if_tunnel_v6udpv4", "tun")>>

MCEdits ==
  [gw6c |->
     {<<"auth_method", "any">>, <<"passwd", " secret">>, <<"passwd", "  ">>, <<"tunnel_mode", "v6udpv4">>,
      <<"tunnel_mode", "v4v6">>, <<"keepalive_interval", "0">>, <<"prefixlen", "65600">>,
      <<"hap6_document_root", "web\\root">>, <<"auto_retry_connect", ILLFORMED>>},
   hap6 |-> {<<"camera", "10.0.0.2">>, <<"door", "10.0.0.1">>, <<"door", ILLFORMED>>}]
===============================================================================
