------------------------------ MODULE MCServer ------------------------------
(* The parts around the request itself, for TLC: access rules, configuration, *)
(* connections, commands, reading the head of a request, the two client       *)
(* programs and the sample services. A behaviour is one of them, `which` says *)
(* which, and its variables are the first of v1 .. v14, so that the state     *)
(* spaces add up instead of multiplying.                                      *)
(*                                                                            *)
(* Bounds. Configurations of up to four access directives, every request      *)
(* against each; eight configuration files, four of them read one after the   *)
(* other; three calls on a connection whose kernel buffers hold two bytes; two *)
(* control lines, one child and two threads that schedule; connections that   *)
(* pipeline up to three requests, read six bytes at a time; six command lines *)
(* of the client, against any answer; two threads of the load generator and   *)
(* two requests in the sample services at once.                               *)
EXTENDS Integers, Sequences, FiniteSets, TLC

VARIABLES which, v1, v2, v3, v4, v5, v6, v7, v8, v9, v10, v11, v12, v13, v14
vars == <<which, v1, v2, v3, v4, v5, v6, v7, v8, v9, v10, v11, v12, v13, v14>>

\* The variables from a number on, and that they are not used.
from14 == <<v14>>
Not14 == v14 = 0
from13 == <<v13, from14>>
Not13 == v13 = 0 /\ Not14
from12 == <<v12, from13>>
Not12 == v12 = 0 /\ Not13
from11 == <<v11, from12>>
Not11 == v11 = 0 /\ Not12
from10 == <<v10, from11>>
Not10 == v10 = 0 /\ Not11
from9 == <<v9, from10>>
Not9 == v9 = 0 /\ Not10
from8 == <<v8, from9>>
Not8 == v8 = 0 /\ Not9
from7 == <<v7, from8>>
Not7 == v7 = 0 /\ Not8
from6 == <<v6, from7>>
Not6 == v6 = 0 /\ Not7
from5 == <<v5, from6>>
Not5 == v5 = 0 /\ Not6

\* Directives of access control; of the first two time acls one ends before it begins.
acl(n, t, v) == [directive |-> "acl", name |-> n, type |-> t, val |-> v]
rule(d, a, s) == [directive |-> d, access |-> a, acls |-> s]
pos(n) == [name |-> n, negate |-> FALSE]
neg(n) == [name |-> n, negate |-> TRUE]
hours(f, t) == [days |-> {1}, from |-> f, to |-> t]
Rules ==
  {acl("net", "src", "x"), acl("net", "src", "bad"), acl("net", "src", "y"), acl("who", "user", "u"),
   acl("who", "src", "y"), acl("hours", "time", hours(1, 2)), acl("hours", "time", hours(2, 1)),
   rule("icap_access", "deny", <<pos("net"), neg("who")>>), rule("icap_access", "allow", <<neg("hours")>>),
   rule("icap_access", "deny", <<pos("who"), pos("hours")>>), rule("client_access", "deny", <<neg("net")>>),
   rule("client_access", "allow", <<pos("net"), pos("hours")>>)}
Clients == [src : {"x", "y", "z"}, user : {"null", "u", "w"}, day : {0, 1}, minute : {0, 1, 3}]

\* Configuration files: f9 includes itself, f1 and f6 include others, f3 and f6 use TLS, f8 names an alias twice.
set(p, v) == [d |-> "set", param |-> p, val |-> v]
number(p, n) == [d |-> "setint", param |-> p, val |-> n]
scheme(p, v) == [d |-> "scheme", param |-> p, val |-> v]
port(n, t) == [d |-> "Port", port |-> n, tls |-> t]
service(a, n) == [d |-> "Service", alias |-> a, name |-> n]
alias(a, n, x) == [d |-> "ServiceAlias", alias |-> a, name |-> n, args |-> x]
include(f) == [d |-> "Include", file |-> f]
preview(t, n) == [d |-> "PreviewSize", table |-> t, val |-> n]
param(t, p, v) == [d |-> "param", table |-> t, param |-> p, val |-> v]
syslog == [d |-> "Module", name |-> "sys", type |-> "logger"]
controllers(ns) == [d |-> "AclControllers", names |-> ns]
ConfigFiles ==
  "f1" :> <<port(1, FALSE), set("Timeout", "5"), set("Timeout", "6"), [d |-> "TmpDir", val |-> "/t"], number("MaxServers", 3),
            service("e", "echo"), alias("e2", "e", <<"x">>), preview("e2", 7), include("f4"),
            [d |-> "DebugLevel", val |-> "9"]>>
  @@ "f2" :> <<port(1, FALSE), port(2, FALSE), service("gw", "gw"), service("e", "echo"), alias("e3", "gw", <<>>),
               alias("e3", "echo", <<>>), preview("e", 9), syslog, [d |-> "Logger", name |-> "sys"],
               number("StartServers", 4), scheme("InterProcessLockingScheme", "sysv"),
               [d |-> "Allow206", table |-> "gw", val |-> "on"], param("sys", "Facility", "l")>>
  @@ "f3" :> <<port(2, TRUE), controllers(<<"default_acl", "other">>), [d |-> "Logger", name |-> "sys"]>>
  @@ "f4" :> <<set("Name", "n"), param("basic", "Realm", "r")>>
  @@ "f5" :> <<set("Name", "m"), controllers(<<>>)>>
  @@ "f6" :> <<include("f5"), port(2, TRUE), port(2, TRUE), syslog, number("MaxServers", 4)>>
  @@ "f7" :> <<include("f5"), port(1, FALSE), param("basic", "Realm", "r")>>
  @@ "f8" :> <<port(1, FALSE), service("x", "echo"), alias("x", "echo", <<>>)>>
  @@ "f9" :> <<port(1, FALSE), include("f9"), service("e", "echo"), scheme("InterProcessSharedMemScheme", "none")>>

\* Commands of the monitor, of the children, of both, and of neither.
CommandNames == <<"relog", "stop", "attach", "detach", "istag">>
CommandTypes ==
  "relog" :> {"monitor", "childs"} @@ "stop" :> {"monitor"} @@ "attach" :> {"start"} @@ "detach" :> {"stop"}
  @@ "istag" :> {"ondemand"}

\* Requests that follow each other on a connection: with entities and without, to a service and to an alias, with
\* a version that is too old, an entity that is not known, and a method that is not known.
line(m, s, a, v) == [method |-> m, icap |-> TRUE, server |-> "h", service |-> s, args |-> a, version |-> v]
head(name, n, entities) == [h |-> name, n |-> n, ents |-> entities]
End == <<"r", "n", "r", "n">>
sends(text, l, hs, entities) == [hdr |-> text \o End, line |-> l, heads |-> hs, encaps |-> entities]
Mod == sends(<<"a", "r", "n", "b">>, line("REQMOD", "gw", <<"x">>, TRUE),
             <<head("Allow", 204, <<>>), head("Preview", 3, <<>>),
               head("Encapsulated", 0, <<<<"req-hdr", 0>>, <<"null-body", 5>>>>)>>, <<<<"g">> \o End>>)
ToAlias == sends(<<"c">>, line("RESPMOD", "al", <<"y">>, TRUE),
                 <<head("Encapsulated", 0, <<<<"req-hdr", 0>>, <<"res-hdr", 2>>, <<"null-body", 3>>>>),
                   head("Allow", 206, <<>>)>>, <<<<"g", "x">>, <<"y">>>>)
Closing == sends(<<"d", "n", "r">>, line("OPTIONS", "gw", <<"z">>, TRUE), <<head("Connection: close", 0, <<>>)>>, <<>>)
Old == sends(<<"e">>, line("REQMOD", "gw", <<>>, FALSE), <<>>, <<>>)
Unknown == sends(<<"f">>, line("RESPMOD", "gw", <<"w">>, TRUE),
                 <<head("Encapsulated", 0, <<<<"req-hdr", 0>>, <<"bad", 2>>>>)>>, <<>>)
NoMethod == sends(<<"h">>, [line("BAD", "gw", <<"w">>, TRUE) EXCEPT !.server = "k"], <<>>, <<>>)
Pipelines == <<<<Mod, ToAlias, Mod>>, <<ToAlias, Old>>, <<Mod, Unknown>>, <<ToAlias, Closing, Mod>>, <<NoMethod>>>>

\* Command lines of the client.
NoFile == <<<<"nofile", 0>>>>
bytes(n) == [i \in 1..n |-> <<"d", i>>]
command(f, p, size, a206, only, hs, pipe) ==
  [file |-> f, pipe |-> pipe, send_preview |-> p, preview_size |-> size, allow204 |-> TRUE, allow206 |-> a206,
   req |-> only = "req", resp |-> only = "resp", send_headers |-> hs]
CommandLines ==
  {command(bytes(3), TRUE, -1, FALSE, "", TRUE, TRUE), command(bytes(1), TRUE, -1, FALSE, "", TRUE, FALSE),
   command(NoFile, TRUE, -1, FALSE, "req", TRUE, FALSE), command(NoFile, TRUE, -1, FALSE, "", TRUE, FALSE),
   command(bytes(3), FALSE, -1, FALSE, "resp", TRUE, FALSE), command(bytes(3), TRUE, 1, TRUE, "", FALSE, FALSE)}
ServerOptions == {[preview |-> 2, allow |-> 204], [preview |-> 0, allow |-> -1]}

Pages == {<<>>, <<"a", "b", "c", "d">>, <<"html", "gt", "html", "gt">>}

-----------------------------------------------------------------------------
Acls == INSTANCE Access WITH Directives <- Rules, Requests <- Clients, MaxLines <- 4, specs_list <- v1,
    acl_access_list <- v2, acl_connection_access_list <- v3, written <- v4
Reload == INSTANCE Config WITH Files <- ConfigFiles, Mains <- DOMAIN ConfigFiles \ {"f4"},
    Args <- <<[d |-> "-d", val |-> "1"]>>, Stored <- {"Timeout", "Name"},
    Owner <- "Realm" :> "basic" @@ "Facility" :> "sys", Resident <- {"basic"}, Closes <- {"gw", "info"},
    Enables206 <- "info" :> "never" @@ "echo" :> "init" @@ "gw" :> "post", STEP <- 32, MAX_INCLUDE_LEVEL <- 3,
    MaxReads <- 4, main <- v1, live <- v2, fresh <- v3, stack <- v4, old_ports <- v5, status <- v6, reads <- v7
Net == INSTANCE NetIO WITH Kinds <- {"raw", "tls"}, Sizes <- {1, 3}, Buffer <- 2, MaxIn <- 3, MaxCalls <- 3,
    MaxSignals <- 1, Resets <- TRUE, kind <- v1, peer <- v2, in <- v3, room <- v4, fin <- v5, sent <- v6,
    fd <- v7, connected <- v8, calls <- v9, signals <- v10, call <- v11, out <- v12, gap <- v13, ended <- v14
Control == INSTANCE Commands WITH Commands <- CommandTypes, Order <- CommandNames,
    Lines <- {"relog", "stop", "none"}, Children <- {"c"}, Threads <- {"t", "u"}, MaxLines <- 2,
    MaxScheduled <- 2, MaxTime <- 2, list <- v1, ctl <- v2, ran <- v3, life <- v4, pipe <- v5, sent <- v6,
    merged <- v7, queue <- v8, sched <- v9, iter <- v10, pushed <- v11, now <- v12, written <- v13
ReqHead == INSTANCE RequestHead WITH Conns <- Pipelines, Services <- "gw" :> {"REQMOD", "RESPMOD"},
    Aliases <- "al" :> [service |-> "gw", args |-> <<"p">>], DEFAULT_SERVICE <- "", ICAP_HEADER_READSIZE <- 6,
    PIPELINING <- TRUE, CHECK_FOR_BUGGY_CLIENT <- TRUE, conn <- v1, at <- v2, in <- v3, buf <- v4,
    startsearch <- v5, pstrblock <- v6, pc <- v7, req <- v8, code <- v9, ent <- v10, part <- v11
Client == INSTANCE IcapClient WITH Runs <- CommandLines, Options <- ServerOptions,
    Codes <- {100, 200, 204, 206, 404}, Answer <- <<<<"d", 91>>, <<"d", 92>>>>, Moves <- {1, 4, 99},
    BUFSIZE <- 20, MAX_CHUNK_SIZE <- 2, MaxTimeouts <- 1, run <- v1, options <- v2, pc <- v3, io <- v4,
    ret <- v5, req <- v6, fd_in <- v7, fd_out <- v8, srv <- v9, in <- v10, timeouts <- v11
Load == INSTANCE Stretch WITH Modes <- {"files", "req"}, threadsnum <- 2, FILES_NUMBER <- 2, MAX_REQUESTS <- 1,
    Outcomes <- {"ok", "failed"}, Interrupts <- TRUE, MaxSent <- 2, Mode <- v1, pc <- v2, main <- v3,
    held <- v4, file_indx <- v5, stats <- v6, mine <- v7, _THE_END <- v8, handler <- v9, sent <- v10,
    used <- v11
Demo == INSTANCE DemoServices WITH Requests <- {"r", "q"}, Bodies <- Pages, Previews <- {0, 2}, RING_SIZE <- 2,
    Portion <- 2, req <- v1, whattodo <- v2, pc <- v3, seen <- v4, ring <- v5, given <- v6, eof <- v7,
    out <- v8, code <- v9

Init ==
  \/ which = "access" /\ Acls!Init /\ Not5
  \/ which = "config" /\ Reload!Init /\ Not8
  \/ which = "net" /\ Net!Init
  \/ which = "commands" /\ Control!Init /\ Not14
  \/ which = "head" /\ ReqHead!Init /\ Not12
  \/ which = "client" /\ Client!Init /\ Not12
  \/ which = "stretch" /\ Load!Init /\ Not12
  \/ which = "demo" /\ Demo!Init /\ Not10

Next ==
  \/ which = "access" /\ Acls!Next /\ UNCHANGED <<which, from5>>
  \/ which = "config" /\ Reload!Next /\ UNCHANGED <<which, from8>>
  \/ which = "net" /\ Net!Next /\ UNCHANGED which
  \/ which = "commands" /\ Control!Next /\ UNCHANGED <<which, from14>>
  \/ which = "head" /\ ReqHead!Next /\ UNCHANGED <<which, from12>>
  \/ which = "client" /\ Client!Next /\ UNCHANGED <<which, from12>>
  \/ which = "stretch" /\ Load!Next /\ UNCHANGED <<which, from12>>
  \/ which = "demo" /\ Demo!Next /\ UNCHANGED <<which, from10>>

Spec == Init /\ [][Next]_vars

-----------------------------------------------------------------------------
(* A request, or a client, is allowed or denied as the first rule says whose  *)
(* acls all hold, read from the directives themselves, and allowed when there *)
(* is none (acl.c, default_acl.c, access.c).                                  *)
AccessDecides == which = "access" => Acls!AccessDecides

(* A server that has read other configurations before is configured as one    *)
(* that was started with the last one: parameters, services, aliases, ports   *)
(* and modules, whatever the order of reloads, up to what the source keeps    *)
(* (cfg_param.c, mpmt_server.c system_reconfigure).                           *)
ReconfigureIsRestart == which = "config" => Reload!ReconfigureIsRestart

(* What a call on a connection reports is what happened: the bytes it counts  *)
(* as read are the next of the peer's and those it counts as written left in  *)
(* order, none skipped or sent twice, through partial writes, signals and     *)
(* waits that end early (net_io.c, net_io_ssl.c).                             *)
CallsTrue == which = "net" => Net!CallsTrue

(* A child runs the commands the monitor sent to it, in their order and each  *)
(* once, unless two are in its pipe at one read; a scheduled command runs     *)
(* once for each time it was put in the queue (commands.c, mpmt_server.c).    *)
CommandsOnce == which = "commands" => Control!CommandsOnce

(* However the bytes arrive, the server cuts a pipelined connection into the  *)
(* requests that were sent, and nothing of a request is left in the next one  *)
(* on its connection: arguments, options, headers (request.c).                *)
HeadsExact == which = "head" => ReqHead!HeadExact /\ ReqHead!NothingCarriedOver

(* The client sends its file once, in order and in whole chunks, and writes   *)
(* what the server answered, whatever the pieces it came in                   *)
(* (request_common.c, c-icap-client.c); the load generator counts each        *)
(* request once and takes its files in turn, with several threads and an      *)
(* interrupt (c-icap-stretch.c).                                              *)
ClientsExact ==
  /\ which = "client" => Client!ClientExact
  /\ which = "stretch" => Load!StretchCounts

(* The sample services give back the body they were sent, the one that adds a *)
(* script with it added where the page has its place for it, in 200 and in 206 *)
(* answers (srv_echo.c, srv_ex206.c).                                         *)
DemoExact == which = "demo" => Demo!DemoExact
=============================================================================
