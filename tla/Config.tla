------------------------------- MODULE Config -------------------------------
(***************************************************************************)
(* The configuration of the server and its life over reconfigurations      *)
(* (cfg_param.c, cfg_lib.c, module.c, service.c, dlib.c, access.c, port.c  *)
(* and init_server of mpmt_server.c).  `live` is the process that was      *)
(* started with the first file and reconfigured with the others.  `fresh`  *)
(* is a process that is started with the file that is being read: both     *)
(* apply the same lines, one after the other, so that what is left over    *)
(* from an earlier configuration shows as a difference.                    *)
(***************************************************************************)
EXTENDS Naturals, Sequences, FiniteSets, TLC
LOCAL INSTANCE SequencesExt

CONSTANTS
  Files,        \* file name -> its lines, each a record with a directive d
  Mains,        \* the files a start or a reconfiguration may find at cfg_file
  Args,         \* the lines the command line stands for
  Stored,       \* parameters that intl_cfg_* set
  Owner,        \* parameters that ci_cfg_* set -> the module whose table has them
  Resident,     \* modules that are part of the program or are loaded with forceUnload=off
  Closes,       \* services with a mod_close_service
  Enables206,   \* service -> the call that enables 206: "init", "post" or "never"
  STEP,         \* services and aliases for which memory is taken at a time
  MAX_INCLUDE_LEVEL, MaxReads

VARIABLES main, live, fresh, stack, old_ports, status, reads
vars == <<main, live, fresh, stack, old_ports, status, reads>>

NULL == ""
Numbers == [StartServers |-> 5, MaxServers |-> 10]      \* CI_CONF.START_SERVERS and MAX_SERVERS, as compiled in
Schemes == [InterProcessLockingScheme |-> {"file", "sysv", "posix"}, InterProcessSharedMemScheme |-> {"posix", "mmap", "sysv"}]
Params == Stored \cup DOMAIN Owner \cup {"TMPDIR", "CI_DEBUG_LEVEL"} \cup DOMAIN Numbers \cup DOMAIN Schemes
Static == [v |-> NULL, at |-> 0]    \* a value compiled in; others live in the memory of generation at
Compiled(p) == IF p \in DOMAIN Numbers THEN [v |-> Numbers[p], at |-> 0] ELSE Static
Done(c) == [st |-> c, ok |-> TRUE]
Failed(c) == [st |-> c, ok |-> FALSE]
First(s, P(_)) == LET I == {i \in DOMAIN s : P(s[i])} IN {s[i] : i \in {i \in I : \A j \in I : i <= j}}

(* ------------------------------ the tables ----------------------------- *)
register_conf_table(c, name, of) ==
  LET Empty(t) == t.name = NULL
      e == IF \E i \in DOMAIN c.tables : Empty(c.tables[i])
             THEN CHOOSE i \in DOMAIN c.tables : Empty(c.tables[i]) /\ \A j \in 1..i-1 : ~Empty(c.tables[j])
             ELSE Len(c.tables) + 1
  IN IF \E i \in 1..e-1 : c.tables[i].name = name THEN c
     ELSE [c EXCEPT !.tables = [i \in 1..Len(@) \cup {e} |-> IF i = e THEN [name |-> name, of |-> of] ELSE @[i]]]
unregister_conf_table(c, name) ==
  LET I == {i \in DOMAIN c.tables : c.tables[i].name = name}
  IN IF I = {} THEN c
     ELSE [c EXCEPT !.tables[CHOOSE i \in I : \A j \in I : i <= j] = [name |-> NULL, of |-> NULL]]
search_variables(c, table) == {t.of : t \in First(c.tables, LAMBDA t : t.name = table)}

(* ------------------------ parameters and defaults ---------------------- *)
cfg_default_value_store_last(c, p) == [c EXCEPT !.default_values = (p :> c.values[p]) @@ @]
cfg_default_value_store(c, p) ==
  IF p \in DOMAIN c.default_values THEN c
  ELSE [c EXCEPT !.default_values = (p :> c.values[p]) @@ @]
cfg_default_value_restore_all(c) == [c EXCEPT !.values = c.default_values @@ @]
ci_cfg_set(c, p, v) == [c EXCEPT !.values[p] = [v |-> v, at |-> c.gen]]
intl_cfg_set(c, p, v) == ci_cfg_set(cfg_default_value_store(c, p), p, v)
intl_cfg_set_int(c, p, n) == [cfg_default_value_store(c, p) EXCEPT !.values[p] = [v |-> n, at |-> 0]]
ci_cfg_lib_reset(c) == [c EXCEPT !.gen = @ + 1]
cfg_set_tmp_dir(c, v) == LET d == intl_cfg_set(c, "TMPDIR", v) IN [d EXCEPT !.CI_TMPDIR = d.values["TMPDIR"]]
cfg_set_debug_level(c, v) == IF c.from_cmd THEN c ELSE intl_cfg_set(c, "CI_DEBUG_LEVEL", v)
cfg_set_debug_level_cmd(c, v) == intl_cfg_set([c EXCEPT !.from_cmd = TRUE], "CI_DEBUG_LEVEL", v)
\* The schemes are statics of the library: they have no default kept.
cfg_proc_lock_scheme(c, l) ==
  IF l.val \in Schemes[l.param] THEN Done([c EXCEPT !.values[l.param] = [v |-> l.val, at |-> 0]]) ELSE Failed(c)
cfg_set_port(c, l) ==
  LET d == [c EXCEPT !.PORTS = Append(@, [port |-> l.port, tls |-> l.tls, configured |-> FALSE, listens |-> FALSE]),
                     !.TLS_ENABLED = @ \/ l.tls]
  IN IF l.port > 0 THEN Done(d) ELSE Failed(d)

(* ------------------------- services and modules ------------------------ *)
\* load_c_service and load_module: a library that is not resident starts with its own values
ci_module_load(c, name) ==
  IF name \in c.loaded THEN c
  ELSE [c EXCEPT !.loaded = @ \cup {name},
                 !.values = [p \in Params |-> IF p \in DOMAIN Owner /\ Owner[p] = name THEN Static ELSE @[p]]]
ci_dlib_closeall(c) == [c EXCEPT !.loaded = @ \cap Resident]
Moves(n) == n > 0 /\ n % STEP = 0        \* an array of n entries is full: its memory moves

find_service(c, name) == {s.name : s \in First(c.services, LAMBDA s : s.name = name)}
init_extra_data(name) == [name |-> name, preview |-> 0, disable_206 |-> FALSE,
                          allow_206 |-> Enables206[name] = "init"]
add_service(c, name) ==
  register_conf_table([c EXCEPT !.services = Append(@, init_extra_data(name)),
                                !.moved = @ \/ Moves(Len(c.services))], name, name)
find_service_alias(c, name) == First(c.aliases, LAMBDA a : a.alias = name)
add_service_alias(c, alias, name, args) ==
  LET d == [c EXCEPT !.moved = @ \/ Moves(Len(c.aliases))]
      direct == find_service(c, name)
      salias == find_service_alias(c, name)
      service == IF direct # {} THEN direct ELSE {a.service : a \in salias}
      inherited == IF direct # {} THEN {<<>>} ELSE {a.args : a \in salias}
  IN IF alias = name THEN c
     ELSE IF service = {} THEN d
     ELSE LET s == CHOOSE x \in service : TRUE
              a == CHOOSE x \in inherited : TRUE
          IN register_conf_table([d EXCEPT !.aliases = Append(@, [alias |-> alias, service |-> s, args |-> a \o args])],
                                 alias, s)
cfg_load_service(c, l) ==
  LET d == ci_module_load(c, l.name)
  IN IF find_service(c, l.name) # {} THEN Failed(d)
     ELSE Done(add_service_alias(add_service(d, l.name), l.alias, l.name, <<>>))
release_services(c) ==
  LET noalias == FoldLeft(LAMBDA d, a : unregister_conf_table(d, a.alias), c, c.aliases)
      noservice == FoldLeft(LAMBDA d, s : IF s.name \in Closes THEN unregister_conf_table(d, s.name) ELSE d,
                            noalias, c.services)
  IN [noservice EXCEPT !.services = <<>>, !.aliases = <<>>]

find_module(c, name) == {m.name : m \in First(c.modules, LAMBDA m : m.name = name)}
add_module(c, name, type) ==
  LET d == [c EXCEPT !.modules = Append(@, [name |-> name, type |-> type])]
  IN IF name \in {Owner[p] : p \in DOMAIN Owner} THEN register_conf_table(d, name, name) ELSE d
register_module(c, l) ==
  LET d == ci_module_load(c, l.name)
  IN IF find_module(c, l.name) # {} THEN Failed(d) ELSE Done(add_module(d, l.name, l.type))
cfg_set_logger(c, name) ==
  IF [name |-> name, type |-> "logger"] \in ToSet(c.modules)
    THEN Done([c EXCEPT !.default_logger = name]) ELSE Failed(c)
cfg_set_acl_controllers(c, names) ==
  LET Known(n) == [name |-> n, type |-> "access_controller"] \in ToSet(c.modules)
  IN [st |-> [c EXCEPT !.used_access_controllers = SelectSeq(names, Known)], ok |-> \A i \in DOMAIN names : Known(names[i])]
init_modules(c) ==
  FoldLeft(LAMBDA d, m : add_module(d, m.name, m.type), [c EXCEPT !.default_logger = "file_logger"],
           <<[name |-> "C_handler", type |-> "service_handler"], [name |-> "file_logger", type |-> "logger"],
             [name |-> "default_acl", type |-> "access_controller"], [name |-> "basic", type |-> "auth_method"],
             [name |-> "basic_simple_db", type |-> "authenticator"]>>)
\* log_reset and access_reset first, then each list
release_modules(c) ==
  [c EXCEPT !.default_logger = NULL, !.used_access_controllers = <<"default_acl">>, !.modules = <<>>]
init_services(c) == add_service(c, "info")
post_init_services(c) ==
  [c EXCEPT !.services = [i \in DOMAIN @ |->
     IF Enables206[@[i].name] = "post" /\ ~@[i].disable_206 THEN [@[i] EXCEPT !.allow_206 = TRUE] ELSE @[i]]]

(* -------------------------- reading the files -------------------------- *)
\* A parameter of a service's table: PreviewSize, or Allow206 with on or off.
ServiceParam(c, l) ==
  LET of == search_variables(c, l.table) \cap {c.services[i].name : i \in DOMAIN c.services}
      Set(s) == IF l.d = "PreviewSize" THEN [s EXCEPT !.preview = l.val]
                ELSE IF l.val # "off" THEN [s EXCEPT !.disable_206 = TRUE] ELSE s
  IN IF of = {} THEN Failed(c)
     ELSE Done([c EXCEPT !.services = [i \in DOMAIN @ |-> IF @[i].name \in of THEN Set(@[i]) ELSE @[i]]])
ModuleParam(c, l) ==
  IF Owner[l.param] \in search_variables(c, l.table) THEN Done(ci_cfg_set(c, l.param, l.val)) ELSE Failed(c)
process_line(c, l) ==
  CASE l.d = "set"         -> Done(intl_cfg_set(c, l.param, l.val))
    [] l.d = "setint"      -> Done(intl_cfg_set_int(c, l.param, l.val))
    [] l.d = "scheme"      -> cfg_proc_lock_scheme(c, l)
    [] l.d = "TmpDir"      -> Done(cfg_set_tmp_dir(c, l.val))
    [] l.d = "DebugLevel"  -> Done(cfg_set_debug_level(c, l.val))
    [] l.d = "-d"          -> Done(cfg_set_debug_level_cmd(c, l.val))
    [] l.d = "Port"        -> cfg_set_port(c, l)
    [] l.d = "Service"     -> cfg_load_service(c, l)
    [] l.d = "ServiceAlias" -> Done(add_service_alias(c, l.alias, l.name, l.args))
    [] l.d \in {"PreviewSize", "Allow206"} -> ServiceParam(c, l)
    [] l.d = "param"       -> ModuleParam(c, l)
    [] l.d = "Module"      -> register_module(c, l)
    [] l.d = "Logger"      -> cfg_set_logger(c, l.name)
    [] l.d = "AclControllers" -> cfg_set_acl_controllers(c, l.names)
    [] OTHER               -> Failed(c)            \* no such directive
ci_args_apply(c) == FoldLeft(LAMBDA d, l : process_line(d, l).st, c, Args)

\* main(), up to the reading of the file.
Fresh ==
  init_services(init_modules(
    [values |-> [p \in Params |-> Compiled(p)], default_values |-> <<>>, CI_TMPDIR |-> Static, gen |-> 1,
     from_cmd |-> FALSE, TLS_ENABLED |-> FALSE, PORTS |-> <<>>, tables |-> <<>>, services |-> <<>>,
     aliases |-> <<>>, modules |-> <<>>, loaded |-> Resident,
     moved |-> FALSE, clamped |-> FALSE, default_logger |-> NULL, used_access_controllers |-> <<"default_acl">>]))

Init == /\ main \in Mains /\ stack = <<Files[main]>>
        /\ LET c == ci_args_apply(Fresh) IN live = Done(c) /\ fresh = Done(c)
        /\ old_ports = <<>> /\ status = "reading" /\ reads = 1

\* One line: an Include opens a file, or refuses it; the lines after a wrong one are read too.
ReadLine ==
  /\ status = "reading" /\ stack # <<>> /\ Last(stack) # <<>>
  /\ LET l == Head(Last(stack))
         rest == [stack EXCEPT ![Len(stack)] = Tail(@)]
         Step(p) == LET r == process_line(p.st, l) IN [st |-> r.st, ok |-> p.ok /\ r.ok]
         Refuse(p) == [p EXCEPT !.ok = FALSE]
     IN IF l.d = "Include"
          THEN IF Len(stack) >= MAX_INCLUDE_LEVEL \/ l.file \notin DOMAIN Files
                 THEN stack' = rest /\ live' = Refuse(live) /\ fresh' = Refuse(fresh)
                 ELSE stack' = Append(rest, Files[l.file]) /\ UNCHANGED <<live, fresh>>
          ELSE stack' = rest /\ live' = Step(live) /\ fresh' = Step(fresh)
  /\ UNCHANGED <<main, old_ports, status, reads>>
EndOfFile ==
  /\ status = "reading" /\ stack # <<>> /\ Last(stack) = <<>>
  /\ stack' = Front(stack)
  /\ UNCHANGED <<main, live, fresh, old_ports, status, reads>>

(* --------------------------- opening the ports ------------------------- *)
ci_port_compare_config(p, q) == p.port = q.port /\ p.tls = q.tls
ci_port_handle_reconfigure(new, old) ==
  [i \in DOMAIN new |->
     LET found == First(old, LAMBDA p : ci_port_compare_config(p, new[i]))
     IN IF found = {} \/ \E j \in 1..i-1 : ci_port_compare_config(new[j], new[i]) THEN new[i]
        ELSE CHOOSE p \in found : TRUE]
\* A second line of a TLS port that was moved already moves no BIO: ci_port_reconfigure_tls asserts that there is one.
BioMissing(new, old) ==
  \E i \in DOMAIN new : /\ new[i].tls /\ \E j \in 1..i-1 : ci_port_compare_config(new[j], new[i])
                        /\ \E k \in DOMAIN old : ci_port_compare_config(new[i], old[k])
\* bind(2) refuses a port that another socket listens on, in this process or in a child of the old configuration.
Binds(ports, held, i) ==
  /\ ports[i].port \notin held
  /\ \A j \in DOMAIN ports \ {i} : ports[j].port = ports[i].port =>
                                    ~ports[j].listens /\ (j > i \/ ports[j].configured)
\* icap_init_server_tls does not look at what BIO_do_accept returned: a TLS port that cannot be bound is no error.
init_server(ports, held) ==
  /\ ports # <<>>
  /\ \A i \in DOMAIN ports : ports[i].configured \/ ports[i].tls \/ Binds(ports, held, i)
Opened(c, ports, held) ==
  post_init_services([c EXCEPT !.PORTS = [i \in DOMAIN ports |->
    [ports[i] EXCEPT !.configured = TRUE, !.listens = IF ports[i].configured THEN @ ELSE Binds(ports, held, i)]]])
Held == {old_ports[i].port : i \in {i \in DOMAIN old_ports : old_ports[i].listens}}
\* start_server and server_reconfigure write START_SERVERS itself: no line of a file, so no default is kept.
ClampServers(c) ==
  IF c.values["StartServers"].v > c.values["MaxServers"].v
    THEN [c EXCEPT !.values["StartServers"] = c.values["MaxServers"], !.clamped = TRUE] ELSE c

\* The files are read: the ports are opened, the modules and services get their last call, and the children start.
Finish ==
  /\ status = "reading" /\ stack = <<>>
  /\ LET kept == ci_port_handle_reconfigure(live.st.PORTS, old_ports)
         Up(p, ports, held) == IF p.ok /\ init_server(ports, held) THEN [p EXCEPT !.st = ClampServers(Opened(@, ports, held))]
                               ELSE [p EXCEPT !.ok = FALSE]
         crash == live.ok /\ old_ports # <<>> /\ (kept = <<>> \/ BioMissing(live.st.PORTS, old_ports))
     IN /\ fresh' = Up(fresh, fresh.st.PORTS, {})
        /\ live' = Up(live, kept, Held)
        /\ status' = IF crash THEN "crashed"     \* a NULL vector is read, or the assertion
                     ELSE IF live'.ok THEN "running" ELSE "stopped"
  /\ UNCHANGED <<main, stack, old_ports, reads>>

system_shutdown(c) == ci_dlib_closeall(release_modules(release_services(c)))
\* server_reconfigure: nothing of the old configuration is to be left.
system_reconfigure ==
  /\ status = "running" /\ reads < MaxReads
  /\ \E m \in Mains :
       LET c1 == [system_shutdown([live.st EXCEPT !.PORTS = <<>>]) EXCEPT !.tables = <<>>]     \* reset_conf_tables
           c2 == init_services(init_modules(c1))
           c3 == ci_args_apply(ci_cfg_lib_reset(cfg_default_value_restore_all(c2)))
       IN main' = m /\ stack' = <<Files[m]>> /\ live' = Done(c3) /\ fresh' = Done(ci_args_apply(Fresh))
  /\ old_ports' = live.st.PORTS /\ status' = "reading" /\ reads' = reads + 1

Next == ReadLine \/ EndOfFile \/ Finish \/ system_reconfigure
Spec == Init /\ [][Next]_vars

(* ------------------------------ properties ----------------------------- *)
Value(c, p) == IF c.values[p].at \in {0, c.gen} THEN c.values[p].v ELSE "freed"
View(c, ps) ==
  [values |-> [p \in {p \in ps : p \in DOMAIN Owner => Owner[p] \in c.loaded} |-> Value(c, p)],
   services |-> c.services, aliases |-> c.aliases, modules |-> c.modules,
   logger |-> c.default_logger, controllers |-> c.used_access_controllers,
   ports |-> [i \in DOMAIN c.PORTS |-> <<c.PORTS[i].port, c.PORTS[i].tls>>],
   tables |-> [t \in {c.tables[i].name : i \in DOMAIN c.tables} |-> search_variables(c, t)]]
\* not restored: ci_cfg_* keeps no default, nor do the schemes, and what a clamp lowers stays so
Kept == {p \in DOMAIN Owner : Owner[p] \in Resident} \cup DOMAIN Schemes
        \cup (IF live.st.clamped THEN {"StartServers"} ELSE {})
\* The port of line i was one of the other kind, or one that could not be bound.
Clash(i) == \E k \in DOMAIN old_ports : /\ live.st.PORTS[i].port = old_ports[k].port
                                        /\ (live.st.PORTS[i].tls # old_ports[k].tls \/ ~old_ports[k].listens)

\* A reconfiguration leaves nothing of the old configuration: the server has the services, aliases, tables, modules,
\* controllers, ports and parameters that a server started with the new file has, listens on the ports on which that
\* one listens, and fails on the files on which a start fails.  The exceptions: a port whose kind changes, for the old
\* children still listen on it; a TLS port that could not be bound, for it is not tried again, and one that is named
\* twice; and StartServers once it was lowered to MaxServers, which stays at most what a start has.
ReconfigureIsRestart ==
  /\ status = "running" =>
       /\ fresh.ok /\ View(live.st, Params \ Kept) = View(fresh.st, Params \ Kept)
       /\ \A i \in DOMAIN live.st.PORTS : live.st.PORTS[i].listens = fresh.st.PORTS[i].listens \/ Clash(i)
       /\ live.st.values["StartServers"].v <= fresh.st.values["StartServers"].v
  /\ status \in {"stopped", "crashed"} =>
       ~fresh.ok \/ (\E i \in DOMAIN live.st.PORTS : Clash(i)) \/ BioMissing(live.st.PORTS, old_ports)
\* reconfig() says it resets all parameters to their default values.  (Refuted: what ci_cfg_* sets has no default kept,
\* and neither have the schemes of locks and shared memory, the library's copy of the temporary directory, TLS_ENABLED,
\* and a StartServers that was lowered to MaxServers.)
DefaultsRestored ==
  status = "running" => /\ \A p \in Params : Value(live.st, p) = Value(fresh.st, p)
                        /\ live.st.TLS_ENABLED = fresh.st.TLS_ENABLED
                        /\ live.st.CI_TMPDIR.at \in {0, live.st.gen}
\* A server that runs listens on every port of its file.  (Refuted: a TLS port whose bind failed is taken for opened.)
PortsListen == status = "running" => \A i \in DOMAIN live.st.PORTS : live.st.PORTS[i].listens
\* "Allow206 on|off: Enable/disable advertise of 206 responses."  (Refuted: off leaves it enabled and on disables it.)
Allow206Stated ==
  \A i \in DOMAIN live.st.services : status = "running" /\ live.st.services[i].disable_206 =>
     \E k \in DOMAIN Files[main] : Files[main][k].d = "Allow206" /\ Files[main][k].val = "off"
\* The names in the tables stay where they are.  (Refuted with more than STEP aliases or services: their memory moves.)
NamesStay == ~live.st.moved
=============================================================================
