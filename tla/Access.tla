------------------------------- MODULE Access -------------------------------
(* Access control: acls and access lists (acl.c), the lists of default_acl.c  *)
(* and the controllers of access.c. The configuration is read directive by    *)
(* directive; requests are then decided by it. Texts are abstracted to what   *)
(* the acl types compare.                                                     *)
EXTENDS Integers, Sequences, FiniteSets
LOCAL INSTANCE SequencesExt

CONSTANTS
  Directives,     \* lines of a configuration file: acls and access rules
  Requests,       \* src, user (NULL when there is none), day and minute
  MaxLines        \* bound: directives of a configuration

VARIABLES
  specs_list,                             \* acls in the order of their directives
  acl_access_list, acl_connection_access_list,
  written                                 \* the directives that were read

vars == <<specs_list, acl_access_list, acl_connection_access_list, written>>

NULL == "null"
UNKNOWN == "unknown"

Init == /\ specs_list = <<>> /\ acl_access_list = <<>>
        /\ acl_connection_access_list = <<>> /\ written = <<>>

-----------------------------------------------------------------------------
(* A time is written with days, or without: {}; a period that ends before it  *)
(* begins is not accepted. The stored form of a value is a sequence of it,    *)
(* empty when the value is not one of the type.                               *)
acl_time_dup(w) == IF w.from <= w.to THEN <<w>> ELSE <<>>

acl_time_equal(tmd, req) ==
  req.day \in tmd.days /\ req.minute >= tmd.from /\ req.minute <= tmd.to

dup(type, val) == IF type = "time" THEN acl_time_dup(val)
                  ELSE IF val = "bad" THEN <<>> ELSE <<val>>

\* What the request has for a type: a set of at most one value.
get_test_data(type, req) ==
  CASE type = "src" -> {req.src} [] type = "user" -> {req.user} \ {NULL} [] OTHER -> {req}

Equal(type, data, test) ==
  IF type = "time" THEN acl_time_equal(data, test) ELSE data = test

ci_acl_search(name) == SelectInSeq(specs_list, LAMBDA s : s.name = name)

\* A value that is not accepted leaves the acl without it, and is no error.
ci_acl_add_data(d) ==
  LET i == ci_acl_search(d.name)
      data == dup(d.type, d.val)
  IN IF i = 0
     THEN Append(specs_list, [name |-> d.name, type |-> d.type, data |-> data])
     ELSE IF specs_list[i].type # d.type THEN specs_list
     ELSE [specs_list EXCEPT ![i].data = @ \o data]

AclDirective(d) ==
  /\ d.directive = "acl"
  /\ specs_list' = ci_acl_add_data(d)
  /\ UNCHANGED <<acl_access_list, acl_connection_access_list>>

(* An access entry keeps the acls it names that exist. Of client_access, an   *)
(* acl of another type than the connection's is left out, unless negated: the *)
(* search is for the name with its "!".                                       *)
ForConnection(a) ==
  \/ a.negate \/ ci_acl_search(a.name) = 0
  \/ specs_list[ci_acl_search(a.name)].type \in {"port", "src", "srvip"}

Entry(d) ==
  [type |-> d.access,
   specs |-> SelectSeq(d.acls, LAMBDA a :
               /\ ci_acl_search(a.name) # 0
               /\ d.directive = "client_access" => ForConnection(a))]

cfg_default_acl_access(d) ==
  /\ \/ /\ d.directive = "client_access"
        /\ acl_connection_access_list' = Append(acl_connection_access_list, Entry(d))
        /\ UNCHANGED acl_access_list
     \/ /\ d.directive = "icap_access"
        /\ acl_access_list' = Append(acl_access_list, Entry(d))
        /\ UNCHANGED acl_connection_access_list
  /\ UNCHANGED specs_list

Read ==
  /\ Len(written) < MaxLines
  /\ \E d \in Directives : /\ written' = Append(written, d)
                           /\ AclDirective(d) \/ cfg_default_acl_access(d)

\* system_reconfigure: ci_acl_reset, and default_acl_release by release_modules.
ci_acl_reset ==
  /\ written # <<>> /\ specs_list' = <<>> /\ acl_access_list' = <<>>
  /\ acl_connection_access_list' = <<>> /\ written' = <<>>

Next == Read \/ ci_acl_reset
Spec == Init /\ [][Next]_vars

-----------------------------------------------------------------------------
spec_data_check(spec, test) ==
  \E i \in DOMAIN spec.data : Equal(spec.type, spec.data[i], test)

\* A bug: an acl without data to test is passed over.
SpecHolds_without_data(a, req) ==
  LET spec == specs_list[ci_acl_search(a.name)]
  IN \A test \in get_test_data(spec.type, req) : spec_data_check(spec, test) # a.negate

SpecHolds(a, req) ==
  LET spec == specs_list[ci_acl_search(a.name)]
  IN \E test \in get_test_data(spec.type, req) : spec_data_check(spec, test) # a.negate

request_match_specslist(specs, req) == \A i \in DOMAIN specs : SpecHolds(specs[i], req)

ci_access_entry_match_request(list, req) ==
  LET i == SelectInSeq(list, LAMBDA e : e.specs # <<>> /\ request_match_specslist(e.specs, req))
  IN IF list = <<>> THEN "allow" ELSE IF i = 0 THEN UNKNOWN ELSE list[i].type

default_acl_client_match(req) == ci_access_entry_match_request(acl_connection_access_list, req)
default_acl_request_match(req) == ci_access_entry_match_request(acl_access_list, req)

\* The only controller is default_acl.
access_check_client(req) ==
  IF default_acl_client_match(req) = UNKNOWN THEN "allow" ELSE default_acl_client_match(req)
access_check_request(req) ==
  IF default_acl_request_match(req) = UNKNOWN THEN "allow" ELSE default_acl_request_match(req)

-----------------------------------------------------------------------------
(* What the directives mean, without the data the program keeps: an acl is    *)
(* all the values given to it, a rule holds when each acl it names does.      *)
Acls == {i \in DOMAIN written : written[i].directive = "acl"}
TypeOfAcl(name) == LET first == CHOOSE i \in Acls : /\ written[i].name = name
                                                    /\ \A j \in Acls : written[j].name = name => i <= j
                   IN written[first].type
ValueHolds(d, req) ==
  IF d.type = "time"
  THEN /\ d.val.days = {} \/ req.day \in d.val.days
       /\ d.val.from <= req.minute /\ req.minute <= d.val.to
  ELSE d.val = IF d.type = "src" THEN req.src ELSE req.user
AclHolds(name, req) ==
  \E i \in Acls : /\ written[i].name = name /\ written[i].type = TypeOfAcl(name)
                  /\ ValueHolds(written[i], req)
Testable(name, req) == TypeOfAcl(name) = "user" => req.user # NULL
RuleHolds(d, req) ==
  \A i \in DOMAIN d.acls : /\ Testable(d.acls[i].name, req)
                           /\ AclHolds(d.acls[i].name, req) # d.acls[i].negate
Rules(directive) == SelectSeq(written, LAMBDA d : d.directive = directive)
Meant(directive, req) ==
  LET i == SelectInSeq(Rules(directive), LAMBDA d : RuleHolds(d, req))
  IN IF i = 0 THEN "allow" ELSE Rules(directive)[i].access

(* Rules name acls that were defined before them and that client_access       *)
(* accepts; times have days.                                                  *)
InOrder ==
  \A i \in DOMAIN written :
    written[i].directive # "acl" =>
      \A k \in DOMAIN written[i].acls :
        LET name == written[i].acls[k].name IN
          /\ \E j \in Acls : j < i /\ written[j].name = name
          /\ written[i].directive = "client_access" => TypeOfAcl(name) = "src"
DaysGiven == \A i \in Acls : written[i].type = "time" => written[i].val.days # {}

(* A request is allowed or denied by the first rule that holds for it, and    *)
(* allowed when none does: the lists that default_acl builds and walks decide *)
(* as the directives say, whatever their order, also after a reconfiguration. *)
AccessDecides ==
  InOrder /\ DaysGiven =>
    \A req \in Requests : /\ access_check_request(req) = Meant("icap_access", req)
                          /\ access_check_client(req) = Meant("client_access", req)

(* "acl time ParentsTime 20:00-24:00 00:00-8:30" (acl.c, comment of the time  *)
(* acl): a time without days holds on every day.                              *)
TimeWithoutDays ==
  InOrder => \A req \in Requests : access_check_request(req) = Meant("icap_access", req)

=============================================================================
