---------------------------- MODULE MCCompliance ----------------------------
(* Small instances of Compliance and Startup: built-in rules with a pattern  *)
(* that must not match, and rules of users, one of them no regex.           *)
EXTENDS Compliance

OneRule  == <<"http">>
TwoRules == <<"http", "ssh">>

AllOrFirst == {{}, {1}}

NoUserRule == << >>
BadRegex   == [bad |-> [finds |-> {}, must |-> FALSE, broken |-> TRUE]]
=============================================================================
