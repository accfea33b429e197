------------------------------ MODULE MCConfig ------------------------------
(***************************************************************************)
(* The instances of Config for TLC.  The two parts of a file hardly        *)
(* interact, so a file is taken from one of two families: any directives   *)
(* outside of connectors with up to two connectors without TLS, or one     *)
(* connector made of any of its directives and nothing else.               *)
(***************************************************************************)
EXTENDS Config

\* A port, and 65536, which is 0 in 16 bits.
SomePorts == {119, 65536}

NoTls(c) == c = [NewConnector EXCEPT !.listen = c.listen, !.port = c.port]

GlobalFile ==
    /\ NoTls(conn) /\ (inside => conn.port = 0)
    /\ \A i \in DOMAIN listeners : NoTls(listeners[i])

ConnectorFile ==
    /\ inside => listeners = <<>>
    /\ Len(listeners) <= 1
    /\ conn.listen \in {"none", "l1"}
    /\ cfg = [use_auth |-> FALSE, use_acl |-> FALSE, message_body_in_db |-> FALSE,
              message_count_in_db |-> FALSE, tls_is_mandatory |-> FALSE,
              anonym_message_ids |-> FALSE, max_post_size |-> "default"]
    /\ \A m \in Mode : env[m] = [dbase |-> "none", db_server |-> FALSE,
                                 db_user |-> FALSE, db_pass |-> FALSE,
                                 db_port |-> 0, hash_salt |-> "default"]

\* A step of the parser stays within one of the families.
OneFamily == phase' = "parse" => GlobalFile' \/ ConnectorFile'
=============================================================================
