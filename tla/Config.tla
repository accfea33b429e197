------------------------------- MODULE Config -------------------------------
(***************************************************************************)
(* Reading wendzelnntpd.conf (config.y, config.l) and the start of the     *)
(* server up to its main loop (basic_setup_server() and check_db_()).      *)
(*                                                                         *)
(* The file is a sequence of directives, each executed as it is reduced by *)
(* the grammar, so that a check sees only the directives before it.  The   *)
(* server and wendzelnntpadm read the same file with the same parser, in   *)
(* two modes: most directives are for the server only.  The two programs   *)
(* do not interact; one step here is one directive read by both.  A file   *)
(* the server refuses ends the behaviour.                                  *)
(***************************************************************************)
EXTENDS Naturals, Sequences

CONSTANTS
    Offered,       \* the directives the files of an instance consist of
    PortArg,       \* arguments of "port" and "database-port", as atoi() reads them
    Address,       \* arguments of "listen" that are valid addresses
    Salt,          \* arguments of "hash-salt"
    MaxListeners   \* bound: connectors in the file

Engine == {"sqlite3", "mysql", "postgres"}

Directive ==
    {"use-authentication", "use-acl", "message-body-in-db", "message-count-in-db",
     "tls-is-mandatory", "enable-anonym-mids", "max-size-of-postings",
     "database-engine", "database-server", "database-username",
     "database-password", "database-port", "hash-salt",
     "port", "listen", "enable-tls", "enable-starttls", "tls-server-certificate",
     "tls-server-key", "tls-ca-certificate", "tls-version", "tls-verify-client",
     "tls-crl", "tls-crl-file", "syntax-error"}

ASSUME ConfigAssumption ==
    /\ Offered \subseteq Directive
    /\ PortArg \subseteq Nat
    /\ MaxListeners \in Nat
    /\ "none" \notin Address
    /\ "default" \notin Salt

Mode == {"server", "admtool"}

VARIABLES
    phase,      \* of the server: "open", "parse", "check", "serve" or "exit"
    env,        \* what both programs keep of the file, by parser mode
    cfg,        \* what only the server keeps, outside of the connectors
    inside,     \* the parser is between <connector> and </connector>
    conn,       \* connectorinfo, the connector being read
    listeners   \* the connectors of sockinfo[], in the order of their creation

vars == <<phase, env, cfg, inside, conn, listeners>>

-----------------------------------------------------------------------------
\* Mutant: ports are kept as int.
Width16Int(n) == n

\* uint16_t and unsigned short
UInt16 == 0..65535

Width16(n) == n % 65536

Env == [dbase : Engine \cup {"none"}, db_server : BOOLEAN, db_user : BOOLEAN,
        db_pass : BOOLEAN, db_port : UInt16, hash_salt : Salt \cup {"default"}]

Cfg == [use_auth : BOOLEAN, use_acl : BOOLEAN, message_body_in_db : BOOLEAN,
        message_count_in_db : BOOLEAN, tls_is_mandatory : BOOLEAN,
        anonym_message_ids : BOOLEAN, max_post_size : {"default", "set"}]

\* The path of a file is missing, names a readable file, or one that is not.
Path == {"none", "readable", "unreadable"}

Version == 0..3    \* TLS 1.0 to 1.3

Connector ==
    [port : UInt16, listen : Address \cup {"none"},
     enable_tls : BOOLEAN, enable_starttls : BOOLEAN,
     server_cert_file : Path, server_key_file : Path, ca_cert_file : Path,
     tls_minimum_version : Version, tls_maximum_version : Version,
     tls_verify_client : {"undev", "none", "optional", "require"},
     tls_crl : {"undev", "none", "leaf", "chain"}, tls_crl_file : Path,
     ctx : BOOLEAN]

NewConnector ==
    [port |-> 0, listen |-> "none", enable_tls |-> FALSE, enable_starttls |-> FALSE,
     server_cert_file |-> "none", server_key_file |-> "none", ca_cert_file |-> "none",
     tls_minimum_version |-> 2, tls_maximum_version |-> 3,
     tls_verify_client |-> "undev", tls_crl |-> "undev", tls_crl_file |-> "none",
     ctx |-> FALSE]

Init ==
    /\ phase = "open"
    /\ env = [m \in Mode |-> [dbase |-> "none", db_server |-> FALSE, db_user |-> FALSE,
                              db_pass |-> FALSE, db_port |-> 0, hash_salt |-> "default"]]
    /\ cfg = [use_auth |-> FALSE, use_acl |-> FALSE, message_body_in_db |-> FALSE,
              message_count_in_db |-> FALSE, tls_is_mandatory |-> FALSE,
              anonym_message_ids |-> FALSE, max_post_size |-> "default"]
    /\ inside = FALSE
    /\ conn = NewConnector
    /\ listeners = <<>>

\* Where the parser can be, what has been read, and how many connectors.
TypeOK ==
    /\ phase \in {"open", "parse", "check", "serve", "exit"}
    /\ env \in [Mode -> Env]
    /\ cfg \in Cfg
    /\ inside \in BOOLEAN
    /\ conn \in Connector
    /\ listeners \in Seq(Connector)
    /\ Len(listeners) <= MaxListeners
    /\ phase \in {"check", "serve"} => ~inside

-----------------------------------------------------------------------------
\* exit(ERR_EXIT) and err(1, ...)
Exit == phase' = "exit" /\ UNCHANGED <<env, cfg, inside, conn, listeners>>

\* fopen() and chk_file_sec()
OpenFile ==
    /\ phase = "open"
    /\ \/ phase' = "parse" /\ UNCHANGED <<env, cfg, inside, conn, listeners>>
       \/ Exit

\* The parser is at directive d, in a place where the grammar has it.
Global(d)      == phase = "parse" /\ ~inside /\ d \in Offered
InConnector(d) == phase = "parse" /\ inside /\ d \in Offered

SetCfg(c)  == cfg' = c /\ UNCHANGED <<phase, env, inside, conn, listeners>>
SetConn(c) == conn' = c /\ UNCHANGED <<phase, env, cfg, inside, listeners>>
SetEnv(e)  == env' = e /\ UNCHANGED <<phase, cfg, inside, conn, listeners>>

-----------------------------------------------------------------------------
(* Directives of the server.                                               *)

UseAuth == Global("use-authentication") /\ SetCfg([cfg EXCEPT !.use_auth = TRUE])

UseACL ==
    /\ Global("use-acl")
    /\ \/ ~cfg.use_auth /\ Exit
       \/ cfg.use_auth /\ SetCfg([cfg EXCEPT !.use_acl = TRUE])

MessageBodyInDb ==
    /\ Global("message-body-in-db")
    /\ \/ env["server"].dbase # "postgres" /\ Exit
       \/ /\ env["server"].dbase = "postgres"
          /\ SetCfg([cfg EXCEPT !.message_body_in_db = TRUE])

MessageCountInDb ==
    /\ Global("message-count-in-db")
    /\ \/ env["server"].dbase # "postgres" /\ Exit
       \/ /\ env["server"].dbase = "postgres"
          /\ SetCfg([cfg EXCEPT !.message_count_in_db = TRUE])

TLSMandatory ==
    Global("tls-is-mandatory") /\ SetCfg([cfg EXCEPT !.tls_is_mandatory = TRUE])

AnonMessageIDs ==
    Global("enable-anonym-mids") /\ SetCfg([cfg EXCEPT !.anonym_message_ids = TRUE])

\* The argument is a number, or atoi() makes 0 of it.
MaxPostSize ==
    /\ Global("max-size-of-postings")
    /\ \/ SetCfg([cfg EXCEPT !.max_post_size = "set"])
       \/ Exit

-----------------------------------------------------------------------------
(* Directives of both programs.                                            *)

\* An engine neither program supports ends both.
DbEngine ==
    /\ Global("database-engine")
    /\ \/ \E e \in Engine : SetEnv([m \in Mode |-> [env[m] EXCEPT !.dbase = e]])
       \/ Exit

DbServer ==
    /\ Global("database-server")
    /\ SetEnv([m \in Mode |-> [env[m] EXCEPT !.db_server = TRUE]])

DbUser ==
    /\ Global("database-username")
    /\ SetEnv([m \in Mode |-> [env[m] EXCEPT !.db_user = TRUE]])

DbPass ==
    /\ Global("database-password")
    /\ SetEnv([m \in Mode |-> [env[m] EXCEPT !.db_pass = TRUE]])

DbPort ==
    /\ Global("database-port")
    /\ \E p \in PortArg :
          \/ Width16(p) = 0 /\ Exit
          \/ /\ Width16(p) # 0
             /\ SetEnv([m \in Mode |-> [env[m] EXCEPT !.db_port = Width16(p)]])

HashSalt ==
    /\ Global("hash-salt")
    /\ \E s \in Salt : SetEnv([m \in Mode |-> [env[m] EXCEPT !.hash_salt = s]])

-----------------------------------------------------------------------------
(* Connectors.                                                             *)

ConnectorBegin ==
    /\ phase = "parse" /\ ~inside
    /\ Len(listeners) < MaxListeners
    /\ inside' = TRUE
    /\ conn' = NewConnector
    /\ UNCHANGED <<phase, env, cfg, listeners>>

UsePort ==
    /\ InConnector("port")
    /\ \E p \in PortArg :
          \/ conn.port = 0 /\ Width16(p) # 0 /\ SetConn([conn EXCEPT !.port = Width16(p)])
          \/ (conn.port # 0 \/ Width16(p) = 0) /\ Exit

ListenonSpec ==
    /\ InConnector("listen")
    /\ \/ conn.listen # "none" /\ Exit
       \/ /\ conn.listen = "none"
          /\ \E a \in Address : SetConn([conn EXCEPT !.listen = a])

EnableTLS == InConnector("enable-tls") /\ SetConn([conn EXCEPT !.enable_tls = TRUE])

EnableSTARTTLS ==
    InConnector("enable-starttls") /\ SetConn([conn EXCEPT !.enable_starttls = TRUE])

\* The first of several paths counts.
FirstPath(old, p) == IF old = "none" THEN p ELSE old

GivenPath == Path \ {"none"}

TLSCert ==
    /\ InConnector("tls-server-certificate")
    /\ \E p \in GivenPath :
          SetConn([conn EXCEPT !.server_cert_file = FirstPath(conn.server_cert_file, p)])

TLSKey ==
    /\ InConnector("tls-server-key")
    /\ \E p \in GivenPath :
          SetConn([conn EXCEPT !.server_key_file = FirstPath(conn.server_key_file, p)])

TLSCACert ==
    /\ InConnector("tls-ca-certificate")
    /\ \E p \in GivenPath :
          SetConn([conn EXCEPT !.ca_cert_file = FirstPath(conn.ca_cert_file, p)])

\* Mutant: the two versions are taken as they stand.
TLSVersionAsIs ==
    /\ InConnector("tls-version")
    /\ \E a, b \in Version :
          SetConn([conn EXCEPT !.tls_minimum_version = a, !.tls_maximum_version = b])

\* "1.a-1.b": the two versions are exchanged if they come in the wrong order.
TLSVersion ==
    /\ InConnector("tls-version")
    /\ \E a, b \in Version :
          SetConn([conn EXCEPT
                     !.tls_minimum_version = IF b < a THEN b ELSE a,
                     !.tls_maximum_version = IF b < a THEN a ELSE b])

\* A word that is none of these is ignored.
TLSVerifyClient ==
    /\ InConnector("tls-verify-client")
    /\ \E v \in {"none", "optional", "require"} :
          SetConn([conn EXCEPT !.tls_verify_client = v])

TLSCrl ==
    /\ InConnector("tls-crl")
    /\ \E v \in {"none", "leaf", "chain"} : SetConn([conn EXCEPT !.tls_crl = v])

\* The last of several paths counts.
TLSCrlFile ==
    /\ InConnector("tls-crl-file")
    /\ \E p \in GivenPath : SetConn([conn EXCEPT !.tls_crl_file = p])

-----------------------------------------------------------------------------
(* The end of a connector.                                                 *)

\* initialize_connector_ports()
DefaultPort(c) == IF c.enable_tls THEN 563 ELSE 119

WithPort(c) == IF c.port = 0 THEN [c EXCEPT !.port = DefaultPort(c)] ELSE c

WantsTls(c) == c.enable_tls \/ c.enable_starttls

\* check_tls_prerequisites()
Prerequisites(c) == c.server_cert_file = "readable" /\ c.server_key_file = "readable"

\* tls_global_init() comes to its end only if OpenSSL can load all the files:
\* a CA certificate is needed, and a file if revocation lists are used.  If the
\* context has no store for them, the lists are passed over.
Loadable(c, store) ==
    /\ {c.server_cert_file, c.server_key_file, c.ca_cert_file} = {"readable"}
    /\ store /\ c.tls_crl \in {"leaf", "chain"} => c.tls_crl_file = "readable"

\* bind() gives an address and port to one socket only.
Bound(c) == \E i \in 1..Len(listeners) :
                listeners[i].listen = c.listen /\ listeners[i].port = c.port

\* start_listeners().  The pointer to a finished connector is not used again.
StartListener(c) ==
    /\ inside' = FALSE
    /\ conn' = NewConnector
    /\ listeners' = Append(listeners, c)
    /\ UNCHANGED <<phase, env, cfg>>

\* Any of the calls of OpenSSL and of the socket interface can fail, which
\* ends the server; prerequisites that are not met do not.
ConnectorEnd ==
    /\ phase = "parse" /\ inside
    /\ \/ Exit
       \/ /\ conn.listen # "none"
          /\ ~Bound(WithPort(conn))
          /\ \/ ~WantsTls(conn) /\ StartListener(WithPort(conn))
             \/ /\ WantsTls(conn) /\ ~Prerequisites(conn)
                /\ StartListener(WithPort(conn))
             \/ /\ WantsTls(conn) /\ Prerequisites(conn)
                /\ \E store \in BOOLEAN : Loadable(conn, store)
                /\ StartListener([WithPort(conn) EXCEPT !.ctx = TRUE])

-----------------------------------------------------------------------------
(* The end of the file.                                                    *)

\* A directive where the grammar has none: yyparse() fails, the server exits.
SyntaxError == phase = "parse" /\ "syntax-error" \in Offered /\ Exit

\* Mutant: the credentials are not looked at.
CredentialsAny(e) == TRUE

\* A database server needs an address, a user and a password.
Credentials(e) ==
    e.dbase \in {"mysql", "postgres"} => e.db_server /\ e.db_user /\ e.db_pass

\* The port of an engine if the file gives none; SQLite needs no port.
EnginePort(e) ==
    CASE e.dbase = "mysql" -> 3306 [] e.dbase = "postgres" -> 5432 [] OTHER -> 0

\* basic_setup_server(), after yyparse()
EndOfFile ==
    /\ phase = "parse"
    /\ \/ /\ \/ inside
             \/ listeners = <<>>
             \/ ~Credentials(env["server"])
             \/ env["server"].db_port = 0 /\ env["server"].dbase = "none"
          /\ Exit
       \/ /\ ~inside
          /\ listeners # <<>>
          /\ Credentials(env["server"])
          /\ \/ env["server"].db_port # 0 /\ env' = env
             \/ /\ env["server"].db_port = 0 /\ env["server"].dbase # "none"
                /\ env' = [env EXCEPT !["server"].db_port = EnginePort(env["server"])]
          /\ phase' = "check"
          /\ UNCHANGED <<cfg, inside, conn, listeners>>

\* check_db_(): the engine is there and a connection can be opened.
CheckDb ==
    /\ phase = "check"
    /\ \/ /\ env["server"].dbase # "none"
          /\ phase' = "serve"
          /\ UNCHANGED <<env, cfg, inside, conn, listeners>>
       \/ Exit

ServerDirective ==
    \/ UseAuth \/ UseACL \/ MessageBodyInDb \/ MessageCountInDb
    \/ TLSMandatory \/ AnonMessageIDs \/ MaxPostSize

SharedDirective ==
    DbEngine \/ DbServer \/ DbUser \/ DbPass \/ DbPort \/ HashSalt

ConnectorDirective ==
    \/ UsePort \/ ListenonSpec \/ EnableTLS \/ EnableSTARTTLS
    \/ TLSCert \/ TLSKey \/ TLSCACert \/ TLSVersion
    \/ TLSVerifyClient \/ TLSCrl \/ TLSCrlFile

Next ==
    \/ OpenFile
    \/ ServerDirective \/ SharedDirective
    \/ ConnectorBegin \/ ConnectorDirective \/ ConnectorEnd
    \/ SyntaxError \/ EndOfFile \/ CheckDb

Spec == Init /\ [][Next]_vars

-----------------------------------------------------------------------------
(* Properties.                                                             *)

Listener == {listeners[i] : i \in 1..Len(listeners)}

\* The range of TLS versions of a listener is never empty, however tls-version
\* was written and however often (TLSVersion in config.y).
VersionsOrdered ==
    \A c \in Listener : c.tls_minimum_version <= c.tls_maximum_version

\* A server that serves has a listener, and a database engine with all that is
\* needed to reach it (basic_setup_server(), check_db_()).  The tool makes no
\* such checks; with the file of a server that serves it has the same engine and
\* its credentials, though not always the port.
ServesUsable ==
    phase = "serve" =>
        /\ listeners # <<>>
        /\ \A m \in Mode :
              /\ env[m].dbase \in Engine
              /\ env[m].dbase # "sqlite3" =>
                    env[m].db_server /\ env[m].db_user /\ env[m].db_pass
        /\ env["server"].dbase # "sqlite3" => env["server"].db_port # 0

=============================================================================
