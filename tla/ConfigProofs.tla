---------------------------- MODULE ConfigProofs ----------------------------
(***************************************************************************)
(* Proofs about Config, for files of any length, any number of connectors  *)
(* and any directives: the state is well typed, and the settings a server  *)
(* serves with are consistent.                                             *)
(*                                                                         *)
(* What is needed beyond the properties is what is known before they can   *)
(* be observed: of the connector that is still being read, and of a server *)
(* between the end of the file and the check of the database.              *)
(***************************************************************************)
EXTENDS Config, TLAPS

\* A connector that is being read will fit, and its versions are in order.
ConnInv ==
    /\ inside => Len(listeners) < MaxListeners
    /\ conn.tls_minimum_version <= conn.tls_maximum_version

\* Once the file is read the server has a listener and can name its database.
CheckInv ==
    phase \in {"check", "serve"} =>
        /\ listeners # <<>>
        /\ Credentials(env["server"])
        /\ env["server"].db_port = 0 => env["server"].dbase = "sqlite3"
        /\ phase = "serve" => env["server"].dbase # "none"

\* The tool takes from a file what the server takes, as far as the credentials go.
Same(e) ==
    /\ e["admtool"].dbase = e["server"].dbase
    /\ e["admtool"].db_server = e["server"].db_server
    /\ e["admtool"].db_user = e["server"].db_user
    /\ e["admtool"].db_pass = e["server"].db_pass

EnvInv == Same(env)

\* What every listener satisfies.
Ordered(c) == c.tls_minimum_version <= c.tls_maximum_version

ListenerInv == \A i \in 1..Len(listeners) : Ordered(listeners[i])

ConfigInv == TypeOK /\ ConnInv /\ CheckInv /\ EnvInv /\ ListenerInv

-----------------------------------------------------------------------------
(* The four ways a directive ends.                                         *)

\* A fatal error while parsing ends the program and leaves the settings alone.
LEMMA ExitStep ==
  ASSUME ConfigInv, Exit
  PROVE  ConfigInv'
BY DEF ConfigInv, Exit, TypeOK, ConnInv, CheckInv, EnvInv, Same, ListenerInv

\* Replacing the settings of the server keeps the invariant.
LEMMA CfgStep ==
  ASSUME ConfigInv, phase = "parse", NEW c \in Cfg, SetCfg(c)
  PROVE  ConfigInv'
BY DEF ConfigInv, SetCfg, TypeOK, ConnInv, CheckInv, EnvInv, Same, ListenerInv

\* The connector being read is neither a listener nor seen by the tool.
LEMMA ConnStep ==
  ASSUME ConfigInv, NEW c \in Connector, SetConn(c),
         c.tls_minimum_version <= c.tls_maximum_version
  PROVE  ConfigInv'
BY DEF ConfigInv, SetConn, TypeOK, ConnInv, CheckInv, EnvInv, Same, ListenerInv

\* A value both programs take from the file.
LEMMA EnvStep ==
  ASSUME ConfigInv, phase = "parse", NEW e \in [Mode -> Env], Same(e), SetEnv(e)
  PROVE  ConfigInv'
BY DEF ConfigInv, SetEnv, TypeOK, ConnInv, CheckInv, EnvInv, ListenerInv

-----------------------------------------------------------------------------
\* The defaults of a connector block are well typed.
LEMMA NewConnectorType == NewConnector \in Connector
BY ConfigAssumption DEF NewConnector, Connector, Path, Version, UInt16

\* The defaults before the file is read satisfy the invariant.
LEMMA ConfigInit == ASSUME Init PROVE ConfigInv
<1> USE ConfigAssumption
<1>2. TypeOK
  <2>1. env \in [Mode -> Env]
    BY DEF Init, Env, Engine, UInt16
  <2>2. cfg \in Cfg
    BY DEF Init, Cfg
  <2>3. listeners \in Seq(Connector) /\ Len(listeners) <= MaxListeners
    BY DEF Init
  <2> QED BY NewConnectorType, <2>1, <2>2, <2>3 DEF Init, TypeOK
<1>3. ConnInv
  BY DEF Init, ConnInv, NewConnector
<1>4. CheckInv /\ EnvInv /\ ListenerInv
  BY DEF Init, CheckInv, EnvInv, Same, ListenerInv, Mode
<1> QED BY <1>2, <1>3, <1>4 DEF ConfigInv

\* Directives only the server acts on keep the invariant.
LEMMA ServerDirectiveStep ==
  ASSUME ConfigInv, ServerDirective
  PROVE  ConfigInv'
<1> USE DEF Global
<1>1. cfg \in Cfg
  BY DEF ConfigInv, TypeOK
<1>2. CASE UseAuth
  BY <1>1, <1>2, CfgStep DEF UseAuth, Cfg
<1>3. CASE UseACL
  <2>1. CASE Exit
    BY <2>1, ExitStep
  <2>2. CASE cfg.use_auth /\ SetCfg([cfg EXCEPT !.use_acl = TRUE])
    BY <1>1, <1>3, <2>2, CfgStep DEF UseACL, Cfg
  <2> QED BY <1>3, <2>1, <2>2 DEF UseACL
<1>4. CASE MessageBodyInDb
  <2>1. CASE Exit
    BY <2>1, ExitStep
  <2>2. CASE SetCfg([cfg EXCEPT !.message_body_in_db = TRUE])
    BY <1>1, <1>4, <2>2, CfgStep DEF MessageBodyInDb, Cfg
  <2> QED BY <1>4, <2>1, <2>2 DEF MessageBodyInDb
<1>5. CASE MessageCountInDb
  <2>1. CASE Exit
    BY <2>1, ExitStep
  <2>2. CASE SetCfg([cfg EXCEPT !.message_count_in_db = TRUE])
    BY <1>1, <1>5, <2>2, CfgStep DEF MessageCountInDb, Cfg
  <2> QED BY <1>5, <2>1, <2>2 DEF MessageCountInDb
<1>6. CASE TLSMandatory
  BY <1>1, <1>6, CfgStep DEF TLSMandatory, Cfg
<1>7. CASE AnonMessageIDs
  BY <1>1, <1>7, CfgStep DEF AnonMessageIDs, Cfg
<1>8. CASE MaxPostSize
  <2>1. CASE Exit
    BY <2>1, ExitStep
  <2>2. CASE SetCfg([cfg EXCEPT !.max_post_size = "set"])
    BY <1>1, <1>8, <2>2, CfgStep DEF MaxPostSize, Cfg
  <2> QED BY <1>8, <2>1, <2>2 DEF MaxPostSize
<1> QED
  BY <1>2, <1>3, <1>4, <1>5, <1>6, <1>7, <1>8 DEF ServerDirective

\* A port that is cut to 16 bits is a 16-bit number.
LEMMA Width16Type == ASSUME NEW p \in PortArg PROVE Width16(p) \in UInt16
<1>1. p \in Nat
  BY ConfigAssumption
<1> QED BY <1>1, SMTT(60) DEF Width16, UInt16

\* Directives that server and tool both act on keep the invariant.
LEMMA SharedDirectiveStep ==
  ASSUME ConfigInv, SharedDirective
  PROVE  ConfigInv'
<1> USE DEF Global, Mode
<1>1. env \in [Mode -> Env] /\ Same(env)
  BY DEF ConfigInv, TypeOK, EnvInv
<1>2. CASE DbEngine
  <2>1. CASE Exit
    BY <2>1, ExitStep
  <2>2. ASSUME NEW e \in Engine, SetEnv([m \in Mode |-> [env[m] EXCEPT !.dbase = e]])
        PROVE  ConfigInv'
    <3> DEFINE n == [m \in Mode |-> [env[m] EXCEPT !.dbase = e]]
    <3>1. n \in [Mode -> Env] /\ Same(n)
      BY <1>1 DEF Env, Same
    <3> QED BY <1>2, <2>2, <3>1, EnvStep DEF DbEngine
  <2> QED BY <1>2, <2>1, <2>2 DEF DbEngine
<1>3. CASE DbServer
  <2> DEFINE e == [m \in Mode |-> [env[m] EXCEPT !.db_server = TRUE]]
  <2>1. e \in [Mode -> Env] /\ Same(e)
    BY <1>1 DEF Env, Same
  <2> QED BY <1>3, <2>1, EnvStep DEF DbServer
<1>4. CASE DbUser
  <2> DEFINE e == [m \in Mode |-> [env[m] EXCEPT !.db_user = TRUE]]
  <2>1. e \in [Mode -> Env] /\ Same(e)
    BY <1>1 DEF Env, Same
  <2> QED BY <1>4, <2>1, EnvStep DEF DbUser
<1>5. CASE DbPass
  <2> DEFINE e == [m \in Mode |-> [env[m] EXCEPT !.db_pass = TRUE]]
  <2>1. e \in [Mode -> Env] /\ Same(e)
    BY <1>1 DEF Env, Same
  <2> QED BY <1>5, <2>1, EnvStep DEF DbPass
<1>6. CASE DbPort
  <2> PICK p \in PortArg :
        \/ Width16(p) = 0 /\ Exit
        \/ /\ Width16(p) # 0
           /\ SetEnv([m \in Mode |-> [env[m] EXCEPT !.db_port = Width16(p)]])
    BY <1>6 DEF DbPort
  <2>1. CASE Exit
    BY <2>1, ExitStep
  <2>2. CASE SetEnv([m \in Mode |-> [env[m] EXCEPT !.db_port = Width16(p)]])
    <3> DEFINE n == [m \in Mode |-> [env[m] EXCEPT !.db_port = Width16(p)]]
    <3>1. n \in [Mode -> Env] /\ Same(n)
      BY <1>1, Width16Type DEF Env, Same
    <3> QED BY <1>6, <2>2, <3>1, EnvStep DEF DbPort
  <2> QED BY <2>1, <2>2
<1>7. CASE HashSalt
  <2> PICK s \in Salt : SetEnv([m \in Mode |-> [env[m] EXCEPT !.hash_salt = s]])
    BY <1>7 DEF HashSalt
  <2> DEFINE n == [m \in Mode |-> [env[m] EXCEPT !.hash_salt = s]]
  <2>1. n \in [Mode -> Env] /\ Same(n)
    BY <1>1 DEF Env, Same
  <2> QED BY <1>7, <2>1, EnvStep DEF HashSalt
<1> QED BY <1>2, <1>3, <1>4, <1>5, <1>6, <1>7 DEF SharedDirective

-----------------------------------------------------------------------------
\* Directives inside a connector block keep the invariant.
LEMMA ConnectorDirectiveStep ==
  ASSUME ConfigInv, ConnectorDirective
  PROVE  ConfigInv'
<1> USE DEF InConnector
<1>1. /\ conn \in Connector
      /\ conn.tls_minimum_version <= conn.tls_maximum_version
  BY DEF ConfigInv, TypeOK, ConnInv
<1>2. CASE UsePort
  <2> PICK p \in PortArg :
        \/ conn.port = 0 /\ Width16(p) # 0 /\ SetConn([conn EXCEPT !.port = Width16(p)])
        \/ (conn.port # 0 \/ Width16(p) = 0) /\ Exit
    BY <1>2 DEF UsePort
  <2>1. CASE Exit
    BY <2>1, ExitStep
  <2>2. CASE SetConn([conn EXCEPT !.port = Width16(p)])
    BY <1>1, <2>2, ConnStep, Width16Type DEF Connector
  <2> QED BY <2>1, <2>2
<1>3. CASE ListenonSpec
  <2>1. CASE Exit
    BY <2>1, ExitStep
  <2>2. ASSUME NEW a \in Address, SetConn([conn EXCEPT !.listen = a])
        PROVE  ConfigInv'
    BY <1>1, <2>2, ConnStep DEF Connector
  <2> QED BY <1>3, <2>1, <2>2 DEF ListenonSpec
<1>4. CASE EnableTLS
  BY <1>1, <1>4, ConnStep DEF EnableTLS, Connector
<1>5. CASE EnableSTARTTLS
  BY <1>1, <1>5, ConnStep DEF EnableSTARTTLS, Connector
<1>6. CASE TLSCert
  BY <1>1, <1>6, ConnStep DEF TLSCert, Connector, GivenPath, FirstPath
<1>7. CASE TLSKey
  BY <1>1, <1>7, ConnStep DEF TLSKey, Connector, GivenPath, FirstPath
<1>8. CASE TLSCACert
  BY <1>1, <1>8, ConnStep DEF TLSCACert, Connector, GivenPath, FirstPath
<1>9. CASE TLSVersion
  <2> PICK a \in Version, b \in Version :
        SetConn([conn EXCEPT !.tls_minimum_version = IF b < a THEN b ELSE a,
                             !.tls_maximum_version = IF b < a THEN a ELSE b])
    BY <1>9 DEF TLSVersion
  <2> DEFINE lo == IF b < a THEN b ELSE a
             hi == IF b < a THEN a ELSE b
             c  == [conn EXCEPT !.tls_minimum_version = lo, !.tls_maximum_version = hi]
  <2>1. lo \in Version /\ hi \in Version /\ lo <= hi
    BY DEF Version
  <2>2. SetConn(c)
    OBVIOUS
  <2> HIDE DEF lo, hi
  <2>3. c \in Connector /\ c.tls_minimum_version = lo /\ c.tls_maximum_version = hi
    BY <1>1, <2>1 DEF Connector
  <2> HIDE DEF c
  <2> QED BY <2>1, <2>2, <2>3, ConnStep
<1>10. CASE TLSVerifyClient
  BY <1>1, <1>10, ConnStep DEF TLSVerifyClient, Connector
<1>11. CASE TLSCrl
  BY <1>1, <1>11, ConnStep DEF TLSCrl, Connector
<1>12. CASE TLSCrlFile
  BY <1>1, <1>12, ConnStep DEF TLSCrlFile, Connector, GivenPath
<1> QED
  BY <1>2, <1>3, <1>4, <1>5, <1>6, <1>7, <1>8, <1>9, <1>10, <1>11, <1>12
  DEF ConnectorDirective

\* A connector that starts a listener is a good one.
LEMMA ListenerStep ==
  ASSUME ConfigInv, phase = "parse", inside,
         NEW c \in Connector, StartListener(c), Ordered(c)
  PROVE  ConfigInv'
<1>2. listeners \in Seq(Connector) /\ Len(listeners) < MaxListeners
  BY DEF ConfigInv, TypeOK, ConnInv
<1>3. /\ listeners' \in Seq(Connector)
      /\ Len(listeners') = Len(listeners) + 1
      /\ \A i \in 1..Len(listeners) : listeners'[i] = listeners[i]
      /\ listeners'[Len(listeners) + 1] = c
  BY <1>2 DEF StartListener
<1>4. TypeOK'
  <2>1. Len(listeners') <= MaxListeners
    BY <1>2, <1>3, ConfigAssumption
  <2>2. conn' \in Connector /\ inside' = FALSE
    BY NewConnectorType DEF StartListener
  <2> QED BY <1>3, <2>1, <2>2 DEF ConfigInv, TypeOK, StartListener
<1>5. ConnInv'
  BY DEF StartListener, ConnInv, NewConnector
<1>6. ListenerInv'
  <2> SUFFICES ASSUME NEW i \in 1..Len(listeners')
               PROVE  Ordered(listeners'[i])
    BY DEF ListenerInv, Ordered
  <2>1. CASE i \in 1..Len(listeners)
    BY <1>3, <2>1 DEF ConfigInv, ListenerInv
  <2>2. CASE i = Len(listeners) + 1
    BY <1>3, <2>2
  <2> QED BY <1>2, <1>3, <2>1, <2>2
<1> QED
  BY <1>4, <1>5, <1>6 DEF ConfigInv, StartListener, CheckInv, EnvInv, Same

\* The end of a connector block, with its TLS checks, keeps the invariant.
LEMMA ConnectorEndStep ==
  ASSUME ConfigInv, ConnectorEnd
  PROVE  ConfigInv'
<1>1. CASE Exit
  BY <1>1, ExitStep
<1> DEFINE w == WithPort(conn)
           x == [w EXCEPT !.ctx = TRUE]
<1>2. /\ conn \in Connector
      /\ conn.tls_minimum_version <= conn.tls_maximum_version
      /\ phase = "parse" /\ inside
  BY DEF ConfigInv, TypeOK, ConnInv, ConnectorEnd
<1>3. w \in Connector
  <2>1. DefaultPort(conn) \in UInt16
    BY DEF DefaultPort, UInt16
  <2> QED BY <1>2, <2>1 DEF WithPort, Connector
<1>4. Ordered(w)
  BY <1>2 DEF WithPort, Connector, Ordered
<1>5. CASE StartListener(w)
  BY <1>2, <1>3, <1>4, <1>5, ListenerStep
<1>6. CASE StartListener(x)
  <2> HIDE DEF w
  <2>1. x \in Connector
    BY <1>3 DEF Connector
  <2>2. Ordered(x)
    BY <1>3, <1>4 DEF Connector, Ordered
  <2> QED BY <1>2, <1>6, <2>1, <2>2, ListenerStep
<1> QED BY <1>1, <1>5, <1>6 DEF ConnectorEnd

-----------------------------------------------------------------------------
\* The checks at the end of the file keep the invariant.
LEMMA EndOfFileStep ==
  ASSUME ConfigInv, EndOfFile
  PROVE  ConfigInv'
<1>1. CASE Exit
  BY <1>1, ExitStep
<1>2. ASSUME ~inside, listeners # <<>>, Credentials(env["server"]), phase' = "check",
             UNCHANGED <<cfg, inside, conn, listeners>>,
             env["server"].db_port # 0, env' = env
      PROVE  ConfigInv'
  BY <1>2
  DEF ConfigInv, TypeOK, ConnInv, CheckInv, EnvInv, Same, ListenerInv
<1>3. ASSUME ~inside, listeners # <<>>, Credentials(env["server"]), phase' = "check",
             UNCHANGED <<cfg, inside, conn, listeners>>,
             env["server"].dbase # "none",
             env' = [env EXCEPT !["server"].db_port = EnginePort(env["server"])]
      PROVE  ConfigInv'
  <2> DEFINE s == env["server"]
             t == [s EXCEPT !.db_port = EnginePort(s)]
  <2>1. s \in Env /\ env["admtool"] \in Env
    BY DEF ConfigInv, TypeOK, Mode
  <2>2. EnginePort(s) \in UInt16 /\ (EnginePort(s) = 0 => s.dbase = "sqlite3")
    <3>1. s.dbase \in {"sqlite3", "mysql", "postgres"}
      BY <1>3, <2>1 DEF Env, Engine
    <3>2. EnginePort(s) \in {0, 3306, 5432} /\ (EnginePort(s) = 0 => s.dbase = "sqlite3")
      BY <3>1 DEF EnginePort
    <3>3. 0 \in UInt16 /\ 3306 \in UInt16 /\ 5432 \in UInt16
      BY DEF UInt16
    <3> QED BY <3>2, <3>3
  <2>3. t \in Env /\ t.db_port = EnginePort(s)
    BY <2>1, <2>2 DEF Env
  <2>4. /\ t.dbase = s.dbase /\ t.db_server = s.db_server /\ t.db_user = s.db_user
        /\ t.db_pass = s.db_pass /\ t.hash_salt = s.hash_salt
    BY <2>1 DEF Env
  <2>5. env' \in [Mode -> Env] /\ env'["server"] = t /\ env'["admtool"] = env["admtool"]
    BY <1>3, <2>3 DEF ConfigInv, TypeOK, Mode
  <2> HIDE DEF t
  <2>7. CheckInv'
    BY <1>3, <2>2, <2>3, <2>4, <2>5 DEF CheckInv, Credentials
  <2>8. TypeOK' /\ ConnInv' /\ ListenerInv'
    BY <1>3, <2>5 DEF ConfigInv, TypeOK, ConnInv, ListenerInv
  <2>9. EnvInv'
    BY <2>4, <2>5 DEF ConfigInv, EnvInv, Same
  <2> QED BY <2>7, <2>8, <2>9 DEF ConfigInv
<1> QED BY <1>1, <1>2, <1>3 DEF EndOfFile

\* Every step of reading the file keeps the invariant.
LEMMA ConfigStep ==
  ASSUME ConfigInv, [Next]_vars
  PROVE  ConfigInv'
<1>1. CASE OpenFile
  <2>1. CASE Exit
    BY <2>1, ExitStep
  <2>2. CASE phase' = "parse" /\ UNCHANGED <<env, cfg, inside, conn, listeners>>
    BY <2>2
    DEF ConfigInv, TypeOK, ConnInv, CheckInv, EnvInv, Same, ListenerInv
  <2> QED BY <1>1, <2>1, <2>2 DEF OpenFile
<1>2. CASE ConnectorBegin
  <2>1. TypeOK'
    BY <1>2, NewConnectorType DEF ConnectorBegin, ConfigInv, TypeOK
  <2>2. ConnInv'
    BY <1>2 DEF ConnectorBegin, ConnInv, NewConnector
  <2> QED
    BY <1>2, <2>1, <2>2
    DEF ConnectorBegin, ConfigInv, CheckInv, EnvInv, Same, ListenerInv
<1>3. CASE CheckDb
  <2>1. CASE Exit
    BY <2>1, ExitStep
  <2>2. CASE /\ phase = "check" /\ env["server"].dbase # "none" /\ phase' = "serve"
             /\ UNCHANGED <<env, cfg, inside, conn, listeners>>
    BY <2>2
    DEF ConfigInv, TypeOK, ConnInv, CheckInv, EnvInv, Same, ListenerInv
  <2> QED BY <1>3, <2>1, <2>2 DEF CheckDb
<1>4. CASE SyntaxError
  BY <1>4, ExitStep DEF SyntaxError
<1>5. CASE UNCHANGED vars
  BY <1>5
  DEF ConfigInv, vars, TypeOK, ConnInv, CheckInv, EnvInv, Same, ListenerInv
<1> QED
  BY <1>1, <1>2, <1>3, <1>4, <1>5, ServerDirectiveStep, SharedDirectiveStep,
     ConnectorDirectiveStep, ConnectorEndStep, EndOfFileStep
  DEF Next

\* The inductive invariant holds while and after the file is read.
LEMMA ConfigInvariant == Spec => []ConfigInv
BY ConfigInit, ConfigStep, PTL DEF Spec

\* For every file and every number of connectors the state is well typed: the
\* ports that are kept fit in 16 bits and no connector is left open when the
\* server goes on to its database (config.y, basic_setup_server()).
THEOREM ConfigTypeCorrect == Spec => []TypeOK
<1>1. ConfigInv => TypeOK
  BY DEF ConfigInv
<1> QED BY <1>1, ConfigInvariant, PTL

\* For every file the range of TLS versions of each listener has a version in
\* it, however often tls-version is given (TLSVersion in config.y).
THEOREM TlsVersionsOrdered == Spec => []VersionsOrdered
<1>1. ConfigInv => VersionsOrdered
  BY DEF ConfigInv, ListenerInv, Ordered, VersionsOrdered, Listener
<1> QED BY <1>1, ConfigInvariant, PTL

\* A server that serves has a listener and can name and reach its database,
\* whatever was in the file (basic_setup_server(), check_db_()); the tool has the
\* engine and the credentials.
THEOREM ServerUsable == Spec => []ServesUsable
<1>1. ConfigInv => ServesUsable
  <2> SUFFICES ASSUME ConfigInv, phase = "serve" PROVE ServesUsable
    BY DEF ServesUsable
  <2>1. env["server"].dbase \in Engine \cup {"none"}
    BY DEF ConfigInv, TypeOK, Env, Mode
  <2>2. env["server"].dbase \in Engine /\ listeners # <<>> /\ Credentials(env["server"])
    BY <2>1 DEF ConfigInv, CheckInv
  <2>3. env["server"].dbase # "sqlite3" => env["server"].db_port # 0
    BY DEF ConfigInv, CheckInv
  <2>4. env["admtool"].dbase \in Engine /\ Credentials(env["admtool"])
    BY <2>2 DEF ConfigInv, EnvInv, Same, Credentials
  <2> QED BY <2>2, <2>3, <2>4 DEF ServesUsable, Credentials, Engine, Mode
<1> QED BY <1>1, ConfigInvariant, PTL
=============================================================================
