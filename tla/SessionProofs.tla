--------------------------- MODULE SessionProofs ---------------------------
(***************************************************************************)
(* Proofs about Session, for every configuration of the server and every   *)
(* interleaving with changes of the database.                              *)
(***************************************************************************)
EXTENDS Session, TLAPS

-----------------------------------------------------------------------------
(* Type correctness *)

\* A new connection is well typed.
LEMMA SessionInitType == Init => TypeOK
<1> SUFFICES ASSUME Init PROVE TypeOK
    OBVIOUS
<1>1. tls \in BOOLEAN /\ switchTls \in BOOLEAN /\ auth \in BOOLEAN
      /\ foundArt \in BOOLEAN /\ selTls \in BOOLEAN
    BY DEF Init
<1>2. render \in [hdr : {"none", "date", "other"}, date : BOOLEAN]
    BY DEF Init, NoRender
<1>3. high \in [Group -> 0..MaxNum] /\ article \in 0..MaxNum /\ replies \in 0..1
    BY SessionAssumption DEF Init
<1>4. granted \subseteq Name \X Group
    BY DEF Init
<1> QED BY <1>1, <1>2, <1>3, <1>4 DEF Init, TypeOK, CmdPc

\* Connecting, TLS and disconnecting keep the types.
LEMMA ConnectionType ==
    ASSUME TypeOK, Connect \/ Close \/ SwitchToTls \/ OtherCommand \/ Starttls
    PROVE  TypeOK'
<1>0. MaxNum \in Nat
    BY SessionAssumption
<1>1. CASE Connect
    <2>1. tls' \in BOOLEAN /\ switchTls' \in BOOLEAN /\ auth' \in BOOLEAN
          /\ foundArt' \in BOOLEAN /\ selTls' \in BOOLEAN
        BY <1>1 DEF Connect
    <2>2. render' \in [hdr : {"none", "date", "other"}, date : BOOLEAN]
        BY <1>1 DEF Connect, NoRender
    <2>3. article' \in 0..MaxNum /\ replies' \in 0..1
        BY <1>0, <1>1 DEF Connect
    <2> QED BY <1>1, <2>1, <2>2, <2>3 DEF TypeOK, Connect, CmdPc, dbVars
<1>2. CASE Close
    BY <1>2 DEF TypeOK, Close, CmdPc, dbVars, tlsVars, authVars, selVars, obsVars
<1>3. CASE SwitchToTls
    <2>1. tls' \in BOOLEAN /\ switchTls' \in BOOLEAN
        BY <1>3 DEF SwitchToTls
    <2>2. article' \in 0..MaxNum
        BY <1>0, <1>3 DEF SwitchToTls
    <2> QED BY <1>3, <2>1, <2>2 DEF TypeOK, SwitchToTls, CmdPc, dbVars, authVars, obsVars
<1>4. CASE OtherCommand
    BY <1>4 DEF TypeOK, OtherCommand, Command, Answer, CmdPc, NoRender, dbVars,
                tlsVars, authVars, selVars
<1>5. CASE Starttls
    BY <1>5 DEF TypeOK, Starttls, Command, Answer, CmdPc, NoRender, dbVars,
                authVars, selVars
<1> QED BY <1>1, <1>2, <1>3, <1>4, <1>5

\* AUTHINFO USER and PASS keep the types.
LEMMA AuthType ==
    ASSUME TypeOK, AuthStep
    PROVE  TypeOK'
<1>1. ASSUME NEW u \in Name \cup {NULL}, AuthinfoUser(u) PROVE TypeOK'
    <2>1. auth' \in BOOLEAN /\ user' \in Name \cup {NULL}
        BY <1>1 DEF AuthinfoUser, TypeOK
    <2> QED BY <1>1, <2>1 DEF TypeOK, AuthinfoUser, Command, Answer, CmdPc, NoRender, dbVars,
                tlsVars, selVars
<1>2. ASSUME NEW p \in Pass, AuthinfoPass(p) PROVE TypeOK'
    BY <1>2 DEF TypeOK, AuthinfoPass, Command, Answer, CmdPc, NoRender, dbVars,
                tlsVars, selVars
<1>3. CASE AuthinfoPassFails
    <2>1. auth' \in BOOLEAN
        BY <1>3 DEF AuthinfoPassFails
    <2> QED BY <1>3, <2>1 DEF TypeOK, AuthinfoPassFails, Command, Answer, CmdPc, NoRender,
                dbVars, tlsVars, selVars
<1> QED BY <1>1, <1>2, <1>3 DEF AuthStep

\* GROUP and LISTGROUP keep the types.
LEMMA SelectType ==
    ASSUME TypeOK, SelectStep
    PROVE  TypeOK'
<1>0. MaxNum \in Nat /\ NULL \notin Group
    BY SessionAssumption
<1>1. ASSUME NEW g \in Group, Group_(g) PROVE TypeOK'
    BY <1>0, <1>1 DEF TypeOK, Group_, Command, CmdPc, NoRender, dbVars, tlsVars,
                      authVars, selVars
<1>2. ASSUME NEW g \in Group, ListgroupOf(g) PROVE TypeOK'
    BY <1>0, <1>2 DEF TypeOK, ListgroupOf, Command, CmdPc, NoRender, dbVars,
                      tlsVars, authVars
<1>3. CASE GroupAcl
    BY <1>3 DEF TypeOK, GroupAcl, CmdPc, dbVars, tlsVars, authVars, selVars, obsVars
<1>4. CASE GroupSelect
    <2>1. arg \in Group /\ replies = 0
        BY <1>4 DEF TypeOK, GroupSelect, CmdPc
    <2>2. arg \in groups => article' \in 0..MaxNum
        BY <1>0, <1>4, <2>1 DEF TypeOK, GroupSelect, FirstArticle
    <2> QED BY <1>4, <2>1, <2>2 DEF TypeOK, GroupSelect, CmdPc, dbVars, tlsVars,
                                    authVars, selVars
<1>5. CASE ListgroupCurrent
    BY <1>5 DEF TypeOK, ListgroupCurrent, Command, CmdPc, NoRender, dbVars,
                tlsVars, authVars, selVars
<1>6. CASE ListgroupAcl
    BY <1>6 DEF TypeOK, ListgroupAcl, CmdPc, dbVars, tlsVars, authVars, selVars,
                obsVars
<1>7. CASE ListgroupRows
    <2>1. arg \in Group /\ replies = 0
        BY <1>7 DEF TypeOK, ListgroupRows, CmdPc
    <2>2. article' \in 0..MaxNum
        BY <1>0, <1>7, <2>1 DEF TypeOK, ListgroupRows, ListgroupArticle
    <2> QED BY <1>7, <2>1, <2>2 DEF TypeOK, ListgroupRows, CmdPc, dbVars,
                                    tlsVars, authVars
<1> QED BY <1>1, <1>2, <1>3, <1>4, <1>5, <1>6, <1>7 DEF SelectStep

\* The reading commands keep the types.
LEMMA ReadType ==
    ASSUME TypeOK, ReadStep
    PROVE  TypeOK'
<1>0. MaxNum \in Nat /\ NULL \notin Group
    BY SessionAssumption
<1>1. ASSUME NEW n \in 0..(MaxNum + 1), Article(n) PROVE TypeOK'
    <2> DEFINE k == IF n = 0 THEN article ELSE n
               lookup == group # NULL /\ k # 0
               hit == ArticleHit(k)
    <2>1. /\ foundArt' \in BOOLEAN /\ replies' \in 0..1
          /\ article' = IF hit THEN k ELSE article
          /\ served' = IF hit THEN {group} ELSE {}
        BY <1>1 DEF Article, FoundAtStart
    <2>2. hit => group \in Group /\ k \in 0..MaxNum
        BY <1>0 DEF TypeOK, ArticleHit
    <2>3. article' \in 0..MaxNum /\ served' \subseteq Group
        BY <2>1, <2>2 DEF TypeOK
    <2> QED BY <1>1, <2>1, <2>3 DEF TypeOK, Article, Reading, Command, CmdPc,
                       NoRender, dbVars, tlsVars, authVars
<1>2. ASSUME NEW c \in BOOLEAN, NEW min \in 0..MaxNum, NEW max \in 0..MaxNum,
             Xover(c, min, max)
      PROVE  TypeOK'
    BY <1>2 DEF TypeOK, Xover, Reading, Command, CmdPc, NoRender, dbVars,
                tlsVars, authVars, selVars
<1>3. ASSUME NEW c \in BOOLEAN, NEW min \in 0..MaxNum, NEW max \in 0..MaxNum,
             NEW hdr \in {"date", "other"}, Xhdr(hdr, c, min, max)
      PROVE  TypeOK'
    <2> DEFINE isDate == XhdrSpeccmd(hdr) = "date"
               Renders == [hdr : {"none", "date", "other"}, date : BOOLEAN]
    <2>1. isDate \in BOOLEAN
        OBVIOUS
    <2>2. group \in Group
        BY <1>3 DEF TypeOK, Xhdr
    <2>3. \/ render' = [hdr |-> hdr, date |-> isDate] /\ served' = {group}
          \/ render' = NoRender /\ served' = {}
        BY <1>3 DEF Xhdr
    <2>4. [hdr |-> hdr, date |-> isDate] \in Renders
        <3> HIDE DEF isDate
        <3> QED BY <2>1
    <2>5. NoRender \in Renders
        BY DEF NoRender
    <2>6. render' \in Renders /\ served' \subseteq Group
        BY <2>2, <2>3, <2>4, <2>5
    <2> QED BY <1>3, <2>6 DEF TypeOK, Xhdr, Reading, Command, CmdPc, dbVars,
                              tlsVars, authVars, selVars
<1>4. ASSUME NEW hdr \in {"date", "other"}, XhdrNoArticle(hdr) PROVE TypeOK'
    BY <1>4 DEF TypeOK, XhdrNoArticle, XhdrSpeccmd, Answer, Reading, Command,
                CmdPc, NoRender, dbVars, tlsVars, authVars, selVars
<1>5. CASE List
    BY <1>5 DEF TypeOK, List, Listed, Reading, Command, CmdPc, NoRender, dbVars, tlsVars,
                authVars, selVars
<1> QED BY <1>1, <1>2, <1>3, <1>4, <1>5 DEF ReadStep

\* What other programs do to the tables keeps the types.
LEMMA EnvType ==
    ASSUME TypeOK, EnvStep
    PROVE  TypeOK'
<1>0. MaxNum \in Nat
    BY SessionAssumption
<1>1. ASSUME NEW g \in Group, ArticlePosted(g) PROVE TypeOK'
    <2>1. high' \in [Group -> 0..MaxNum]
        BY <1>0, <1>1 DEF TypeOK, ArticlePosted
    <2> QED BY <1>1, <2>1 DEF TypeOK, ArticlePosted, sessionVars, tlsVars,
                              authVars, selVars, obsVars
<1>2. ASSUME NEW g \in Group, GroupCreated(g) PROVE TypeOK'
    BY <1>2 DEF TypeOK, GroupCreated, sessionVars, tlsVars, authVars, selVars,
                obsVars
<1>3. ASSUME NEW g \in Group, GroupDeleted(g) PROVE TypeOK'
    <2>1. high' \in [Group -> 0..MaxNum]
        BY <1>0, <1>3 DEF TypeOK, GroupDeleted
    <2> QED BY <1>3, <2>1 DEF TypeOK, GroupDeleted, sessionVars, tlsVars,
                              authVars, selVars, obsVars
<1>4. ASSUME NEW g \in Group, NEW u \in Name, AclChanged(u, g) PROVE TypeOK'
    BY <1>4 DEF TypeOK, AclChanged, sessionVars, tlsVars, authVars, selVars,
                obsVars
<1> QED BY <1>1, <1>2, <1>3, <1>4 DEF EnvStep

\* Every step keeps the types.
LEMMA SessionNextType == TypeOK /\ [Next]_vars => TypeOK'
<1>1. TypeOK /\ UNCHANGED vars => TypeOK'
    BY DEF TypeOK, vars, dbVars, tlsVars, authVars, selVars, obsVars
<1> QED BY <1>1, ConnectionType, AuthType, SelectType, ReadType, EnvType DEF Next

\* The state of a connection keeps its types through every sequence of
\* commands; in particular the current article stays within the article bound
\* and no command adds a second status line to an answer.
THEOREM SessionTypeCorrect == Spec => []TypeOK
<1> QED BY SessionInitType, SessionNextType, PTL DEF Spec

-----------------------------------------------------------------------------
(* Authentication and TLS *)

\* A new connection satisfies the invariant of the gates.
LEMMA SessionInvInit == Init => SessionInv
BY DEF Init, SessionInv, AuthIdentity, AclHasUser, TlsGate, TlsClean, Open, CmdPc

\* Connecting, TLS and disconnecting keep the invariant of the gates.
LEMMA ConnectionInv ==
    ASSUME TypeOK, SessionInv,
           Connect \/ Close \/ SwitchToTls \/ OtherCommand \/ Starttls
    PROVE  SessionInv'
<1> USE DEF SessionInv, AuthIdentity, AclHasUser, TlsGate, TlsClean, Open, CmdPc,
            MayCommand, TlsSatisfied, Acl
<1>1. CASE Connect
    BY <1>1 DEF Connect, dbVars
<1>2. CASE Close
    BY <1>2 DEF Close, dbVars, tlsVars, authVars, selVars, obsVars
<1>3. CASE SwitchToTls
    BY <1>3 DEF SwitchToTls, dbVars, authVars, obsVars
<1>4. CASE OtherCommand
    BY <1>4 DEF OtherCommand, Command, Answer, dbVars, tlsVars, authVars, selVars
<1>5. CASE Starttls
    BY <1>5 DEF Starttls, Command, Answer, dbVars, authVars, selVars
<1> QED BY <1>1, <1>2, <1>3, <1>4, <1>5

\* AUTHINFO USER and PASS keep the invariant of the gates.
LEMMA AuthInv ==
    ASSUME TypeOK, SessionInv, AuthStep
    PROVE  SessionInv'
<1> USE DEF SessionInv, AuthIdentity, AclHasUser, TlsGate, TlsClean, Open, CmdPc,
            MayCommand, TlsSatisfied, Acl, Command, Answer, dbVars, tlsVars, selVars
<1>1. ASSUME NEW u \in Name \cup {NULL}, AuthinfoUser(u) PROVE SessionInv'
    BY <1>1 DEF AuthinfoUser
<1>2. ASSUME NEW p \in Pass, AuthinfoPass(p) PROVE SessionInv'
    BY <1>2 DEF AuthinfoPass
<1>3. CASE AuthinfoPassFails
    BY <1>3 DEF AuthinfoPassFails
<1> QED BY <1>1, <1>2, <1>3 DEF AuthStep

\* GROUP and LISTGROUP keep the invariant of the gates.
LEMMA SelectInv ==
    ASSUME TypeOK, SessionInv, SelectStep
    PROVE  SessionInv'
<1> USE DEF SessionInv, AuthIdentity, AclHasUser, TlsGate, TlsClean, Open, CmdPc,
            MayCommand, TlsSatisfied, Acl, dbVars, tlsVars, authVars
<1>0. NULL \notin Name
    BY SessionAssumption
<1>1. ASSUME NEW g \in Group, Group_(g) PROVE SessionInv'
    BY <1>1 DEF Group_, Command, selVars
<1>2. ASSUME NEW g \in Group, ListgroupOf(g) PROVE SessionInv'
    BY <1>2 DEF ListgroupOf, Command
<1>3. CASE GroupAcl
    BY <1>3 DEF GroupAcl, selVars, obsVars
<1>4. CASE GroupSelect
    BY <1>4 DEF GroupSelect, selVars
<1>5. CASE ListgroupCurrent
    BY <1>5 DEF ListgroupCurrent, Command, selVars
<1>6. CASE ListgroupAcl
    BY <1>6 DEF ListgroupAcl, selVars, obsVars
<1>7. CASE ListgroupRows
    BY <1>7 DEF ListgroupRows
<1> QED BY <1>1, <1>2, <1>3, <1>4, <1>5, <1>6, <1>7 DEF SelectStep

\* The reading commands keep the invariant of the gates.
LEMMA ReadInv ==
    ASSUME TypeOK, SessionInv, ReadStep
    PROVE  SessionInv'
<1> USE DEF SessionInv, AuthIdentity, AclHasUser, TlsGate, TlsClean, Open, CmdPc,
            MayCommand, TlsSatisfied, Acl, Reading, Command, dbVars, tlsVars,
            authVars, selVars
<1>1. ASSUME NEW n \in 0..(MaxNum + 1), Article(n) PROVE SessionInv'
    BY <1>1 DEF Article
<1>2. ASSUME NEW c \in BOOLEAN, NEW min \in 0..MaxNum, NEW max \in 0..MaxNum,
             Xover(c, min, max)
      PROVE  SessionInv'
    BY <1>2 DEF Xover
<1>3. ASSUME NEW c \in BOOLEAN, NEW min \in 0..MaxNum, NEW max \in 0..MaxNum,
             NEW hdr \in {"date", "other"}, Xhdr(hdr, c, min, max)
      PROVE  SessionInv'
    BY <1>3 DEF Xhdr
<1>4. ASSUME NEW hdr \in {"date", "other"}, XhdrNoArticle(hdr) PROVE SessionInv'
    BY <1>4 DEF XhdrNoArticle, Answer
<1>5. CASE List
    BY <1>5 DEF List
<1> QED BY <1>1, <1>2, <1>3, <1>4, <1>5 DEF ReadStep

\* Every step keeps the invariant of the gates.
LEMMA SessionInvNext ==
    TypeOK /\ SessionInv /\ [Next]_vars => SessionInv'
<1>1. SessionInv /\ UNCHANGED vars => SessionInv'
    BY DEF SessionInv, AuthIdentity, AclHasUser, TlsGate, TlsClean, Open,
           MayCommand, TlsSatisfied, Acl, vars, dbVars, tlsVars, authVars,
           selVars, obsVars
<1>2. SessionInv /\ EnvStep => SessionInv'
    BY DEF EnvStep, ArticlePosted, GroupCreated, GroupDeleted, AclChanged,
           SessionInv, AuthIdentity, AclHasUser, TlsGate, TlsClean, Open,
           MayCommand, TlsSatisfied, Acl, sessionVars, tlsVars, authVars,
           selVars, obsVars
<1> QED BY <1>1, <1>2, ConnectionInv, AuthInv, SelectInv, ReadInv DEF Next

\* The invariant of the gates holds throughout a connection.
LEMMA SessionInvariant == Spec => []SessionInv
BY SessionInvInit, SessionInvNext, SessionTypeCorrect, PTL DEF Spec

\* For every configuration, every sequence of AUTHINFO commands and every
\* change of the database meanwhile: access goes by the name whose password was
\* accepted last.
THEOREM AccessByVerifiedName == Spec => []AuthIdentity
<1>1. SessionInv => AuthIdentity
    BY DEF SessionInv
<1> QED BY <1>1, SessionInvariant, PTL

\* At both queries of a command that asks the ACL there is a name to ask for.
THEOREM AclAskedWithName == Spec => []AclHasUser
<1>1. SessionInv => AclHasUser
    BY DEF SessionInv
<1> QED BY <1>1, SessionInvariant, PTL

\* Mandatory TLS admits neither credentials nor groups in the clear, at any
\* query of any command.
THEOREM NothingInTheClear == Spec => []TlsGate
<1>1. SessionInv => TlsGate
    BY DEF SessionInv
<1> QED BY <1>1, SessionInvariant, PTL

\* No selection survives the switch to TLS, and no switch is pending on an
\* authenticated connection.
THEOREM CleanSwitch == Spec => []TlsClean
<1>1. SessionInv => TlsClean
    BY DEF SessionInv
<1> QED BY <1>1, SessionInvariant, PTL

-----------------------------------------------------------------------------
(* One status line per command *)

\* Nothing has been sent on a new connection.
LEMMA ReplyInvInit == Init => ReplyInv
BY DEF Init, ReplyInv

\* Connecting, TLS, AUTHINFO and disconnecting keep the invariant of the replies.
LEMMA ReplyConnection ==
    ASSUME TypeOK, ReplyInv,
           Connect \/ Close \/ SwitchToTls \/ OtherCommand \/ Starttls \/ AuthStep
    PROVE  ReplyInv'
BY DEF ReplyInv, Connect, Close, SwitchToTls, OtherCommand, Starttls, AuthStep,
       AuthinfoUser, AuthinfoPass, AuthinfoPassFails, Command, Answer, dbVars

\* GROUP and LISTGROUP answer once.
LEMMA ReplySelect ==
    ASSUME TypeOK, ReplyInv, SelectStep
    PROVE  ReplyInv'
<1> USE DEF ReplyInv, dbVars
<1>0. pc \in CmdPc => replies = 0
    BY DEF TypeOK
<1>1. ASSUME NEW g \in Group, Group_(g) PROVE ReplyInv'
    BY <1>1 DEF Group_, Command
<1>2. ASSUME NEW g \in Group, ListgroupOf(g) PROVE ReplyInv'
    BY <1>2 DEF ListgroupOf, Command
<1>3. CASE GroupAcl
    BY <1>3 DEF GroupAcl
<1>4. CASE GroupSelect
    BY <1>0, <1>4 DEF GroupSelect, CmdPc
<1>5. CASE ListgroupCurrent
    BY <1>5 DEF ListgroupCurrent
<1>6. CASE ListgroupAcl
    BY <1>6 DEF ListgroupAcl
<1>7. CASE ListgroupRows
    BY <1>0, <1>7 DEF ListgroupRows, CmdPc
<1> QED BY <1>1, <1>2, <1>3, <1>4, <1>5, <1>6, <1>7 DEF SelectStep

\* The reading commands answer once.
LEMMA ReplyRead ==
    ASSUME TypeOK, ReplyInv, ReadStep
    PROVE  ReplyInv'
<1> USE DEF ReplyInv, Reading, Command, dbVars
<1>1. ASSUME NEW n \in 0..(MaxNum + 1), Article(n) PROVE ReplyInv'
    <2>1. replies' = 1
        BY <1>1 DEF Article, FoundAtStart
    <2> QED BY <1>1, <2>1 DEF Article
<1>2. ASSUME NEW c \in BOOLEAN, NEW min \in 0..MaxNum, NEW max \in 0..MaxNum,
             Xover(c, min, max)
      PROVE  ReplyInv'
    BY <1>2 DEF Xover
<1>3. ASSUME NEW c \in BOOLEAN, NEW min \in 0..MaxNum, NEW max \in 0..MaxNum,
             NEW hdr \in {"date", "other"}, Xhdr(hdr, c, min, max)
      PROVE  ReplyInv'
    BY <1>3 DEF Xhdr
<1>4. ASSUME NEW hdr \in {"date", "other"}, XhdrNoArticle(hdr) PROVE ReplyInv'
    BY <1>4 DEF XhdrNoArticle, Answer
<1>5. CASE List
    BY <1>5 DEF List
<1> QED BY <1>1, <1>2, <1>3, <1>4, <1>5 DEF ReadStep

\* Every step keeps the invariant of the replies.
LEMMA ReplyInvNext ==
    TypeOK /\ ReplyInv /\ [Next]_vars => ReplyInv'
<1>1. ReplyInv /\ UNCHANGED vars => ReplyInv'
    BY DEF ReplyInv, vars, dbVars
<1>2. ReplyInv /\ EnvStep => ReplyInv'
    BY DEF EnvStep, ArticlePosted, GroupCreated, GroupDeleted, AclChanged,
           ReplyInv, sessionVars
<1> QED BY <1>1, <1>2, ReplyConnection, ReplySelect, ReplyRead DEF Next

\* Every command of every sequence ends with exactly one status line, as long
\* as no group is deleted between the two queries of GROUP.
THEOREM OneStatusLine == Spec => []OneReply
<1>1. ReplyInv => OneReply
    BY DEF ReplyInv, OneReply
<1> QED BY <1>1, ReplyInvInit, ReplyInvNext, SessionTypeCorrect, PTL DEF Spec

-----------------------------------------------------------------------------
(* The current article *)

\* No group is selected on a new connection.
LEMMA PointerInvInit == Init => PointerInv
BY DEF Init, PointerInv

\* Connecting, TLS, AUTHINFO and disconnecting keep the invariant of the pointer.
LEMMA PointerConnection ==
    ASSUME TypeOK, PointerInv,
           Connect \/ Close \/ SwitchToTls \/ OtherCommand \/ Starttls \/ AuthStep
    PROVE  PointerInv'
BY DEF PointerInv, Acl, Connect, Close, SwitchToTls, OtherCommand, Starttls,
       AuthStep, AuthinfoUser, AuthinfoPass, AuthinfoPassFails, Command, Answer,
       dbVars, selVars

\* GROUP and LISTGROUP set the pointer within the group they select.
LEMMA PointerSelect ==
    ASSUME TypeOK, PointerInv, SelectStep
    PROVE  PointerInv'
<1> USE DEF PointerInv, Acl, dbVars
<1>0. NULL \notin Group /\ MaxNum \in Nat
    BY SessionAssumption
<1>1. ASSUME NEW g \in Group, Group_(g) PROVE PointerInv'
    BY <1>1 DEF Group_, Command, selVars
<1>2. ASSUME NEW g \in Group, ListgroupOf(g) PROVE PointerInv'
    BY <1>2 DEF ListgroupOf, Command
<1>3. CASE GroupAcl
    BY <1>3 DEF GroupAcl, selVars
<1>4. CASE GroupSelect
    <2>1. arg \in Group
        BY <1>4 DEF TypeOK, GroupSelect, CmdPc
    <2>2. high[arg] \in Nat
        BY <1>0, <2>1 DEF TypeOK
    <2> QED BY <1>0, <1>4, <2>1, <2>2 DEF GroupSelect, FirstArticle, selVars
<1>5. CASE ListgroupCurrent
    BY <1>5 DEF ListgroupCurrent, Command, selVars
<1>6. CASE ListgroupAcl
    BY <1>6 DEF ListgroupAcl, selVars
<1>7. CASE ListgroupRows
    <2>1. arg \in Group
        BY <1>7 DEF TypeOK, ListgroupRows, CmdPc
    <2>2. high[arg] \in Nat
        BY <1>0, <2>1 DEF TypeOK
    <2> QED BY <1>0, <1>7, <2>1, <2>2 DEF ListgroupRows, ListgroupArticle
<1> QED BY <1>1, <1>2, <1>3, <1>4, <1>5, <1>6, <1>7 DEF SelectStep

\* The reading commands move the pointer only within the selected group.
LEMMA PointerRead ==
    ASSUME TypeOK, PointerInv, ReadStep
    PROVE  PointerInv'
<1> USE DEF PointerInv, Acl, Reading, Command, dbVars
<1>1. ASSUME NEW n \in 0..(MaxNum + 1), Article(n) PROVE PointerInv'
    BY <1>1 DEF Article, ArticleHit
<1>2. ASSUME NEW c \in BOOLEAN, NEW min \in 0..MaxNum, NEW max \in 0..MaxNum,
             Xover(c, min, max)
      PROVE  PointerInv'
    BY <1>2 DEF Xover, selVars
<1>3. ASSUME NEW c \in BOOLEAN, NEW min \in 0..MaxNum, NEW max \in 0..MaxNum,
             NEW hdr \in {"date", "other"}, Xhdr(hdr, c, min, max)
      PROVE  PointerInv'
    BY <1>3 DEF Xhdr, selVars
<1>4. ASSUME NEW hdr \in {"date", "other"}, XhdrNoArticle(hdr) PROVE PointerInv'
    BY <1>4 DEF XhdrNoArticle, selVars
<1>5. CASE List
    BY <1>5 DEF List, selVars
<1> QED BY <1>1, <1>2, <1>3, <1>4, <1>5 DEF ReadStep

\* Posting and the tool keep the pointer within what the group has had.
LEMMA PointerEnv ==
    ASSUME TypeOK, PointerInv, EnvStep
    PROVE  PointerInv'
<1> USE DEF PointerInv, Acl, sessionVars, selVars
<1>1. ASSUME NEW g \in Group, ArticlePosted(g) PROVE PointerInv'
    <2>1. MaxNum \in Nat
        BY SessionAssumption
    <2>2. \A x \in Group : high[x] <= high'[x]
        BY <1>1, <2>1 DEF TypeOK, ArticlePosted
    <2>3. \A x \in Group : high[x] \in Nat /\ high'[x] \in Nat
        BY <1>1, <2>1 DEF TypeOK, ArticlePosted
    <2>4. article \in Nat /\ group \in Group \cup {NULL}
        BY <2>1 DEF TypeOK
    <2> QED BY <1>1, <2>2, <2>3, <2>4 DEF ArticlePosted
<1>2. ASSUME NEW g \in Group, GroupCreated(g) PROVE PointerInv'
    BY <1>2 DEF GroupCreated
<1>3. ASSUME NEW g \in Group, GroupDeleted(g) PROVE PointerInv'
    BY <1>3 DEF GroupDeleted
<1>4. ASSUME NEW g \in Group, NEW u \in Name, AclChanged(u, g) PROVE PointerInv'
    BY <1>4 DEF AclChanged
<1> QED BY <1>1, <1>2, <1>3, <1>4 DEF EnvStep

\* Every step keeps the invariant of the pointer.
LEMMA PointerInvNext ==
    TypeOK /\ PointerInv /\ [Next]_vars => PointerInv'
<1>1. PointerInv /\ UNCHANGED vars => PointerInv'
    BY DEF PointerInv, Acl, vars, dbVars, selVars
<1> QED BY <1>1, PointerConnection, PointerSelect, PointerRead, PointerEnv DEF Next

\* Without the ACL and without deletions the current article always is one of
\* the selected group, through GROUP, LISTGROUP, ARTICLE and STARTTLS in any
\* order, while others post.
THEOREM PointerFollowsGroup == Spec => []PointerInGroup
<1>1. PointerInv => PointerInGroup
    BY DEF PointerInv, PointerInGroup
<1> QED BY <1>1, PointerInvInit, PointerInvNext, SessionTypeCorrect, PTL DEF Spec
=============================================================================
