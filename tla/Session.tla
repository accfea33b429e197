------------------------------ MODULE Session ------------------------------
(***************************************************************************)
(* One client connection of WendzelNNTPd: the command loop of do_server(), *)
(* the dispatcher do_command() with its authentication and TLS conditions, *)
(* and what the reading commands do to the state of the connection, on a   *)
(* database that other connections and the administration tool change.     *)
(*                                                                         *)
(* A command is one step when it executes at most one query whose result   *)
(* matters; GROUP and LISTGROUP, which check and then act, take one step   *)
(* per query, so that the database can change in between.  POST has a      *)
(* module of its own (Posting) and leaves this state alone.                *)
(***************************************************************************)
EXTENDS Naturals

CONSTANTS
    Name,        \* user names a client may send
    Pass,        \* passwords a client may send
    Accounts,    \* table users: pairs of a name and its password
    Group,       \* newsgroup names
    Configs,     \* configurations of the server and of the connector, with
                 \* what else changes the database meanwhile ("dirty_stack":
                 \* memory of a new thread need not be zero)
    NULL,        \* no user, no group
    MaxNum       \* bound: articles per group

ASSUME SessionAssumption ==
    /\ Accounts \subseteq Name \X Pass
    /\ Configs \subseteq [auth : BOOLEAN, acl : BOOLEAN, mandatory : BOOLEAN,
                          connector : {"plain", "starttls", "tls"},
                          ops : SUBSET {"post", "acl", "addgroup", "delgroup",
                                        "dirty_stack"}]
    /\ NULL \notin Name \cup Group
    /\ MaxNum \in Nat

VARIABLES
    conf,        \* use_auth, use_acl, tls_is_mandatory, the connector, ops
    \* the database
    groups,      \* names with a row in newsgroups
    high,        \* articles 1 .. high[g] are in group g
    granted,     \* <<user, group>>: what acl_check_user_group() grants
    \* sockinfo_t
    tls,         \* tls_active
    switchTls,   \* switch_to_tls
    \* serverinfo_t
    auth,        \* auth_is_there
    user,        \* cur_auth_user
    group,       \* selected_group
    article,     \* selected_article, 0 for NULL
    foundArt,    \* found_article
    speccmd,     \* "date" for SPECCMD_DATE, "none" for any other value
    \* control
    pc,          \* "closed", "loop", or the next query of a command
    arg,         \* the group that command names
    replies,     \* status lines in curstring
    \* observation
    verified,    \* the user of the last accepted AUTHINFO PASS
    selTls,      \* was TLS active when the group was selected?
    served,      \* groups the last command sent data of
    render       \* last XHDR list: [hdr, converted to a date?]

dbVars   == <<groups, high, granted>>
tlsVars  == <<tls, switchTls>>
authVars == <<auth, user, verified>>
selVars  == <<group, article, selTls>>
obsVars  == <<served, render>>
vars == <<conf, dbVars, tlsVars, authVars, selVars, foundArt, speccmd,
          pc, arg, replies, obsVars>>

CmdPc == {"group_acl", "group_select", "listgroup_acl", "listgroup_rows"}
NoRender == [hdr |-> "none", date |-> FALSE]

\* The types of the state.
TypeOK ==
    /\ conf \in Configs
    /\ groups \subseteq Group
    /\ high \in [Group -> 0..MaxNum]
    /\ granted \subseteq Name \X Group
    /\ tls \in BOOLEAN /\ switchTls \in BOOLEAN /\ auth \in BOOLEAN
    /\ user \in Name \cup {NULL} /\ verified \in Name \cup {NULL}
    /\ group \in Group \cup {NULL}
    /\ article \in 0..MaxNum
    /\ foundArt \in BOOLEAN /\ selTls \in BOOLEAN
    /\ speccmd \in {"none", "date"}
    /\ pc \in {"closed", "loop"} \cup CmdPc
    /\ arg \in Group \cup {NULL}
    /\ pc \in CmdPc => arg # NULL /\ replies = 0
    /\ replies \in 0..1
    /\ served \subseteq Group
    /\ render \in [hdr : {"none", "date", "other"}, date : BOOLEAN]

\* No connection yet.
Init ==
    /\ conf \in Configs
    /\ groups \in SUBSET Group
    /\ high = [g \in Group |-> 0]
    /\ granted \in IF conf.acl THEN SUBSET (Name \X Group) ELSE {{}}
    /\ tls = FALSE /\ switchTls = FALSE
    /\ auth = FALSE /\ user = NULL /\ verified = NULL
    /\ group = NULL /\ article = 0 /\ selTls = FALSE
    /\ foundArt = FALSE /\ speccmd = "none"
    /\ pc = "closed" /\ arg = NULL /\ replies = 0
    /\ served = {} /\ render = NoRender

-----------------------------------------------------------------------------
(* The connection *)

\* do_server(): the greeting is sent, over TLS where the connector says so.
\* inf.speccmd is on the stack and is not initialised.
Connect ==
    /\ pc = "closed"
    /\ pc' = "loop" /\ replies' = 1
    /\ tls' = (conf.connector = "tls") /\ switchTls' = FALSE
    /\ auth' = ~conf.auth /\ user' = NULL /\ verified' = NULL
    /\ group' = NULL /\ article' = 0 /\ selTls' = FALSE
    /\ foundArt' = FALSE
    /\ speccmd' \in {"none"} \cup
                     IF "dirty_stack" \in conf.ops THEN {"date"} ELSE {}
    /\ served' = {} /\ render' = NoRender
    /\ UNCHANGED <<conf, dbVars, arg>>

\* kill_thread(): QUIT, a client that is gone, a failing query or handshake.
Close ==
    /\ pc # "closed"
    /\ pc' = "closed"
    /\ UNCHANGED <<conf, dbVars, tlsVars, authVars, selVars, foundArt, speccmd,
                   arg, replies, obsVars>>

\* Mutant: the selection is kept.
SwitchToTlsKeeps ==
    /\ pc = "loop" /\ switchTls
    /\ switchTls' = FALSE
    /\ tls' = TRUE
    /\ UNCHANGED <<conf, dbVars, authVars, selVars, foundArt, speccmd, pc, arg,
                   replies, obsVars>>

\* The loop switches to TLS before it reads the next command.
SwitchToTls ==
    /\ pc = "loop" /\ switchTls
    /\ switchTls' = FALSE
    /\ tls' = TRUE
    /\ group' = NULL /\ article' = 0
    /\ UNCHANGED <<conf, dbVars, authVars, selTls, foundArt, speccmd, pc, arg,
                   replies, obsVars>>

\* A command line has been read; its answer starts out empty.
Command == pc = "loop" /\ ~switchTls

\* Mutant: CHECK_MANDATORY_TLS as it is without USE_TLS.
TlsNotChecked == TRUE

\* QUESTION_AUTH and CHECK_MANDATORY_TLS.
MayCommand == auth \/ ~conf.auth
TlsSatisfied == tls \/ ~conf.mandatory

Acl == conf.auth /\ conf.acl

\* One status line, and nothing of any group.
Answer ==
    /\ replies' = 1
    /\ served' = {} /\ render' = NoRender

\* A command that ends without touching the state below the answer: HELP,
\* DATE, CAPABILITIES, MODE READER, POST, a command that is unknown, needs
\* authentication (480) or TLS (483), or lacks its parameter.
OtherCommand ==
    /\ Command
    /\ Answer
    /\ UNCHANGED <<conf, dbVars, tlsVars, authVars, selVars, foundArt, speccmd,
                   pc, arg>>

\* docmd_starttls()
Starttls ==
    /\ Command
    /\ ~tls
    /\ conf.connector = "starttls"
    /\ ~(conf.auth /\ auth)
    /\ switchTls' = TRUE
    /\ Answer
    /\ UNCHANGED <<conf, dbVars, tls, authVars, selVars, foundArt, speccmd, pc,
                   arg>>

-----------------------------------------------------------------------------
(* Authentication *)

\* Mutant: a new name, and still authenticated.
AuthinfoUserKeepsAuth(u) ==
    /\ Command /\ TlsSatisfied
    /\ user' = IF u = NULL THEN user ELSE u
    /\ Answer
    /\ UNCHANGED <<conf, dbVars, tlsVars, auth, verified, selVars, foundArt,
                   speccmd, pc, arg>>

\* docmd_authinfo_user(); u = NULL: the parameter is missing.
AuthinfoUser(u) ==
    /\ Command /\ TlsSatisfied
    /\ auth' = FALSE
    /\ user' = IF u = NULL THEN user ELSE u
    /\ Answer
    /\ UNCHANGED <<conf, dbVars, tlsVars, verified, selVars, foundArt, speccmd,
                   pc, arg>>

\* Mutant: the name is dropped although the ACL needs it.
AuthinfoPassDropsUser(p) ==
    /\ Command /\ TlsSatisfied
    /\ user # NULL
    /\ auth' = (<<user, p>> \in Accounts)
    /\ verified' = IF auth' THEN user ELSE verified
    /\ user' = NULL
    /\ Answer
    /\ UNCHANGED <<conf, dbVars, tlsVars, selVars, foundArt, speccmd, pc, arg>>

\* docmd_authinfo_pass(); the name is kept only for the ACL checks.
AuthinfoPass(p) ==
    /\ Command /\ TlsSatisfied
    /\ user # NULL
    /\ auth' = (<<user, p>> \in Accounts)
    /\ verified' = IF auth' THEN user ELSE verified
    /\ user' = IF conf.acl THEN user ELSE NULL
    /\ Answer
    /\ UNCHANGED <<conf, dbVars, tlsVars, selVars, foundArt, speccmd, pc, arg>>

\* The user name or the password is missing.
AuthinfoPassFails ==
    /\ Command /\ TlsSatisfied
    /\ auth' = FALSE
    /\ Answer
    /\ UNCHANGED <<conf, dbVars, tlsVars, user, verified, selVars, foundArt,
                   speccmd, pc, arg>>

-----------------------------------------------------------------------------
(* Selecting a group *)

\* docmd_group(), first query: does the group exist?
Group_(g) ==
    /\ Command /\ MayCommand /\ TlsSatisfied
    /\ served' = {} /\ render' = NoRender
    /\ \/ g \notin groups /\ replies' = 1 /\ UNCHANGED <<pc, arg>>
       \/ /\ g \in groups
          /\ replies' = 0
          /\ pc' = IF Acl THEN "group_acl" ELSE "group_select"
          /\ arg' = g
    /\ UNCHANGED <<conf, dbVars, tlsVars, authVars, selVars, foundArt, speccmd>>

GroupAcl ==
    /\ pc = "group_acl"
    /\ \/ <<user, arg>> \in granted /\ pc' = "group_select" /\ UNCHANGED replies
       \/ <<user, arg>> \notin granted /\ pc' = "loop" /\ replies' = 1
    /\ UNCHANGED <<conf, dbVars, tlsVars, authVars, selVars, foundArt, speccmd,
                   arg, obsVars>>

\* Mutant: the old article is not unset.
FirstArticleOr(g) == IF high[g] = 0 THEN article ELSE 1

\* The article is unset, then set to min(postnum) if there is one.
FirstArticle(g) == IF high[g] = 0 THEN 0 ELSE 1

\* db_group(): the callback selects the group and its first article.  It is
\* not called, and nothing is answered, when the group is gone by now.
GroupSelect ==
    /\ pc = "group_select"
    /\ pc' = "loop"
    /\ \/ /\ arg \in groups
          /\ group' = arg /\ selTls' = tls
          /\ article' = FirstArticle(arg)
          /\ replies' = replies + 1
          /\ served' = {arg}
       \/ arg \notin groups /\ UNCHANGED <<selVars, replies, served>>
    /\ UNCHANGED <<conf, dbVars, tlsVars, authVars, foundArt, speccmd, arg, render>>

\* docmd_listgroup() on a named group: it is selected once it is known to
\* exist.
ListgroupOf(g) ==
    /\ Command /\ MayCommand /\ TlsSatisfied
    /\ served' = {} /\ render' = NoRender
    /\ \/ /\ g \notin groups
          /\ replies' = 1
          /\ UNCHANGED <<pc, arg, group, selTls>>
       \/ /\ g \in groups
          /\ group' = g /\ selTls' = tls
          /\ replies' = 0
          /\ pc' = IF Acl THEN "listgroup_acl" ELSE "listgroup_rows"
          /\ arg' = g
    /\ UNCHANGED <<conf, dbVars, tlsVars, authVars, article, foundArt, speccmd>>

\* docmd_listgroup() on the selected group.
ListgroupCurrent ==
    /\ Command /\ MayCommand /\ TlsSatisfied
    /\ group # NULL
    /\ replies' = 0 /\ served' = {} /\ render' = NoRender
    /\ pc' = IF Acl THEN "listgroup_acl" ELSE "listgroup_rows"
    /\ arg' = group
    /\ UNCHANGED <<conf, dbVars, tlsVars, authVars, selVars, foundArt, speccmd>>

ListgroupAcl ==
    /\ pc = "listgroup_acl"
    /\ \/ <<user, arg>> \in granted /\ pc' = "listgroup_rows" /\ UNCHANGED replies
       \/ <<user, arg>> \notin granted /\ pc' = "loop" /\ replies' = 1
    /\ UNCHANGED <<conf, dbVars, tlsVars, authVars, selVars, foundArt, speccmd,
                   arg, obsVars>>

\* db_listgroup(): while found_article is 0, the callback selects each row it
\* is called for; an article is deselected when it counted none.
ListgroupArticle(g) == IF foundArt THEN 0 ELSE high[g]

ListgroupRows ==
    /\ pc = "listgroup_rows"
    /\ pc' = "loop"
    /\ replies' = replies + 1
    /\ served' = {arg}
    /\ article' = ListgroupArticle(arg)
    /\ UNCHANGED <<conf, dbVars, tlsVars, authVars, group, selTls, foundArt,
                   speccmd, arg, render>>

-----------------------------------------------------------------------------
(* Reading *)

Reading == Command /\ MayCommand /\ TlsSatisfied

\* What db_get_high_value() returns: the variable is uninitialised when the
\* selected group has no row any more.
REALmax == IF group \in groups THEN {high[group]} ELSE 0..MaxNum

\* Mutant: found_article is not reset.
FoundBefore == foundArt

\* docmd_article() resets found_article before anything else.
FoundAtStart == FALSE

\* db_article() finds number k in the selected group.
ArticleHit(k) == group # NULL /\ k # 0 /\ k <= high[group]

\* ARTICLE, HEAD, BODY and STAT; n = 0 asks for the current article, and a
\* Message-ID counts as the number the article has in the selected group.
\* 430 is answered when found_article is still 0 after the query.
Article(n) ==
    LET k == IF n = 0 THEN article ELSE n
        lookup == group # NULL /\ k # 0
        hit == ArticleHit(k)
    IN  /\ Reading
        /\ foundArt' = (hit \/ FoundAtStart)
        /\ replies' = IF hit \/ ~lookup \/ ~foundArt' THEN 1 ELSE 0
        /\ article' = IF hit THEN k ELSE article
        /\ served' = IF hit THEN {group} ELSE {}
        /\ render' = NoRender
        /\ UNCHANGED <<conf, dbVars, tlsVars, authVars, group, selTls, speccmd,
                       pc, arg>>

\* The rows that db_xover() and db_xhdr() select.
Rows(min, max) == {n \in 1..high[group] : min <= n /\ n <= max}

\* docmd_xover() for the range min..max, or for the current article.  With no
\* group (412), no current article or an empty range (420), OtherCommand.
Xover(current, min, max) ==
    /\ Reading
    /\ group # NULL
    /\ current => article # 0 /\ min = article /\ max = article
    /\ min <= max
    /\ \E m \in REALmax : min <= m
    /\ replies' = 1
    /\ served' = IF Rows(min, max) = {} THEN {} ELSE {group}
    /\ render' = NoRender
    /\ UNCHANGED <<conf, dbVars, tlsVars, authVars, selVars, foundArt, speccmd,
                   pc, arg>>

\* docmd_xhdr() sets speccmd for the Date header before it looks at the range.
XhdrSpeccmd(hdr) == IF hdr = "date" THEN "date" ELSE speccmd

\* No current article, an unknown Message-ID or a range that is not within
\* 1..REALmax: 420.
XhdrNoArticle(hdr) ==
    /\ Reading
    /\ group # NULL
    /\ speccmd' = XhdrSpeccmd(hdr)
    /\ Answer
    /\ UNCHANGED <<conf, dbVars, tlsVars, authVars, selVars, foundArt, pc, arg>>

\* db_xhdr(): the callback converts the value to a date if speccmd says so,
\* whatever header the value is of; then speccmd is reset.
Xhdr(hdr, current, min, max) ==
    /\ Reading
    /\ group # NULL
    /\ current => article # 0 /\ min = article /\ max = article
    /\ min <= max
    /\ \E m \in REALmax : max <= m
    /\ replies' = 1
    /\ \/ /\ Rows(min, max) # {}
          /\ served' = {group}
          /\ render' = [hdr |-> hdr, date |-> XhdrSpeccmd(hdr) = "date"]
       \/ Rows(min, max) = {} /\ served' = {} /\ render' = NoRender
    /\ speccmd' = "none"
    /\ UNCHANGED <<conf, dbVars, tlsVars, authVars, selVars, foundArt, pc, arg>>

\* The callback of db_list() leaves out what the ACL does not grant.
Listed == {g \in groups : Acl => <<user, g>> \in granted}

\* LIST, LIST NEWSGROUPS, XGTITLE; db_list() resets speccmd.
List ==
    /\ Reading
    /\ replies' = 1
    /\ served' = Listed
    /\ render' = NoRender
    /\ speccmd' = "none"
    /\ UNCHANGED <<conf, dbVars, tlsVars, authVars, selVars, foundArt, pc, arg>>

-----------------------------------------------------------------------------
(* Other connections and the administration tool *)

sessionVars == <<conf, tlsVars, authVars, selVars, foundArt, speccmd, pc, arg,
                 replies, obsVars>>

ArticlePosted(g) ==
    /\ "post" \in conf.ops
    /\ g \in groups /\ high[g] < MaxNum
    /\ high' = [high EXCEPT ![g] = high[g] + 1]
    /\ UNCHANGED <<sessionVars, groups, granted>>

AclChanged(u, g) ==
    /\ "acl" \in conf.ops /\ conf.acl
    /\ g \in groups
    /\ granted' \in {granted \cup {<<u, g>>}, granted \ {<<u, g>>}}
    /\ UNCHANGED <<sessionVars, groups, high>>

GroupCreated(g) ==
    /\ "addgroup" \in conf.ops
    /\ g \notin groups
    /\ groups' = groups \cup {g}
    /\ UNCHANGED <<sessionVars, high, granted>>

GroupDeleted(g) ==
    /\ "delgroup" \in conf.ops
    /\ g \in groups
    /\ groups' = groups \ {g}
    /\ high' = [high EXCEPT ![g] = 0]
    /\ granted' = {a \in granted : a[2] # g}
    /\ UNCHANGED sessionVars

EnvStep ==
    \E g \in Group :
        \/ ArticlePosted(g) \/ GroupCreated(g) \/ GroupDeleted(g)
        \/ \E u \in Name : AclChanged(u, g)

AuthStep ==
    \/ \E u \in Name \cup {NULL} : AuthinfoUser(u)
    \/ \E p \in Pass : AuthinfoPass(p)
    \/ AuthinfoPassFails

SelectStep ==
    \/ \E g \in Group : Group_(g) \/ ListgroupOf(g)
    \/ GroupAcl \/ GroupSelect
    \/ ListgroupCurrent \/ ListgroupAcl \/ ListgroupRows

ReadStep ==
    \/ \E n \in 0..(MaxNum + 1) : Article(n)
    \/ \E c \in BOOLEAN, min, max \in 0..MaxNum :
          \/ Xover(c, min, max)
          \/ \E hdr \in {"date", "other"} : Xhdr(hdr, c, min, max)
    \/ \E hdr \in {"date", "other"} : XhdrNoArticle(hdr)
    \/ List

Next ==
    \/ Connect \/ Close \/ SwitchToTls \/ OtherCommand \/ Starttls
    \/ AuthStep \/ SelectStep \/ ReadStep \/ EnvStep

Spec == Init /\ [][Next]_vars

-----------------------------------------------------------------------------
(* Properties *)

Open == pc # "closed"

\* Whom the ACL checks ask for: while access needs a user, the name in
\* cur_auth_user is the one whose password was accepted last, although
\* AUTHINFO USER replaces the name and AUTHINFO PASS may drop it.
AuthIdentity ==
    Open /\ conf.auth /\ auth =>
        /\ verified # NULL
        /\ conf.acl => user = verified

\* acl_check_user_group() is never called without a name.
AclHasUser ==
    pc \in {"group_acl", "listgroup_acl"} => user # NULL

\* Where TLS is mandatory, a connection without it holds no name, no accepted
\* password and no group, and has been sent nothing of a group.
TlsGate ==
    Open /\ conf.mandatory /\ ~tls =>
        /\ user = NULL /\ (conf.auth => ~auth)
        /\ group = NULL /\ served = {}

\* No group selected before the switch to TLS is still selected after it, and
\* a switch is not pending on an authenticated connection.
TlsClean ==
    Open => /\ group # NULL => selTls = tls
            /\ switchTls => ~tls /\ ~(conf.auth /\ auth)

\* Every command that has ended has put exactly one status line into
\* curstring, which do_server() sends without looking whether it is NULL, as
\* long as no group is deleted while a command is at work on it.
OneReply ==
    pc = "loop" /\ "delgroup" \notin conf.ops => replies = 1

\* The current article is one of the selected group, when the ACL does not
\* come between the selection of the group and that of the article and no
\* group is deleted.
PointerInGroup ==
    pc = "loop" /\ ~Acl /\ "delgroup" \notin conf.ops /\ article # 0 =>
        group # NULL /\ article <= high[group]

\* A user is sent data only of newsgroups he has access to.
InvisibleGroups ==
    Open /\ Acl => \A g \in served : <<user, g>> \in granted

\* XHDR converts a value to a date exactly when the header asked for is Date.
XhdrConverts ==
    render.hdr # "none" => (render.date <=> render.hdr = "date")

-----------------------------------------------------------------------------
\* Why the gates of do_command() suffice: what they grant when a command is
\* read still holds at its later queries, since nothing else changes the state
\* of the connection meanwhile.
SessionInv ==
    /\ AuthIdentity /\ AclHasUser /\ TlsGate /\ TlsClean
    /\ pc \in CmdPc => MayCommand /\ TlsSatisfied /\ ~switchTls
    /\ pc \in {"group_acl", "listgroup_acl"} => Acl

\* Why OneReply holds: GROUP, which answers nothing for a group that is gone,
\* comes to its last query only for a group that existed, and groups stay.
ReplyInv ==
    "delgroup" \notin conf.ops =>
        /\ pc = "loop" => replies = 1
        /\ pc \in {"group_acl", "group_select"} => arg \in groups

\* Why PointerInGroup holds: GROUP changes group and article at once, and
\* LISTGROUP, which changes them in two steps, is not left in between.
PointerInv ==
    ~Acl /\ "delgroup" \notin conf.ops =>
        /\ pc \in {"loop", "group_select"} /\ article # 0 =>
              group # NULL /\ article <= high[group]
        /\ pc \notin {"group_acl", "listgroup_acl"}
        /\ pc = "listgroup_rows" => group = arg
=============================================================================
