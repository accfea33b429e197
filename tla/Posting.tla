------------------------------ MODULE Posting ------------------------------
(***************************************************************************)
(* The POST command of WendzelNNTPd on each of its database engines, from  *)
(* the point where the article has been received to its 240 answer, for    *)
(* any number of connection threads, together with the newsgroup commands  *)
(* of the administration tool, which work on the same database.            *)
(*                                                                         *)
(* One step is one access to shared state: an SQL statement (each its own  *)
(* autocommit transaction on the connection of its thread), or one open,   *)
(* unlink or write of a file.  The code takes no lock around any of them.  *)
(***************************************************************************)
EXTENDS Naturals, Sequences, FiniteSets, Charstack

CONSTANTS
    Thread,      \* client connections, each served by a thread of its own
    Host,        \* what follows the number in a Message-ID
    HostOf,      \* [Thread -> Host]; constant with anonym_message_ids
    Group,       \* newsgroup names
    Lines,       \* Newsgroups lines: non-empty sequences of groups
    HighLimit,   \* last 'high' value POST still accepts (0x7ffffffe)
    UseAcl,      \* use_auth && use_acl
    Confs,       \* configurations of the database to consider
    Faults,      \* faults of the environment that may happen
    UseTool,     \* whether wendzelnntpadm is used on newsgroups and grants
    MaxPosts,    \* bound: POST commands per connection
    MaxAdmin     \* bound: administration commands

\* database-engine, message-body-in-db and message-count-in-db.  The two are
\* for PostgreSQL, but config.y also accepts them with another engine.  beside
\* says how the installation is run: the tool is used at any time, or only while
\* nobody posts.
Conf == [dbase : {"sqlite3", "mysql", "postgres"},
         bodyInDb : BOOLEAN, countInDb : BOOLEAN, beside : BOOLEAN]

ASSUME PostingAssumption ==
    /\ HostOf \in [Thread -> Host]
    /\ Lines \subseteq Seq(Group) \ {<<>>}
    /\ HighLimit \in Nat /\ MaxPosts \in Nat /\ MaxAdmin \in Nat
    /\ UseAcl \in BOOLEAN
    /\ Confs \subseteq Conf
    /\ Faults \subseteq {"crash", "db", "file", "save", "admin"}
    /\ UseTool \in BOOLEAN

VARIABLES
    conf,        \* the configuration
    \* the nextmsgid file, and the sequence of the database in its place
    fileState,   \* "absent", "empty" (created, not yet written) or "number"
    fileNum,     \* the number in it
    seq,         \* the last value of nntp_next_msg_id
    \* the spool directory and the database
    bodies,      \* body files, or the rows of table body: [msgid, art]
    postings,    \* table postings, primary key msgid: [msgid, art]
    ngposts,     \* table ngposts, primary key (msgid, ng): [msgid, ng, num]
    groups,      \* names that have a row in table newsgroups
    postable,    \* names whose row has pflag = 'y'
    high,        \* column high of those rows
    acl,         \* <<t, g>>: the user of connection t is granted group g
    \* the threads
    pc,          \* where thread t is in docmd_post()
    loc,         \* local variables of docmd_post()
    posts,       \* POST commands begun on connection t
    \* the administration tool
    adm,         \* the statement it is about to execute, and on which group
    nadm,        \* commands it has begun
    \* observation
    acked        \* articles answered with 240

fileVars  == <<fileState, fileNum, seq>>
groupVars == <<groups, postable, high, acl>>
dbVars    == <<postings, ngposts, groupVars>>
admVars   == <<conf, adm, nadm>>
vars      == <<fileVars, bodies, dbVars, pc, loc, posts, admVars, acked>>

MsgId == Nat \X Host
Art   == Thread \X Nat                 \* the n-th article of a connection
High  == 0..(HighLimit + 1)

FilePc == {"uniq_open", "uniq_create", "uniq_write", "unlink", "write"}
DbPc   == {"chk_exists", "chk_allowed", "nextval", "store_body",
           "ins_postings", "acl", "get_high", "ins_ngposts", "upd_high"}
Pc     == {"idle"} \cup FilePc \cup DbPc
LoopPc == {"acl", "get_high", "ins_ngposts", "upd_high"}
NumberedPc == {"unlink", "write", "store_body", "ins_postings"} \cup LoopPc

Local == [ngs     : Seq(Group),        \* ngstrp, split at the commas
          k       : Nat,               \* the token strtok_r() returned last
          num     : Nat,               \* id in get_uniqnum()
          curHigh : High,              \* cur_high
          stack   : Seq(Group),        \* stackp
          skipped : SUBSET Group]      \* groups the ACL refused

NoPost == [ngs |-> <<>>, k |-> 0, num |-> 0, curHigh |-> 0,
           stack |-> EmptyStack, skipped |-> {}]

\* A thread inside docmd_post() stands at a group of its line, and numbers an
\* article only below the limit.
ThreadOK(where, l) ==
    /\ where # "idle" => l.ngs \in Lines /\ l.k \in 1..Len(l.ngs)
    /\ where \in {"ins_ngposts", "upd_high"} => l.curHigh <= HighLimit

\* The types of the state; article numbers and high values stay within the
\* limit docmd_post() checks before it increments.
TypeOK ==
    /\ conf \in Confs
    /\ fileState \in {"absent", "empty", "number"}
    /\ fileNum \in Nat
    /\ seq \in Nat
    /\ bodies \subseteq [msgid : MsgId, art : Art]
    /\ postings \subseteq [msgid : MsgId, art : Art]
    /\ ngposts \subseteq [msgid : MsgId, ng : Group, num : 1..(HighLimit + 1)]
    /\ groups \subseteq Group
    /\ postable \subseteq Group
    /\ high \in [Group -> High]
    /\ acl \subseteq Thread \X Group
    /\ pc \in [Thread -> Pc]
    /\ loc \in [Thread -> Local]
    /\ \A t \in Thread : ThreadOK(pc[t], loc[t])
    /\ posts \in [Thread -> Nat]
    /\ adm \in [pc : {"idle", "ngposts", "acl", "newsgroups", "postings"},
                g : Group]
    /\ nadm \in Nat
    /\ acked \subseteq [msgid : MsgId, art : Art, ngs : Lines,
                        skipped : SUBSET Group]

\* A fresh spool directory; the administrator has created some groups.
Init ==
    /\ conf \in Confs
    /\ fileState = "absent" /\ fileNum = 0 /\ seq = 0
    /\ bodies = {} /\ postings = {} /\ ngposts = {}
    /\ groups \in SUBSET Group
    /\ postable \in SUBSET groups
    /\ high = [g \in Group |-> 0]
    /\ acl \in IF UseAcl THEN SUBSET (Thread \X Group) ELSE {{}}
    /\ pc = [t \in Thread |-> "idle"]
    /\ loc = [t \in Thread |-> NoPost]
    /\ posts = [t \in Thread |-> 0]
    /\ adm \in [pc : {"idle"}, g : Group]
    /\ nadm = 0
    /\ acked = {}

-----------------------------------------------------------------------------
(* Helpers of docmd_post(). *)

CurGroup(t) == loc[t].ngs[loc[t].k]
CurMsgId(t) == <<loc[t].num, HostOf[t]>>
CurArt(t)   == <<t, posts[t]>>

\* Mutant: the loop without its ACL check.
LoopTopNoAcl == "get_high"

\* Where the loop over the groups starts its next turn.
LoopTop == IF UseAcl THEN "acl" ELSE "get_high"

\* Where the number and the body are kept.
Numbering == IF conf.countInDb THEN "nextval" ELSE "uniq_open"
Saving    == IF conf.bodyInDb THEN "store_body" ELSE "unlink"

\* The foreign keys of ngposts and the ACL tables, ON DELETE CASCADE, which
\* the schema of SQLite does not declare.
ForeignKeys == conf.dbase \in {"mysql", "postgres"}

\* No command of the tool and no POST are under way at the same time.
Quiesced == ~(UseTool /\ conf.beside)

HasKey(table, id) == \E r \in table : r.msgid = id
Posted(id, g) == \E r \in ngposts : r.msgid = id /\ r.ng = g

Goto(t, where) == pc' = [pc EXCEPT ![t] = where]

\* The handler returns, or kill_thread() ends the thread; the client may
\* come back.  In both cases the locals are gone.
Leave(t) ==
    /\ Goto(t, "idle")
    /\ loc' = [loc EXCEPT ![t] = NoPost]

\* The process ends: exit() in the default branch of db_abstraction.c, an
\* abort, or a signal.
ServerEnds ==
    /\ pc' = [t \in Thread |-> "idle"]
    /\ loc' = [t \in Thread |-> NoPost]

\* Mutant: strtok_r() started anew in every turn.
NextGroupAgain(t, l) ==
    \/ /\ l.k < Len(l.ngs)
       /\ Goto(t, LoopTop)
       /\ loc' = [loc EXCEPT ![t] = l]
       /\ UNCHANGED acked
    \/ l.k = Len(l.ngs) /\ Leave(t) /\ UNCHANGED acked

\* Mutant: the answer is given before the last group is dealt with.
NextGroupEarly(t, l) ==
    \/ /\ l.k + 1 < Len(l.ngs)
       /\ Goto(t, LoopTop)
       /\ loc' = [loc EXCEPT ![t] = [l EXCEPT !.k = l.k + 1]]
       /\ UNCHANGED acked
    \/ /\ l.k + 1 >= Len(l.ngs)
       /\ acked' = acked \cup {[msgid |-> CurMsgId(t), art |-> CurArt(t),
                                ngs |-> l.ngs, skipped |-> l.skipped]}
       /\ Leave(t)

\* strtok_r() yields the next group, or the article is answered with 240.
NextGroup(t, l) ==
    \/ /\ l.k < Len(l.ngs)
       /\ Goto(t, LoopTop)
       /\ loc' = [loc EXCEPT ![t] = [l EXCEPT !.k = l.k + 1]]
       /\ UNCHANGED acked
    \/ /\ l.k = Len(l.ngs)
       /\ acked' = acked \cup {[msgid |-> CurMsgId(t), art |-> CurArt(t),
                                ngs |-> l.ngs, skipped |-> l.skipped]}
       /\ Leave(t)

\* Mutant: the limit taken for the number of the last article.
LimitExceededLate(h) == h > HighLimit + 1

\* cur_high > 0x7ffffffe
LimitExceeded(h) == h > HighLimit

\* Mutant: SET high = high + 1.
SetHighIncrement(g, n) ==
    IF g \in groups /\ high[g] <= HighLimit
       THEN [high EXCEPT ![g] = high[g] + 1] ELSE high

\* SELECT high FROM newsgroups WHERE name = g.  When the group has no row
\* (any more) cur_high is uninitialised on SQLite, and 0 on the others.
ReadsHigh(g, h) ==
    \/ g \in groups /\ h = high[g]
    \/ g \notin groups /\ (conf.dbase # "sqlite3" => h = 0)

\* UPDATE newsgroups SET high = n WHERE name = g
SetHigh(g, n) == IF g \in groups THEN [high EXCEPT ![g] = n] ELSE high

-----------------------------------------------------------------------------
(* The statements of docmd_post(), in their order. *)

\* POST was accepted and the article received; the header checks passed.
Post(t) ==
    /\ pc[t] = "idle"
    /\ posts[t] < MaxPosts
    /\ Quiesced => adm.pc = "idle"
    /\ \E line \in Lines :
          loc' = [loc EXCEPT ![t] = [NoPost EXCEPT !.ngs = line, !.k = 1]]
    /\ posts' = [posts EXCEPT ![t] = posts[t] + 1]
    /\ Goto(t, "chk_exists")
    /\ UNCHANGED <<fileVars, bodies, dbVars, admVars, acked>>

\* db_check_newsgroup_existence(); an unknown group ends the command (411).
ChkExistence(t) ==
    /\ pc[t] = "chk_exists"
    /\ \/ CurGroup(t) \in groups /\ Goto(t, "chk_allowed") /\ UNCHANGED loc
       \/ CurGroup(t) \notin groups /\ Leave(t)
    /\ UNCHANGED <<fileVars, bodies, dbVars, posts, admVars, acked>>

\* db_check_newsgroup_posting_allowed(), a second SELECT; 'n' ends it (440).
ChkPostingAllowed(t) ==
    /\ pc[t] = "chk_allowed"
    /\ \/ /\ CurGroup(t) \in groups \cap postable
          /\ \/ /\ loc[t].k < Len(loc[t].ngs)
                /\ loc' = [loc EXCEPT ![t] = [loc[t] EXCEPT !.k = loc[t].k + 1]]
                /\ Goto(t, "chk_exists")
             \/ /\ loc[t].k = Len(loc[t].ngs)
                /\ loc' = [loc EXCEPT ![t] = [loc[t] EXCEPT !.k = 1]]
                /\ Goto(t, Numbering)
       \/ CurGroup(t) \notin groups \cap postable /\ Leave(t)
    /\ UNCHANGED <<fileVars, bodies, dbVars, posts, admVars, acked>>

\* get_uniqnum(): fopen "rb+" and fread.  Without the file, or with one that
\* cannot be opened, it goes on to create it; an empty or unreadable one
\* yields NULL, on which docmd_post() kills the thread.
UniqOpen(t) ==
    /\ pc[t] = "uniq_open"
    /\ \/ /\ fileState = "absent" \/ "file" \in Faults
          /\ Goto(t, "uniq_create")
          /\ UNCHANGED loc
       \/ (fileState = "empty" \/ "file" \in Faults) /\ Leave(t)
       \/ /\ fileState = "number"
          /\ loc' = [loc EXCEPT ![t] = [loc[t] EXCEPT !.num = fileNum]]
          /\ Goto(t, "uniq_write")
    /\ UNCHANGED <<fileVars, bodies, dbVars, posts, admVars, acked>>

\* fopen "wb+" creates the file, and truncates one created meanwhile; if it
\* fails the thread is killed.
UniqCreate(t) ==
    /\ pc[t] = "uniq_create"
    /\ \/ /\ fileState' = "empty" /\ fileNum' = 0
          /\ loc' = [loc EXCEPT ![t] = [loc[t] EXCEPT !.num = 0]]
          /\ Goto(t, "uniq_write")
       \/ "file" \in Faults /\ Leave(t) /\ UNCHANGED <<fileState, fileNum>>
    /\ UNCHANGED <<seq, bodies, dbVars, posts, admVars, acked>>

\* id++, fwrite and fclose; the number becomes part of the Message-ID.  A
\* failing fwrite kills the thread, an error that fclose meets when it writes
\* the buffer goes unnoticed; both leave the file as it was.
UniqWrite(t) ==
    /\ pc[t] = "uniq_write"
    /\ \/ /\ \/ fileState' = "number" /\ fileNum' = loc[t].num + 1
             \/ "file" \in Faults /\ UNCHANGED <<fileState, fileNum>>
          /\ loc' = [loc EXCEPT ![t] = [loc[t] EXCEPT !.num = loc[t].num + 1]]
          /\ Goto(t, Saving)
       \/ "file" \in Faults /\ Leave(t) /\ UNCHANGED <<fileState, fileNum>>
    /\ UNCHANGED <<seq, bodies, dbVars, posts, admVars, acked>>

\* Mutant: currval() instead of nextval().
NextValCurrent(t) ==
    /\ pc[t] = "nextval"
    /\ \/ /\ conf.dbase = "postgres"
          /\ seq' = IF seq = 0 THEN 1 ELSE seq
          /\ loc' = [loc EXCEPT ![t] = [loc[t] EXCEPT !.num = seq']]
          /\ Goto(t, Saving)
       \/ conf.dbase # "postgres" /\ ServerEnds /\ UNCHANGED seq
    /\ UNCHANGED <<fileState, fileNum, bodies, dbVars, posts, admVars, acked>>

\* db_get_uniqnum(): nextval('nntp_next_msg_id'), for PostgreSQL only.
NextVal(t) ==
    /\ pc[t] = "nextval"
    /\ \/ /\ conf.dbase = "postgres"
          /\ seq' = seq + 1
          /\ loc' = [loc EXCEPT ![t] = [loc[t] EXCEPT !.num = seq + 1]]
          /\ Goto(t, Saving)
       \/ conf.dbase # "postgres" /\ ServerEnds /\ UNCHANGED seq
    /\ UNCHANGED <<fileState, fileNum, bodies, dbVars, posts, admVars, acked>>

\* Mutant: the primary key of body is missing.
StoreMessageBodyKeyless(t) ==
    /\ pc[t] = "store_body"
    /\ bodies' = {b \in bodies : b.msgid # CurMsgId(t)}
                    \cup {[msgid |-> CurMsgId(t), art |-> CurArt(t)]}
    /\ Goto(t, "ins_postings")
    /\ UNCHANGED <<fileVars, dbVars, loc, posts, admVars, acked>>

\* db_store_message_body(): the key of table body refuses a second row.
StoreMessageBody(t) ==
    /\ pc[t] = "store_body"
    /\ \/ /\ conf.dbase = "postgres"
          /\ ~HasKey(bodies, CurMsgId(t))
          /\ bodies' = bodies \cup {[msgid |-> CurMsgId(t), art |-> CurArt(t)]}
          /\ Goto(t, "ins_postings")
          /\ UNCHANGED loc
       \/ /\ conf.dbase = "postgres"
          /\ HasKey(bodies, CurMsgId(t))
          /\ Leave(t)
          /\ UNCHANGED bodies
       \/ conf.dbase # "postgres" /\ ServerEnds /\ UNCHANGED bodies
    /\ UNCHANGED <<fileVars, dbVars, posts, admVars, acked>>

\* filebackend_savebody() first unlinks a file of that name ...
SaveBodyUnlink(t) ==
    /\ pc[t] = "unlink"
    /\ bodies' = {b \in bodies : b.msgid # CurMsgId(t)}
    /\ Goto(t, "write")
    /\ UNCHANGED <<fileVars, dbVars, loc, posts, admVars, acked>>

\* ... and then creates and writes it.  docmd_post() ignores its result.
SaveBodyWrite(t) ==
    /\ pc[t] = "write"
    /\ \/ bodies' = {b \in bodies : b.msgid # CurMsgId(t)}
                       \cup {[msgid |-> CurMsgId(t), art |-> CurArt(t)]}
       \/ "save" \in Faults /\ UNCHANGED bodies
    /\ Goto(t, "ins_postings")
    /\ UNCHANGED <<fileVars, dbVars, loc, posts, admVars, acked>>

\* Mutant: INSERT OR REPLACE.
InsertOrReplace(t) ==
    /\ pc[t] = "ins_postings"
    /\ postings' = {p \in postings : p.msgid # CurMsgId(t)}
                      \cup {[msgid |-> CurMsgId(t), art |-> CurArt(t)]}
    /\ Goto(t, LoopTop)
    /\ UNCHANGED <<fileVars, bodies, loc, ngposts, groupVars, posts, admVars, acked>>

\* The primary key refuses a second row, and the thread is killed.
InsertIntoPostings(t) ==
    /\ pc[t] = "ins_postings"
    /\ \/ /\ ~HasKey(postings, CurMsgId(t))
          /\ postings' = postings \cup
                            {[msgid |-> CurMsgId(t), art |-> CurArt(t)]}
          /\ Goto(t, LoopTop)
          /\ UNCHANGED loc
       \/ HasKey(postings, CurMsgId(t)) /\ Leave(t) /\ UNCHANGED postings
    /\ UNCHANGED <<fileVars, bodies, ngposts, groupVars, posts, admVars, acked>>

\* acl_check_user_group(): a refused group is logged and skipped.  After an
\* entry of the user's own PostgreSQL's version clears one result twice, which
\* the process may not survive.
AclCheck(t) ==
    /\ pc[t] = "acl"
    /\ \/ /\ <<t, CurGroup(t)>> \in acl
          /\ Goto(t, "get_high")
          /\ UNCHANGED <<loc, acked>>
       \/ /\ <<t, CurGroup(t)>> \in acl /\ conf.dbase = "postgres"
          /\ ServerEnds
          /\ UNCHANGED acked
       \/ /\ <<t, CurGroup(t)>> \notin acl
          /\ NextGroup(t, [loc[t] EXCEPT
                             !.skipped = loc[t].skipped \cup {CurGroup(t)}])
    /\ UNCHANGED <<fileVars, bodies, dbVars, posts, admVars>>

\* db_get_high_value(), the limit, and charstack_check_for().
GetHighValue(t) ==
    /\ pc[t] = "get_high"
    /\ \E h \in High :
          /\ ReadsHigh(CurGroup(t), h)
          /\ \/ LimitExceeded(h) /\ Leave(t) /\ UNCHANGED acked
             \/ /\ ~LimitExceeded(h)
                /\ ~CheckFor(loc[t].stack, CurGroup(t))
                /\ loc' = [loc EXCEPT ![t] = [loc[t] EXCEPT !.curHigh = h]]
                /\ Goto(t, "ins_ngposts")
                /\ UNCHANGED acked
             \/ /\ ~LimitExceeded(h)
                /\ CheckFor(loc[t].stack, CurGroup(t))
                /\ NextGroup(t, loc[t])
    /\ UNCHANGED <<fileVars, bodies, dbVars, posts, admVars>>

\* Mutant: the tables know no foreign keys.
MayReferAny(id, g) == TRUE

\* A row of ngposts may refer to article id and group g.
MayRefer(id, g) == ForeignKeys => HasKey(postings, id) /\ g \in groups

\* db_post_insert_into_ngposts(); a duplicate key, or a foreign key that
\* refers to nothing, kills the thread.
InsertIntoNgposts(t) ==
    /\ pc[t] = "ins_ngposts"
    /\ \/ /\ ~Posted(CurMsgId(t), CurGroup(t))
          /\ MayRefer(CurMsgId(t), CurGroup(t))
          /\ ngposts' = ngposts \cup {[msgid |-> CurMsgId(t), ng |-> CurGroup(t),
                                       num |-> loc[t].curHigh + 1]}
          /\ Goto(t, "upd_high")
          /\ UNCHANGED loc
       \/ /\ \/ Posted(CurMsgId(t), CurGroup(t))
             \/ ~MayRefer(CurMsgId(t), CurGroup(t))
          /\ Leave(t)
          /\ UNCHANGED ngposts
    /\ UNCHANGED <<fileVars, bodies, postings, groupVars, posts, admVars, acked>>

\* db_post_update_high_value(), then charstack_push_on().
UpdateHighValue(t) ==
    /\ pc[t] = "upd_high"
    /\ high' = SetHigh(CurGroup(t), loc[t].curHigh + 1)
    /\ NextGroup(t, [loc[t] EXCEPT
                       !.stack = PushOn(loc[t].stack, CurGroup(t))])
    /\ UNCHANGED <<fileVars, bodies, postings, ngposts, groups, postable, acl,
                   posts, admVars>>

\* A statement fails (SQLITE_BUSY, I/O): 503, and the thread is killed.
StatementFails(t) ==
    /\ "db" \in Faults
    /\ pc[t] \in DbPc
    /\ Leave(t)
    /\ UNCHANGED <<fileVars, bodies, dbVars, posts, admVars, acked>>

\* The server process ends (a signal; the handlers exit) and is restarted.
Crash ==
    /\ "crash" \in Faults
    /\ \E t \in Thread : pc[t] # "idle"
    /\ ServerEnds
    /\ UNCHANGED <<fileVars, bodies, dbVars, posts, admVars, acked>>

PostStep(t) ==
    \/ ChkExistence(t) \/ ChkPostingAllowed(t)
    \/ UniqOpen(t) \/ UniqCreate(t) \/ UniqWrite(t) \/ NextVal(t)
    \/ SaveBodyUnlink(t) \/ SaveBodyWrite(t) \/ StoreMessageBody(t)
    \/ InsertIntoPostings(t)
    \/ AclCheck(t) \/ GetHighValue(t)
    \/ InsertIntoNgposts(t) \/ UpdateHighValue(t)

-----------------------------------------------------------------------------
(* The newsgroup commands of the administration tool; one runs at a time. *)

AdminBegins ==
    /\ UseTool
    /\ adm.pc = "idle"
    /\ nadm < MaxAdmin
    /\ Quiesced => \A t \in Thread : pc[t] = "idle"
    /\ nadm' = nadm + 1

postVars == <<conf, fileVars, bodies, pc, loc, posts, acked>>

\* addgroup: the name must be new; high starts at 0.
CreateNewsgroup(g) ==
    /\ AdminBegins
    /\ g \notin groups
    /\ groups' = groups \cup {g}
    /\ postable' \in {postable \cup {g}, postable \ {g}}
    /\ high' = [high EXCEPT ![g] = 0]
    /\ UNCHANGED <<postVars, postings, ngposts, acl, adm>>

\* modgroup: the posting flag is set to the given value.
ModifyNewsgroup(g) ==
    /\ AdminBegins
    /\ g \in groups
    /\ postable' \in {postable \cup {g}, postable \ {g}}
    /\ UNCHANGED <<postVars, postings, ngposts, groups, high, acl, adm>>

\* ACL commands, as far as acl_check_user_group() tells their effects apart.
ChangeAcl(t, g) ==
    /\ UseAcl /\ AdminBegins
    /\ g \in groups
    /\ acl' \in {acl \cup {<<t, g>>}, acl \ {<<t, g>>}}
    /\ UNCHANGED <<postVars, postings, ngposts, groups, postable, high, adm>>

\* Mutant: the first DELETE is left out.
DeleteNewsgroupKeepsEntries(g) ==
    /\ AdminBegins
    /\ g \in groups
    /\ adm' = [pc |-> "acl", g |-> g]
    /\ UNCHANGED <<postVars, dbVars>>

\* delgroup: five DELETE statements, the two on the ACL tables as one here;
\* PostgreSQL has only the one on newsgroups.
DeleteNewsgroup(g) ==
    /\ AdminBegins
    /\ g \in groups
    /\ adm' = [pc |-> IF conf.dbase = "postgres" THEN "newsgroups" ELSE "ngposts",
               g |-> g]
    /\ UNCHANGED <<postVars, dbVars>>

DelNgposts ==
    /\ adm.pc = "ngposts"
    /\ ngposts' = {r \in ngposts : r.ng # adm.g}
    /\ adm' = [adm EXCEPT !.pc = "acl"]
    /\ UNCHANGED <<postVars, postings, groupVars, nadm>>

DelAcl ==
    /\ adm.pc = "acl"
    /\ acl' = {a \in acl : a[2] # adm.g}
    /\ adm' = [adm EXCEPT !.pc = "newsgroups"]
    /\ UNCHANGED <<postVars, postings, ngposts, groups, postable, high, nadm>>

\* The row itself, and what refers to it by a foreign key.
DelNewsgroupRow ==
    /\ adm.pc = "newsgroups"
    /\ groups' = groups \ {adm.g}
    /\ postable' = postable \ {adm.g}
    /\ ngposts' = {r \in ngposts : ForeignKeys => r.ng # adm.g}
    /\ acl' = {a \in acl : ForeignKeys => a[2] # adm.g}
    /\ adm' = [adm EXCEPT !.pc = IF conf.dbase = "postgres" THEN "idle"
                                                            ELSE "postings"]
    /\ UNCHANGED <<postVars, postings, high, nadm>>

\* DELETE FROM postings WHERE NOT EXISTS (... ngposts ...).
DelOrphanPostings ==
    /\ adm.pc = "postings"
    /\ postings' = {p \in postings : HasKey(ngposts, p.msgid)}
    /\ adm' = [adm EXCEPT !.pc = "idle"]
    /\ UNCHANGED <<postVars, ngposts, groupVars, nadm>>

\* A statement fails or the tool is interrupted: it exits where it is.
AdminFails ==
    /\ "admin" \in Faults
    /\ adm.pc # "idle"
    /\ adm' = [adm EXCEPT !.pc = "idle"]
    /\ UNCHANGED <<postVars, dbVars, nadm>>

AdminStep == DelNgposts \/ DelAcl \/ DelNewsgroupRow \/ DelOrphanPostings

Next ==
    \/ \E t \in Thread : Post(t) \/ PostStep(t) \/ StatementFails(t)
    \/ Crash
    \/ \E g \in Group :
          \/ CreateNewsgroup(g) \/ ModifyNewsgroup(g) \/ DeleteNewsgroup(g)
          \/ \E t \in Thread : ChangeAcl(t, g)
    \/ AdminStep
    \/ AdminFails

Spec == Init /\ [][Next]_vars

\* A thread that can execute its next statement is scheduled eventually.
FairSpec == Spec /\ \A t \in Thread : WF_vars(PostStep(t))

-----------------------------------------------------------------------------
(* Properties *)

\* Every entry of a group refers to a stored article and to an existing group.
RefIntegrity ==
    \A r \in ngposts : HasKey(postings, r.msgid) /\ r.ng \in groups

\* No entry dangles on any engine as long as the tool is used only while nobody
\* posts: what SQLite has no keys for is left to the order of the statements of
\* docmd_post() and of delgroup, each of which may be the last one.
RefsInOrder == Quiesced => RefIntegrity

\* On MySQL and PostgreSQL no entry dangles even while delgroup and its cascades
\* take a group away in the middle of a POST that has found it to exist.
KeysHold == ForeignKeys => RefIntegrity

\* An article answered with 240 keeps a postings row of its own: no other
\* POST, however the accesses to the nextmsgid file interleave, is answered
\* with 240 under its Message-ID or takes over its row.
AckedStored ==
    \A a \in acked :
        {p.art : p \in {q \in postings : q.msgid = a.msgid}} = {a.art}

\* An article answered with 240 is in every group its Newsgroups line names,
\* but for those the ACL refused: the duplicate check of the loop in
\* docmd_post() never drops a group that was not posted to before.
AckedDelivered ==
    \A a \in acked : \A i \in DOMAIN a.ngs :
        a.ngs[i] \in a.skipped \/ Posted(a.msgid, a.ngs[i])

\* A group entry exists only where the ACL grants the group to the author of
\* the article it refers to, although the entry carries no author and the
\* Message-IDs of concurrent POSTs can collide.
AclRespected ==
    \A r \in ngposts, p \in postings :
        UseAcl /\ r.msgid = p.msgid => <<p.art[1], r.ng>> \in acl

\* A stored article has the body that was posted with it, in a file of the
\* spool directory or in table body, so that ARTICLE and BODY return what was
\* posted under the Message-ID.
RowHasBody ==
    \A p \in postings : p \in bodies

\* With message-body-in-db an article never has the body of another one, also
\* when two POSTs get one number: the key of table body stops the second
\* before it can replace anything.
BodyInDbOwn == conf.bodyInDb => RowHasBody

\* With message-count-in-db no article is lost to a Message-ID that another
\* one has: the sequence goes on through crashes and failed POSTs, where the
\* nextmsgid file gives a number twice.
SequenceKeyFree ==
    conf.countInDb =>
        \A t \in Thread : pc[t] \in NumberedPc \ LoopPc =>
            ~HasKey(postings, CurMsgId(t))

\* With message-count-in-db no article is ever shown with the body of another
\* one, also when bodies are files that filebackend_savebody() replaces, fails
\* to write, or leaves behind for an article that is never stored: at worst the
\* body is missing.
BodyNotForeign ==
    conf.countInDb =>
        \A p \in postings, b \in bodies : b.msgid = p.msgid => b.art = p.art

\* The store a client sees: rows of postings and ngposts, without numbers.
Store == INSTANCE ArticleStore WITH
    Author   <- Thread,
    articles <- postings,
    entries  <- {[msgid |-> r.msgid, ng |-> r.ng] : r \in ngposts},
    acked    <- {[msgid |-> a.msgid, art |-> a.art, ngs |-> a.ngs] : a \in acked}

\* docmd_post() implements that store: whatever fails or crashes between its
\* statements, an article appears under a Message-ID of its own and only in
\* granted groups, is answered with 240 only when it is in all of them, and
\* never goes away or changes afterwards.
ImplementsStore == Store!Spec

\* Number n belongs to an entry of group g.
Used(g, n) == \E r \in ngposts : r.ng = g /\ r.num = n

\* The numbers of a group have no holes: each one up to its high value is that
\* of an entry, although threads overwrite the high value with what they have
\* read before, and may be cut off between the INSERT and the UPDATE.
NumbersDense ==
    \A g \in Group : \A n \in 1..high[g] : Used(g, n)

\* No two articles of a group have the same number (postnum): the high value is
\* incremented for every entry that is added.
NumbersUnique ==
    \A r, s \in ngposts : r.ng = s.ng /\ r.num = s.num => r.msgid = s.msgid

\* The number get_uniqnum() hands to a POST is not one that another POST is
\* still using for its Message-ID.
UniqNum ==
    \A t, u \in Thread :
        t # u /\ {pc[t], pc[u]} \subseteq NumberedPc => loc[t].num # loc[u].num

\* The insert into ngposts never meets a row for the same article and group:
\* the charstack has caught every group named twice before.
NgpostsKeyFree ==
    \A t \in Thread :
        pc[t] = "ins_ngposts" => ~Posted(CurMsgId(t), CurGroup(t))

\* Every POST comes to its end (an answer, or the end of the thread), however
\* many groups it names and whatever the other threads do.
PostTerminates ==
    \A t \in Thread : pc[t] # "idle" ~> pc[t] = "idle"

-----------------------------------------------------------------------------
(* Inductive invariants *)

\* Why RefIntegrity holds as long as the administration tool is not used
\* while articles are being posted: a group that a thread has checked stays,
\* the row of postings comes before the rows of ngposts, and delgroup empties
\* a group before it deletes it.
RefInv ==
    /\ RefIntegrity
    /\ adm.pc # "idle" => \A t \in Thread : pc[t] = "idle"
    /\ adm.pc \in {"acl", "newsgroups"} /\ ~ForeignKeys => \A r \in ngposts : r.ng # adm.g
    /\ \A t \in Thread : pc[t] # "idle" =>
          \A i \in 1..Len(loc[t].ngs) :
             \/ pc[t] = "chk_exists" /\ i >= loc[t].k
             \/ pc[t] = "chk_allowed" /\ i > loc[t].k
             \/ loc[t].ngs[i] \in groups
    /\ \A t \in Thread : pc[t] \in LoopPc => HasKey(postings, CurMsgId(t))

\* Why SequenceKeyFree holds: every number in use was drawn from the sequence,
\* once.
SeqInv ==
    conf.countInDb =>
        /\ \A p \in postings : p.msgid[1] <= seq
        /\ \A t \in Thread : pc[t] \notin {"uniq_open", "uniq_create", "uniq_write"}
        /\ \A t \in Thread : pc[t] \in NumberedPc => loc[t].num <= seq
        /\ UniqNum
        /\ SequenceKeyFree

\* Why BodyInDbOwn holds: the row of body comes first, nothing replaces it, and
\* the row of postings is for the same article.
BodyInv ==
    conf.bodyInDb =>
        /\ RowHasBody
        /\ \A t \in Thread : pc[t] \notin {"unlink", "write"}
        /\ \A t \in Thread : pc[t] = "ins_postings" =>
              [msgid |-> CurMsgId(t), art |-> CurArt(t)] \in bodies

\* The loop over the groups starts with an empty stack at the first group.
Fresh(where, l) ==
    /\ l.stack = EmptyStack
    /\ where \in FilePc \cup {"nextval", "store_body", "ins_postings"} => l.k = 1

\* What a thread in the loop over the groups has achieved so far.
Progress(t) ==
    /\ [msgid |-> CurMsgId(t), art |-> CurArt(t)] \in postings
    /\ \A i \in 1..(loc[t].k - 1) :
          loc[t].ngs[i] \in loc[t].skipped \/ Posted(CurMsgId(t), loc[t].ngs[i])
    /\ \A i \in DOMAIN loc[t].stack : Posted(CurMsgId(t), loc[t].stack[i])
    /\ pc[t] = "upd_high" => Posted(CurMsgId(t), CurGroup(t))
    /\ pc[t] # "acl" /\ UseAcl => <<t, CurGroup(t)>> \in acl

\* Why a 240 can be relied on when the administration tool is not used at
\* all: the primary key of postings makes the row of a thread its own.
AckInv ==
    /\ AckedStored
    /\ AckedDelivered
    /\ AclRespected
    /\ adm.pc = "idle"
    /\ \A p, q \in postings : p.msgid = q.msgid => p = q
    /\ \A t \in Thread : pc[t] \in LoopPc => Progress(t)
    /\ \A t \in Thread : pc[t] \notin LoopPc => Fresh(pc[t], loc[t])

\* Why NumbersDense holds: what a thread has read as the high value, and is
\* going to write one more of, was covered when it was read, and entries stay.
DenseInv ==
    /\ NumbersDense
    /\ \A t \in Thread :
          /\ pc[t] \in {"ins_ngposts", "upd_high"} =>
                \A n \in 1..loc[t].curHigh : Used(CurGroup(t), n)
          /\ pc[t] = "upd_high" => Used(CurGroup(t), loc[t].curHigh + 1)

\* Why BodyNotForeign holds: a body under the Message-ID of a POST in progress
\* is its own, as the number was drawn after every body was written.
ForeignInv ==
    conf.countInDb =>
        /\ BodyNotForeign
        /\ \A b \in bodies : b.msgid[1] <= seq
        /\ \A t \in Thread, b \in bodies :
              pc[t] \in NumberedPc /\ b.msgid = CurMsgId(t) => b.art = CurArt(t)

\* Why RowHasBody holds where numbers are drawn once and bodies can be written:
\* each POST saves under a Message-ID that no row of postings has.
SaveInv ==
    /\ RowHasBody
    /\ \A t \in Thread : pc[t] = "ins_postings" =>
          [msgid |-> CurMsgId(t), art |-> CurArt(t)] \in bodies

\* The lines charstack.c sees through: a group named again is the first one of
\* the line, or nothing but it and the first one came in between.
SeenThrough(line) ==
    \A i, k \in DOMAIN line :
        i < k /\ line[i] = line[k] =>
            \/ line[k] = line[1]
            \/ \A j \in i..k : line[j] \in {line[1], line[k]}

Granted(t, g) == UseAcl => <<t, g>> \in acl

\* What a thread in the loop over the groups has inserted so far, and what of
\* it its stack still tells.
Turn(t) ==
    LET line == loc[t].ngs
        k == loc[t].k
    IN  /\ [msgid |-> CurMsgId(t), art |-> CurArt(t)] \in postings
        /\ \A r \in ngposts : r.msgid = CurMsgId(t) =>
              \E i \in 1..k : line[i] = r.ng /\ (i < k \/ pc[t] = "upd_high")
        /\ IF pc[t] = "acl" THEN UseAcl ELSE Granted(t, CurGroup(t))
        /\ pc[t] \in {"ins_ngposts", "upd_high"} => ~CheckFor(loc[t].stack, line[k])
        /\ k = 1 => loc[t].stack = EmptyStack
        /\ k > 1 /\ Granted(t, line[1]) =>
              loc[t].stack # EmptyStack /\ loc[t].stack[1] = line[1]
        /\ \A i \in 1..(k - 1) :
              Granted(t, line[i]) /\ (\A j \in i..(k - 1) : line[j] \in {line[1], line[i]})
                 => CheckFor(loc[t].stack, line[i])

\* Why NgpostsKeyFree holds for such lines: a Message-ID belongs to one thread,
\* whose stack keeps the first and the last group inserted.
KeyInv ==
    /\ \A p, q \in postings : p.msgid = q.msgid => p = q
    /\ \A t \in Thread : pc[t] \in LoopPc => Turn(t)
    /\ \A t \in Thread : pc[t] \notin LoopPc => Fresh(pc[t], loc[t])
=============================================================================
