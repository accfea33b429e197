---------------------------- MODULE ArticleStore ----------------------------
(***************************************************************************)
(* What POST promises: a store of articles that only grows.  An article is *)
(* stored at once under a Message-ID of its own, entered in a group its    *)
(* author may write to, and answered with 240 when it is in every group it *)
(* was addressed to, or could not be for want of a grant.                  *)
(*                                                                         *)
(* Numbers, files, statements and threads do not occur.                    *)
(***************************************************************************)
CONSTANTS Author, Group, UseAcl

VARIABLES
    articles,    \* [msgid, art]; art[1] is the author
    entries,     \* [msgid, ng]
    acl,         \* <<author, group>>: the grants
    acked        \* [msgid, art, ngs]: answered with 240, addressed to ngs

storeVars == <<articles, entries, acl, acked>>

MayWrite(author, g) == UseAcl => <<author, g>> \in acl

Init ==
    /\ articles = {} /\ entries = {} /\ acked = {}
    /\ acl \subseteq Author \X Group

\* One article more, under a Message-ID that no article has.
StoreArticle ==
    /\ \E p \in articles' :
          /\ articles' = articles \cup {p}
          /\ \A q \in articles : q.msgid # p.msgid
    /\ UNCHANGED <<entries, acl, acked>>

\* A stored article appears in one more group.
EnterGroup ==
    /\ \E e \in entries', p \in articles :
          /\ entries' = entries \cup {e}
          /\ e.msgid = p.msgid
          /\ MayWrite(p.art[1], e.ng)
    /\ UNCHANGED <<articles, acl, acked>>

\* 240 for a stored article that is where it was addressed to.
Acknowledge ==
    /\ \E a \in acked', p \in articles :
          /\ acked' = acked \cup {a}
          /\ p.msgid = a.msgid /\ p.art = a.art
          /\ \A i \in DOMAIN a.ngs :
                \/ \E e \in entries : e.msgid = a.msgid /\ e.ng = a.ngs[i]
                \/ ~MayWrite(a.art[1], a.ngs[i])
    /\ UNCHANGED <<articles, entries, acl>>

Next == StoreArticle \/ EnterGroup \/ Acknowledge

Spec == Init /\ [][Next]_storeVars
=============================================================================
