--------------------------- MODULE PostingProofs ---------------------------
(***************************************************************************)
(* Theorems about Posting, for every set of threads and groups, every set  *)
(* of Newsgroups lines and every limit.                                    *)
(***************************************************************************)
EXTENDS Posting, TLAPS

-----------------------------------------------------------------------------
(* Facts about the helpers. *)

\* charstack_push_on() yields a stack of groups.
LEMMA PushOnType ==
  ASSUME NEW stack \in Seq(Group), NEW g \in Group
  PROVE  PushOn(stack, g) \in Seq(Group)
<1>1. CASE stack = EmptyStack
  BY <1>1 DEF PushOn
<1>2. CASE stack # EmptyStack
  <2>1. stack[1] \in Group
    BY <1>2 DEF EmptyStack
  <2> QED BY <1>2, <2>1 DEF PushOn
<1> QED BY <1>1, <1>2

\* What charstack_push_on() leaves reachable was there before or is new.
LEMMA PushOnRange ==
  ASSUME NEW stack \in Seq(Group), NEW g \in Group,
         NEW i \in DOMAIN PushOn(stack, g)
  PROVE  \/ PushOn(stack, g)[i] = g
         \/ \E j \in DOMAIN stack : PushOn(stack, g)[i] = stack[j]
<1>1. CASE stack = EmptyStack
  BY <1>1 DEF PushOn
<1>2. CASE stack # EmptyStack
  <2>1. stack[1] \in Group /\ 1 \in DOMAIN stack
    BY <1>2 DEF EmptyStack
  <2>2. i \in 1..2
    BY <1>2, <2>1 DEF PushOn
  <2> QED BY <1>2, <2>1, <2>2 DEF PushOn
<1> QED BY <1>1, <1>2

\* While a POST is under way, its thread stands at a group of its line.
LEMMA CurGroupType ==
  ASSUME TypeOK, NEW t \in Thread, pc[t] # "idle"
  PROVE  /\ CurGroup(t) \in Group
         /\ loc[t] \in Local
         /\ loc[t].ngs \in Lines /\ loc[t].ngs \in Seq(Group)
         /\ loc[t].k \in 1..Len(loc[t].ngs)
         /\ Len(loc[t].ngs) \in Nat
         /\ CurMsgId(t) \in MsgId /\ CurArt(t) \in Art
<1>1. loc[t] \in Local /\ posts[t] \in Nat /\ HostOf[t] \in Host
  BY PostingAssumption DEF TypeOK
<1>2. loc[t].ngs \in Lines /\ loc[t].k \in 1..Len(loc[t].ngs)
  BY DEF TypeOK, ThreadOK
<1>3. loc[t].ngs \in Seq(Group) /\ loc[t].num \in Nat
  BY <1>1 DEF Local
<1>4. Len(loc[t].ngs) \in Nat
  BY <1>3
<1>5. loc[t].ngs[loc[t].k] \in Group
  BY <1>2, <1>3
<1> QED BY <1>1, <1>2, <1>3, <1>4, <1>5 DEF CurGroup, CurMsgId, CurArt, MsgId, Art

-----------------------------------------------------------------------------
(* Type correctness. *)

\* The locals keep their types under the assignments of docmd_post().
LEMMA LocalUpdates ==
  ASSUME NEW l \in Local, NEW n \in Nat, NEW h \in High,
         NEW st \in Seq(Group), NEW sk \in SUBSET Group
  PROVE  /\ [l EXCEPT !.k = n] \in Local
         /\ [l EXCEPT !.num = n] \in Local
         /\ [l EXCEPT !.curHigh = h] \in Local
         /\ [l EXCEPT !.stack = st] \in Local
         /\ [l EXCEPT !.skipped = sk] \in Local
BY DEF Local

\* The locals at the start of the handler and after its end.
LEMMA NoPostType ==
  NoPost \in Local /\ \A line \in Lines :
                         [NoPost EXCEPT !.ngs = line, !.k = 1] \in Local
<1>1. 0 \in High /\ EmptyStack \in Seq(Group)
  BY PostingAssumption DEF High, EmptyStack
<1>2. NoPost \in Local
  BY <1>1 DEF NoPost, Local, EmptyStack
<1>3. ASSUME NEW line \in Lines
      PROVE  [NoPost EXCEPT !.ngs = line, !.k = 1] \in Local
  <2>1. line \in Seq(Group)
    BY PostingAssumption
  <2> QED BY <1>1, <2>1 DEF NoPost, Local, EmptyStack
<1> QED BY <1>2, <1>3

\* What the type invariant says of the threads, as one formula.
ThreadsOK ==
    /\ pc \in [Thread -> Pc]
    /\ loc \in [Thread -> Local]
    /\ \A t \in Thread : ThreadOK(pc[t], loc[t])

\* A step of thread t changes only what ThreadsOK says of t.
LEMMA ThreadStep ==
  ASSUME ThreadsOK, NEW t \in Thread, NEW w \in Pc, NEW l \in Local,
         ThreadOK(w, l),
         pc' = [pc EXCEPT ![t] = w], loc' = [loc EXCEPT ![t] = l]
  PROVE  ThreadsOK'
<1>1. pc' \in [Thread -> Pc] /\ loc' \in [Thread -> Local]
  BY DEF ThreadsOK
<1>2. ASSUME NEW u \in Thread PROVE ThreadOK(pc'[u], loc'[u])
  <2>1. CASE u = t
    BY <2>1 DEF ThreadsOK
  <2>2. CASE u # t
    <3>1. pc'[u] = pc[u] /\ loc'[u] = loc[u]
      BY <2>2 DEF ThreadsOK
    <3> QED BY <3>1 DEF ThreadsOK
  <2> QED BY <2>1, <2>2
<1> QED BY <1>1, <1>2 DEF ThreadsOK

\* The same for the end of the handler or of the thread.
LEMMA LeaveType ==
  ASSUME ThreadsOK, NEW t \in Thread, Leave(t)
  PROVE  ThreadsOK'
<1>1. ThreadOK("idle", NoPost)
  BY DEF ThreadOK
<1>2. "idle" \in Pc
  BY DEF Pc
<1> QED BY <1>1, <1>2, NoPostType, ThreadStep DEF Leave, Goto

\* The same for a step that leaves the locals alone.
LEMMA GotoType ==
  ASSUME ThreadsOK, NEW t \in Thread, pc[t] # "idle", UNCHANGED loc,
         NEW w \in Pc, Goto(t, w), w \notin {"ins_ngposts", "upd_high"}
  PROVE  ThreadsOK'
<1>1. ThreadOK(w, loc[t]) /\ loc[t] \in Local
  BY DEF ThreadsOK, ThreadOK
<1>2. loc' = [loc EXCEPT ![t] = loc[t]]
  BY DEF ThreadsOK
<1> QED BY <1>1, <1>2, ThreadStep DEF Goto

\* The same for the end of the process.
LEMMA ServerEndsType ==
  ASSUME ServerEnds
  PROVE  ThreadsOK'
<1>1. "idle" \in Pc
  BY DEF Pc
<1> QED BY <1>1, NoPostType DEF ServerEnds, ThreadsOK, ThreadOK

\* The steps that number an article and save its body lead to one another.
LEMMA Branches ==
  /\ Numbering \in {"nextval", "uniq_open"}
  /\ Saving \in {"store_body", "unlink"}
  /\ {"nextval", "uniq_open", "store_body", "unlink"}
        \subseteq Pc \ ({"idle", "chk_exists", "chk_allowed"} \cup LoopPc)
BY DEF Numbering, Saving, Pc, FilePc, DbPc, LoopPc

\* The same for the next turn of the loop over the groups.
LEMMA NextGroupType ==
  ASSUME TypeOK, NEW t \in Thread, pc[t] # "idle",
         NEW l \in Local, l.ngs = loc[t].ngs, l.k = loc[t].k,
         NextGroup(t, l)
  PROVE  /\ ThreadsOK'
         /\ acked' \subseteq [msgid : MsgId, art : Art, ngs : Lines,
                              skipped : SUBSET Group]
<1>0. /\ l.ngs \in Lines /\ l.k \in 1..Len(l.ngs) /\ Len(l.ngs) \in Nat
      /\ CurMsgId(t) \in MsgId /\ CurArt(t) \in Art /\ l.skipped \in SUBSET Group
  BY CurGroupType DEF Local
<1>a. ThreadsOK
  BY DEF TypeOK, ThreadsOK
<1>1. CASE /\ l.k < Len(l.ngs)
           /\ Goto(t, LoopTop)
           /\ loc' = [loc EXCEPT ![t] = [l EXCEPT !.k = l.k + 1]]
           /\ UNCHANGED acked
  <2>0. l.k + 1 \in Nat /\ l.k + 1 \in 1..Len(l.ngs)
    BY <1>0, <1>1
  <2>1. [l EXCEPT !.k = l.k + 1] \in Local
    BY <2>0 DEF Local
  <2>2. LoopTop \in Pc \ {"ins_ngposts", "upd_high", "idle"}
    BY DEF LoopTop, Pc, DbPc
  <2>3. ThreadOK(LoopTop, [l EXCEPT !.k = l.k + 1])
    BY <1>0, <2>0, <2>2 DEF ThreadOK, Local
  <2>4. ThreadsOK'
    BY <1>a, <1>1, <2>1, <2>2, <2>3, ThreadStep DEF Goto
  <2> QED BY <1>1, <2>4 DEF TypeOK
<1>2. CASE /\ acked' = acked \cup {[msgid |-> CurMsgId(t), art |-> CurArt(t),
                                    ngs |-> l.ngs, skipped |-> l.skipped]}
           /\ Leave(t)
  BY <1>0, <1>a, <1>2, LeaveType DEF TypeOK
<1> QED BY <1>1, <1>2 DEF NextGroup

\* The types hold initially: a fresh spool directory.
LEMMA InitType == Init => TypeOK
<1> SUFFICES ASSUME Init PROVE TypeOK
  OBVIOUS
<1>1. acl \subseteq Thread \X Group
  BY DEF Init
<1>2. ThreadsOK
  BY NoPostType DEF Init, ThreadsOK, ThreadOK, Pc
<1> QED BY <1>1, <1>2, PostingAssumption DEF Init, TypeOK, ThreadsOK, High

\* Every step keeps the types; in particular no article number and no high
\* value exceeds the limit of docmd_post() by more than the one increment.
LEMMA NextType == TypeOK /\ [Next]_vars => TypeOK'
<1> SUFFICES ASSUME TypeOK, [Next]_vars PROVE TypeOK'
  OBVIOUS
<1>ty. ThreadsOK
  BY DEF TypeOK, ThreadsOK
<1>pc. /\ LoopTop \in Pc \ {"ins_ngposts", "upd_high"}
       /\ {"idle", "chk_exists", "chk_allowed", "uniq_open", "uniq_create",
           "uniq_write", "nextval", "unlink", "write", "store_body",
           "ins_postings", "get_high", "ins_ngposts", "upd_high"} \subseteq Pc
  BY DEF LoopTop, Pc, DbPc, FilePc
<1>1. ASSUME NEW t \in Thread, Post(t) PROVE TypeOK'
  <2>1. PICK line \in Lines :
            loc' = [loc EXCEPT ![t] = [NoPost EXCEPT !.ngs = line, !.k = 1]]
    BY <1>1 DEF Post
  <2> DEFINE l == [NoPost EXCEPT !.ngs = line, !.k = 1]
  <2>2. line \in Seq(Group) /\ 1 \in 1..Len(line) /\ line # <<>>
    BY PostingAssumption
  <2>3. l \in Local /\ l.ngs = line /\ l.k = 1
    BY NoPostType DEF NoPost
  <2>4. ThreadOK("chk_exists", l)
    BY <2>2, <2>3 DEF ThreadOK
  <2>5. ThreadsOK'
    <3> HIDE DEF l
    <3> QED BY <1>1, <1>ty, <1>pc, <2>1, <2>3, <2>4, ThreadStep DEF Post, Goto, l
  <2>6. posts' \in [Thread -> Nat]
    BY <1>1 DEF Post, TypeOK
  <2> QED BY <1>1, <2>5, <2>6
          DEF Post, TypeOK, ThreadsOK, fileVars, dbVars, groupVars, admVars
<1>2. ASSUME NEW t \in Thread, ChkExistence(t) PROVE TypeOK'
  <2>1. ThreadsOK'
    BY <1>2, <1>ty, <1>pc, GotoType, LeaveType DEF ChkExistence
  <2> QED BY <1>2, <2>1
          DEF ChkExistence, TypeOK, ThreadsOK, fileVars, dbVars, groupVars, admVars
<1>3. ASSUME NEW t \in Thread, ChkPostingAllowed(t) PROVE TypeOK'
  <2> DEFINE l(n) == [loc[t] EXCEPT !.k = n]
  <2>1. /\ loc[t] \in Local /\ loc[t].ngs \in Lines
        /\ loc[t].k \in 1..Len(loc[t].ngs) /\ Len(loc[t].ngs) \in Nat
    BY <1>3, CurGroupType DEF ChkPostingAllowed
  <2>2. ASSUME NEW n \in 1..Len(loc[t].ngs), NEW w \in {"chk_exists", "nextval", "uniq_open"}
        PROVE  l(n) \in Local /\ ThreadOK(w, l(n))
    <3>1. n \in Nat
      BY <2>1
    <3>2. l(n) \in Local
      BY <2>1, <3>1 DEF Local
    <3>3. l(n).ngs = loc[t].ngs /\ l(n).k = n
      BY <2>1 DEF Local
    <3> QED BY <2>1, <3>2, <3>3 DEF ThreadOK
  <2>3. 1 \in 1..Len(loc[t].ngs)
    BY <2>1
  <2>4. loc[t].k < Len(loc[t].ngs) => loc[t].k + 1 \in 1..Len(loc[t].ngs)
    BY <2>1
  <2>5. ThreadsOK'
    <3> HIDE DEF l
    <3>1. \/ Leave(t)
          \/ \E n \in 1..Len(loc[t].ngs), w \in {"chk_exists", "nextval", "uniq_open"} :
                pc' = [pc EXCEPT ![t] = w] /\ loc' = [loc EXCEPT ![t] = l(n)]
      BY <1>3, <2>3, <2>4, Branches DEF ChkPostingAllowed, Goto, l
    <3> QED BY <3>1, <1>ty, <1>pc, <2>2, ThreadStep, LeaveType
  <2> QED BY <1>3, <2>5
          DEF ChkPostingAllowed, TypeOK, ThreadsOK, fileVars, dbVars, groupVars, admVars
<1>4. ASSUME NEW t \in Thread, \/ UniqOpen(t) \/ UniqCreate(t)
                               \/ UniqWrite(t) \/ NextVal(t)
      PROVE  TypeOK'
  <2>1. /\ loc[t] \in Local /\ loc[t].ngs \in Lines /\ loc[t].num \in Nat
        /\ loc[t].k \in 1..Len(loc[t].ngs)
    BY <1>4, CurGroupType DEF UniqOpen, UniqCreate, UniqWrite, NextVal, Local
  <2>2. ASSUME NEW n \in Nat, NEW w \in {"uniq_write", "unlink", "store_body"},
               pc' = [pc EXCEPT ![t] = w],
               loc' = [loc EXCEPT ![t] = [loc[t] EXCEPT !.num = n]]
        PROVE  ThreadsOK'
    <3>1. [loc[t] EXCEPT !.num = n] \in Local
      BY <2>1 DEF Local
    <3>2. ThreadOK(w, [loc[t] EXCEPT !.num = n])
      BY <2>1 DEF ThreadOK, Local
    <3> QED BY <1>ty, <1>pc, <2>2, <3>1, <3>2, ThreadStep
  <2>3. CASE UniqOpen(t)
    <3>1. ThreadsOK'
      BY <2>3, <1>ty, <1>pc, <2>2, GotoType, LeaveType DEF UniqOpen, Goto, TypeOK
    <3> QED BY <2>3, <3>1
            DEF UniqOpen, TypeOK, ThreadsOK, fileVars, dbVars, groupVars, admVars
  <2>4. CASE UniqCreate(t)
    <3>1. ThreadsOK'
      BY <2>4, <1>ty, <2>2, LeaveType DEF UniqCreate, Goto
    <3>2. fileState' \in {"absent", "empty", "number"} /\ fileNum' \in Nat
      BY <2>4 DEF UniqCreate, TypeOK
    <3> QED BY <2>4, <3>1, <3>2
            DEF UniqCreate, TypeOK, ThreadsOK, dbVars, groupVars, admVars
  <2>5. CASE UniqWrite(t)
    <3>1. loc[t].num + 1 \in Nat
      BY <2>1
    <3>2. ThreadsOK'
      BY <2>5, <1>ty, <2>2, <3>1, Branches, LeaveType DEF UniqWrite, Goto
    <3>3. fileState' \in {"absent", "empty", "number"} /\ fileNum' \in Nat
      BY <2>5, <3>1 DEF UniqWrite, TypeOK
    <3> QED BY <2>5, <3>2, <3>3
            DEF UniqWrite, TypeOK, ThreadsOK, dbVars, groupVars, admVars
  <2>6. CASE NextVal(t)
    <3>1. seq + 1 \in Nat /\ seq' \in Nat
      BY <2>6 DEF NextVal, TypeOK
    <3>2. ThreadsOK'
      BY <2>6, <2>2, <3>1, Branches, ServerEndsType DEF NextVal, Goto
    <3> QED BY <2>6, <3>1, <3>2
            DEF NextVal, TypeOK, ThreadsOK, dbVars, groupVars, admVars
  <2> QED BY <1>4, <2>3, <2>4, <2>5, <2>6
<1>5. ASSUME NEW t \in Thread, \/ SaveBodyUnlink(t) \/ SaveBodyWrite(t)
                               \/ StoreMessageBody(t)
      PROVE  TypeOK'
  <2>1. CurMsgId(t) \in MsgId /\ CurArt(t) \in Art
    BY <1>5, CurGroupType DEF SaveBodyUnlink, SaveBodyWrite, StoreMessageBody
  <2>2. ThreadsOK'
    BY <1>5, <1>ty, <1>pc, GotoType, LeaveType, ServerEndsType
       DEF SaveBodyUnlink, SaveBodyWrite, StoreMessageBody
  <2>3. bodies' \subseteq [msgid : MsgId, art : Art]
    BY <1>5, <2>1 DEF SaveBodyUnlink, SaveBodyWrite, StoreMessageBody, TypeOK
  <2> QED BY <1>5, <2>2, <2>3
          DEF SaveBodyUnlink, SaveBodyWrite, StoreMessageBody, TypeOK, ThreadsOK,
              fileVars, dbVars, groupVars, admVars
<1>6. ASSUME NEW t \in Thread, InsertIntoPostings(t) PROVE TypeOK'
  <2>1. CurMsgId(t) \in MsgId /\ CurArt(t) \in Art
    BY <1>6, CurGroupType DEF InsertIntoPostings
  <2>2. ThreadsOK'
    BY <1>6, <1>ty, <1>pc, GotoType, LeaveType DEF InsertIntoPostings
  <2>3. postings' \subseteq [msgid : MsgId, art : Art]
    BY <1>6, <2>1 DEF InsertIntoPostings, TypeOK
  <2> QED BY <1>6, <2>2, <2>3
          DEF InsertIntoPostings, TypeOK, ThreadsOK, fileVars, groupVars, admVars
<1>7. ASSUME NEW t \in Thread, AclCheck(t) PROVE TypeOK'
  <2> DEFINE l == [loc[t] EXCEPT !.skipped = loc[t].skipped \cup {CurGroup(t)}]
  <2>1. /\ CurGroup(t) \in Group /\ loc[t] \in Local
        /\ loc[t].skipped \cup {CurGroup(t)} \in SUBSET Group
    BY <1>7, CurGroupType DEF AclCheck, Local
  <2>2. l \in Local /\ l.ngs = loc[t].ngs /\ l.k = loc[t].k
    BY <2>1 DEF Local
  <2>3. /\ ThreadsOK'
        /\ acked' \subseteq [msgid : MsgId, art : Art, ngs : Lines,
                             skipped : SUBSET Group]
    <3> HIDE DEF l
    <3>1. CASE Goto(t, "get_high") /\ UNCHANGED <<loc, acked>>
      <4>1. ThreadsOK'
        BY <3>1, <1>7, <1>ty, <1>pc, GotoType DEF AclCheck
      <4> QED BY <3>1, <4>1 DEF TypeOK
    <3>2. CASE NextGroup(t, l)
      BY <3>2, <1>7, <2>2, NextGroupType DEF AclCheck
    <3>3. CASE ServerEnds /\ UNCHANGED acked
      BY <3>3, ServerEndsType DEF TypeOK
    <3> QED BY <1>7, <3>1, <3>2, <3>3 DEF AclCheck, l
  <2> QED BY <1>7, <2>3
          DEF AclCheck, TypeOK, ThreadsOK, fileVars, dbVars, groupVars, admVars
<1>8. ASSUME NEW t \in Thread, GetHighValue(t) PROVE TypeOK'
  <2>1. loc[t] \in Local /\ pc[t] # "idle"
    BY <1>8, CurGroupType DEF GetHighValue
  <2>2. PICK h \in High :
           \/ Leave(t) /\ UNCHANGED acked
           \/ /\ ~LimitExceeded(h)
              /\ loc' = [loc EXCEPT ![t] = [loc[t] EXCEPT !.curHigh = h]]
              /\ Goto(t, "ins_ngposts")
              /\ UNCHANGED acked
           \/ NextGroup(t, loc[t])
    BY <1>8 DEF GetHighValue
  <2>3. CASE Leave(t) /\ UNCHANGED acked
    <3>1. ThreadsOK'
      BY <2>3, <1>ty, LeaveType
    <3> QED BY <1>8, <2>3, <3>1
            DEF GetHighValue, TypeOK, ThreadsOK, fileVars, dbVars, groupVars, admVars
  <2>4. CASE /\ ~LimitExceeded(h)
             /\ loc' = [loc EXCEPT ![t] = [loc[t] EXCEPT !.curHigh = h]]
             /\ Goto(t, "ins_ngposts")
             /\ UNCHANGED acked
    <3>1. [loc[t] EXCEPT !.curHigh = h] \in Local
      BY <2>1 DEF Local
    <3>0. h <= HighLimit
      BY <2>4, PostingAssumption DEF LimitExceeded, High
    <3>2. ThreadOK("ins_ngposts", [loc[t] EXCEPT !.curHigh = h])
      BY <2>1, <3>0, CurGroupType DEF ThreadOK, Local
    <3>3. ThreadsOK'
      BY <1>ty, <1>pc, <2>4, <3>1, <3>2, ThreadStep DEF Goto
    <3> QED BY <1>8, <2>4, <3>3
            DEF GetHighValue, TypeOK, ThreadsOK, fileVars, dbVars, groupVars, admVars
  <2>5. CASE NextGroup(t, loc[t])
    <3>1. /\ ThreadsOK'
          /\ acked' \subseteq [msgid : MsgId, art : Art, ngs : Lines,
                               skipped : SUBSET Group]
      BY <2>1, <2>5, NextGroupType
    <3> QED BY <1>8, <3>1
            DEF GetHighValue, TypeOK, ThreadsOK, fileVars, dbVars, groupVars, admVars
  <2> QED BY <2>2, <2>3, <2>4, <2>5
<1>9. ASSUME NEW t \in Thread, InsertIntoNgposts(t) PROVE TypeOK'
  <2>1. /\ CurMsgId(t) \in MsgId /\ CurGroup(t) \in Group /\ loc[t] \in Local
        /\ loc[t].curHigh \in High /\ loc[t].curHigh <= HighLimit
    BY <1>9, CurGroupType DEF InsertIntoNgposts, TypeOK, ThreadOK, Local
  <2>2. loc[t].curHigh + 1 \in 1..(HighLimit + 1)
    BY <2>1, PostingAssumption DEF High
  <2>3. ngposts' \subseteq [msgid : MsgId, ng : Group, num : 1..(HighLimit + 1)]
    BY <1>9, <2>1, <2>2 DEF InsertIntoNgposts, TypeOK
  <2>4. ThreadOK("upd_high", loc[t])
    BY <1>9, <2>1, CurGroupType DEF InsertIntoNgposts, ThreadOK
  <2>5. loc' = loc => loc' = [loc EXCEPT ![t] = loc[t]]
    BY DEF TypeOK
  <2>6. ThreadsOK'
    BY <1>9, <1>ty, <1>pc, <2>1, <2>4, <2>5, ThreadStep, LeaveType
       DEF InsertIntoNgposts, Goto
  <2> QED BY <1>9, <2>3, <2>6
          DEF InsertIntoNgposts, TypeOK, ThreadsOK, fileVars, groupVars, admVars
<1>10. ASSUME NEW t \in Thread, UpdateHighValue(t) PROVE TypeOK'
  <2> DEFINE l == [loc[t] EXCEPT !.stack = PushOn(loc[t].stack, CurGroup(t))]
  <2>1. /\ CurGroup(t) \in Group /\ loc[t] \in Local
        /\ loc[t].curHigh \in High /\ loc[t].curHigh <= HighLimit
        /\ loc[t].stack \in Seq(Group)
    BY <1>10, CurGroupType DEF UpdateHighValue, SetHigh, TypeOK, ThreadOK, Local
  <2>2. loc[t].curHigh + 1 \in High
    BY <2>1, PostingAssumption DEF High
  <2>3. high' \in [Group -> High]
    BY <1>10, <2>1, <2>2 DEF UpdateHighValue, SetHigh, TypeOK
  <2>4. PushOn(loc[t].stack, CurGroup(t)) \in Seq(Group)
    BY <2>1, PushOnType
  <2>5. l \in Local /\ l.ngs = loc[t].ngs /\ l.k = loc[t].k
    BY <2>1, <2>4 DEF Local
  <2>6. /\ ThreadsOK'
        /\ acked' \subseteq [msgid : MsgId, art : Art, ngs : Lines,
                             skipped : SUBSET Group]
    <3> HIDE DEF l
    <3>1. NextGroup(t, l) /\ pc[t] # "idle"
      BY <1>10 DEF UpdateHighValue, SetHigh, l
    <3> QED BY <2>5, <3>1, NextGroupType
  <2> QED BY <1>10, <2>3, <2>6
          DEF UpdateHighValue, SetHigh, TypeOK, ThreadsOK, fileVars, admVars
<1>11. ASSUME NEW t \in Thread, StatementFails(t) PROVE TypeOK'
  <2>1. ThreadsOK'
    BY <1>11, <1>ty, LeaveType DEF StatementFails
  <2> QED BY <1>11, <2>1
          DEF StatementFails, TypeOK, ThreadsOK, fileVars, dbVars, groupVars, admVars
<1>12. CASE Crash
  <2>1. ThreadsOK'
    BY <1>12, ServerEndsType DEF Crash
  <2> QED BY <1>12, <2>1
          DEF Crash, TypeOK, ThreadsOK, fileVars, dbVars, groupVars, admVars
<1>13. ASSUME NEW g \in Group, CreateNewsgroup(g) PROVE TypeOK'
  BY <1>13, PostingAssumption
     DEF CreateNewsgroup, AdminBegins, TypeOK, High, postVars, fileVars
<1>14. ASSUME NEW g \in Group, ModifyNewsgroup(g) PROVE TypeOK'
  BY <1>14 DEF ModifyNewsgroup, AdminBegins, TypeOK, postVars, fileVars
<1>15. ASSUME NEW g \in Group, DeleteNewsgroup(g) PROVE TypeOK'
  BY <1>15
     DEF DeleteNewsgroup, AdminBegins, TypeOK, postVars, fileVars, dbVars, groupVars
<1>16. ASSUME NEW t \in Thread, NEW g \in Group, ChangeAcl(t, g) PROVE TypeOK'
  BY <1>16 DEF ChangeAcl, AdminBegins, TypeOK, postVars, fileVars
<1>17. CASE AdminStep
  BY <1>17 DEF AdminStep, DelNgposts, DelAcl, DelNewsgroupRow, DelOrphanPostings,
               TypeOK, postVars, fileVars, groupVars
<1>18. CASE AdminFails
  BY <1>18 DEF AdminFails, TypeOK, postVars, fileVars, dbVars, groupVars
<1>19. CASE UNCHANGED vars
  BY <1>19 DEF vars, fileVars, dbVars, groupVars, admVars, TypeOK
<1> QED BY <1>1, <1>2, <1>3, <1>4, <1>5, <1>6, <1>7, <1>8, <1>9, <1>10, <1>11,
           <1>12, <1>13, <1>14, <1>15, <1>16, <1>17, <1>18, <1>19
        DEF Next, PostStep

\* Type correctness: whatever threads and tool do, every table, file and local
\* keeps its type, and POST's article limit bounds the numbers it hands out.
THEOREM TypeCorrect == Spec => []TypeOK
  BY InitType, NextType, PTL DEF Spec
=============================================================================
