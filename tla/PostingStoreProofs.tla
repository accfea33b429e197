------------------------- MODULE PostingStoreProofs -------------------------
(***************************************************************************)
(* What the order of the statements in docmd_post() and delgroup and the   *)
(* keys of the schemas guarantee, for every set of threads,                *)
(* groups and Newsgroups lines, with failing statements and crashes.       *)
(***************************************************************************)
EXTENDS PostingProofs

\* The groups of line l that a thread standing at w has found to exist.
Checked(w, l) ==
    w # "idle" => \A i \in 1..Len(l.ngs) :
                     \/ w = "chk_exists" /\ i >= l.k
                     \/ w = "chk_allowed" /\ i > l.k
                     \/ l.ngs[i] \in groups

\* A step of thread t that leaves the groups alone, deletes no article and
\* keeps RefIntegrity keeps RefInv.
LEMMA RefStep ==
  ASSUME ThreadsOK, RefInv, NEW t \in Thread, adm.pc = "idle",
         conf' = conf, groups' = groups, adm' = adm, postings \subseteq postings',
         NEW w \in Pc, NEW l \in Local,
         pc' = [pc EXCEPT ![t] = w], loc' = [loc EXCEPT ![t] = l],
         Checked(w, l),
         w \in LoopPc => HasKey(postings', <<l.num, HostOf[t]>>),
         RefIntegrity'
  PROVE  RefInv'
<1>1. ASSUME NEW id, HasKey(postings, id) PROVE HasKey(postings', id)
  BY <1>1 DEF HasKey
<1>3. ASSUME NEW u \in Thread PROVE Checked(pc[u], loc[u])
  BY <1>3 DEF RefInv, Checked
<1>4. ASSUME NEW u \in Thread
      PROVE  /\ Checked(pc'[u], loc'[u])
             /\ pc'[u] \in LoopPc =>
                   HasKey(postings', <<loc'[u].num, HostOf[u]>>)
  <2>1. CASE u = t
    <3>1. pc'[u] = w /\ loc'[u] = l
      BY <2>1 DEF ThreadsOK
    <3> QED BY <2>1, <3>1
  <2>2. CASE u # t
    <3>1. pc'[u] = pc[u] /\ loc'[u] = loc[u]
      BY <2>2 DEF ThreadsOK
    <3> QED BY <1>1, <1>3, <3>1 DEF RefInv, CurMsgId
  <2> QED BY <2>1, <2>2
<1>5. \A u \in Thread : (pc[u] # "idle" =>
          \A i \in 1..Len(loc[u].ngs) :
             \/ pc[u] = "chk_exists" /\ i >= loc[u].k
             \/ pc[u] = "chk_allowed" /\ i > loc[u].k
             \/ loc[u].ngs[i] \in groups)'
  BY <1>4 DEF Checked
<1>6. \A u \in Thread : (pc[u] \in LoopPc => HasKey(postings, CurMsgId(u)))'
  BY <1>4 DEF CurMsgId
<1> QED BY <1>5, <1>6 DEF RefInv

\* A thread that leaves its handler keeps RefInv.
LEMMA RefLeave ==
  ASSUME ThreadsOK, RefInv, NEW t \in Thread, adm.pc = "idle", Leave(t),
         conf' = conf, groups' = groups, adm' = adm, postings' = postings,
         ngposts' = ngposts
  PROVE  RefInv'
<1>1. Checked("idle", NoPost) /\ "idle" \in Pc \ LoopPc /\ NoPost \in Local
  BY NoPostType DEF Checked, LoopPc, Pc
<1>2. pc' = [pc EXCEPT ![t] = "idle"] /\ loc' = [loc EXCEPT ![t] = NoPost]
  BY DEF Leave, Goto
<1>3. postings \subseteq postings' /\ RefIntegrity'
  BY DEF RefInv, RefIntegrity
<1> QED BY <1>1, <1>2, <1>3, RefStep

\* The next turn of the loop, or its end, keeps RefInv.
LEMMA RefNextGroup ==
  ASSUME TypeOK, RefInv, NEW t \in Thread, adm.pc = "idle", pc[t] \in LoopPc,
         NEW l, l \in Local, l.ngs = loc[t].ngs, l.k = loc[t].k,
         l.num = loc[t].num, NextGroup(t, l),
         conf' = conf, groups' = groups, adm' = adm, postings' = postings,
         ngposts' = ngposts
  PROVE  RefInv'
<1>0. ThreadsOK
  BY DEF TypeOK, ThreadsOK
<1>1. CASE /\ Goto(t, LoopTop)
           /\ loc' = [loc EXCEPT ![t] = [l EXCEPT !.k = l.k + 1]]
  <2> DEFINE m == [l EXCEPT !.k = l.k + 1]
  <2>1. m.ngs = loc[t].ngs /\ m.num = loc[t].num /\ m \in Local
    BY DEF Local
  <2>2. LoopTop \in LoopPc \ {"idle", "chk_exists", "chk_allowed"} /\ LoopTop \in Pc
    BY DEF LoopTop, LoopPc, Pc, DbPc
  <2>3. \A i \in 1..Len(loc[t].ngs) : loc[t].ngs[i] \in groups
    BY DEF RefInv, LoopPc
  <2>4. HasKey(postings', <<m.num, HostOf[t]>>)
    BY <2>1 DEF RefInv, CurMsgId
  <2> HIDE DEF m
  <2>5. Checked(LoopTop, m)
    BY <2>1, <2>2, <2>3 DEF Checked
  <2>6. pc' = [pc EXCEPT ![t] = LoopTop] /\ loc' = [loc EXCEPT ![t] = m]
    BY <1>1 DEF Goto, m
  <2>7. postings \subseteq postings' /\ RefIntegrity'
    BY DEF RefInv, RefIntegrity
  <2> QED BY <1>0, <2>1, <2>2, <2>4, <2>5, <2>6, <2>7, RefStep
<1>2. CASE Leave(t)
  BY <1>0, <1>2, RefLeave
<1> QED BY <1>1, <1>2 DEF NextGroup

\* RefInv holds on an empty spool.
LEMMA RefInit == Init => RefInv
BY DEF Init, RefInv, RefIntegrity, LoopPc

\* RefInv is preserved by every step when the tool does not run beside POST.
LEMMA RefNext ==
  ASSUME Quiesced, TypeOK, RefInv, [Next]_vars
  PROVE  RefInv'
<1>ty. ThreadsOK
  BY DEF TypeOK, ThreadsOK
<1>adm. ASSUME NEW t \in Thread, pc[t] # "idle" PROVE adm.pc = "idle"
  BY <1>adm DEF RefInv
<1>pc. /\ LoopTop \in LoopPc /\ LoopPc \subseteq Pc
       /\ {"idle", "chk_exists", "chk_allowed", "uniq_open", "uniq_create",
           "uniq_write", "nextval", "unlink", "write", "store_body",
           "ins_postings"} \subseteq Pc \ LoopPc
       /\ {"get_high", "ins_ngposts", "upd_high"} \subseteq LoopPc
       /\ {"idle", "chk_exists", "chk_allowed"} \cap LoopPc = {}
  BY DEF LoopTop, LoopPc, Pc, DbPc, FilePc
<1>ri. ASSUME ngposts' = ngposts, postings \subseteq postings', groups' = groups
       PROVE  RefIntegrity'
  BY <1>ri DEF RefInv, RefIntegrity, HasKey
<1>id. \A t \in Thread : loc[t] \in Local /\ loc = [loc EXCEPT ![t] = loc[t]]
  BY DEF TypeOK
<1>en. ASSUME ServerEnds, conf' = conf, groups' = groups, adm' = adm,
              postings' = postings, ngposts' = ngposts
       PROVE  RefInv'
  <2>1. \A t \in Thread : pc'[t] = "idle"
    BY <1>en DEF ServerEnds
  <2> QED BY <1>en, <1>pc, <2>1 DEF RefInv, RefIntegrity, ForeignKeys
<1>1. ASSUME NEW t \in Thread, Post(t) PROVE RefInv'
  <2>1. PICK line \in Lines :
            loc' = [loc EXCEPT ![t] = [NoPost EXCEPT !.ngs = line, !.k = 1]]
    BY <1>1 DEF Post
  <2> DEFINE l == [NoPost EXCEPT !.ngs = line, !.k = 1]
  <2>2. l \in Local /\ l.k = 1
    BY NoPostType DEF NoPost
  <2> HIDE DEF l
  <2>3. Checked("chk_exists", l)
    BY <2>2 DEF Checked
  <2>4. /\ adm.pc = "idle" /\ pc' = [pc EXCEPT ![t] = "chk_exists"]
        /\ loc' = [loc EXCEPT ![t] = l]
        /\ groups' = groups /\ adm' = adm /\ conf' = conf /\ postings' = postings
        /\ ngposts' = ngposts
    BY <1>1, <2>1 DEF Post, Goto, dbVars, groupVars, admVars, l
  <2>5. RefIntegrity' /\ postings \subseteq postings'
    BY <1>ri, <2>4
  <2> QED BY <1>ty, <1>pc, <2>2, <2>3, <2>4, <2>5, RefStep
<1>2. ASSUME NEW t \in Thread, ChkExistence(t) PROVE RefInv'
  <2>1. /\ adm.pc = "idle" /\ groups' = groups /\ adm' = adm /\ conf' = conf
        /\ postings' = postings /\ ngposts' = ngposts
    BY <1>2, <1>adm DEF ChkExistence, dbVars, groupVars, admVars
  <2>2. RefIntegrity' /\ postings \subseteq postings'
    BY <1>ri, <2>1
  <2>3. CASE Leave(t)
    BY <1>ty, <2>1, <2>3, RefLeave
  <2>4. CASE CurGroup(t) \in groups /\ Goto(t, "chk_allowed") /\ UNCHANGED loc
    <3>1. Checked("chk_allowed", loc[t])
      <4> SUFFICES ASSUME NEW i \in 1..Len(loc[t].ngs), ~(i > loc[t].k)
                   PROVE  loc[t].ngs[i] \in groups
        BY DEF Checked
      <4>1. CASE i = loc[t].k
        BY <4>1, <2>4 DEF CurGroup
      <4>2. CASE i # loc[t].k
        <5>1. ~(i >= loc[t].k)
          BY <4>2, <1>2, CurGroupType DEF ChkExistence
        <5> QED BY <5>1, <1>2 DEF RefInv, ChkExistence
      <4> QED BY <4>1, <4>2
    <3>2. pc' = [pc EXCEPT ![t] = "chk_allowed"] /\ loc' = [loc EXCEPT ![t] = loc[t]]
      BY <2>4, <1>id DEF Goto
    <3> QED BY <1>ty, <1>pc, <1>id, <2>1, <2>2, <3>1, <3>2, RefStep
  <2> QED BY <1>2, <2>3, <2>4 DEF ChkExistence
<1>3. ASSUME NEW t \in Thread, ChkPostingAllowed(t) PROVE RefInv'
  <2>1. /\ adm.pc = "idle" /\ groups' = groups /\ adm' = adm /\ conf' = conf
        /\ postings' = postings /\ ngposts' = ngposts
    BY <1>3, <1>adm DEF ChkPostingAllowed, dbVars, groupVars, admVars
  <2>2. RefIntegrity' /\ postings \subseteq postings'
    BY <1>ri, <2>1
  <2>3. \A i \in 1..Len(loc[t].ngs) : i > loc[t].k \/ loc[t].ngs[i] \in groups
    BY <1>3 DEF ChkPostingAllowed, RefInv
  <2>4. /\ loc[t] \in Local /\ loc[t].k \in Nat /\ loc[t].ngs \in Seq(Group)
        /\ Len(loc[t].ngs) \in Nat
    BY <1>3, CurGroupType DEF ChkPostingAllowed, Local
  <2>5. CASE Leave(t)
    BY <1>ty, <2>1, <2>5, RefLeave
  <2>6. ASSUME NEW n \in Nat, NEW w \in {"chk_exists", "nextval", "uniq_open"},
               w = "chk_exists" => n = loc[t].k + 1,
               w # "chk_exists" => loc[t].k = Len(loc[t].ngs),
               pc' = [pc EXCEPT ![t] = w],
               loc' = [loc EXCEPT ![t] = [loc[t] EXCEPT !.k = n]]
        PROVE  RefInv'
    <3> DEFINE l == [loc[t] EXCEPT !.k = n]
    <3>1. l \in Local /\ l.ngs = loc[t].ngs /\ l.k = n
      BY <2>4 DEF Local
    <3>2. loc' = [loc EXCEPT ![t] = l]
      BY <2>6
    <3> HIDE DEF l
    <3>3. Checked(w, l)
      BY <2>3, <2>4, <2>6, <3>1 DEF Checked
    <3> QED BY <1>ty, <1>pc, <2>1, <2>2, <2>6, <3>1, <3>2, <3>3, RefStep
  <2>7. loc[t].k + 1 \in Nat /\ 1 \in Nat
    BY <2>4
  <2> QED BY <1>3, <2>5, <2>6, <2>7, Branches DEF ChkPostingAllowed, Goto
<1>4. ASSUME NEW t \in Thread,
             \/ UniqOpen(t) \/ UniqCreate(t) \/ UniqWrite(t) \/ NextVal(t)
             \/ SaveBodyUnlink(t) \/ SaveBodyWrite(t) \/ StoreMessageBody(t)
      PROVE  RefInv'
  <2>1. /\ adm.pc = "idle" /\ groups' = groups /\ adm' = adm /\ conf' = conf
        /\ postings' = postings /\ ngposts' = ngposts
    BY <1>4, <1>adm DEF UniqOpen, UniqCreate, UniqWrite, NextVal, SaveBodyUnlink,
                        SaveBodyWrite, StoreMessageBody, dbVars, groupVars, admVars
  <2>2. RefIntegrity' /\ postings \subseteq postings'
    BY <1>ri, <2>1
  <2>3. /\ \A i \in 1..Len(loc[t].ngs) : loc[t].ngs[i] \in groups
        /\ loc[t] \in Local /\ loc[t].num \in Nat
    BY <1>4, <1>id DEF UniqOpen, UniqCreate, UniqWrite, NextVal, SaveBodyUnlink,
                       SaveBodyWrite, StoreMessageBody, RefInv, Local
  <2>4. CASE Leave(t)
    BY <1>ty, <2>1, <2>4, RefLeave
  <2>5. ASSUME NEW l \in Local, l.ngs = loc[t].ngs,
               NEW w \in {"uniq_create", "uniq_write", "unlink", "write",
                          "store_body", "ins_postings"},
               pc' = [pc EXCEPT ![t] = w], loc' = [loc EXCEPT ![t] = l]
        PROVE  RefInv'
    <3>1. Checked(w, l)
      BY <2>3, <2>5 DEF Checked
    <3> QED BY <1>ty, <1>pc, <2>1, <2>2, <2>5, <3>1, RefStep
  <2>6. ASSUME NEW n \in Nat
        PROVE  /\ [loc[t] EXCEPT !.num = n] \in Local
               /\ [loc[t] EXCEPT !.num = n].ngs = loc[t].ngs
    BY <2>3 DEF Local
  <2>7. /\ fileNum \in Nat /\ 0 \in Nat /\ loc[t].num + 1 \in Nat /\ seq + 1 \in Nat
        /\ loc' = loc => loc' = [loc EXCEPT ![t] = loc[t]]
    BY <1>id, <2>3 DEF TypeOK
  <2>8. CASE UniqOpen(t)
    BY <2>3, <2>4, <2>5, <2>6, <2>7, <2>8 DEF UniqOpen, Goto
  <2>9. CASE UniqCreate(t)
    BY <2>4, <2>5, <2>6, <2>7, <2>9 DEF UniqCreate, Goto
  <2>10. CASE UniqWrite(t)
    BY <2>4, <2>5, <2>6, <2>7, <2>10, Branches DEF UniqWrite, Goto
  <2>11. CASE SaveBodyUnlink(t) \/ SaveBodyWrite(t)
    BY <2>3, <2>5, <2>7, <2>11 DEF SaveBodyUnlink, SaveBodyWrite, Goto
  <2>12. CASE NextVal(t)
    BY <1>en, <2>1, <2>5, <2>6, <2>7, <2>12, Branches DEF NextVal, Goto
  <2>13. CASE StoreMessageBody(t)
    BY <1>en, <2>1, <2>3, <2>4, <2>5, <2>7, <2>13 DEF StoreMessageBody, Goto
  <2> QED BY <1>4, <2>8, <2>9, <2>10, <2>11, <2>12, <2>13
<1>5. ASSUME NEW t \in Thread, InsertIntoPostings(t) PROVE RefInv'
  <2>1. /\ adm.pc = "idle" /\ groups' = groups /\ adm' = adm /\ conf' = conf
        /\ ngposts' = ngposts /\ postings \subseteq postings'
    BY <1>5, <1>adm DEF InsertIntoPostings, groupVars, admVars
  <2>2. RefIntegrity'
    BY <1>ri, <2>1
  <2>3. CASE HasKey(postings, CurMsgId(t)) /\ Leave(t) /\ UNCHANGED postings
    BY <1>ty, <2>1, <2>3, RefLeave
  <2>4. CASE /\ postings' = postings \cup {[msgid |-> CurMsgId(t), art |-> CurArt(t)]}
             /\ Goto(t, LoopTop)
             /\ UNCHANGED loc
    <3>0. \A i \in 1..Len(loc[t].ngs) : loc[t].ngs[i] \in groups
      BY <1>5 DEF InsertIntoPostings, RefInv
    <3>1. Checked(LoopTop, loc[t])
      BY <3>0, <1>pc DEF Checked
    <3>2. HasKey(postings', <<loc[t].num, HostOf[t]>>)
      <4> DEFINE row == [msgid |-> CurMsgId(t), art |-> CurArt(t)]
      <4>1. row \in postings' /\ row.msgid = CurMsgId(t)
        BY <2>4
      <4> HIDE DEF row
      <4> QED BY <4>1 DEF HasKey, CurMsgId
    <3>3. pc' = [pc EXCEPT ![t] = LoopTop] /\ loc' = [loc EXCEPT ![t] = loc[t]]
      BY <2>4, <1>id DEF Goto
    <3> QED BY <1>ty, <1>pc, <1>id, <2>1, <2>2, <3>1, <3>2, <3>3, RefStep
  <2> QED BY <1>5, <2>3, <2>4 DEF InsertIntoPostings
<1>6. ASSUME NEW t \in Thread,
             AclCheck(t) \/ GetHighValue(t) \/ UpdateHighValue(t)
      PROVE  RefInv'
  <2>1. /\ adm.pc = "idle" /\ groups' = groups /\ adm' = adm /\ conf' = conf
        /\ postings' = postings /\ ngposts' = ngposts /\ pc[t] \in LoopPc
    BY <1>6, <1>adm
       DEF AclCheck, GetHighValue, UpdateHighValue, dbVars, groupVars, admVars, LoopPc
  <2>2. RefIntegrity' /\ postings \subseteq postings'
    BY <1>ri, <2>1
  <2>3. /\ \A i \in 1..Len(loc[t].ngs) : loc[t].ngs[i] \in groups
        /\ HasKey(postings', <<loc[t].num, HostOf[t]>>)
        /\ loc[t] \in Local
    BY <1>pc, <1>id, <2>1 DEF RefInv, CurMsgId
  <2>4. CASE Leave(t)
    BY <1>ty, <2>1, <2>4, RefLeave
  <2>5. ASSUME NEW l \in Local, l.ngs = loc[t].ngs, l.k = loc[t].k,
               l.num = loc[t].num, NextGroup(t, l)
        PROVE  RefInv'
    BY <2>1, <2>5, RefNextGroup
  <2>6. ASSUME NEW l \in Local, l.ngs = loc[t].ngs, l.num = loc[t].num,
               NEW w \in {"get_high", "ins_ngposts"},
               pc' = [pc EXCEPT ![t] = w], loc' = [loc EXCEPT ![t] = l]
        PROVE  RefInv'
    <3>1. Checked(w, l)
      BY <2>3, <2>6 DEF Checked
    <3>2. HasKey(postings', <<l.num, HostOf[t]>>)
      BY <2>3, <2>6
    <3>3. w \in Pc
      BY <1>pc, <2>6
    <3> QED BY <1>ty, <2>1, <2>2, <2>6, <3>1, <3>2, <3>3, RefStep
  <2>7. ASSUME NEW sk \in SUBSET Group, NEW st \in Seq(Group), NEW h \in High
        PROVE  /\ [loc[t] EXCEPT !.skipped = sk] \in Local
               /\ [loc[t] EXCEPT !.skipped = sk].ngs = loc[t].ngs
               /\ [loc[t] EXCEPT !.skipped = sk].k = loc[t].k
               /\ [loc[t] EXCEPT !.skipped = sk].num = loc[t].num
               /\ [loc[t] EXCEPT !.stack = st] \in Local
               /\ [loc[t] EXCEPT !.stack = st].ngs = loc[t].ngs
               /\ [loc[t] EXCEPT !.stack = st].k = loc[t].k
               /\ [loc[t] EXCEPT !.stack = st].num = loc[t].num
               /\ [loc[t] EXCEPT !.curHigh = h] \in Local
               /\ [loc[t] EXCEPT !.curHigh = h].ngs = loc[t].ngs
               /\ [loc[t] EXCEPT !.curHigh = h].num = loc[t].num
    BY <2>3 DEF Local
  <2>8. /\ CurGroup(t) \in Group
        /\ loc[t].skipped \cup {CurGroup(t)} \in SUBSET Group
        /\ loc[t].stack \in Seq(Group)
        /\ loc[t].curHigh \in High
        /\ pc[t] # "idle"
        /\ loc' = loc => loc' = [loc EXCEPT ![t] = loc[t]]
    BY <1>pc, <1>id, <2>1, <2>3, CurGroupType DEF Local
  <2>9. PushOn(loc[t].stack, CurGroup(t)) \in Seq(Group)
    BY <2>8, PushOnType
  <2>10. CASE AclCheck(t)
    <3>1. CASE Goto(t, "get_high") /\ UNCHANGED loc
      BY <2>3, <2>6, <2>8, <3>1 DEF Goto
    <3>2. CASE NextGroup(t, [loc[t] EXCEPT
                               !.skipped = loc[t].skipped \cup {CurGroup(t)}])
      BY <2>5, <2>7, <2>8, <3>2
    <3>3. CASE ServerEnds
      BY <1>en, <2>1, <3>3
    <3> QED BY <2>10, <3>1, <3>2, <3>3 DEF AclCheck
  <2>11. CASE GetHighValue(t)
    <3>1. PICK h \in High :
             \/ Leave(t)
             \/ /\ loc' = [loc EXCEPT ![t] = [loc[t] EXCEPT !.curHigh = h]]
                /\ Goto(t, "ins_ngposts")
             \/ NextGroup(t, loc[t])
      BY <2>11 DEF GetHighValue
    <3>2. CASE /\ loc' = [loc EXCEPT ![t] = [loc[t] EXCEPT !.curHigh = h]]
               /\ Goto(t, "ins_ngposts")
      BY <2>6, <2>7, <2>8, <3>2 DEF Goto
    <3>3. CASE NextGroup(t, loc[t])
      BY <2>3, <2>5, <3>3
    <3> QED BY <2>4, <3>1, <3>2, <3>3
  <2>12. CASE UpdateHighValue(t)
    <3>1. NextGroup(t, [loc[t] EXCEPT
                          !.stack = PushOn(loc[t].stack, CurGroup(t))])
      BY <2>12 DEF UpdateHighValue, SetHigh
    <3> QED BY <2>5, <2>7, <2>8, <2>9, <3>1
  <2> QED BY <1>6, <2>10, <2>11, <2>12
<1>7. ASSUME NEW t \in Thread, InsertIntoNgposts(t) PROVE RefInv'
  <2>1. /\ adm.pc = "idle" /\ groups' = groups /\ adm' = adm /\ conf' = conf
        /\ postings' = postings /\ pc[t] \in LoopPc
    BY <1>7, <1>adm DEF InsertIntoNgposts, groupVars, admVars, LoopPc
  <2>2. /\ \A i \in 1..Len(loc[t].ngs) : loc[t].ngs[i] \in groups
        /\ HasKey(postings, CurMsgId(t))
    BY <1>pc, <2>1 DEF RefInv
  <2>3. CurGroup(t) \in groups
    BY <1>7, <2>2, CurGroupType DEF CurGroup, InsertIntoNgposts
  <2>4. CASE Leave(t) /\ UNCHANGED ngposts
    BY <1>ty, <2>1, <2>4, RefLeave
  <2>5. CASE /\ ngposts' = ngposts \cup {[msgid |-> CurMsgId(t), ng |-> CurGroup(t),
                                          num |-> loc[t].curHigh + 1]}
             /\ Goto(t, "upd_high")
             /\ UNCHANGED loc
    <3>1. RefIntegrity'
      BY <2>1, <2>2, <2>3, <2>5 DEF RefInv, RefIntegrity
    <3>2. Checked("upd_high", loc[t])
      BY <2>2 DEF Checked
    <3>3. HasKey(postings', <<loc[t].num, HostOf[t]>>)
      BY <2>1, <2>2 DEF CurMsgId
    <3>4. /\ pc' = [pc EXCEPT ![t] = "upd_high"] /\ loc' = [loc EXCEPT ![t] = loc[t]]
          /\ "upd_high" \in Pc /\ postings \subseteq postings'
      BY <1>pc, <1>id, <2>1, <2>5 DEF Goto
    <3> QED BY <1>ty, <1>id, <2>1, <3>1, <3>2, <3>3, <3>4, RefStep
  <2> QED BY <1>7, <2>4, <2>5 DEF InsertIntoNgposts
<1>8. ASSUME NEW t \in Thread, StatementFails(t) PROVE RefInv'
  <2>1. /\ adm.pc = "idle" /\ groups' = groups /\ adm' = adm /\ conf' = conf
        /\ postings' = postings /\ ngposts' = ngposts /\ Leave(t)
    BY <1>8, <1>adm DEF StatementFails, DbPc, dbVars, groupVars, admVars
  <2> QED BY <1>ty, <2>1, RefLeave
<1>9. CASE Crash
  BY <1>9, <1>en DEF Crash, dbVars, groupVars, admVars
<1>10. ASSUME AdminBegins, UNCHANGED <<pc, loc, postings, ngposts>>,
              groups \subseteq groups', conf' = conf,
              \/ adm' = adm \/ adm'.pc = "ngposts"
              \/ ForeignKeys /\ adm'.pc = "newsgroups"
       PROVE  RefInv'
  <2>1. /\ \A t \in Thread : pc'[t] = "idle"
        /\ adm'.pc \in {"idle", "ngposts"} \/ ForeignKeys'
    BY <1>10 DEF AdminBegins, ForeignKeys
  <2>2. RefIntegrity'
    BY <1>10 DEF RefInv, RefIntegrity
  <2> QED BY <1>pc, <2>1, <2>2 DEF RefInv
<1>11. ASSUME NEW g \in Group,
              CreateNewsgroup(g) \/ ModifyNewsgroup(g) \/ DeleteNewsgroup(g)
       PROVE  RefInv'
  BY <1>10, <1>11 DEF CreateNewsgroup, ModifyNewsgroup, DeleteNewsgroup,
                      postVars, dbVars, groupVars, ForeignKeys
<1>12. ASSUME NEW t \in Thread, NEW g \in Group, ChangeAcl(t, g) PROVE RefInv'
  BY <1>10, <1>12 DEF ChangeAcl, postVars
<1>13. CASE AdminStep \/ AdminFails
  <2>1. /\ \A t \in Thread : pc'[t] = "idle"
        /\ adm'.g = adm.g /\ pc' = pc /\ ForeignKeys' = ForeignKeys
    BY <1>13 DEF AdminStep, DelNgposts, DelAcl, DelNewsgroupRow, DelOrphanPostings,
                 AdminFails, postVars, RefInv, TypeOK, ForeignKeys
  <2>2. RefIntegrity'
    <3>1. CASE DelNgposts
      BY <3>1 DEF DelNgposts, RefInv, RefIntegrity, groupVars
    <3>2. CASE DelAcl
      BY <3>2 DEF DelAcl, RefInv, RefIntegrity
    <3>3. CASE DelNewsgroupRow
      BY <3>3 DEF DelNewsgroupRow, RefInv, RefIntegrity
    <3>4. CASE DelOrphanPostings
      BY <3>4 DEF DelOrphanPostings, RefInv, RefIntegrity, HasKey, groupVars
    <3>5. CASE AdminFails
      BY <3>5 DEF AdminFails, RefInv, RefIntegrity, dbVars, groupVars
    <3> QED BY <1>13, <3>1, <3>2, <3>3, <3>4, <3>5 DEF AdminStep
  <2>3. adm'.pc \in {"acl", "newsgroups"} /\ ~ForeignKeys => \A r \in ngposts' : r.ng # adm'.g
    BY <1>13, <2>1 DEF AdminStep, DelNgposts, DelAcl, DelNewsgroupRow,
                       DelOrphanPostings, AdminFails, RefInv, TypeOK
  <2> QED BY <1>pc, <2>1, <2>2, <2>3 DEF RefInv
<1>14. CASE UNCHANGED vars
  BY <1>14 DEF vars, dbVars, groupVars, admVars, RefInv, RefIntegrity,
               CurMsgId, ForeignKeys
<1> QED BY <1>1, <1>2, <1>3, <1>4, <1>5, <1>6, <1>7, <1>8, <1>9, <1>11, <1>12,
           <1>13, <1>14
        DEF Next, PostStep

-----------------------------------------------------------------------------
(* What a 240 answer is worth. *)

\* A step of thread t that deletes nothing and changes no grant keeps AckInv
\* if it keeps the parts about the stores and what AckInv says of t.
LEMMA AckStep ==
  ASSUME TypeOK, AckInv, NEW t \in Thread,
         adm' = adm, acl' = acl,
         postings \subseteq postings', ngposts \subseteq ngposts',
         \A u \in Thread \ {t} :
             pc'[u] = pc[u] /\ loc'[u] = loc[u] /\ posts'[u] = posts[u],
         pc'[t] \in LoopPc => Progress(t)',
         pc'[t] \notin LoopPc => Fresh(pc'[t], loc'[t]),
         AckedStored', AckedDelivered', AclRespected',
         \A p, q \in postings' : p.msgid = q.msgid => p = q
  PROVE  AckInv'
<1>1. ASSUME NEW id, NEW g, Posted(id, g) PROVE Posted(id, g)'
  BY <1>1 DEF Posted
<1>2. ASSUME NEW u \in Thread \ {t}
      PROVE  /\ pc'[u] \in LoopPc => Progress(u)'
             /\ pc'[u] \notin LoopPc => Fresh(pc'[u], loc'[u])
  <2>1. pc'[u] = pc[u] /\ loc'[u] = loc[u] /\ posts'[u] = posts[u]
    OBVIOUS
  <2>2. /\ CurMsgId(u)' = CurMsgId(u) /\ CurArt(u)' = CurArt(u)
        /\ CurGroup(u)' = CurGroup(u)
    BY <2>1 DEF CurMsgId, CurArt, CurGroup
  <2>3. pc[u] \in LoopPc => Progress(u)'
    BY <1>1, <2>1, <2>2 DEF AckInv, Progress
  <2> QED BY <2>1, <2>3 DEF AckInv
<1>3. \A u \in Thread : pc'[u] \in LoopPc => Progress(u)'
  BY <1>2
<1>4. \A u \in Thread : pc'[u] \notin LoopPc => Fresh(pc'[u], loc'[u])
  BY <1>2
<1> QED BY <1>3, <1>4 DEF AckInv

\* The same for a step that touches neither the stores nor acked.
LEMMA AckLocal ==
  ASSUME TypeOK, AckInv, NEW t \in Thread,
         adm' = adm, acl' = acl, postings' = postings, ngposts' = ngposts,
         acked' = acked,
         \A u \in Thread \ {t} :
             pc'[u] = pc[u] /\ loc'[u] = loc[u] /\ posts'[u] = posts[u],
         pc'[t] \in LoopPc => Progress(t)',
         pc'[t] \notin LoopPc => Fresh(pc'[t], loc'[t])
  PROVE  AckInv'
<1>1. AckedStored' /\ AckedDelivered' /\ AclRespected'
  BY DEF AckInv, AckedStored, AckedDelivered, AclRespected, Posted
<1>2. \A p, q \in postings' : p.msgid = q.msgid => p = q
  BY DEF AckInv
<1> QED BY <1>1, <1>2, AckStep

\* The next turn of the loop, once the current group has been dealt with.
LEMMA AckNextGroup ==
  ASSUME TypeOK, AckInv, NEW t \in Thread, pc[t] \in LoopPc,
         adm' = adm, acl' = acl, postings' = postings, ngposts' = ngposts,
         posts' = posts,
         NEW l \in Local, l.ngs = loc[t].ngs, l.k = loc[t].k,
         l.num = loc[t].num, NextGroup(t, l),
         \A i \in 1..l.k :
             l.ngs[i] \in l.skipped \/ Posted(CurMsgId(t), l.ngs[i]),
         \A i \in DOMAIN l.stack : Posted(CurMsgId(t), l.stack[i])
  PROVE  AckInv'
<1>0. /\ pc[t] # "idle" /\ l.k \in Nat /\ l.ngs \in Seq(Group)
      /\ l.ngs \in Lines /\ l.skipped \in SUBSET Group
  BY CurGroupType DEF LoopPc, Local
<1>ow. [msgid |-> CurMsgId(t), art |-> CurArt(t)] \in postings
  BY DEF AckInv, Progress
<1>1. CASE /\ l.k < Len(l.ngs)
           /\ Goto(t, LoopTop)
           /\ loc' = [loc EXCEPT ![t] = [l EXCEPT !.k = l.k + 1]]
           /\ UNCHANGED acked
  <2> DEFINE m == [l EXCEPT !.k = l.k + 1]
  <2>1. /\ m.ngs = l.ngs /\ m.k = l.k + 1 /\ m.num = l.num
        /\ m.stack = l.stack /\ m.skipped = l.skipped
    BY DEF Local
  <2>2. pc'[t] = LoopTop /\ loc'[t] = m
    BY <1>1 DEF Goto, TypeOK
  <2> HIDE DEF m
  <2>3. \A u \in Thread \ {t} :
            pc'[u] = pc[u] /\ loc'[u] = loc[u] /\ posts'[u] = posts[u]
    BY <1>1 DEF Goto, TypeOK
  <2>4. LoopTop \in LoopPc /\ LoopTop # "upd_high" /\ (UseAcl => LoopTop = "acl")
    BY DEF LoopTop, LoopPc
  <2>5. CurMsgId(t)' = CurMsgId(t) /\ CurArt(t)' = CurArt(t)
    BY <2>1, <2>2 DEF CurMsgId, CurArt
  <2>6. m.k - 1 = l.k
    BY <1>0, <2>1
  <2>7. Progress(t)'
    BY <1>ow, <2>1, <2>2, <2>4, <2>5, <2>6 DEF Progress, Posted
  <2> QED BY <1>1, <2>2, <2>3, <2>4, <2>7, AckLocal
<1>2. CASE /\ l.k = Len(l.ngs)
           /\ acked' = acked \cup {[msgid |-> CurMsgId(t), art |-> CurArt(t),
                                    ngs |-> l.ngs, skipped |-> l.skipped]}
           /\ Leave(t)
  <2> DEFINE a == [msgid |-> CurMsgId(t), art |-> CurArt(t),
                   ngs |-> l.ngs, skipped |-> l.skipped]
  <2>1. /\ a.msgid = CurMsgId(t) /\ a.art = CurArt(t)
        /\ a.ngs = l.ngs /\ a.skipped = l.skipped
        /\ acked' = acked \cup {a}
    BY <1>2
  <2> HIDE DEF a
  <2>2. AckedStored'
    <3>1. {p.art : p \in {q \in postings : q.msgid = a.msgid}} = {a.art}
      <4>1. ASSUME NEW p \in postings, p.msgid = a.msgid PROVE p.art = a.art
        BY <1>ow, <2>1, <4>1 DEF AckInv
      <4> DEFINE own == [msgid |-> CurMsgId(t), art |-> CurArt(t)]
      <4>2. own \in postings /\ own.msgid = a.msgid /\ own.art = a.art
        BY <1>ow, <2>1
      <4> HIDE DEF own
      <4> QED BY <4>1, <4>2
    <3> QED BY <2>1, <3>1 DEF AckInv, AckedStored
  <2>3. AckedDelivered'
    <3>1. \A i \in DOMAIN a.ngs : a.ngs[i] \in a.skipped \/ Posted(a.msgid, a.ngs[i])
      BY <1>0, <1>2, <2>1
    <3> QED BY <2>1, <3>1 DEF AckInv, AckedDelivered, Posted
  <2>4. AclRespected' /\ \A p, q \in postings' : p.msgid = q.msgid => p = q
    BY DEF AckInv, AclRespected
  <2>5. /\ pc'[t] \notin LoopPc /\ Fresh(pc'[t], loc'[t])
        /\ \A u \in Thread \ {t} :
              pc'[u] = pc[u] /\ loc'[u] = loc[u] /\ posts'[u] = posts[u]
    BY <1>2 DEF Leave, Goto, TypeOK, LoopPc, NoPost, Fresh, FilePc
  <2> QED BY <2>2, <2>3, <2>4, <2>5, AckStep
<1> QED BY <1>1, <1>2 DEF NextGroup

\* AckInv holds on an empty spool.
LEMMA AckInit == Init => AckInv
BY DEF Init, AckInv, AckedStored, AckedDelivered, AclRespected, LoopPc, NoPost, Fresh,
       FilePc

\* Thread t gets to a place outside the loop over the groups, or the process
\* ends.
StaysFresh(t) ==
    \/ ServerEnds
    \/ \E w, l : /\ w \notin LoopPc /\ Fresh(w, l)
                 /\ pc' = [pc EXCEPT ![t] = w] /\ loc' = [loc EXCEPT ![t] = l]

\* Up to the INSERT into postings a thread stands before the first turn of the
\* loop.
LEMMA FreshStep ==
  ASSUME TypeOK, NEW t \in Thread, Fresh(pc[t], loc[t]),
         \/ ChkExistence(t) \/ ChkPostingAllowed(t)
         \/ UniqOpen(t) \/ UniqCreate(t) \/ UniqWrite(t) \/ NextVal(t)
         \/ SaveBodyUnlink(t) \/ SaveBodyWrite(t) \/ StoreMessageBody(t)
  PROVE  StaysFresh(t)
<1>pc. {"idle", "chk_exists", "chk_allowed", "uniq_open", "uniq_create",
        "uniq_write", "nextval", "unlink", "write", "store_body",
        "ins_postings"} \cap LoopPc = {}
  BY DEF LoopPc
<1>2. loc[t].stack = EmptyStack /\ loc[t] \in Local
  BY DEF TypeOK, Fresh
<1>4. ASSUME NEW l, NEW w, Fresh(w, l), w \notin LoopPc,
             pc' = [pc EXCEPT ![t] = w], loc' = [loc EXCEPT ![t] = l]
      PROVE  StaysFresh(t)
  BY <1>4 DEF StaysFresh
<1>en. ASSUME ServerEnds PROVE StaysFresh(t)
  BY <1>en DEF StaysFresh
<1>3. ASSUME Leave(t) PROVE StaysFresh(t)
  <2>1. Fresh("idle", NoPost)
    BY DEF Fresh, FilePc, NoPost
  <2> QED BY <1>3, <1>4, <1>pc, <2>1 DEF Leave, Goto
<1>5. /\ loc' = loc => loc' = [loc EXCEPT ![t] = loc[t]]
      /\ \A n \in Nat : /\ [loc[t] EXCEPT !.k = n].stack = EmptyStack
                        /\ [loc[t] EXCEPT !.k = n].k = n
                        /\ [loc[t] EXCEPT !.num = n].stack = EmptyStack
                        /\ [loc[t] EXCEPT !.num = n].k = loc[t].k
  BY <1>2 DEF Local, TypeOK
<1>6. loc[t].k + 1 \in Nat /\ loc[t].num + 1 \in Nat /\ fileNum \in Nat
      /\ seq + 1 \in Nat
  BY <1>2 DEF Local, TypeOK
<1>7. CASE ChkExistence(t)
  BY <1>pc, <1>2, <1>3, <1>4, <1>5, <1>7 DEF ChkExistence, Goto, Fresh, FilePc
<1>8. CASE ChkPostingAllowed(t)
  <2>1. Fresh("chk_exists", [loc[t] EXCEPT !.k = loc[t].k + 1])
    BY <1>5, <1>6 DEF Fresh, FilePc
  <2>2. Fresh(Numbering, [loc[t] EXCEPT !.k = 1])
    BY <1>5 DEF Fresh
  <2> QED BY <1>pc, <1>3, <1>4, <1>8, <2>1, <2>2, Branches DEF ChkPostingAllowed, Goto
<1>9. CASE UniqOpen(t)
  BY <1>pc, <1>2, <1>3, <1>4, <1>5, <1>6, <1>9 DEF UniqOpen, Goto, Fresh, FilePc
<1>10. CASE UniqCreate(t)
  BY <1>pc, <1>2, <1>3, <1>4, <1>5, <1>10 DEF UniqCreate, Goto, Fresh, FilePc
<1>11. CASE UniqWrite(t)
  BY <1>pc, <1>2, <1>3, <1>4, <1>5, <1>6, <1>11, Branches
     DEF UniqWrite, Goto, Fresh, FilePc
<1>12. CASE SaveBodyUnlink(t) \/ SaveBodyWrite(t)
  BY <1>pc, <1>2, <1>4, <1>5, <1>12
     DEF SaveBodyUnlink, SaveBodyWrite, Goto, Fresh, FilePc
<1>13. CASE NextVal(t)
  <2>1. pc[t] = "nextval" => Fresh(Saving, [loc[t] EXCEPT !.num = seq + 1])
    BY <1>5, <1>6 DEF Fresh
  <2>2. Saving \notin LoopPc
    BY Branches
  <2> QED BY <1>en, <1>4, <1>13, <2>1, <2>2 DEF NextVal, Goto
<1>14. CASE StoreMessageBody(t)
  BY <1>en, <1>pc, <1>2, <1>3, <1>4, <1>5, <1>14
     DEF StoreMessageBody, Goto, Fresh
<1> QED BY <1>7, <1>8, <1>9, <1>10, <1>11, <1>12, <1>13, <1>14

\* AckInv is preserved by every step when the administration tool is not used.
LEMMA AckNext ==
  ASSUME ~UseTool, TypeOK, RefInv, AckInv, [Next]_vars
  PROVE  AckInv'
<1>pc. /\ LoopTop \in LoopPc \ {"upd_high"} /\ (UseAcl => LoopTop = "acl")
       /\ {"idle", "chk_exists", "chk_allowed", "uniq_open", "uniq_create",
           "uniq_write", "nextval", "unlink", "write", "store_body",
           "ins_postings"} \cap LoopPc = {}
       /\ {"get_high", "ins_ngposts", "upd_high"} \subseteq LoopPc
  BY DEF LoopTop, LoopPc
<1>ty. /\ \A t \in Thread : loc[t] \in Local
       /\ pc \in [Thread -> Pc] /\ loc \in [Thread -> Local]
       /\ posts \in [Thread -> Nat]
  BY DEF TypeOK
<1>lv. ASSUME NEW t \in Thread, Leave(t), adm' = adm, acl' = acl,
              postings' = postings, ngposts' = ngposts, acked' = acked,
              posts' = posts
       PROVE  AckInv'
  <2>1. /\ pc'[t] \notin LoopPc /\ Fresh(pc'[t], loc'[t])
        /\ \A u \in Thread \ {t} :
              pc'[u] = pc[u] /\ loc'[u] = loc[u] /\ posts'[u] = posts[u]
    BY <1>lv, <1>ty, <1>pc DEF Leave, Goto, NoPost, Fresh, FilePc
  <2> QED BY <1>lv, <2>1, AckLocal
<1>en. ASSUME ServerEnds, adm' = adm, acl' = acl, postings' = postings,
              ngposts' = ngposts, acked' = acked
       PROVE  AckInv'
  <2>1. \A t \in Thread : pc'[t] = "idle" /\ loc'[t] = NoPost
    BY <1>en DEF ServerEnds
  <2>2. AckedStored' /\ AckedDelivered' /\ AclRespected'
    BY <1>en DEF AckInv, AckedStored, AckedDelivered, AclRespected, Posted
  <2>3. Fresh("idle", NoPost)
    BY DEF Fresh, FilePc, NoPost
  <2> QED BY <1>en, <1>pc, <2>1, <2>2, <2>3 DEF AckInv
<1>1. ASSUME NEW t \in Thread, Post(t) PROVE AckInv'
  <2>1. PICK line \in Lines :
            loc' = [loc EXCEPT ![t] = [NoPost EXCEPT !.ngs = line, !.k = 1]]
    BY <1>1 DEF Post
  <2>2. /\ Fresh(pc'[t], loc'[t]) /\ pc'[t] \notin LoopPc
        /\ \A u \in Thread \ {t} :
              pc'[u] = pc[u] /\ loc'[u] = loc[u] /\ posts'[u] = posts[u]
    BY <1>1, <1>ty, <1>pc, <2>1 DEF Post, Goto, NoPost, Fresh
  <2>3. /\ adm' = adm /\ acl' = acl /\ postings' = postings
        /\ ngposts' = ngposts /\ acked' = acked
    BY <1>1 DEF Post, dbVars, groupVars, admVars
  <2> QED BY <2>2, <2>3, AckLocal
<1>2. ASSUME NEW t \in Thread,
             \/ ChkExistence(t) \/ ChkPostingAllowed(t)
             \/ UniqOpen(t) \/ UniqCreate(t) \/ UniqWrite(t) \/ NextVal(t)
             \/ SaveBodyUnlink(t) \/ SaveBodyWrite(t) \/ StoreMessageBody(t)
      PROVE  AckInv'
  <2>1. /\ adm' = adm /\ acl' = acl /\ postings' = postings
        /\ ngposts' = ngposts /\ acked' = acked /\ posts' = posts
        /\ pc[t] \notin LoopPc
    BY <1>2, <1>pc DEF ChkExistence, ChkPostingAllowed, UniqOpen, UniqCreate, UniqWrite,
       NextVal, SaveBodyUnlink, SaveBodyWrite, StoreMessageBody, dbVars, groupVars,
       admVars
  <2>2. Fresh(pc[t], loc[t])
    BY <2>1 DEF AckInv
  <2>3. ASSUME NEW l, NEW w, Fresh(w, l), w \notin LoopPc,
               pc' = [pc EXCEPT ![t] = w], loc' = [loc EXCEPT ![t] = l]
        PROVE  AckInv'
    <3>1. /\ pc'[t] \notin LoopPc /\ Fresh(pc'[t], loc'[t])
          /\ \A u \in Thread \ {t} :
                pc'[u] = pc[u] /\ loc'[u] = loc[u] /\ posts'[u] = posts[u]
      BY <1>ty, <2>1, <2>3
    <3> QED BY <2>1, <3>1, AckLocal
  <2> QED BY <1>2, <1>en, <2>1, <2>2, <2>3, FreshStep DEF StaysFresh
<1>3. ASSUME NEW t \in Thread, InsertIntoPostings(t) PROVE AckInv'
  <2>1. /\ adm' = adm /\ acl' = acl /\ ngposts' = ngposts /\ acked' = acked
        /\ posts' = posts /\ pc[t] \notin LoopPc
    BY <1>3, <1>pc DEF InsertIntoPostings, groupVars, admVars
  <2>2. CASE Leave(t) /\ UNCHANGED postings
    BY <1>lv, <2>1, <2>2
  <2>3. CASE /\ ~HasKey(postings, CurMsgId(t))
             /\ postings' = postings \cup
                               {[msgid |-> CurMsgId(t), art |-> CurArt(t)]}
             /\ Goto(t, LoopTop)
             /\ UNCHANGED loc
    <3> DEFINE own == [msgid |-> CurMsgId(t), art |-> CurArt(t)]
    <3>1. own.msgid = CurMsgId(t) /\ own.art = CurArt(t) /\ postings' = postings \cup {own}
      BY <2>3
    <3>2. own = [msgid |-> CurMsgId(t), art |-> CurArt(t)]
      OBVIOUS
    <3> HIDE DEF own
    <3>3. \A p \in postings : p.msgid # own.msgid
      BY <2>3, <3>1 DEF HasKey
    <3>4. \A p, q \in postings' : p.msgid = q.msgid => p = q
      BY <3>1, <3>3 DEF AckInv
    <3>5. AckedStored'
      <4> SUFFICES ASSUME NEW a \in acked
                   PROVE  {p.art : p \in {q \in postings' : q.msgid = a.msgid}} = {a.art}
        BY <2>1 DEF AckedStored
      <4>1. {p.art : p \in {q \in postings : q.msgid = a.msgid}} = {a.art}
        BY DEF AckInv, AckedStored
      <4>2. PICK p \in postings : p.msgid = a.msgid
        BY <4>1
      <4>3. own.msgid # a.msgid
        BY <3>3, <4>2
      <4>4. {q \in postings' : q.msgid = a.msgid} = {q \in postings : q.msgid = a.msgid}
        BY <3>1, <4>3
      <4> QED BY <4>1, <4>4
    <3>6. AckedDelivered'
      BY <2>1 DEF AckInv, AckedDelivered, Posted
    <3>7. AclRespected'
      <4> SUFFICES ASSUME NEW r \in ngposts, NEW p \in postings',
                          UseAcl, r.msgid = p.msgid
                   PROVE  <<p.art[1], r.ng>> \in acl
        BY <2>1 DEF AclRespected
      <4>1. PICK q \in postings : q.msgid = r.msgid
        BY DEF RefInv, RefIntegrity, HasKey
      <4>2. p \in postings
        BY <3>1, <3>3, <4>1
      <4> QED BY <4>2 DEF AckInv, AclRespected
    <3>8. /\ pc'[t] = LoopTop /\ loc'[t] = loc[t]
          /\ \A u \in Thread \ {t} :
                pc'[u] = pc[u] /\ loc'[u] = loc[u] /\ posts'[u] = posts[u]
      BY <1>ty, <2>1, <2>3 DEF Goto
    <3>9. Progress(t)'
      <4>1. CurMsgId(t)' = CurMsgId(t) /\ CurArt(t)' = CurArt(t)
        BY <2>1, <3>8 DEF CurMsgId, CurArt
      <4>2. loc[t].stack = EmptyStack /\ DOMAIN EmptyStack = {}
        BY <2>1 DEF AckInv, EmptyStack, Fresh
      <4>3. loc[t].k = 1
        BY <1>3, <2>1 DEF InsertIntoPostings, AckInv, Fresh
      <4>4. 1..(loc[t].k - 1) = {}
        BY <4>3
      <4> QED BY <1>pc, <3>1, <3>2, <3>8, <4>1, <4>2, <4>4 DEF Progress
    <3> QED BY <1>pc, <2>1, <3>1, <3>4, <3>5, <3>6, <3>7, <3>8, <3>9, AckStep
  <2> QED BY <1>3, <2>2, <2>3 DEF InsertIntoPostings
<1>4. ASSUME NEW t \in Thread,
             AclCheck(t) \/ GetHighValue(t) \/ UpdateHighValue(t)
      PROVE  AckInv'
  <2>1. /\ adm' = adm /\ acl' = acl /\ postings' = postings
        /\ ngposts' = ngposts /\ posts' = posts /\ pc[t] \in LoopPc
        /\ loc[t] \in Local /\ Progress(t) /\ pc[t] # "idle"
    BY <1>4, <1>ty
       DEF AclCheck, GetHighValue, UpdateHighValue, dbVars, groupVars, admVars,
           LoopPc, AckInv
  <2>2. /\ loc[t].k \in 1..Len(loc[t].ngs) /\ CurGroup(t) \in Group
        /\ loc[t].stack \in Seq(Group)
        /\ loc[t].skipped \cup {CurGroup(t)} \in SUBSET Group
    BY <2>1, CurGroupType DEF Local
  <2>3. CASE Leave(t) /\ acked' = acked
    BY <1>lv, <2>1, <2>3
  <2>4. ASSUME \/ CurGroup(t) \in loc[t].skipped
               \/ Posted(CurMsgId(t), CurGroup(t))
        PROVE  \A i \in 1..loc[t].k :
                  \/ loc[t].ngs[i] \in loc[t].skipped
                  \/ Posted(CurMsgId(t), loc[t].ngs[i])
    <3> SUFFICES ASSUME NEW i \in 1..loc[t].k
                 PROVE  \/ loc[t].ngs[i] \in loc[t].skipped
                        \/ Posted(CurMsgId(t), loc[t].ngs[i])
      OBVIOUS
    <3>1. i = loc[t].k \/ i \in 1..(loc[t].k - 1)
      BY <2>2
    <3> QED BY <2>1, <2>4, <3>1 DEF Progress, CurGroup
  <2>5. CASE AclCheck(t)
    <3>1. CASE /\ <<t, CurGroup(t)>> \in acl
               /\ Goto(t, "get_high")
               /\ UNCHANGED <<loc, acked>>
      <4>1. /\ pc'[t] = "get_high" /\ loc'[t] = loc[t]
            /\ \A u \in Thread \ {t} :
                  pc'[u] = pc[u] /\ loc'[u] = loc[u] /\ posts'[u] = posts[u]
        BY <1>ty, <2>1, <3>1 DEF Goto
      <4>2. /\ CurMsgId(t)' = CurMsgId(t) /\ CurArt(t)' = CurArt(t)
            /\ CurGroup(t)' = CurGroup(t)
        BY <2>1, <4>1 DEF CurMsgId, CurArt, CurGroup
      <4>3. Progress(t)'
        BY <2>1, <3>1, <4>1, <4>2 DEF Progress, Posted
      <4> QED BY <1>pc, <2>1, <3>1, <4>1, <4>3, AckLocal
    <3>2. CASE NextGroup(t, [loc[t] EXCEPT
                               !.skipped = loc[t].skipped \cup {CurGroup(t)}])
      <4> DEFINE l == [loc[t] EXCEPT !.skipped = loc[t].skipped \cup {CurGroup(t)}]
      <4>1. /\ l \in Local /\ l.ngs = loc[t].ngs /\ l.k = loc[t].k
            /\ l.num = loc[t].num /\ l.stack = loc[t].stack
            /\ l.skipped = loc[t].skipped \cup {CurGroup(t)}
        BY <2>1, <2>2 DEF Local
      <4>2. NextGroup(t, l)
        BY <3>2
      <4> HIDE DEF l
      <4>3. ASSUME NEW i \in 1..l.k
            PROVE  l.ngs[i] \in l.skipped \/ Posted(CurMsgId(t), l.ngs[i])
        <5>1. i = loc[t].k \/ i \in 1..(loc[t].k - 1)
          BY <2>2, <4>1
        <5> QED BY <2>1, <4>1, <5>1 DEF Progress, CurGroup
      <4>4. \A i \in DOMAIN l.stack : Posted(CurMsgId(t), l.stack[i])
        BY <2>1, <4>1 DEF Progress
      <4> QED BY <2>1, <4>1, <4>2, <4>3, <4>4, AckNextGroup
    <3>3. CASE ServerEnds /\ UNCHANGED acked
      BY <1>en, <2>1, <3>3
    <3> QED BY <2>5, <3>1, <3>2, <3>3 DEF AclCheck
  <2>6. CASE GetHighValue(t)
    <3>1. PICK h \in High :
             \/ Leave(t) /\ UNCHANGED acked
             \/ /\ loc' = [loc EXCEPT ![t] = [loc[t] EXCEPT !.curHigh = h]]
                /\ Goto(t, "ins_ngposts")
                /\ UNCHANGED acked
             \/ CheckFor(loc[t].stack, CurGroup(t)) /\ NextGroup(t, loc[t])
      BY <2>6 DEF GetHighValue
    <3>2. CASE /\ loc' = [loc EXCEPT ![t] = [loc[t] EXCEPT !.curHigh = h]]
               /\ Goto(t, "ins_ngposts")
               /\ UNCHANGED acked
      <4> DEFINE l == [loc[t] EXCEPT !.curHigh = h]
      <4>1. /\ l.ngs = loc[t].ngs /\ l.k = loc[t].k /\ l.num = loc[t].num
            /\ l.stack = loc[t].stack /\ l.skipped = loc[t].skipped
        BY <2>1 DEF Local
      <4>2. /\ pc'[t] = "ins_ngposts" /\ loc'[t] = l
            /\ \A u \in Thread \ {t} :
                  pc'[u] = pc[u] /\ loc'[u] = loc[u] /\ posts'[u] = posts[u]
        BY <1>ty, <2>1, <3>2 DEF Goto
      <4> HIDE DEF l
      <4>3. /\ CurMsgId(t)' = CurMsgId(t) /\ CurArt(t)' = CurArt(t)
            /\ CurGroup(t)' = CurGroup(t)
        BY <2>1, <4>1, <4>2 DEF CurMsgId, CurArt, CurGroup
      <4>4. pc[t] = "get_high"
        BY <2>6 DEF GetHighValue
      <4>5. Progress(t)'
        BY <2>1, <4>1, <4>2, <4>3, <4>4 DEF Progress, Posted
      <4> QED BY <1>pc, <2>1, <3>2, <4>2, <4>5, AckLocal
    <3>3. CASE CheckFor(loc[t].stack, CurGroup(t)) /\ NextGroup(t, loc[t])
      <4>1. Posted(CurMsgId(t), CurGroup(t))
        BY <2>1, <3>3 DEF CheckFor, Progress
      <4>2. \A i \in 1..loc[t].k :
                  \/ loc[t].ngs[i] \in loc[t].skipped
                  \/ Posted(CurMsgId(t), loc[t].ngs[i])
        BY <2>4, <4>1
      <4>3. \A i \in DOMAIN loc[t].stack : Posted(CurMsgId(t), loc[t].stack[i])
        BY <2>1 DEF Progress
      <4> QED BY <2>1, <3>3, <4>2, <4>3, AckNextGroup
    <3> QED BY <2>3, <3>1, <3>2, <3>3
  <2>7. CASE UpdateHighValue(t)
    <3> DEFINE l == [loc[t] EXCEPT !.stack = PushOn(loc[t].stack, CurGroup(t))]
    <3>0. PushOn(loc[t].stack, CurGroup(t)) \in Seq(Group)
      BY <2>2, PushOnType
    <3>1. /\ l \in Local /\ l.ngs = loc[t].ngs /\ l.k = loc[t].k
          /\ l.num = loc[t].num /\ l.skipped = loc[t].skipped
          /\ l.stack = PushOn(loc[t].stack, CurGroup(t))
      BY <2>1, <3>0 DEF Local
    <3>2. NextGroup(t, l)
      BY <2>7 DEF UpdateHighValue, SetHigh
    <3> HIDE DEF l
    <3>3. Posted(CurMsgId(t), CurGroup(t))
      BY <2>1, <2>7 DEF UpdateHighValue, SetHigh, Progress
    <3>4. \A i \in 1..l.k : l.ngs[i] \in l.skipped \/ Posted(CurMsgId(t), l.ngs[i])
      BY <2>4, <3>1, <3>3
    <3>5. ASSUME NEW i \in DOMAIN l.stack PROVE Posted(CurMsgId(t), l.stack[i])
      <4>1. \/ l.stack[i] = CurGroup(t)
            \/ \E j \in DOMAIN loc[t].stack : l.stack[i] = loc[t].stack[j]
        BY <2>2, <3>1, PushOnRange
      <4> QED BY <2>1, <3>3, <4>1 DEF Progress
    <3> QED BY <2>1, <3>1, <3>2, <3>4, <3>5, AckNextGroup
  <2> QED BY <1>4, <2>5, <2>6, <2>7
<1>5. ASSUME NEW t \in Thread, InsertIntoNgposts(t) PROVE AckInv'
  <2>1. /\ adm' = adm /\ acl' = acl /\ postings' = postings /\ acked' = acked
        /\ posts' = posts /\ pc[t] \in LoopPc /\ Progress(t)
        /\ pc[t] = "ins_ngposts"
    BY <1>5, <1>pc DEF InsertIntoNgposts, groupVars, admVars, AckInv
  <2>2. CASE Leave(t) /\ UNCHANGED ngposts
    BY <1>lv, <2>1, <2>2
  <2>3. CASE /\ ngposts' = ngposts \cup {[msgid |-> CurMsgId(t), ng |-> CurGroup(t),
                                          num |-> loc[t].curHigh + 1]}
             /\ Goto(t, "upd_high")
             /\ UNCHANGED loc
    <3> DEFINE row == [msgid |-> CurMsgId(t), ng |-> CurGroup(t),
                       num |-> loc[t].curHigh + 1]
    <3>1. /\ row.msgid = CurMsgId(t) /\ row.ng = CurGroup(t)
          /\ ngposts' = ngposts \cup {row}
      BY <2>3
    <3> HIDE DEF row
    <3>2. ASSUME NEW id, NEW g, Posted(id, g) PROVE Posted(id, g)'
      BY <3>1, <3>2 DEF Posted
    <3>3. AckedStored' /\ AckedDelivered'
      BY <2>1, <3>2 DEF AckInv, AckedStored, AckedDelivered
    <3>4. AclRespected'
      <4> SUFFICES ASSUME NEW p \in postings, UseAcl, row.msgid = p.msgid
                   PROVE  <<p.art[1], row.ng>> \in acl
        BY <2>1, <3>1 DEF AckInv, AclRespected
      <4> DEFINE own == [msgid |-> CurMsgId(t), art |-> CurArt(t)]
      <4>1. own \in postings /\ own.msgid = CurMsgId(t) /\ own.art = CurArt(t)
        BY <2>1 DEF Progress
      <4> HIDE DEF own
      <4>2. p = own
        BY <3>1, <4>1 DEF AckInv
      <4>3. p.art[1] = t
        BY <4>1, <4>2 DEF CurArt
      <4> QED BY <2>1, <3>1, <4>3 DEF Progress
    <3>5. /\ pc'[t] = "upd_high" /\ loc'[t] = loc[t]
          /\ \A u \in Thread \ {t} :
                pc'[u] = pc[u] /\ loc'[u] = loc[u] /\ posts'[u] = posts[u]
      BY <1>ty, <2>1, <2>3 DEF Goto
    <3>6. /\ CurMsgId(t)' = CurMsgId(t) /\ CurArt(t)' = CurArt(t)
          /\ CurGroup(t)' = CurGroup(t)
      BY <2>1, <3>5 DEF CurMsgId, CurArt, CurGroup
    <3>7. Posted(CurMsgId(t), CurGroup(t))'
      BY <3>1, <3>6 DEF Posted
    <3>8. Progress(t)'
      BY <2>1, <3>2, <3>5, <3>6, <3>7 DEF Progress
    <3>9. \A p, q \in postings' : p.msgid = q.msgid => p = q
      BY <2>1 DEF AckInv
    <3> QED BY <1>pc, <2>1, <3>1, <3>3, <3>4, <3>5, <3>8, <3>9, AckStep
  <2> QED BY <1>5, <2>2, <2>3 DEF InsertIntoNgposts
<1>6. ASSUME NEW t \in Thread, StatementFails(t) PROVE AckInv'
  BY <1>6, <1>lv DEF StatementFails, dbVars, groupVars, admVars
<1>7. CASE Crash
  BY <1>7, <1>en DEF Crash, dbVars, groupVars, admVars
<1>8. ~AdminBegins /\ ~AdminStep /\ ~AdminFails
  BY DEF AdminBegins, AdminStep, DelNgposts, DelAcl, DelNewsgroupRow,
         DelOrphanPostings, AdminFails, AckInv
<1>9. CASE UNCHANGED vars
  <2>1. /\ adm' = adm /\ acl' = acl /\ postings' = postings /\ pc' = pc
        /\ ngposts' = ngposts /\ acked' = acked /\ loc' = loc /\ posts' = posts
    BY <1>9 DEF vars, dbVars, groupVars, admVars
  <2>2. AckedStored' /\ AckedDelivered' /\ AclRespected'
    BY <2>1 DEF AckInv, AckedStored, AckedDelivered, AclRespected, Posted
  <2>3. ASSUME NEW t \in Thread, Progress(t) PROVE Progress(t)'
    BY <2>1, <2>3 DEF Progress, Posted, CurMsgId, CurArt, CurGroup
  <2> QED BY <2>1, <2>2, <2>3 DEF AckInv
<1> QED BY <1>1, <1>2, <1>3, <1>4, <1>5, <1>6, <1>7, <1>8, <1>9
        DEF Next, PostStep, CreateNewsgroup, ModifyNewsgroup, DeleteNewsgroup,
            ChangeAcl

\* AckInv holds throughout.
LEMMA AckInvariant ==
  ASSUME ~UseTool
  PROVE  Spec => []AckInv
<1>1. Init => TypeOK /\ RefInv /\ AckInv
  BY InitType, RefInit, AckInit
<1>2. (TypeOK /\ RefInv /\ AckInv) /\ [Next]_vars => (TypeOK /\ RefInv /\ AckInv)'
  BY NextType, RefNext, AckNext DEF Quiesced
<1> QED BY <1>1, <1>2, PTL DEF Spec

\* Between administration commands an article answered with 240 keeps a row of
\* postings of its own, although get_uniqnum() may hand one number to two
\* POSTs.
THEOREM AcknowledgedStored ==
  ASSUME ~UseTool
  PROVE  Spec => []AckedStored
<1>1. AckInv => AckedStored
  BY DEF AckInv
<1> QED BY <1>1, AckInvariant, PTL

\* Under the same condition it is in every group its Newsgroups line names, but
\* for those the ACL refused.
THEOREM AcknowledgedArticles ==
  ASSUME ~UseTool
  PROVE  Spec => []AckedDelivered
<1>1. AckInv => AckedDelivered
  BY DEF AckInv
<1> QED BY <1>1, AckInvariant, PTL

\* Under the same condition no entry is in a group that the author of the
\* article was not granted.
THEOREM EntriesGranted ==
  ASSUME ~UseTool
  PROVE  Spec => []AclRespected
<1>1. AckInv => AclRespected
  BY DEF AckInv
<1> QED BY <1>1, AckInvariant, PTL

-----------------------------------------------------------------------------
(* Article numbers without holes. *)

InsertPc == {"ins_ngposts", "upd_high"}

\* A step that takes no entry away and leaves the high values alone keeps
\* DenseInv, if it brings no thread into the turn that numbers an article.
LEMMA DenseQuiet ==
  ASSUME DenseInv, ngposts \subseteq ngposts', high' = high,
         \A u \in Thread : pc'[u] \in InsertPc => pc'[u] = pc[u] /\ loc'[u] = loc[u]
  PROVE  DenseInv'
<1>1. ASSUME NEW g, NEW n, Used(g, n) PROVE Used(g, n)'
  BY <1>1 DEF Used
<1>2. NumbersDense'
  BY <1>1 DEF DenseInv, NumbersDense
<1>3. ASSUME NEW u \in Thread, pc'[u] \in InsertPc
      PROVE  /\ \A n \in 1..loc'[u].curHigh : Used(CurGroup(u), n)'
             /\ pc'[u] = "upd_high" => Used(CurGroup(u), loc[u].curHigh + 1)'
  <2>1. CurGroup(u)' = CurGroup(u) /\ loc'[u] = loc[u] /\ pc'[u] = pc[u]
    BY <1>3 DEF CurGroup
  <2> QED BY <1>1, <1>3, <2>1 DEF DenseInv, InsertPc, Used
<1> QED BY <1>2, <1>3 DEF DenseInv, InsertPc

\* A step of thread t that numbers nothing.
LEMMA DenseStep ==
  ASSUME TypeOK, DenseInv, NEW t \in Thread, NEW w, NEW l,
         w \notin InsertPc, pc' = [pc EXCEPT ![t] = w],
         loc' = loc \/ loc' = [loc EXCEPT ![t] = l],
         ngposts' = ngposts, high' = high
  PROVE  DenseInv'
<1>1. \A u \in Thread \ {t} : pc'[u] = pc[u] /\ loc'[u] = loc[u]
  BY DEF TypeOK
<1>2. pc'[t] = w
  BY DEF TypeOK
<1> QED BY <1>1, <1>2, DenseQuiet

\* The end of the process.
LEMMA DenseEnds ==
  ASSUME DenseInv, ServerEnds, ngposts' = ngposts, high' = high
  PROVE  DenseInv'
<1>1. \A u \in Thread : pc'[u] = "idle"
  BY DEF ServerEnds
<1> QED BY <1>1, DenseQuiet DEF InsertPc

\* db_get_high_value() reads a high value up to which every number is used.
LEMMA DenseRead ==
  ASSUME TypeOK, RefInv, DenseInv, NEW t \in Thread, GetHighValue(t)
  PROVE  DenseInv'
<1>0. pc[t] = "get_high" /\ ngposts' = ngposts /\ high' = high
  BY DEF GetHighValue, dbVars, groupVars
<1>1. CurGroup(t) \in groups /\ CurGroup(t) \in Group
  BY <1>0, CurGroupType DEF RefInv, CurGroup
<1>2. PICK h \in High :
         /\ ReadsHigh(CurGroup(t), h)
         /\ \/ Leave(t)
            \/ /\ loc' = [loc EXCEPT ![t] = [loc[t] EXCEPT !.curHigh = h]]
               /\ Goto(t, "ins_ngposts")
            \/ NextGroup(t, loc[t])
  BY DEF GetHighValue
<1>3. h = high[CurGroup(t)]
  BY <1>1, <1>2 DEF ReadsHigh
<1>4. "idle" \notin InsertPc /\ LoopTop \notin InsertPc
  BY DEF InsertPc, LoopTop
<1>5. CASE Leave(t) \/ NextGroup(t, loc[t])
  BY <1>0, <1>4, <1>5, DenseStep DEF Leave, NextGroup, Goto
<1>6. CASE /\ loc' = [loc EXCEPT ![t] = [loc[t] EXCEPT !.curHigh = h]]
           /\ Goto(t, "ins_ngposts")
  <2>1. \A u \in Thread \ {t} : pc'[u] = pc[u] /\ loc'[u] = loc[u]
    BY <1>6 DEF TypeOK, Goto
  <2>2. \A u \in Thread \ {t} : CurGroup(u)' = CurGroup(u)
    BY <2>1 DEF CurGroup
  <2>3. loc[t] \in Local
    BY DEF TypeOK
  <2>4. /\ loc'[t].curHigh = h /\ loc'[t].ngs = loc[t].ngs /\ loc'[t].k = loc[t].k
        /\ pc'[t] = "ins_ngposts"
    BY <1>6, <2>3 DEF TypeOK, Local, Goto
  <2>5. CurGroup(t)' = CurGroup(t)
    BY <2>4 DEF CurGroup
  <2>6. \A g, n : Used(g, n)' = Used(g, n)
    BY <1>0 DEF Used
  <2>7. NumbersDense'
    BY <1>0, <2>6 DEF DenseInv, NumbersDense
  <2>8. \A n \in 1..h : Used(CurGroup(t), n)
    BY <1>1, <1>3 DEF DenseInv, NumbersDense
  <2>9. ASSUME NEW u \in Thread
        PROVE  (/\ pc[u] \in {"ins_ngposts", "upd_high"} =>
                     \A n \in 1..loc[u].curHigh : Used(CurGroup(u), n)
                /\ pc[u] = "upd_high" => Used(CurGroup(u), loc[u].curHigh + 1))'
    <3>1. CASE u = t
      BY <1>0, <2>4, <2>5, <2>8, <3>1 DEF Used
    <3>2. CASE u # t
      BY <1>0, <2>1, <2>2, <3>2 DEF DenseInv, Used
    <3> QED BY <3>1, <3>2
  <2> QED BY <2>7, <2>9 DEF DenseInv
<1> QED BY <1>2, <1>5, <1>6

\* The new entry has the number that follows those the thread has read of.
LEMMA DenseInsert ==
  ASSUME TypeOK, DenseInv, NEW t \in Thread, InsertIntoNgposts(t)
  PROVE  DenseInv'
<1>0. pc[t] = "ins_ngposts" /\ high' = high
  BY DEF InsertIntoNgposts, groupVars
<1>1. CASE Leave(t) /\ UNCHANGED ngposts
  BY <1>0, <1>1, DenseStep DEF Leave, Goto, InsertPc
<1>2. CASE /\ ngposts' = ngposts \cup {[msgid |-> CurMsgId(t), ng |-> CurGroup(t),
                                        num |-> loc[t].curHigh + 1]}
           /\ Goto(t, "upd_high")
           /\ UNCHANGED loc
  <2> DEFINE own == [msgid |-> CurMsgId(t), ng |-> CurGroup(t),
                     num |-> loc[t].curHigh + 1]
  <2>1. own \in ngposts' /\ own.ng = CurGroup(t) /\ own.num = loc[t].curHigh + 1
    BY <1>2
  <2> HIDE DEF own
  <2>2. ASSUME NEW g, NEW n, Used(g, n) PROVE Used(g, n)'
    BY <1>2, <2>2 DEF Used
  <2>3. Used(CurGroup(t), loc[t].curHigh + 1)'
    <3>1. CurGroup(t)' = CurGroup(t) /\ loc'[t] = loc[t]
      BY <1>2 DEF CurGroup
    <3> QED BY <2>1, <3>1 DEF Used
  <2>4. \A u \in Thread : /\ CurGroup(u)' = CurGroup(u) /\ loc'[u] = loc[u]
                          /\ u # t => pc'[u] = pc[u]
    BY <1>2 DEF CurGroup, Goto, TypeOK
  <2>5. NumbersDense'
    BY <1>0, <2>2 DEF DenseInv, NumbersDense
  <2>6. ASSUME NEW u \in Thread, pc'[u] \in {"ins_ngposts", "upd_high"}
        PROVE  \A n \in 1..loc'[u].curHigh : Used(CurGroup(u), n)'
    <3>1. \A n \in 1..loc[u].curHigh : Used(CurGroup(u), n)
      BY <1>0, <2>4, <2>6 DEF DenseInv
    <3>2. CurGroup(u)' = CurGroup(u) /\ loc'[u] = loc[u]
      BY <2>4
    <3> QED BY <2>2, <3>1, <3>2 DEF Used
  <2>7. ASSUME NEW u \in Thread, pc'[u] = "upd_high"
        PROVE  Used(CurGroup(u), loc[u].curHigh + 1)'
    <3>1. CASE u = t
      BY <2>3, <3>1
    <3>2. CASE u # t
      <4>1. Used(CurGroup(u), loc[u].curHigh + 1)
        BY <2>4, <2>7, <3>2 DEF DenseInv
      <4>2. CurGroup(u)' = CurGroup(u) /\ loc'[u] = loc[u]
        BY <2>4
      <4> QED BY <2>2, <4>1, <4>2 DEF Used
    <3> QED BY <3>1, <3>2
  <2> QED BY <2>5, <2>6, <2>7 DEF DenseInv
<1> QED BY <1>1, <1>2 DEF InsertIntoNgposts

\* The UPDATE sets the high value, up or down, to a number up to which every
\* one is used.
LEMMA DenseUpdate ==
  ASSUME TypeOK, DenseInv, NEW t \in Thread, UpdateHighValue(t)
  PROVE  DenseInv'
<1>0. pc[t] = "upd_high" /\ ngposts' = ngposts
  BY DEF UpdateHighValue
<1>1. /\ CurGroup(t) \in Group /\ high \in [Group -> High]
      /\ loc[t].curHigh \in Nat
  <2>1. CurGroup(t) \in Group /\ loc[t] \in Local
    BY <1>0, CurGroupType
  <2>2. loc[t].curHigh \in High
    BY <2>1 DEF Local
  <2> QED BY <2>1, <2>2, PostingAssumption DEF TypeOK, High
<1>2. PICK l : NextGroup(t, l)
  BY DEF UpdateHighValue
<1>3. /\ \A u \in Thread \ {t} : pc'[u] = pc[u] /\ loc'[u] = loc[u]
      /\ pc'[t] \notin {"ins_ngposts", "upd_high"}
  BY <1>2 DEF NextGroup, Leave, Goto, LoopTop, TypeOK
<1>4. ASSUME NEW g \in Group, NEW n \in 1..high'[g] PROVE Used(g, n)
  <2>1. \/ high'[g] = high[g]
        \/ g = CurGroup(t) /\ high'[g] = loc[t].curHigh + 1
    BY <1>1 DEF UpdateHighValue, SetHigh
  <2>2. CASE high'[g] = high[g]
    BY <1>4, <2>2 DEF DenseInv, NumbersDense
  <2>3. CASE g = CurGroup(t) /\ high'[g] = loc[t].curHigh + 1
    <3>1. n \in 1..loc[t].curHigh \/ n = loc[t].curHigh + 1
      BY <1>1, <1>4, <2>3
    <3> QED BY <1>0, <2>3, <3>1 DEF DenseInv
  <2> QED BY <2>1, <2>2, <2>3
<1>5. NumbersDense'
  BY <1>0, <1>4 DEF NumbersDense, Used
<1>6. \A u \in Thread \ {t} : CurGroup(u)' = CurGroup(u)
  BY <1>3 DEF CurGroup
<1>7. ASSUME NEW u \in Thread
      PROVE  (/\ pc[u] \in {"ins_ngposts", "upd_high"} =>
                   \A n \in 1..loc[u].curHigh : Used(CurGroup(u), n)
              /\ pc[u] = "upd_high" => Used(CurGroup(u), loc[u].curHigh + 1))'
  <2>1. CASE u = t
    BY <1>3, <2>1
  <2>2. CASE u # t
    BY <1>0, <1>3, <1>6, <2>2 DEF DenseInv, Used
  <2> QED BY <2>1, <2>2
<1> QED BY <1>5, <1>7 DEF DenseInv

\* DenseInv is preserved by every step when the tool deletes nothing.
LEMMA DenseNext ==
  ASSUME ~UseTool, TypeOK, RefInv, adm.pc = "idle", DenseInv, [Next]_vars
  PROVE  DenseInv'
<1> USE DEF dbVars, groupVars, Goto
<1>pc. /\ LoopTop \notin InsertPc /\ "idle" \notin InsertPc
       /\ Numbering \notin InsertPc /\ Saving \notin InsertPc
       /\ {"chk_exists", "chk_allowed", "uniq_create", "uniq_write", "write",
           "ins_postings", "get_high"} \cap InsertPc = {}
  BY DEF LoopTop, InsertPc, Numbering, Saving
<1>1. ASSUME NEW t \in Thread, Post(t) PROVE DenseInv'
  BY <1>1, <1>pc, DenseStep DEF Post
<1>lv. ASSUME NEW t \in Thread, Leave(t), ngposts' = ngposts, high' = high
       PROVE  DenseInv'
  BY <1>lv, <1>pc, DenseStep DEF Leave
<1>2. ASSUME NEW t \in Thread,
             \/ ChkExistence(t) \/ ChkPostingAllowed(t)
             \/ UniqOpen(t) \/ UniqCreate(t) \/ UniqWrite(t) \/ NextVal(t)
             \/ SaveBodyUnlink(t) \/ SaveBodyWrite(t) \/ StoreMessageBody(t)
             \/ InsertIntoPostings(t) \/ AclCheck(t)
      PROVE  DenseInv'
  <2>1. ngposts' = ngposts /\ high' = high
    BY <1>2 DEF ChkExistence, ChkPostingAllowed, UniqOpen, UniqCreate, UniqWrite,
         NextVal, SaveBodyUnlink, SaveBodyWrite, StoreMessageBody, InsertIntoPostings,
         AclCheck
  <2>2. \/ Leave(t) \/ ServerEnds
        \/ /\ \E w \in {"chk_allowed", "chk_exists", Numbering, "uniq_create",
                        "uniq_write", Saving, "write", "ins_postings", LoopTop,
                        "get_high"} :
                 pc' = [pc EXCEPT ![t] = w]
           /\ loc' = loc \/ \E l : loc' = [loc EXCEPT ![t] = l]
    <3>1. CASE AclCheck(t)
      BY <3>1 DEF AclCheck, NextGroup
    <3>2. CASE ChkExistence(t) \/ ChkPostingAllowed(t) \/ UniqOpen(t) \/ UniqCreate(t)
      BY <3>2 DEF ChkExistence, ChkPostingAllowed, UniqOpen, UniqCreate
    <3>3. CASE UniqWrite(t) \/ NextVal(t)
      BY <3>3 DEF UniqWrite, NextVal
    <3>4. CASE \/ SaveBodyUnlink(t) \/ SaveBodyWrite(t) \/ StoreMessageBody(t)
               \/ InsertIntoPostings(t)
      BY <3>4 DEF SaveBodyUnlink, SaveBodyWrite, StoreMessageBody, InsertIntoPostings
    <3> QED BY <1>2, <3>1, <3>2, <3>3, <3>4
  <2> QED BY <1>lv, <1>pc, <2>1, <2>2, DenseStep, DenseEnds
<1>3. ASSUME NEW t \in Thread,
             GetHighValue(t) \/ InsertIntoNgposts(t) \/ UpdateHighValue(t)
      PROVE  DenseInv'
  BY <1>3, DenseRead, DenseInsert, DenseUpdate
<1>4. ASSUME NEW t \in Thread, StatementFails(t) PROVE DenseInv'
  BY <1>4, <1>lv DEF StatementFails
<1>5. CASE Crash
  BY <1>5, DenseEnds DEF Crash
<1>6. ASSUME NEW g \in Group
      PROVE  /\ ~CreateNewsgroup(g) /\ ~ModifyNewsgroup(g) /\ ~DeleteNewsgroup(g)
             /\ \A t \in Thread : ~ChangeAcl(t, g)
  BY DEF CreateNewsgroup, ModifyNewsgroup, DeleteNewsgroup, ChangeAcl, AdminBegins
<1>7. ~AdminStep /\ ~AdminFails
  BY DEF AdminStep, AdminFails, DelNgposts, DelAcl, DelNewsgroupRow, DelOrphanPostings
<1>8. CASE UNCHANGED vars
  BY <1>8, DenseQuiet DEF vars
<1> QED BY <1>1, <1>2, <1>3, <1>4, <1>5, <1>6, <1>7, <1>8 DEF Next, PostStep

\* The numbers of a group have no holes, for any number of threads, lines and
\* faults: the races of docmd_post() on the high value can give a number twice
\* and take the high value back, but they never leave a number out.
THEOREM NumbersWithoutHoles ==
  ASSUME ~UseTool
  PROVE  Spec => []NumbersDense
<1> DEFINE Inv == TypeOK /\ RefInv /\ AckInv /\ DenseInv
<1>1. Init => Inv
  <2>1. Init => DenseInv
    <3> SUFFICES ASSUME Init PROVE DenseInv
      OBVIOUS
    <3>1. NumbersDense
      BY DEF Init, NumbersDense
    <3>2. \A t \in Thread : pc[t] = "idle"
      BY DEF Init
    <3> QED BY <3>1, <3>2 DEF DenseInv
  <2> QED BY <2>1, InitType, RefInit, AckInit
<1>2. Inv /\ [Next]_vars => Inv'
  <2>1. AckInv => adm.pc = "idle"
    BY DEF AckInv
  <2> QED BY <2>1, NextType, RefNext, AckNext, DenseNext DEF Quiesced
<1>3. Inv => NumbersDense
  BY DEF DenseInv
<1> QED BY <1>1, <1>2, <1>3, PTL DEF Spec

-----------------------------------------------------------------------------
(* What the charstack sees. *)

\* A step of thread t that takes no article away and changes no grant keeps
\* KeyInv if it inserts entries only for the article of t and keeps what KeyInv
\* says of t: the primary key of postings makes every Message-ID the one of a
\* single thread.
LEMMA KeyStep ==
  ASSUME TypeOK, KeyInv, NEW t \in Thread, acl' = acl, postings \subseteq postings',
         \A r \in ngposts' : \/ r \in ngposts
                             \/ pc[t] \in LoopPc /\ r.msgid = CurMsgId(t),
         \A u \in Thread \ {t} :
             pc'[u] = pc[u] /\ loc'[u] = loc[u] /\ posts'[u] = posts[u],
         pc'[t] \in LoopPc => Turn(t)',
         pc'[t] \notin LoopPc => Fresh(pc'[t], loc'[t]),
         \A p, q \in postings' : p.msgid = q.msgid => p = q
  PROVE  KeyInv'
<1>1. ASSUME NEW u \in Thread \ {t}, pc[u] \in LoopPc PROVE Turn(u)'
  <2>1. pc'[u] = pc[u] /\ loc'[u] = loc[u] /\ posts'[u] = posts[u]
    OBVIOUS
  <2>2. /\ CurMsgId(u)' = CurMsgId(u) /\ CurArt(u)' = CurArt(u)
        /\ CurGroup(u)' = CurGroup(u)
    BY <2>1 DEF CurMsgId, CurArt, CurGroup
  <2>3. \A g : Granted(u, g)' <=> Granted(u, g)
    BY DEF Granted
  <2>4. ASSUME pc[t] \in LoopPc, CurMsgId(t) = CurMsgId(u) PROVE FALSE
    <3>1. /\ [msgid |-> CurMsgId(t), art |-> CurArt(t)] \in postings
          /\ [msgid |-> CurMsgId(u), art |-> CurArt(u)] \in postings
      BY <1>1, <2>4 DEF KeyInv, Turn
    <3>2. CurArt(t) = CurArt(u)
      BY <2>4, <3>1 DEF KeyInv
    <3> QED BY <3>2 DEF CurArt
  <2>5. \A r \in ngposts' : r.msgid = CurMsgId(u) => r \in ngposts
    BY <2>4
  <2>6. Turn(u)
    BY <1>1 DEF KeyInv
  <2> QED BY <2>1, <2>2, <2>3, <2>5, <2>6 DEF Turn
<1>2. \A u \in Thread : pc'[u] \in LoopPc => Turn(u)'
  BY <1>1
<1>3. \A u \in Thread : pc'[u] \notin LoopPc => Fresh(pc'[u], loc'[u])
  BY DEF KeyInv
<1> QED BY <1>2, <1>3 DEF KeyInv

\* The same for a step that touches no table.
LEMMA KeyLocal ==
  ASSUME TypeOK, KeyInv, NEW t \in Thread,
         acl' = acl, postings' = postings, ngposts' = ngposts,
         \A u \in Thread \ {t} :
             pc'[u] = pc[u] /\ loc'[u] = loc[u] /\ posts'[u] = posts[u],
         pc'[t] \in LoopPc => Turn(t)',
         pc'[t] \notin LoopPc => Fresh(pc'[t], loc'[t])
  PROVE  KeyInv'
<1>1. \A p, q \in postings' : p.msgid = q.msgid => p = q
  BY DEF KeyInv
<1> QED BY <1>1, KeyStep

\* The handler returns.
LEMMA KeyLeave ==
  ASSUME TypeOK, KeyInv, NEW t \in Thread, Leave(t),
         acl' = acl, postings' = postings, ngposts' = ngposts, posts' = posts
  PROVE  KeyInv'
<1>1. /\ pc'[t] \notin LoopPc /\ Fresh(pc'[t], loc'[t])
      /\ \A u \in Thread \ {t} :
            pc'[u] = pc[u] /\ loc'[u] = loc[u] /\ posts'[u] = posts[u]
  BY DEF Leave, Goto, TypeOK, LoopPc, NoPost, Fresh, FilePc
<1> QED BY <1>1, KeyLocal

\* The next turn of the loop, when the stack tells of the turn just ended what
\* it is to tell.
LEMMA KeyNextGroup ==
  ASSUME TypeOK, KeyInv, NEW t \in Thread, pc[t] \in LoopPc,
         acl' = acl, postings' = postings, ngposts' = ngposts, posts' = posts,
         NEW l \in Local, l.ngs = loc[t].ngs, l.k = loc[t].k,
         l.num = loc[t].num, NextGroup(t, l),
         Granted(t, l.ngs[1]) => l.stack # EmptyStack /\ l.stack[1] = l.ngs[1],
         \A i \in 1..l.k :
             Granted(t, l.ngs[i]) /\ (\A j \in i..l.k : l.ngs[j] \in {l.ngs[1], l.ngs[i]})
                => CheckFor(l.stack, l.ngs[i])
  PROVE  KeyInv'
<1>1. CASE /\ Goto(t, LoopTop)
           /\ loc' = [loc EXCEPT ![t] = [l EXCEPT !.k = l.k + 1]]
  <2> DEFINE m == [l EXCEPT !.k = l.k + 1]
  <2>1. /\ m.ngs = l.ngs /\ m.k = l.k + 1 /\ m.num = l.num /\ m.stack = l.stack
    BY DEF Local
  <2>2. pc'[t] = LoopTop /\ loc'[t] = m
    BY <1>1 DEF Goto, TypeOK
  <2> HIDE DEF m
  <2>3. \A u \in Thread \ {t} :
            pc'[u] = pc[u] /\ loc'[u] = loc[u] /\ posts'[u] = posts[u]
    BY <1>1 DEF Goto, TypeOK
  <2>4. /\ LoopTop \in LoopPc /\ LoopTop \notin {"ins_ngposts", "upd_high"}
        /\ IF LoopTop = "acl" THEN UseAcl ELSE ~UseAcl
    BY DEF LoopTop, LoopPc
  <2>5. CurMsgId(t)' = CurMsgId(t) /\ CurArt(t)' = CurArt(t)
    BY <2>1, <2>2 DEF CurMsgId, CurArt
  <2>6. l.k \in 1..Len(l.ngs) /\ l.k \in Nat /\ m.k - 1 = l.k /\ m.k # 1
    BY <2>1, CurGroupType DEF LoopPc
  <2>7. \A g : Granted(t, g)' <=> Granted(t, g)
    BY DEF Granted
  <2>8. Turn(t)
    BY DEF KeyInv
  <2>9. ASSUME NEW r \in ngposts, r.msgid = CurMsgId(t)
        PROVE  \E i \in 1..m.k : m.ngs[i] = r.ng /\ i < m.k
    <3>1. PICK i \in 1..l.k : l.ngs[i] = r.ng
      BY <2>8, <2>9 DEF Turn
    <3>2. i \in 1..m.k /\ i < m.k
      BY <2>1, <2>6
    <3> QED BY <2>1, <3>1, <3>2
  <2>10. Turn(t)'
    <3>1. ([msgid |-> CurMsgId(t), art |-> CurArt(t)] \in postings)'
      BY <2>5, <2>8 DEF Turn
    <3>2. IF pc'[t] = "acl" THEN UseAcl ELSE Granted(t, CurGroup(t))'
      BY <2>2, <2>4 DEF Granted
    <3>3. \A i \in 1..(m.k - 1) :
              Granted(t, m.ngs[i])' /\ (\A j \in i..(m.k - 1) : m.ngs[j] \in {m.ngs[1], m.ngs[i]})
                 => CheckFor(m.stack, m.ngs[i])
      BY <2>1, <2>6, <2>7
    <3>4. Granted(t, m.ngs[1])' => m.stack # EmptyStack /\ m.stack[1] = m.ngs[1]
      BY <2>1, <2>7
    <3> QED BY <2>2, <2>4, <2>5, <2>6, <2>9, <3>1, <3>2, <3>3, <3>4 DEF Turn
  <2> QED BY <2>2, <2>3, <2>4, <2>10, KeyLocal
<1>2. CASE Leave(t)
  BY <1>2, KeyLeave
<1> QED BY <1>1, <1>2 DEF NextGroup

\* After a turn that leaves the stack alone, because the group was refused or
\* is on the stack already.
LEMMA KeySkip ==
  ASSUME TypeOK, KeyInv, NEW t \in Thread, pc[t] \in LoopPc,
         ~Granted(t, CurGroup(t)) \/ CheckFor(loc[t].stack, CurGroup(t)),
         acl' = acl, postings' = postings, ngposts' = ngposts, posts' = posts,
         NEW l \in Local, l.ngs = loc[t].ngs, l.k = loc[t].k,
         l.num = loc[t].num, l.stack = loc[t].stack, NextGroup(t, l)
  PROVE  KeyInv'
<1>1. Turn(t) /\ l.k \in Nat \ {0} /\ CurGroup(t) = l.ngs[l.k]
  BY CurGroupType DEF KeyInv, LoopPc, CurGroup
<1>2. ASSUME Granted(t, l.ngs[1])
      PROVE  l.stack # EmptyStack /\ l.stack[1] = l.ngs[1]
  <2>1. CASE l.k = 1
    BY <1>1, <1>2, <2>1 DEF Turn, CheckFor, EmptyStack
  <2>2. CASE l.k # 1
    <3>1. l.k > 1
      BY <1>1, <2>2
    <3> QED BY <1>1, <1>2, <3>1 DEF Turn
  <2> QED BY <2>1, <2>2
<1>3. ASSUME NEW i \in 1..l.k, Granted(t, l.ngs[i]),
             \A j \in i..l.k : l.ngs[j] \in {l.ngs[1], l.ngs[i]}
      PROVE  CheckFor(l.stack, l.ngs[i])
  <2>1. CASE i = l.k
    BY <1>1, <1>3, <2>1
  <2>2. CASE i # l.k
    <3>1. i \in 1..(l.k - 1) /\ \A j \in i..(l.k - 1) : j \in i..l.k
      BY <1>1, <2>2
    <3> QED BY <1>1, <1>3, <3>1 DEF Turn
  <2> QED BY <2>1, <2>2
<1> QED BY <1>2, <1>3, KeyNextGroup

\* After a turn that pushed its group on the stack.
LEMMA KeyPush ==
  ASSUME TypeOK, KeyInv, NEW t \in Thread, pc[t] = "upd_high",
         acl' = acl, postings' = postings, ngposts' = ngposts, posts' = posts,
         NEW l \in Local, l.ngs = loc[t].ngs, l.k = loc[t].k, l.num = loc[t].num,
         l.stack = PushOn(loc[t].stack, CurGroup(t)), NextGroup(t, l)
  PROVE  KeyInv'
<1> DEFINE s == loc[t].stack
           g == l.ngs[l.k]
<1>0. pc[t] \in LoopPc /\ Turn(t) /\ l.k \in Nat \ {0} /\ CurGroup(t) = g
  BY CurGroupType DEF KeyInv, LoopPc, CurGroup
<1>1. /\ Granted(t, g) /\ ~CheckFor(s, g)
      /\ l.k = 1 => s = EmptyStack
      /\ l.k # 1 /\ Granted(t, l.ngs[1]) => s # EmptyStack /\ s[1] = l.ngs[1]
  <2>1. l.k # 1 => l.k > 1
    BY <1>0
  <2> QED BY <1>0, <2>1 DEF Turn
<1>2. s \in Seq(Group)
  BY DEF TypeOK, Local
<1>3. CheckFor(l.stack, g)
  BY <1>0 DEF CheckFor, PushOn
<1>4. s # EmptyStack => l.stack # EmptyStack /\ l.stack[1] = s[1] /\ CheckFor(s, s[1])
  BY <1>2 DEF CheckFor, PushOn, EmptyStack
<1>5. ASSUME Granted(t, l.ngs[1])
      PROVE  l.stack # EmptyStack /\ l.stack[1] = l.ngs[1]
  <2>1. CASE l.k = 1
    BY <1>0, <1>1, <2>1 DEF PushOn, EmptyStack
  <2> QED BY <1>1, <1>4, <1>5, <2>1
<1>6. ASSUME NEW i \in 1..l.k, Granted(t, l.ngs[i]),
             \A j \in i..l.k : l.ngs[j] \in {l.ngs[1], l.ngs[i]}
      PROVE  CheckFor(l.stack, l.ngs[i])
  <2>1. g = l.ngs[1] \/ g = l.ngs[i]
    BY <1>0, <1>6
  <2>2. CASE g = l.ngs[i]
    BY <1>3, <2>2
  <2>3. CASE g = l.ngs[1] /\ l.k # 1
    BY <1>1, <1>4, <2>3
  <2>4. CASE l.k = 1
    BY <1>3, <1>6, <2>4
  <2> QED BY <2>1, <2>2, <2>3, <2>4
<1> QED BY <1>0, <1>5, <1>6, KeyNextGroup

\* KeyInv is preserved by every step when the tool does not run beside POST.
LEMMA KeyNext ==
  ASSUME Quiesced, TypeOK, RefInv, KeyInv, [Next]_vars
  PROVE  KeyInv'
<1> USE DEF dbVars, groupVars
<1>ty. /\ \A t \in Thread : loc[t] \in Local
       /\ pc \in [Thread -> Pc] /\ loc \in [Thread -> Local]
       /\ posts \in [Thread -> Nat]
  BY DEF TypeOK
<1>pc. /\ {"idle", "chk_exists", "chk_allowed", "uniq_open", "uniq_create",
           "uniq_write", "nextval", "unlink", "write", "store_body",
           "ins_postings"} \cap LoopPc = {}
       /\ {"acl", "get_high", "ins_ngposts", "upd_high"} \subseteq LoopPc
  BY DEF LoopPc
<1>en. ASSUME \A t \in Thread : pc'[t] = "idle" /\ loc'[t].stack = EmptyStack,
              \A p, q \in postings' : p.msgid = q.msgid => p = q
       PROVE  KeyInv'
  <2>1. \A t \in Thread : pc'[t] \notin LoopPc /\ Fresh(pc'[t], loc'[t])
    BY <1>en, <1>pc DEF Fresh, FilePc
  <2> QED BY <1>en, <2>1 DEF KeyInv
<1>se. ASSUME ServerEnds, postings' = postings PROVE KeyInv'
  BY <1>se, <1>en DEF ServerEnds, NoPost, KeyInv
<1>qu. ASSUME \A t \in Thread : pc[t] = "idle", pc' = pc, loc' = loc,
              postings' \subseteq postings
       PROVE  KeyInv'
  <2>1. \A t \in Thread : loc[t].stack = EmptyStack
    BY <1>qu, <1>pc DEF KeyInv, Fresh
  <2> QED BY <1>qu, <1>en, <2>1 DEF KeyInv
<1>1. ASSUME NEW t \in Thread, Post(t) PROVE KeyInv'
  <2>1. PICK line \in Lines :
            loc' = [loc EXCEPT ![t] = [NoPost EXCEPT !.ngs = line, !.k = 1]]
    BY <1>1 DEF Post
  <2>2. /\ Fresh(pc'[t], loc'[t]) /\ pc'[t] \notin LoopPc
        /\ \A u \in Thread \ {t} :
              pc'[u] = pc[u] /\ loc'[u] = loc[u] /\ posts'[u] = posts[u]
    BY <1>1, <1>ty, <1>pc, <2>1 DEF Post, Goto, NoPost, Fresh
  <2> QED BY <1>1, <2>2, KeyLocal DEF Post
<1>2. ASSUME NEW t \in Thread,
             \/ ChkExistence(t) \/ ChkPostingAllowed(t)
             \/ UniqOpen(t) \/ UniqCreate(t) \/ UniqWrite(t) \/ NextVal(t)
             \/ SaveBodyUnlink(t) \/ SaveBodyWrite(t) \/ StoreMessageBody(t)
      PROVE  KeyInv'
  <2>1. /\ acl' = acl /\ postings' = postings /\ ngposts' = ngposts /\ posts' = posts
        /\ pc[t] \notin LoopPc
    BY <1>2, <1>pc DEF ChkExistence, ChkPostingAllowed, UniqOpen, UniqCreate, UniqWrite,
       NextVal, SaveBodyUnlink, SaveBodyWrite, StoreMessageBody
  <2>2. Fresh(pc[t], loc[t])
    BY <2>1 DEF KeyInv
  <2>3. ASSUME NEW l, NEW w, Fresh(w, l), w \notin LoopPc,
               pc' = [pc EXCEPT ![t] = w], loc' = [loc EXCEPT ![t] = l]
        PROVE  KeyInv'
    <3>1. /\ pc'[t] \notin LoopPc /\ Fresh(pc'[t], loc'[t])
          /\ \A u \in Thread \ {t} :
                pc'[u] = pc[u] /\ loc'[u] = loc[u] /\ posts'[u] = posts[u]
      BY <1>ty, <2>1, <2>3
    <3> QED BY <2>1, <3>1, KeyLocal
  <2> QED BY <1>2, <1>se, <2>1, <2>2, <2>3, FreshStep DEF StaysFresh
<1>3. ASSUME NEW t \in Thread, InsertIntoPostings(t) PROVE KeyInv'
  <2>1. /\ acl' = acl /\ ngposts' = ngposts /\ posts' = posts
        /\ pc[t] = "ins_postings" /\ pc[t] \notin LoopPc
    BY <1>3, <1>pc DEF InsertIntoPostings
  <2>2. CASE Leave(t) /\ UNCHANGED postings
    BY <2>1, <2>2, KeyLeave
  <2>3. CASE /\ ~HasKey(postings, CurMsgId(t))
             /\ postings' = postings \cup
                               {[msgid |-> CurMsgId(t), art |-> CurArt(t)]}
             /\ Goto(t, LoopTop)
             /\ UNCHANGED loc
    <3> DEFINE own == [msgid |-> CurMsgId(t), art |-> CurArt(t)]
    <3>1. own.msgid = CurMsgId(t) /\ postings' = postings \cup {own}
      BY <2>3
    <3>2. own = [msgid |-> CurMsgId(t), art |-> CurArt(t)]
      OBVIOUS
    <3> HIDE DEF own
    <3>3. \A p \in postings : p.msgid # own.msgid
      BY <2>3, <3>1 DEF HasKey
    <3>4. \A p, q \in postings' : p.msgid = q.msgid => p = q
      BY <3>1, <3>3 DEF KeyInv
    <3>5. \A r \in ngposts : r.msgid # CurMsgId(t)
      BY <2>3 DEF RefInv, RefIntegrity
    <3>6. /\ pc'[t] = LoopTop /\ loc'[t] = loc[t]
          /\ \A u \in Thread \ {t} :
                pc'[u] = pc[u] /\ loc'[u] = loc[u] /\ posts'[u] = posts[u]
      BY <1>ty, <2>1, <2>3 DEF Goto
    <3>7. CurMsgId(t)' = CurMsgId(t) /\ CurArt(t)' = CurArt(t)
      BY <2>1, <3>6 DEF CurMsgId, CurArt
    <3>8. loc[t].stack = EmptyStack /\ loc[t].k = 1 /\ 1..(loc[t].k - 1) = {}
      BY <2>1 DEF KeyInv, Fresh
    <3>9. /\ LoopTop \in LoopPc /\ LoopTop \notin {"ins_ngposts", "upd_high"}
          /\ IF LoopTop = "acl" THEN UseAcl ELSE ~UseAcl
      BY DEF LoopTop, LoopPc
    <3>10. Turn(t)'
      BY <2>1, <3>1, <3>2, <3>5, <3>6, <3>7, <3>8, <3>9 DEF Turn, Granted
    <3> QED BY <2>1, <3>1, <3>4, <3>6, <3>9, <3>10, KeyStep
  <2> QED BY <1>3, <2>2, <2>3 DEF InsertIntoPostings
<1>lp. ASSUME NEW t \in Thread, pc[t] \in LoopPc, NEW w \in LoopPc \ {"acl"}, NEW l \in Local,
              pc' = [pc EXCEPT ![t] = w], loc' = [loc EXCEPT ![t] = l],
              acl' = acl, postings' = postings, posts' = posts,
              l.ngs = loc[t].ngs, l.k = loc[t].k, l.num = loc[t].num,
              l.stack = loc[t].stack,
              \A r \in ngposts' : \/ r \in ngposts
                                  \/ r.msgid = CurMsgId(t) /\ r.ng = CurGroup(t)
                                     /\ w = "upd_high",
              pc[t] # "upd_high",
              Granted(t, CurGroup(t)),
              w \in {"ins_ngposts", "upd_high"} => ~CheckFor(loc[t].stack, CurGroup(t))
       PROVE  KeyInv'
  <2>1. /\ pc'[t] = w /\ loc'[t] = l
        /\ \A u \in Thread \ {t} :
              pc'[u] = pc[u] /\ loc'[u] = loc[u] /\ posts'[u] = posts[u]
    BY <1>lp, <1>ty
  <2>2. /\ CurMsgId(t)' = CurMsgId(t) /\ CurArt(t)' = CurArt(t)
        /\ CurGroup(t)' = CurGroup(t) /\ CurGroup(t) = l.ngs[l.k]
    BY <1>lp, <2>1 DEF CurMsgId, CurArt, CurGroup
  <2>3. \A g : Granted(t, g)' <=> Granted(t, g)
    BY <1>lp DEF Granted
  <2>4. Turn(t) /\ l.k \in 1..l.k
    BY <1>lp, CurGroupType DEF KeyInv, LoopPc
  <2>5. ASSUME NEW r \in ngposts', r.msgid = CurMsgId(t)
        PROVE  \E i \in 1..l.k : l.ngs[i] = r.ng /\ (i < l.k \/ w = "upd_high")
    <3>1. CASE r \in ngposts
      BY <1>lp, <2>4, <2>5, <3>1 DEF Turn
    <3>2. CASE r \notin ngposts
      BY <1>lp, <2>2, <2>4, <2>5, <3>2
    <3> QED BY <3>1, <3>2
  <2>6. Turn(t)'
    BY <1>lp, <2>1, <2>2, <2>3, <2>4, <2>5 DEF Turn
  <2>7. \A p, q \in postings' : p.msgid = q.msgid => p = q
    BY <1>lp DEF KeyInv
  <2> QED BY <1>lp, <2>1, <2>6, <2>7, KeyStep
<1>4. ASSUME NEW t \in Thread, AclCheck(t) PROVE KeyInv'
  <2>1. /\ acl' = acl /\ postings' = postings /\ ngposts' = ngposts /\ posts' = posts
        /\ pc[t] = "acl" /\ pc[t] \in LoopPc /\ loc[t] \in Local
    BY <1>4, <1>pc, <1>ty DEF AclCheck
  <2>2. CASE <<t, CurGroup(t)>> \in acl /\ Goto(t, "get_high") /\ UNCHANGED loc
    <3>1. /\ pc' = [pc EXCEPT ![t] = "get_high"] /\ loc' = [loc EXCEPT ![t] = loc[t]]
          /\ Granted(t, CurGroup(t)) /\ "get_high" \in LoopPc
      BY <1>ty, <1>pc, <2>2 DEF Goto, Granted
    <3> QED BY <2>1, <3>1, <1>lp
  <2>3. CASE ServerEnds
    BY <1>se, <2>1, <2>3
  <2>4. CASE /\ <<t, CurGroup(t)>> \notin acl
             /\ NextGroup(t, [loc[t] EXCEPT
                                !.skipped = loc[t].skipped \cup {CurGroup(t)}])
    <3> DEFINE l == [loc[t] EXCEPT !.skipped = loc[t].skipped \cup {CurGroup(t)}]
    <3>0. UseAcl
      BY <2>1 DEF KeyInv, Turn
    <3>1. /\ l \in Local /\ l.ngs = loc[t].ngs /\ l.k = loc[t].k
          /\ l.num = loc[t].num /\ l.stack = loc[t].stack
      BY <2>1, CurGroupType DEF Local
    <3>2. NextGroup(t, l) /\ ~Granted(t, CurGroup(t))
      BY <2>4, <3>0 DEF Granted
    <3> HIDE DEF l
    <3> QED BY <2>1, <3>1, <3>2, KeySkip
  <2> QED BY <1>4, <2>2, <2>3, <2>4 DEF AclCheck
<1>5. ASSUME NEW t \in Thread, GetHighValue(t) PROVE KeyInv'
  <2>1. /\ acl' = acl /\ postings' = postings /\ ngposts' = ngposts /\ posts' = posts
        /\ pc[t] = "get_high" /\ pc[t] \in LoopPc /\ loc[t] \in Local
    BY <1>5, <1>pc, <1>ty DEF GetHighValue
  <2>2. PICK h \in High :
           \/ Leave(t)
           \/ /\ ~CheckFor(loc[t].stack, CurGroup(t))
              /\ loc' = [loc EXCEPT ![t] = [loc[t] EXCEPT !.curHigh = h]]
              /\ Goto(t, "ins_ngposts")
           \/ CheckFor(loc[t].stack, CurGroup(t)) /\ NextGroup(t, loc[t])
    BY <1>5 DEF GetHighValue
  <2>3. CASE Leave(t)
    BY <2>1, <2>3, KeyLeave
  <2>4. CASE /\ ~CheckFor(loc[t].stack, CurGroup(t))
             /\ loc' = [loc EXCEPT ![t] = [loc[t] EXCEPT !.curHigh = h]]
             /\ Goto(t, "ins_ngposts")
    <3> DEFINE l == [loc[t] EXCEPT !.curHigh = h]
    <3>1. /\ l \in Local /\ l.ngs = loc[t].ngs /\ l.k = loc[t].k
          /\ l.num = loc[t].num /\ l.stack = loc[t].stack
      BY <2>1 DEF Local
    <3>2. /\ pc' = [pc EXCEPT ![t] = "ins_ngposts"] /\ loc' = [loc EXCEPT ![t] = l]
          /\ "ins_ngposts" \in LoopPc \ {"acl"}
      BY <1>pc, <2>4 DEF Goto
    <3> HIDE DEF l
    <3>3. Granted(t, CurGroup(t))
      BY <2>1 DEF KeyInv, Turn
    <3> QED BY <2>1, <2>4, <3>1, <3>2, <3>3, <1>lp
  <2>5. CASE CheckFor(loc[t].stack, CurGroup(t)) /\ NextGroup(t, loc[t])
    BY <2>1, <2>5, KeySkip
  <2> QED BY <2>2, <2>3, <2>4, <2>5
<1>6. ASSUME NEW t \in Thread, InsertIntoNgposts(t) PROVE KeyInv'
  <2>1. /\ acl' = acl /\ postings' = postings /\ posts' = posts
        /\ pc[t] = "ins_ngposts" /\ pc[t] \in LoopPc /\ loc[t] \in Local
    BY <1>6, <1>pc, <1>ty DEF InsertIntoNgposts
  <2>2. CASE Leave(t) /\ UNCHANGED ngposts
    BY <2>1, <2>2, KeyLeave
  <2>3. CASE /\ ngposts' = ngposts \cup {[msgid |-> CurMsgId(t), ng |-> CurGroup(t),
                                          num |-> loc[t].curHigh + 1]}
             /\ Goto(t, "upd_high")
             /\ UNCHANGED loc
    <3>1. \A r \in ngposts' : \/ r \in ngposts
                              \/ r.msgid = CurMsgId(t) /\ r.ng = CurGroup(t)
      BY <2>3
    <3>2. /\ pc' = [pc EXCEPT ![t] = "upd_high"] /\ loc' = [loc EXCEPT ![t] = loc[t]]
          /\ "upd_high" \in LoopPc \ {"acl"}
      BY <1>pc, <1>ty, <2>3 DEF Goto
    <3>3. Granted(t, CurGroup(t)) /\ ~CheckFor(loc[t].stack, CurGroup(t))
      BY <2>1 DEF KeyInv, Turn, CurGroup
    <3> QED BY <2>1, <3>1, <3>2, <3>3, <1>lp
  <2> QED BY <1>6, <2>2, <2>3 DEF InsertIntoNgposts
<1>7. ASSUME NEW t \in Thread, UpdateHighValue(t) PROVE KeyInv'
  <2> DEFINE l == [loc[t] EXCEPT !.stack = PushOn(loc[t].stack, CurGroup(t))]
  <2>1. /\ acl' = acl /\ postings' = postings /\ ngposts' = ngposts /\ posts' = posts
        /\ pc[t] = "upd_high" /\ loc[t] \in Local /\ NextGroup(t, l)
    BY <1>7, <1>ty DEF UpdateHighValue, SetHigh
  <2>2. PushOn(loc[t].stack, CurGroup(t)) \in Seq(Group)
    BY <2>1, CurGroupType, PushOnType DEF Local
  <2>3. /\ l \in Local /\ l.ngs = loc[t].ngs /\ l.k = loc[t].k
        /\ l.num = loc[t].num /\ l.stack = PushOn(loc[t].stack, CurGroup(t))
    BY <2>1, <2>2 DEF Local
  <2> HIDE DEF l
  <2> QED BY <2>1, <2>3, KeyPush
<1>8. ASSUME NEW t \in Thread, StatementFails(t) PROVE KeyInv'
  BY <1>8, KeyLeave DEF StatementFails
<1>9. CASE Crash
  BY <1>9, <1>se DEF Crash
<1>10. ASSUME AdminBegins, UNCHANGED <<pc, loc, postings>> PROVE KeyInv'
  BY <1>10, <1>qu DEF AdminBegins
<1>11. ASSUME NEW g \in Group,
              \/ CreateNewsgroup(g) \/ ModifyNewsgroup(g) \/ DeleteNewsgroup(g)
              \/ \E t \in Thread : ChangeAcl(t, g)
       PROVE  KeyInv'
  BY <1>10, <1>11 DEF CreateNewsgroup, ModifyNewsgroup, DeleteNewsgroup, ChangeAcl,
                      postVars
<1>12. CASE AdminStep \/ AdminFails
  <2>1. \A u \in Thread : pc[u] = "idle"
    BY <1>12 DEF AdminStep, AdminFails, DelNgposts, DelAcl, DelNewsgroupRow,
                 DelOrphanPostings, RefInv
  <2> QED BY <1>12, <1>qu, <2>1
          DEF AdminStep, AdminFails, DelNgposts, DelAcl, DelNewsgroupRow,
              DelOrphanPostings, postVars
<1>13. CASE UNCHANGED vars
  <2>1. /\ acl' = acl /\ postings' = postings /\ pc' = pc
        /\ ngposts' = ngposts /\ loc' = loc /\ posts' = posts
    BY <1>13 DEF vars
  <2>2. ASSUME NEW t \in Thread, Turn(t) PROVE Turn(t)'
    BY <2>1, <2>2 DEF Turn, Granted, CurMsgId, CurArt, CurGroup
  <2> QED BY <2>1, <2>2 DEF KeyInv
<1> QED BY <1>1, <1>2, <1>3, <1>4, <1>5, <1>6, <1>7, <1>8, <1>9, <1>11, <1>12, <1>13
        DEF Next, PostStep

\* A thread at the INSERT into ngposts, on a line charstack.c sees through,
\* meets no row for its article and group.
LEMMA KeyFree ==
  ASSUME TypeOK, KeyInv, NEW t \in Thread, pc[t] = "ins_ngposts",
         SeenThrough(loc[t].ngs), Posted(CurMsgId(t), CurGroup(t))
  PROVE  FALSE
<1> DEFINE line == loc[t].ngs
           k == loc[t].k
<1>1. Turn(t) /\ k \in 1..Len(line) /\ line \in Seq(Group) /\ CurGroup(t) = line[k]
  BY CurGroupType DEF KeyInv, LoopPc, CurGroup
<1>2. Granted(t, line[k]) /\ ~CheckFor(loc[t].stack, line[k])
  BY <1>1 DEF Turn
<1>3. PICK i \in 1..k : line[i] = line[k] /\ i < k
  BY <1>1 DEF Posted, Turn
<1>4. i \in DOMAIN line /\ k \in DOMAIN line /\ k > 1 /\ i \in 1..(k - 1)
  BY <1>1, <1>3
<1>5. CASE line[k] = line[1]
  <2>1. loc[t].stack # EmptyStack /\ loc[t].stack[1] = line[k]
    BY <1>1, <1>2, <1>4, <1>5 DEF Turn
  <2>2. loc[t].stack \in Seq(Group)
    BY DEF TypeOK, Local
  <2> QED BY <1>2, <2>1, <2>2 DEF CheckFor, EmptyStack
<1>6. CASE \A j \in i..k : line[j] \in {line[1], line[k]}
  <2>1. \A j \in i..(k - 1) : line[j] \in {line[1], line[i]}
    BY <1>1, <1>3, <1>6
  <2> QED BY <1>1, <1>2, <1>3, <1>4, <2>1 DEF Turn
<1> QED BY <1>3, <1>4, <1>5, <1>6 DEF SeenThrough

\* For Newsgroups lines charstack.c sees through, no INSERT into ngposts ever
\* meets an existing row, for any number of threads whose Message-IDs may
\* collide, any grants and any faults: a POST that reaches its group loop is
\* not cut off by the key of ngposts.  For other lines the property fails (a
\* group named again after two others), as TLC shows.
THEOREM KeyFreeOnSeenLines ==
  ASSUME ~UseTool \/ \A c \in Confs : ~c.beside,
         \A line \in Lines : SeenThrough(line)
  PROVE  Spec => []NgpostsKeyFree
<1> DEFINE Inv == TypeOK /\ RefInv /\ KeyInv
<1>1. Init => Inv
  BY InitType, RefInit DEF Init, KeyInv, LoopPc, NoPost, Fresh, FilePc
<1>2. Inv /\ [Next]_vars => Inv'
  <2>1. TypeOK => Quiesced
    BY DEF TypeOK, Quiesced
  <2> QED BY <2>1, NextType, RefNext, KeyNext
<1>3. Inv => NgpostsKeyFree
  <2> SUFFICES ASSUME Inv, NEW t \in Thread, pc[t] = "ins_ngposts",
                      Posted(CurMsgId(t), CurGroup(t))
               PROVE  FALSE
    BY DEF NgpostsKeyFree
  <2>1. SeenThrough(loc[t].ngs)
    BY CurGroupType
  <2> QED BY <2>1, KeyFree
<1> QED BY <1>1, <1>2, <1>3, PTL DEF Spec
=============================================================================
