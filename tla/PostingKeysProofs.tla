------------------------- MODULE PostingKeysProofs -------------------------
(***************************************************************************)
(* What the database guarantees to POST by itself, whatever the server and *)
(* the administration tool do at the same time: its foreign keys and its   *)
(* sequence; and what POST guarantees to its clients with that.            *)
(***************************************************************************)
EXTENDS PostingStoreProofs

\* Every step but these leaves the tables of articles alone, and no step
\* changes the configuration.
LEMMA TablesKept ==
  ASSUME [Next]_vars
  PROVE  /\ conf' = conf
         /\ \/ postings' = postings /\ ngposts' = ngposts /\ groups \subseteq groups'
            \/ \E t \in Thread : InsertIntoPostings(t)
            \/ \E t \in Thread : InsertIntoNgposts(t)
            \/ DelNgposts \/ DelNewsgroupRow \/ DelOrphanPostings
<1> USE DEF vars, fileVars, dbVars, groupVars, admVars, postVars
<1>1. ASSUME NEW t \in Thread, Post(t) \/ StatementFails(t)
      PROVE  conf' = conf /\ postings' = postings /\ ngposts' = ngposts /\ groups' = groups
  BY <1>1 DEF Post, StatementFails
<1>2. ASSUME NEW t \in Thread, PostStep(t)
      PROVE  /\ conf' = conf
             /\ \/ postings' = postings /\ ngposts' = ngposts /\ groups' = groups
                \/ InsertIntoPostings(t) \/ InsertIntoNgposts(t)
  BY <1>2 DEF PostStep, ChkExistence, ChkPostingAllowed, UniqOpen, UniqCreate,
              UniqWrite, NextVal, SaveBodyUnlink, SaveBodyWrite, StoreMessageBody,
              InsertIntoPostings, AclCheck, GetHighValue, InsertIntoNgposts,
              UpdateHighValue
<1>3. CASE Crash \/ AdminFails \/ UNCHANGED vars
  BY <1>3 DEF Crash, AdminFails
<1>4. ASSUME NEW g \in Group,
             \/ CreateNewsgroup(g) \/ ModifyNewsgroup(g) \/ DeleteNewsgroup(g)
             \/ \E t \in Thread : ChangeAcl(t, g)
      PROVE  /\ conf' = conf /\ postings' = postings /\ ngposts' = ngposts
             /\ groups \subseteq groups'
  BY <1>4 DEF CreateNewsgroup, ModifyNewsgroup, DeleteNewsgroup, ChangeAcl
<1>5. CASE AdminStep
  BY <1>5 DEF AdminStep, DelNgposts, DelAcl, DelNewsgroupRow, DelOrphanPostings
<1> QED BY <1>1, <1>2, <1>3, <1>4, <1>5 DEF Next

\* The foreign keys are kept by every step: an INSERT that would break them
\* fails, and a DELETE takes along what refers to its row.
LEMMA KeysNext == KeysHold /\ [Next]_vars => KeysHold'
<1> SUFFICES ASSUME ForeignKeys, RefIntegrity, [Next]_vars PROVE RefIntegrity'
  BY TablesKept DEF KeysHold, ForeignKeys
<1>1. CASE postings' = postings /\ ngposts' = ngposts /\ groups \subseteq groups'
  BY <1>1 DEF RefIntegrity
<1>2. ASSUME NEW t \in Thread, InsertIntoPostings(t) PROVE RefIntegrity'
  BY <1>2 DEF InsertIntoPostings, RefIntegrity, HasKey, groupVars
<1>3. ASSUME NEW t \in Thread, InsertIntoNgposts(t) PROVE RefIntegrity'
  <2> DEFINE row == [msgid |-> CurMsgId(t), ng |-> CurGroup(t),
                     num |-> loc[t].curHigh + 1]
  <2>1. row.msgid = CurMsgId(t) /\ row.ng = CurGroup(t)
    OBVIOUS
  <2>2. /\ postings' = postings /\ groups' = groups
        /\ \/ ngposts' = ngposts
           \/ ngposts' = ngposts \cup {row} /\ MayRefer(row.msgid, row.ng)
    BY <1>3 DEF InsertIntoNgposts, groupVars
  <2> HIDE DEF row
  <2> QED BY <2>2 DEF RefIntegrity, MayRefer
<1>4. CASE DelNgposts
  BY <1>4 DEF DelNgposts, RefIntegrity, groupVars
<1>5. CASE DelNewsgroupRow
  BY <1>5 DEF DelNewsgroupRow, RefIntegrity
<1>6. CASE DelOrphanPostings
  BY <1>6 DEF DelOrphanPostings, RefIntegrity, HasKey, groupVars
<1> QED BY <1>1, <1>2, <1>3, <1>4, <1>5, <1>6, TablesKept

\* On MySQL and PostgreSQL no entry dangles, also when the tool deletes a group
\* that a POST has already found to exist, and whatever fails in between.
THEOREM ForeignKeysHold == Spec => []KeysHold
<1>1. Init => KeysHold
  BY DEF Init, KeysHold, RefIntegrity
<1> QED BY <1>1, KeysNext, PTL DEF Spec

\* On every engine, as long as the tool is not used while articles are being
\* posted, no group entry ever dangles: neither concurrent POSTs that collide in
\* their Message-IDs, nor statements that fail, nor crashes of the server or of
\* delgroup between any two statements leave an entry without what it refers to.
THEOREM ReferentialIntegrity == Spec => []RefsInOrder
<1> DEFINE Inv == TypeOK /\ (Quiesced => RefInv)
<1>1. Init => Inv
  BY InitType, RefInit
<1>2. Inv /\ [Next]_vars => Inv'
  <2> SUFFICES ASSUME Inv, [Next]_vars PROVE Inv'
    OBVIOUS
  <2>1. TypeOK'
    BY NextType
  <2>2. ASSUME Quiesced' PROVE RefInv'
    <3>1. Quiesced
      BY <2>2, TablesKept DEF Quiesced
    <3> QED BY <3>1, RefNext
  <2> QED BY <2>1, <2>2
<1>3. Inv => RefsInOrder
  BY DEF RefsInOrder, RefInv
<1> QED BY <1>1, <1>2, <1>3, PTL DEF Spec
-----------------------------------------------------------------------------
(* The steps that draw no number, save no body and store no article. *)

\* Thread t moves; if it goes on under a number it has that number already and
\* is in the loop over the groups.
Moved(t) ==
    /\ \A u \in Thread \ {t} :
          pc'[u] = pc[u] /\ loc'[u] = loc[u] /\ posts'[u] = posts[u]
    /\ pc'[t] \notin {"uniq_create", "uniq_write"}
    /\ pc'[t] = "uniq_open" => ~conf.countInDb
    /\ pc'[t] = "nextval" => conf.countInDb
    /\ pc'[t] \in NumberedPc =>
          /\ {pc[t], pc'[t]} \subseteq LoopPc /\ loc'[t].num = loc[t].num
          /\ posts'[t] = posts[t]

Elsewhere ==
    /\ UNCHANGED <<conf, fileState, fileNum, seq, bodies>>
    /\ postings' \subseteq postings
    /\ \/ \E t \in Thread : Moved(t)
       \/ ServerEnds /\ postings' = postings
       \/ UNCHANGED <<pc, loc, posts>>

\* The thread has a number and saves its body or inserts its article.
Saves(t) ==
    SaveBodyUnlink(t) \/ SaveBodyWrite(t) \/ StoreMessageBody(t) \/ InsertIntoPostings(t)

\* Every other step is one of these.
LEMMA StepsElsewhere ==
  ASSUME TypeOK, [Next]_vars
  PROVE  \/ \E t \in Thread : UniqOpen(t) \/ UniqCreate(t) \/ UniqWrite(t) \/ NextVal(t)
         \/ \E t \in Thread : Saves(t)
         \/ Elsewhere
<1> USE DEF fileVars, dbVars, groupVars, admVars
<1>ty. /\ pc \in [Thread -> Pc] /\ loc \in [Thread -> Local] /\ posts \in [Thread -> Nat]
       /\ \A t \in Thread : loc[t] \in Local
  BY DEF TypeOK
<1>pc. /\ {"idle", "chk_exists", "chk_allowed", Numbering} \cap NumberedPc = {}
       /\ Numbering \notin {"uniq_create", "uniq_write", "chk_exists", "chk_allowed"}
       /\ Numbering = IF conf.countInDb THEN "nextval" ELSE "uniq_open"
       /\ LoopPc \cap {"uniq_open", "uniq_create", "uniq_write", "nextval"} = {}
       /\ LoopTop \in LoopPc /\ {"acl", "get_high", "ins_ngposts", "upd_high"} = LoopPc
  BY DEF NumberedPc, LoopPc, LoopTop, Numbering
<1>go. ASSUME NEW t \in Thread, NEW w, NEW l,
              UNCHANGED <<conf, fileState, fileNum, seq, bodies, postings>>,
              pc' = [pc EXCEPT ![t] = w], loc' = loc \/ loc' = [loc EXCEPT ![t] = l],
              posts' = posts \/ posts' = [posts EXCEPT ![t] = posts[t] + 1],
              \/ w \in {"idle", "chk_exists", "chk_allowed", Numbering}
              \/ {pc[t], w} \subseteq LoopPc /\ l.num = loc[t].num /\ posts' = posts
       PROVE  Elsewhere
  <2>1. /\ pc'[t] = w /\ loc'[t] \in {loc[t], l}
        /\ \A u \in Thread \ {t} :
              pc'[u] = pc[u] /\ loc'[u] = loc[u] /\ posts'[u] = posts[u]
    BY <1>go, <1>ty
  <2>2. Moved(t)
    BY <1>go, <1>pc, <2>1 DEF Moved
  <2> QED BY <1>go, <2>2 DEF Elsewhere
<1>lv. ASSUME NEW t \in Thread, Leave(t), posts' = posts,
              UNCHANGED <<conf, fileState, fileNum, seq, bodies, postings>>
       PROVE  Elsewhere
  BY <1>lv, <1>go DEF Leave, Goto
<1>ng. ASSUME NEW t \in Thread, NEW l \in Local, l.num = loc[t].num,
              NextGroup(t, l), pc[t] \in LoopPc, posts' = posts,
              UNCHANGED <<conf, fileState, fileNum, seq, bodies, postings>>
       PROVE  Elsewhere
  <2>1. [l EXCEPT !.k = l.k + 1].num = loc[t].num
    BY <1>ng DEF Local
  <2>2. CASE Goto(t, LoopTop) /\ loc' = [loc EXCEPT ![t] = [l EXCEPT !.k = l.k + 1]]
    BY <1>go, <1>ng, <1>pc, <2>1, <2>2 DEF Goto
  <2> QED BY <1>lv, <1>ng, <2>2 DEF NextGroup
<1>1. ASSUME NEW t \in Thread, Post(t) PROVE Elsewhere
  BY <1>1, <1>go DEF Post, Goto
<1>2. ASSUME NEW t \in Thread,
             ChkExistence(t) \/ ChkPostingAllowed(t) \/ StatementFails(t)
      PROVE  Elsewhere
  BY <1>2, <1>go, <1>lv DEF ChkExistence, ChkPostingAllowed, StatementFails, Goto
<1>3. ASSUME NEW t \in Thread,
             AclCheck(t) \/ GetHighValue(t) \/ InsertIntoNgposts(t) \/ UpdateHighValue(t)
      PROVE  Elsewhere
  <2>1. /\ UNCHANGED <<conf, fileState, fileNum, seq, bodies, postings>> /\ posts' = posts
        /\ pc[t] \in LoopPc /\ pc[t] # "idle" /\ loc[t] \in Local
    BY <1>3, <1>ty
       DEF AclCheck, GetHighValue, InsertIntoNgposts, UpdateHighValue, LoopPc
  <2>2. /\ CurGroup(t) \in Group
        /\ loc[t].skipped \cup {CurGroup(t)} \in SUBSET Group
        /\ loc[t].stack \in Seq(Group)
    BY <2>1, CurGroupType DEF Local
  <2>3. CASE AclCheck(t)
    <3> DEFINE l == [loc[t] EXCEPT !.skipped = loc[t].skipped \cup {CurGroup(t)}]
    <3>1. l \in Local /\ l.num = loc[t].num
      BY <2>1, <2>2 DEF Local
    <3>2. \/ Goto(t, "get_high") /\ UNCHANGED loc
          \/ ServerEnds
          \/ NextGroup(t, l)
      BY <2>3 DEF AclCheck
    <3> HIDE DEF l
    <3>3. CASE Goto(t, "get_high") /\ UNCHANGED loc
      BY <1>go, <1>pc, <2>1, <3>3 DEF Goto
    <3>4. CASE ServerEnds
      BY <2>1, <3>4 DEF Elsewhere
    <3> QED BY <1>ng, <2>1, <3>1, <3>2, <3>3, <3>4
  <2>4. CASE GetHighValue(t)
    <3>1. PICK h \in High :
             \/ Leave(t)
             \/ /\ loc' = [loc EXCEPT ![t] = [loc[t] EXCEPT !.curHigh = h]]
                /\ Goto(t, "ins_ngposts")
             \/ NextGroup(t, loc[t])
      BY <2>4 DEF GetHighValue
    <3>2. [loc[t] EXCEPT !.curHigh = h].num = loc[t].num
      BY <2>1 DEF Local
    <3> QED BY <1>lv, <1>ng, <1>go, <1>pc, <2>1, <3>1, <3>2 DEF Goto
  <2>5. CASE InsertIntoNgposts(t)
    BY <1>lv, <1>go, <1>pc, <2>1, <2>5 DEF InsertIntoNgposts, Goto
  <2>6. CASE UpdateHighValue(t)
    <3> DEFINE l == [loc[t] EXCEPT !.stack = PushOn(loc[t].stack, CurGroup(t))]
    <3>0. PushOn(loc[t].stack, CurGroup(t)) \in Seq(Group)
      BY <2>2, PushOnType
    <3>1. l \in Local /\ l.num = loc[t].num
      BY <2>1, <3>0 DEF Local
    <3>2. NextGroup(t, l)
      BY <2>6 DEF UpdateHighValue, SetHigh
    <3> HIDE DEF l
    <3> QED BY <1>ng, <2>1, <3>1, <3>2
  <2> QED BY <1>3, <2>3, <2>4, <2>5, <2>6
<1>4. CASE Crash
  BY <1>4 DEF Crash, Elsewhere
<1>5. ASSUME NEW g \in Group,
             \/ CreateNewsgroup(g) \/ ModifyNewsgroup(g) \/ DeleteNewsgroup(g)
             \/ \E t \in Thread : ChangeAcl(t, g)
      PROVE  Elsewhere
  BY <1>5 DEF CreateNewsgroup, ModifyNewsgroup, DeleteNewsgroup, ChangeAcl, postVars,
              Elsewhere
<1>6. CASE AdminStep \/ AdminFails \/ UNCHANGED vars
  BY <1>6 DEF AdminStep, DelNgposts, DelAcl, DelNewsgroupRow, DelOrphanPostings,
              AdminFails, postVars, vars, Elsewhere
<1> QED BY <1>1, <1>2, <1>3, <1>4, <1>5, <1>6 DEF Next, PostStep, Saves

\* Where a step of the saving of a body brings its thread.
SavedBody(t) ==
    /\ \A u \in Thread \ {t} :
          pc'[u] = pc[u] /\ loc'[u] = loc[u] /\ posts'[u] = posts[u]
    /\ posts'[t] = posts[t]
    /\ \/ pc'[t] = "idle"
       \/ /\ pc'[t] \in {"write", "ins_postings"}
          /\ loc'[t] = loc[t]

\* A thread that saves its body keeps its number or gives up.
LEMMA SavesStep ==
  ASSUME TypeOK, NEW t \in Thread,
         SaveBodyUnlink(t) \/ SaveBodyWrite(t) \/ StoreMessageBody(t)
  PROVE  ServerEnds \/ SavedBody(t)
<1>1. posts' = posts /\ pc \in [Thread -> Pc] /\ loc \in [Thread -> Local]
  BY DEF SaveBodyUnlink, SaveBodyWrite, StoreMessageBody, TypeOK
<1>2. CASE SaveBodyUnlink(t) \/ SaveBodyWrite(t)
  BY <1>1, <1>2 DEF SaveBodyUnlink, SaveBodyWrite, Goto, SavedBody
<1>3. CASE StoreMessageBody(t)
  BY <1>1, <1>3 DEF StoreMessageBody, Leave, Goto, SavedBody
<1> QED BY <1>2, <1>3

-----------------------------------------------------------------------------
(* The sequence of message-count-in-db. *)

UniqPc == {"uniq_open", "uniq_create", "uniq_write"}

\* A step of thread t that draws no number and stores no article.
LEMMA SeqStep ==
  ASSUME TypeOK, SeqInv, conf' = conf, seq' = seq, postings' \subseteq postings,
         NEW t \in Thread,
         \A u \in Thread \ {t} : pc'[u] = pc[u] /\ loc'[u] = loc[u],
         conf.countInDb => pc'[t] \notin UniqPc,
         pc'[t] \in NumberedPc =>
             /\ pc[t] \in NumberedPc /\ loc'[t].num = loc[t].num
             /\ pc'[t] \notin LoopPc => pc[t] \notin LoopPc
  PROVE  SeqInv'
<1> SUFFICES ASSUME conf.countInDb PROVE SeqInv'
  BY DEF SeqInv
<1>1. ASSUME NEW u \in Thread, pc'[u] \in NumberedPc
      PROVE  /\ pc[u] \in NumberedPc /\ loc'[u].num = loc[u].num
             /\ pc'[u] \notin LoopPc => pc[u] \notin LoopPc
  BY <1>1
<1>2. \A u \in Thread : pc'[u] \notin UniqPc
  BY DEF SeqInv, UniqPc
<1>3. UniqNum'
  BY <1>1 DEF SeqInv, UniqNum
<1>4. SequenceKeyFree'
  BY <1>1 DEF SeqInv, SequenceKeyFree, HasKey, CurMsgId
<1>5. \A u \in Thread : pc'[u] \in NumberedPc => loc'[u].num <= seq'
  BY <1>1 DEF SeqInv
<1>6. \A p \in postings' : p.msgid[1] <= seq'
  BY DEF SeqInv
<1> QED BY <1>2, <1>3, <1>4, <1>5, <1>6 DEF SeqInv, UniqPc

\* The process ends.
LEMMA SeqEnds ==
  ASSUME SeqInv, conf' = conf, seq' = seq, postings' = postings, ServerEnds
  PROVE  SeqInv'
<1>1. \A u \in Thread : pc'[u] = "idle"
  BY DEF ServerEnds
<1>2. "idle" \notin NumberedPc
  BY DEF NumberedPc, LoopPc
<1>3. UniqNum' /\ SequenceKeyFree'
  BY <1>1, <1>2 DEF UniqNum, SequenceKeyFree
<1> QED BY <1>1, <1>2, <1>3 DEF SeqInv

\* The sequence gives the thread a number that nothing uses.
LEMMA SeqDraw ==
  ASSUME TypeOK, SeqInv, NEW t \in Thread, NextVal(t)
  PROVE  SeqInv'
<1> SUFFICES ASSUME conf.countInDb PROVE SeqInv'
  BY DEF SeqInv, NextVal, admVars
<1>0. conf' = conf /\ postings' = postings
  BY DEF NextVal, admVars, dbVars
<1>1. CASE ServerEnds /\ UNCHANGED seq
  BY <1>0, <1>1, SeqEnds
<1>2. CASE /\ seq' = seq + 1
           /\ loc' = [loc EXCEPT ![t] = [loc[t] EXCEPT !.num = seq + 1]]
           /\ Goto(t, Saving)
  <2>1. /\ pc'[t] = Saving /\ loc'[t].num = seq + 1
        /\ \A u \in Thread \ {t} : pc'[u] = pc[u] /\ loc'[u] = loc[u]
    BY <1>2 DEF TypeOK, Goto, Local
  <2>2. Saving \in NumberedPc \ (UniqPc \cup LoopPc)
    BY Branches DEF NumberedPc, UniqPc, LoopPc
  <2>3. seq \in Nat /\ \A u \in Thread : loc[u].num \in Nat
    BY DEF TypeOK, Local
  <2>4. \A p \in postings : p.msgid[1] \in Nat
    BY DEF TypeOK, MsgId
  <2>5. \A u \in Thread \ {t} : pc'[u] \in NumberedPc => loc'[u].num <= seq
    BY <2>1 DEF SeqInv
  <2>6. \A p \in postings' : p.msgid[1] <= seq'
    BY <1>0, <1>2, <2>3, <2>4 DEF SeqInv
  <2>7. \A u \in Thread : pc'[u] \in NumberedPc => loc'[u].num <= seq'
    BY <1>2, <2>1, <2>3 DEF SeqInv
  <2>8. UniqNum'
    <3> SUFFICES ASSUME NEW u \in Thread, NEW v \in Thread, u # v,
                        pc'[u] \in NumberedPc, pc'[v] \in NumberedPc
                 PROVE  loc'[u].num # loc'[v].num
      BY DEF UniqNum
    <3>1. CASE u # t /\ v # t
      BY <2>1, <3>1 DEF SeqInv, UniqNum
    <3>2. CASE u = t \/ v = t
      BY <2>1, <2>3, <2>5, <3>2
    <3> QED BY <3>1, <3>2
  <2>9. SequenceKeyFree'
    <3> SUFFICES ASSUME NEW u \in Thread, pc'[u] \in NumberedPc \ LoopPc,
                        NEW p \in postings, p.msgid = <<loc'[u].num, HostOf[u]>>
                 PROVE  FALSE
      BY <1>0 DEF SequenceKeyFree, HasKey, CurMsgId
    <3>1. CASE u = t
      <4>1. p.msgid[1] = seq + 1 /\ p.msgid[1] <= seq
        BY <2>1, <3>1 DEF SeqInv
      <4> QED BY <4>1, <2>3
    <3>2. CASE u # t
      BY <2>1, <3>2 DEF SeqInv, SequenceKeyFree, HasKey, CurMsgId
    <3> QED BY <3>1, <3>2
  <2>10. \A u \in Thread : pc'[u] \notin UniqPc
    BY <2>1, <2>2 DEF SeqInv, UniqPc
  <2> QED BY <2>6, <2>7, <2>8, <2>9, <2>10 DEF SeqInv, UniqPc
<1> QED BY <1>1, <1>2 DEF NextVal

\* The article of thread t is stored under its number.
LEMMA SeqStore ==
  ASSUME TypeOK, SeqInv, NEW t \in Thread, InsertIntoPostings(t)
  PROVE  SeqInv'
<1> SUFFICES ASSUME conf.countInDb PROVE SeqInv'
  BY DEF SeqInv, InsertIntoPostings, admVars
<1>0. conf' = conf /\ seq' = seq /\ pc[t] = "ins_postings"
  BY DEF InsertIntoPostings, admVars, fileVars
<1>pc. /\ "idle" \notin NumberedPc \cup UniqPc /\ "ins_postings" \in NumberedPc \ LoopPc
       /\ LoopTop \in LoopPc /\ LoopTop \notin UniqPc /\ LoopPc \subseteq NumberedPc
  BY DEF NumberedPc, LoopPc, UniqPc, LoopTop
<1>1. CASE Leave(t) /\ UNCHANGED postings
  <2>1. pc'[t] = "idle" /\ \A u \in Thread \ {t} : pc'[u] = pc[u] /\ loc'[u] = loc[u]
    BY <1>1 DEF Leave, Goto, TypeOK
  <2> QED BY <1>0, <1>1, <1>pc, <2>1, SeqStep
<1>2. CASE /\ postings' = postings \cup {[msgid |-> CurMsgId(t), art |-> CurArt(t)]}
           /\ Goto(t, LoopTop)
           /\ UNCHANGED loc
  <2> DEFINE row == [msgid |-> CurMsgId(t), art |-> CurArt(t)]
  <2>1. row.msgid = <<loc[t].num, HostOf[t]>> /\ postings' = postings \cup {row}
    BY <1>2 DEF CurMsgId
  <2> HIDE DEF row
  <2>2. pc'[t] = LoopTop /\ \A u \in Thread \ {t} : pc'[u] = pc[u]
    BY <1>2 DEF Goto, TypeOK
  <2>3. \A u \in Thread : pc'[u] \in NumberedPc => pc[u] \in NumberedPc
    BY <1>0, <1>pc, <2>2
  <2>4. row.msgid[1] <= seq
    BY <1>0, <1>pc, <2>1 DEF SeqInv
  <2>5. UniqNum'
    BY <1>2, <2>3 DEF SeqInv, UniqNum
  <2>6. SequenceKeyFree'
    <3> SUFFICES ASSUME NEW u \in Thread, pc'[u] \in NumberedPc \ LoopPc,
                        NEW p \in postings', p.msgid = <<loc[u].num, HostOf[u]>>
                 PROVE  FALSE
      BY <1>2 DEF SequenceKeyFree, HasKey, CurMsgId
    <3>1. u # t /\ pc[u] \in NumberedPc \ LoopPc /\ pc[t] \in NumberedPc
      BY <1>0, <1>pc, <2>2
    <3>2. loc[u].num # loc[t].num
      BY <3>1 DEF SeqInv, UniqNum
    <3>3. p # row
      BY <2>1, <3>2
    <3> QED BY <2>1, <3>1, <3>3 DEF SeqInv, SequenceKeyFree, HasKey, CurMsgId
  <2>7. \A u \in Thread : pc'[u] \notin UniqPc
    BY <1>pc, <2>2 DEF SeqInv, UniqPc
  <2>8. \A u \in Thread : pc'[u] \in NumberedPc => loc'[u].num <= seq'
    BY <1>0, <1>2, <2>3 DEF SeqInv
  <2>9. \A p \in postings' : p.msgid[1] <= seq'
    BY <1>0, <2>1, <2>4 DEF SeqInv
  <2> QED BY <2>5, <2>6, <2>7, <2>8, <2>9 DEF SeqInv, UniqPc
<1> QED BY <1>1, <1>2 DEF InsertIntoPostings

\* SeqInv is preserved by every step.
LEMMA SeqNext == TypeOK /\ SeqInv /\ [Next]_vars => SeqInv'
<1> SUFFICES ASSUME TypeOK, SeqInv, [Next]_vars PROVE SeqInv'
  OBVIOUS
<1>pc. /\ "idle" \notin NumberedPc \cup UniqPc /\ LoopPc \subseteq NumberedPc
       /\ {"write", "ins_postings"} \cap (LoopPc \cup UniqPc) = {}
       /\ {"unlink", "write", "store_body"} \subseteq NumberedPc \ LoopPc
  BY DEF NumberedPc, LoopPc, UniqPc
<1>1. ASSUME NEW t \in Thread, UniqOpen(t) \/ UniqCreate(t) \/ UniqWrite(t)
      PROVE  SeqInv'
  BY <1>1 DEF UniqOpen, UniqCreate, UniqWrite, SeqInv, admVars
<1>2. ASSUME NEW t \in Thread,
             SaveBodyUnlink(t) \/ SaveBodyWrite(t) \/ StoreMessageBody(t)
      PROVE  SeqInv'
  <2>1. /\ conf' = conf /\ seq' = seq /\ postings' = postings
        /\ pc[t] \in {"unlink", "write", "store_body"}
    BY <1>2 DEF SaveBodyUnlink, SaveBodyWrite, StoreMessageBody, admVars, fileVars, dbVars
  <2> QED BY <1>2, <1>pc, <2>1, SavesStep, SeqEnds, SeqStep DEF SavedBody
<1>3. CASE Elsewhere
  <2>1. ASSUME NEW t \in Thread, Moved(t) PROVE SeqInv'
    BY <1>3, <1>pc, <2>1, SeqStep DEF Elsewhere, Moved, UniqPc
  <2>2. ASSUME pc' = pc, loc' = loc PROVE SeqInv'
    <3>1. (SequenceKeyFree' /\ UniqNum') \/ ~conf.countInDb
      BY <1>3, <2>2 DEF Elsewhere, SeqInv, SequenceKeyFree, UniqNum, HasKey, CurMsgId
    <3> QED BY <1>3, <2>2, <3>1 DEF Elsewhere, SeqInv
  <2> QED BY <1>3, <2>1, <2>2, SeqEnds DEF Elsewhere
<1> QED BY <1>1, <1>2, <1>3, SeqDraw, SeqStore, StepsElsewhere DEF Saves

\* SeqInv holds on an empty spool.
LEMMA SeqInit == Init => TypeOK /\ SeqInv
<1>1. Init => SeqInv
  BY DEF Init, SeqInv, UniqNum, SequenceKeyFree, NumberedPc, LoopPc
<1> QED BY <1>1, InitType

\* With message-count-in-db no POST ever fails on the Message-ID of another
\* article, whatever crashes, fails or is deleted: nextval() is never undone.
THEOREM SequenceNumbers == Spec => []SequenceKeyFree
<1>1. (TypeOK /\ SeqInv) /\ [Next]_vars => (TypeOK /\ SeqInv)'
  BY NextType, SeqNext
<1>2. SeqInv => SequenceKeyFree
  BY DEF SeqInv, SequenceKeyFree
<1> QED BY <1>1, <1>2, SeqInit, PTL DEF Spec
-----------------------------------------------------------------------------
(* The table of bodies of message-body-in-db. *)

\* A step of thread t that deletes no body, stores no article and does not
\* bring the thread to the files or to its INSERT.
LEMMA BodyStep ==
  ASSUME BodyInv, conf' = conf, bodies \subseteq bodies', postings' \subseteq postings,
         NEW t \in Thread,
         \A u \in Thread \ {t} : pc'[u] = pc[u] /\ loc'[u] = loc[u] /\ posts'[u] = posts[u],
         conf.bodyInDb => pc'[t] \notin {"unlink", "write", "ins_postings"}
  PROVE  BodyInv'
<1> SUFFICES ASSUME conf.bodyInDb PROVE BodyInv'
  BY DEF BodyInv
<1>1. RowHasBody'
  BY DEF BodyInv, RowHasBody
<1>2. \A u \in Thread : pc'[u] \notin {"unlink", "write"}
  BY DEF BodyInv
<1>3. ASSUME NEW u \in Thread, pc'[u] = "ins_postings"
      PROVE  [msgid |-> CurMsgId(u), art |-> CurArt(u)]' \in bodies'
  BY <1>3 DEF BodyInv, CurMsgId, CurArt
<1> QED BY <1>1, <1>2, <1>3 DEF BodyInv

\* The process ends.
LEMMA BodyEnds ==
  ASSUME BodyInv, conf' = conf, bodies' = bodies, postings' = postings, ServerEnds
  PROVE  BodyInv'
BY DEF BodyInv, ServerEnds, RowHasBody

\* BodyInv is preserved by every step.
LEMMA BodyNext == TypeOK /\ BodyInv /\ [Next]_vars => BodyInv'
<1> SUFFICES ASSUME TypeOK, BodyInv, [Next]_vars PROVE BodyInv'
  OBVIOUS
<1>ty. pc \in [Thread -> Pc] /\ loc \in [Thread -> Local] /\ posts \in [Thread -> Nat]
  BY DEF TypeOK
<1>go. ASSUME NEW t \in Thread, NEW w, NEW l, conf' = conf, bodies' = bodies,
              postings' = postings,
              pc' = [pc EXCEPT ![t] = w], loc' = loc \/ loc' = [loc EXCEPT ![t] = l],
              posts' = posts \/ posts' = [posts EXCEPT ![t] = posts[t] + 1],
              conf.bodyInDb => w \notin {"unlink", "write", "ins_postings"}
       PROVE  BodyInv'
  <2>1. /\ pc'[t] = w
        /\ \A u \in Thread \ {t} : pc'[u] = pc[u] /\ loc'[u] = loc[u] /\ posts'[u] = posts[u]
    BY <1>go, <1>ty
  <2> QED BY <1>go, <2>1, BodyStep
<1>lv. ASSUME NEW t \in Thread, Leave(t), conf' = conf, bodies' = bodies,
              postings' = postings, posts' = posts
       PROVE  BodyInv'
  <2>1. pc' = [pc EXCEPT ![t] = "idle"] /\ loc' = [loc EXCEPT ![t] = NoPost]
    BY <1>lv DEF Leave, Goto
  <2> QED BY <1>lv, <1>go, <2>1
<1>sv. /\ conf.bodyInDb => Saving = "store_body"
       /\ {LoopTop, Numbering} \cap {"unlink", "write", "ins_postings"} = {}
  BY DEF Saving, LoopTop, Numbering
<1>3. ASSUME NEW t \in Thread,
             UniqOpen(t) \/ UniqCreate(t) \/ UniqWrite(t) \/ NextVal(t)
      PROVE  BodyInv'
  <2>1. conf' = conf /\ bodies' = bodies /\ postings' = postings /\ posts' = posts
    BY <1>3 DEF UniqOpen, UniqCreate, UniqWrite, NextVal, admVars, dbVars
  <2> QED BY <1>3, <1>go, <1>lv, <1>sv, <2>1, BodyEnds
          DEF UniqOpen, UniqCreate, UniqWrite, NextVal, Goto
<1>4. ASSUME NEW t \in Thread, SaveBodyUnlink(t) \/ SaveBodyWrite(t) PROVE BodyInv'
  BY <1>4 DEF SaveBodyUnlink, SaveBodyWrite, BodyInv, admVars
<1>5. ASSUME NEW t \in Thread, StoreMessageBody(t) PROVE BodyInv'
  <2>1. conf' = conf /\ postings' = postings /\ posts' = posts
    BY <1>5 DEF StoreMessageBody, admVars, dbVars
  <2>2. CASE Leave(t) /\ UNCHANGED bodies
    BY <1>lv, <2>1, <2>2
  <2>3. CASE ServerEnds /\ UNCHANGED bodies
    BY <2>1, <2>3, BodyEnds
  <2>4. CASE /\ bodies' = bodies \cup {[msgid |-> CurMsgId(t), art |-> CurArt(t)]}
             /\ Goto(t, "ins_postings") /\ UNCHANGED loc
    <3>1. /\ pc'[t] = "ins_postings"
          /\ \A u \in Thread \ {t} : pc'[u] = pc[u]
      BY <1>ty, <2>4 DEF Goto
    <3>2. \A u \in Thread : CurMsgId(u)' = CurMsgId(u) /\ CurArt(u)' = CurArt(u)
      BY <2>1, <2>4 DEF CurMsgId, CurArt
    <3> QED BY <2>1, <2>4, <3>1, <3>2 DEF BodyInv, RowHasBody
  <2> QED BY <1>5, <2>2, <2>3, <2>4 DEF StoreMessageBody
<1>6. ASSUME NEW t \in Thread, InsertIntoPostings(t) PROVE BodyInv'
  <2>1. conf' = conf /\ bodies' = bodies /\ posts' = posts /\ pc[t] = "ins_postings"
    BY <1>6 DEF InsertIntoPostings, admVars
  <2>2. CASE Leave(t) /\ UNCHANGED postings
    BY <1>lv, <2>1, <2>2
  <2>3. CASE /\ postings' = postings \cup {[msgid |-> CurMsgId(t), art |-> CurArt(t)]}
             /\ Goto(t, LoopTop) /\ UNCHANGED loc
    <3>1. /\ pc'[t] = LoopTop
          /\ \A u \in Thread \ {t} : pc'[u] = pc[u]
      BY <1>ty, <2>3 DEF Goto
    <3>2. \A u \in Thread : CurMsgId(u)' = CurMsgId(u) /\ CurArt(u)' = CurArt(u)
      BY <2>1, <2>3 DEF CurMsgId, CurArt
    <3> QED BY <1>sv, <2>1, <2>3, <3>1, <3>2 DEF BodyInv, RowHasBody
  <2> QED BY <1>6, <2>2, <2>3 DEF InsertIntoPostings
<1>7. CASE Elsewhere
  <2>1. ASSUME NEW t \in Thread, Moved(t) PROVE BodyInv'
    <3>1. pc'[t] \notin {"unlink", "write", "ins_postings"}
      BY <2>1 DEF Moved, NumberedPc, LoopPc
    <3> QED BY <1>7, <2>1, <3>1, BodyStep DEF Elsewhere, Moved
  <2>2. ASSUME pc' = pc, loc' = loc, posts' = posts PROVE BodyInv'
    BY <1>7, <2>2 DEF Elsewhere, BodyInv, RowHasBody, CurMsgId, CurArt
  <2> QED BY <1>7, <2>1, <2>2, BodyEnds DEF Elsewhere
<1> QED BY <1>3, <1>4, <1>5, <1>6, <1>7, StepsElsewhere DEF Saves

\* With message-body-in-db every article has its own body, for any number of
\* threads that may share numbers, through crashes and failures.
THEOREM BodiesOwn == Spec => []BodyInDbOwn
<1>1. Init => TypeOK /\ BodyInv
  <2>1. Init => BodyInv
    BY DEF Init, BodyInv, RowHasBody
  <2> QED BY <2>1, InitType
<1>2. TypeOK /\ BodyInv /\ [Next]_vars => (TypeOK /\ BodyInv)'
  BY NextType, BodyNext
<1>3. BodyInv => BodyInDbOwn
  BY DEF BodyInv, BodyInDbOwn
<1> QED BY <1>1, <1>2, <1>3, PTL DEF Spec
-----------------------------------------------------------------------------
(* Bodies under numbers of the sequence. *)

\* A step of thread t that writes no body and stores no article.
LEMMA ForeignStep ==
  ASSUME ForeignInv, conf' = conf, seq' = seq, bodies' \subseteq bodies,
         postings' \subseteq postings, NEW t \in Thread,
         \A u \in Thread \ {t} :
             pc'[u] = pc[u] /\ loc'[u] = loc[u] /\ posts'[u] = posts[u],
         pc'[t] \in NumberedPc =>
             pc[t] \in NumberedPc /\ loc'[t].num = loc[t].num /\ posts'[t] = posts[t]
  PROVE  ForeignInv'
<1> SUFFICES ASSUME conf.countInDb PROVE ForeignInv'
  BY DEF ForeignInv
<1>1. ASSUME NEW u \in Thread, pc'[u] \in NumberedPc
      PROVE  pc[u] \in NumberedPc /\ CurMsgId(u)' = CurMsgId(u) /\ CurArt(u)' = CurArt(u)
  BY <1>1 DEF CurMsgId, CurArt
<1>2. BodyNotForeign'
  BY DEF ForeignInv, BodyNotForeign
<1> QED BY <1>1, <1>2 DEF ForeignInv

\* The process ends.
LEMMA ForeignEnds ==
  ASSUME ForeignInv, conf' = conf, seq' = seq, bodies' = bodies, postings' = postings,
         ServerEnds
  PROVE  ForeignInv'
<1>1. \A u \in Thread : pc'[u] \notin NumberedPc
  BY DEF ServerEnds, NumberedPc, LoopPc
<1>2. BodyNotForeign'
  BY DEF ForeignInv, BodyNotForeign
<1> QED BY <1>1, <1>2 DEF ForeignInv

\* No body was written under the number the sequence gives out next.
LEMMA ForeignDraw ==
  ASSUME TypeOK, ForeignInv, NEW t \in Thread, NextVal(t)
  PROVE  ForeignInv'
<1>0. conf' = conf /\ bodies' = bodies /\ postings' = postings /\ posts' = posts
  BY DEF NextVal, admVars, dbVars
<1> SUFFICES ASSUME conf.countInDb PROVE ForeignInv'
  BY <1>0 DEF ForeignInv
<1>1. CASE ServerEnds /\ UNCHANGED seq
  BY <1>0, <1>1, ForeignEnds
<1>2. CASE /\ seq' = seq + 1
           /\ loc' = [loc EXCEPT ![t] = [loc[t] EXCEPT !.num = seq + 1]]
           /\ Goto(t, Saving)
  <2>1. /\ loc'[t].num = seq + 1
        /\ \A u \in Thread \ {t} : pc'[u] = pc[u] /\ loc'[u] = loc[u]
    BY <1>2 DEF TypeOK, Goto, Local
  <2>2. seq \in Nat /\ \A b \in bodies : b.msgid[1] \in Nat
    BY DEF TypeOK, MsgId
  <2>3. \A b \in bodies : b.msgid[1] <= seq
    BY DEF ForeignInv
  <2>4. ASSUME NEW u \in Thread, NEW b \in bodies, pc'[u] \in NumberedPc,
               b.msgid = CurMsgId(u)'
        PROVE  b.art = CurArt(u)'
    <3>1. CASE u = t
      <4>1. b.msgid[1] = seq + 1
        BY <2>1, <2>4, <3>1 DEF CurMsgId
      <4> QED BY <2>2, <2>3, <4>1
    <3>2. CASE u # t
      <4>1. pc[u] \in NumberedPc /\ CurMsgId(u)' = CurMsgId(u) /\ CurArt(u)' = CurArt(u)
        BY <1>0, <2>1, <2>4, <3>2 DEF CurMsgId, CurArt
      <4> QED BY <2>4, <4>1 DEF ForeignInv
    <3> QED BY <3>1, <3>2
  <2>5. BodyNotForeign'
    BY <1>0 DEF ForeignInv, BodyNotForeign
  <2>6. \A b \in bodies' : b.msgid[1] <= seq'
    BY <1>0, <1>2, <2>2, <2>3
  <2> QED BY <1>0, <2>4, <2>5, <2>6 DEF ForeignInv
<1> QED BY <1>1, <1>2 DEF NextVal

\* A thread writes its body under a number that is its own and that no article
\* is stored under.
LEMMA ForeignSave ==
  ASSUME TypeOK, SeqInv, ForeignInv, NEW t \in Thread,
         SaveBodyUnlink(t) \/ SaveBodyWrite(t) \/ StoreMessageBody(t)
  PROVE  ForeignInv'
<1> DEFINE own == [msgid |-> CurMsgId(t), art |-> CurArt(t)]
<1>0. /\ conf' = conf /\ seq' = seq /\ postings' = postings
      /\ pc[t] \in NumberedPc \ LoopPc
  BY DEF SaveBodyUnlink, SaveBodyWrite, StoreMessageBody, admVars, fileVars, dbVars,
         NumberedPc, LoopPc
<1> SUFFICES ASSUME conf.countInDb PROVE ForeignInv'
  BY <1>0 DEF ForeignInv
<1>1. bodies' \subseteq bodies \cup {own}
  BY DEF SaveBodyUnlink, SaveBodyWrite, StoreMessageBody
<1>2. own.msgid = CurMsgId(t) /\ own.art = CurArt(t) /\ own.msgid[1] = loc[t].num
  BY DEF CurMsgId
<1>3. ServerEnds => bodies' = bodies
  BY DEF SaveBodyUnlink, SaveBodyWrite, StoreMessageBody, ServerEnds, Goto, TypeOK
<1> HIDE DEF own
<1>4. CASE ServerEnds
  BY <1>0, <1>3, <1>4, ForeignEnds
<1>5. CASE SavedBody(t)
  <2>1. loc[t].num <= seq /\ ~HasKey(postings, CurMsgId(t))
    BY <1>0 DEF SeqInv, SequenceKeyFree
  <2>2. BodyNotForeign'
    BY <1>0, <1>1, <1>2, <2>1 DEF ForeignInv, BodyNotForeign, HasKey
  <2>3. \A b \in bodies' : b.msgid[1] <= seq'
    BY <1>0, <1>1, <1>2, <2>1 DEF ForeignInv
  <2>4. ASSUME NEW u \in Thread, pc'[u] \in NumberedPc
        PROVE  /\ pc[u] \in NumberedPc
               /\ CurMsgId(u)' = CurMsgId(u) /\ CurArt(u)' = CurArt(u)
    <3>1. "idle" \notin NumberedPc
      BY DEF NumberedPc, LoopPc
    <3> QED BY <1>0, <1>5, <2>4, <3>1 DEF SavedBody, CurMsgId, CurArt
  <2>5. ASSUME NEW u \in Thread, NEW b \in bodies', pc'[u] \in NumberedPc,
               b.msgid = CurMsgId(u)'
        PROVE  b.art = CurArt(u)'
    <3>1. CASE b \in bodies
      BY <2>4, <2>5, <3>1 DEF ForeignInv
    <3>2. CASE b = own /\ u # t
      <4>1. loc[u].num # loc[t].num
        BY <1>0, <2>4, <2>5, <3>2 DEF SeqInv, UniqNum
      <4>2. CurMsgId(u) = CurMsgId(t)
        BY <1>2, <2>4, <2>5, <3>2
      <4> QED BY <4>1, <4>2 DEF CurMsgId
    <3>3. CASE b = own /\ u = t
      BY <1>2, <2>4, <2>5, <3>3
    <3> QED BY <1>1, <3>1, <3>2, <3>3
  <2> QED BY <1>0, <2>2, <2>3, <2>5 DEF ForeignInv
<1> QED BY <1>4, <1>5, SavesStep

\* The article is stored under the number its body was written under.
LEMMA ForeignStore ==
  ASSUME TypeOK, ForeignInv, NEW t \in Thread, InsertIntoPostings(t)
  PROVE  ForeignInv'
<1>0. /\ conf' = conf /\ seq' = seq /\ bodies' = bodies /\ posts' = posts
      /\ pc[t] = "ins_postings" /\ pc[t] \in NumberedPc
  BY DEF InsertIntoPostings, admVars, fileVars, NumberedPc
<1> SUFFICES ASSUME conf.countInDb PROVE ForeignInv'
  BY <1>0 DEF ForeignInv
<1>1. CASE Leave(t) /\ UNCHANGED postings
  <2>1. /\ pc'[t] \notin NumberedPc
        /\ \A u \in Thread \ {t} :
              pc'[u] = pc[u] /\ loc'[u] = loc[u] /\ posts'[u] = posts[u]
    BY <1>0, <1>1 DEF Leave, Goto, TypeOK, NumberedPc, LoopPc
  <2> QED BY <1>0, <1>1, <2>1, ForeignStep
<1>2. CASE /\ postings' = postings \cup {[msgid |-> CurMsgId(t), art |-> CurArt(t)]}
           /\ Goto(t, LoopTop)
           /\ UNCHANGED loc
  <2> DEFINE own == [msgid |-> CurMsgId(t), art |-> CurArt(t)]
  <2>1. own.msgid = CurMsgId(t) /\ own.art = CurArt(t) /\ postings' = postings \cup {own}
    BY <1>2
  <2> HIDE DEF own
  <2>2. BodyNotForeign'
    BY <1>0, <2>1 DEF ForeignInv, BodyNotForeign
  <2>3. ASSUME NEW u \in Thread, pc'[u] \in NumberedPc
        PROVE  /\ pc[u] \in NumberedPc
               /\ CurMsgId(u)' = CurMsgId(u) /\ CurArt(u)' = CurArt(u)
    BY <1>0, <1>2, <2>3 DEF Goto, TypeOK, CurMsgId, CurArt
  <2> QED BY <1>0, <2>2, <2>3 DEF ForeignInv
<1> QED BY <1>1, <1>2 DEF InsertIntoPostings

\* ForeignInv is preserved by every step.
LEMMA ForeignNext == TypeOK /\ SeqInv /\ ForeignInv /\ [Next]_vars => ForeignInv'
<1> SUFFICES ASSUME TypeOK, SeqInv, ForeignInv, [Next]_vars PROVE ForeignInv'
  OBVIOUS
<1>1. ASSUME NEW t \in Thread, UniqOpen(t) \/ UniqCreate(t) \/ UniqWrite(t)
      PROVE  ForeignInv'
  BY <1>1 DEF UniqOpen, UniqCreate, UniqWrite, SeqInv, ForeignInv, admVars
<1>2. CASE Elsewhere
  <2>1. ASSUME NEW t \in Thread, Moved(t) PROVE ForeignInv'
    <3>1. LoopPc \subseteq NumberedPc
      BY DEF NumberedPc
    <3> QED BY <1>2, <2>1, <3>1, ForeignStep DEF Elsewhere, Moved
  <2>2. ASSUME pc' = pc, loc' = loc, posts' = posts PROVE ForeignInv'
    <3>1. BodyNotForeign'
      BY <1>2 DEF Elsewhere, ForeignInv, BodyNotForeign
    <3> QED BY <1>2, <2>2, <3>1 DEF Elsewhere, ForeignInv, CurMsgId, CurArt
  <2> QED BY <1>2, <2>1, <2>2, ForeignEnds DEF Elsewhere
<1> QED BY <1>1, <1>2, ForeignDraw, ForeignSave, ForeignStore, StepsElsewhere DEF Saves

\* With message-count-in-db no client is ever shown the body of another article,
\* for any number of threads, on files and in the table, through crashes, bodies
\* that could not be written and articles that were never stored, and with the
\* tool at work.
THEOREM BodiesNotForeign == Spec => []BodyNotForeign
<1> DEFINE Inv == TypeOK /\ SeqInv /\ ForeignInv
<1>1. Init => Inv
  <2>1. Init => ForeignInv
    BY DEF Init, ForeignInv, BodyNotForeign
  <2> QED BY <2>1, SeqInit
<1>2. Inv /\ [Next]_vars => Inv'
  BY NextType, SeqNext, ForeignNext
<1>3. Inv => BodyNotForeign
  BY DEF ForeignInv, BodyNotForeign
<1> QED BY <1>1, <1>2, <1>3, PTL DEF Spec

\* SaveInv is preserved when numbers are handed out once and the file of a body
\* can be written.
LEMMA SaveNext ==
  ASSUME "save" \notin Faults, conf.countInDb, TypeOK, SeqInv, SaveInv, [Next]_vars
  PROVE  SaveInv'
<1>ty. pc \in [Thread -> Pc] /\ loc \in [Thread -> Local] /\ posts \in [Thread -> Nat]
  BY DEF TypeOK
<1>st. ASSUME bodies \subseteq bodies', postings' \subseteq postings, NEW t \in Thread,
              \A u \in Thread \ {t} :
                  pc'[u] = pc[u] /\ loc'[u] = loc[u] /\ posts'[u] = posts[u],
              pc'[t] # "ins_postings"
       PROVE  SaveInv'
  BY <1>st DEF SaveInv, RowHasBody, CurMsgId, CurArt
<1>en. ASSUME bodies' = bodies, postings' = postings, ServerEnds PROVE SaveInv'
  BY <1>en DEF SaveInv, RowHasBody, ServerEnds
<1>1. ASSUME NEW t \in Thread, UniqOpen(t) \/ UniqCreate(t) \/ UniqWrite(t) \/ NextVal(t)
      PROVE  SaveInv'
  <2>1. bodies' = bodies /\ postings' = postings /\ posts' = posts
    BY <1>1 DEF UniqOpen, UniqCreate, UniqWrite, NextVal, dbVars
  <2>2. Saving # "ins_postings"
    BY DEF Saving
  <2>3. \/ ServerEnds
        \/ /\ pc'[t] # "ins_postings"
           /\ \A u \in Thread \ {t} : pc'[u] = pc[u] /\ loc'[u] = loc[u]
    <3>1. CASE UniqOpen(t) \/ UniqCreate(t) \/ UniqWrite(t)
      BY <3>1 DEF UniqOpen, UniqCreate, UniqWrite, SeqInv
    <3>2. CASE NextVal(t)
      BY <1>ty, <2>2, <3>2 DEF NextVal, Goto
    <3> QED BY <1>1, <3>1, <3>2
  <2> QED BY <1>st, <1>en, <2>1, <2>3
<1>2. ASSUME NEW t \in Thread,
             SaveBodyUnlink(t) \/ SaveBodyWrite(t) \/ StoreMessageBody(t)
      PROVE  SaveInv'
  <2> DEFINE own == [msgid |-> CurMsgId(t), art |-> CurArt(t)]
  <2>1. postings' = postings /\ pc[t] \in NumberedPc \ LoopPc
    BY <1>2 DEF SaveBodyUnlink, SaveBodyWrite, StoreMessageBody, dbVars, NumberedPc, LoopPc
  <2>2. \/ ServerEnds /\ bodies' = bodies
        \/ /\ \A b \in bodies : b.msgid # CurMsgId(t) => b \in bodies'
           /\ SavedBody(t)
           /\ pc'[t] = "ins_postings" => own \in bodies'
    <3>1. CASE SaveBodyUnlink(t)
      <4>1. pc'[t] = "write" /\ bodies' = {b \in bodies : b.msgid # CurMsgId(t)}
            /\ ~ServerEnds
        BY <3>1, <1>ty DEF SaveBodyUnlink, Goto, ServerEnds
      <4> QED BY <3>1, <4>1, SavesStep
    <3>2. CASE SaveBodyWrite(t)
      <4>1. /\ bodies' = {b \in bodies : b.msgid # CurMsgId(t)} \cup {own}
            /\ pc'[t] = "ins_postings" /\ ~ServerEnds
        BY <3>2, <1>ty DEF SaveBodyWrite, Goto, ServerEnds
      <4> QED BY <3>2, <4>1, SavesStep
    <3>3. CASE StoreMessageBody(t)
      <4>1. \/ bodies' = bodies \cup {own} /\ pc'[t] = "ins_postings"
            \/ bodies' = bodies /\ pc'[t] = "idle"
            \/ bodies' = bodies /\ ServerEnds
        BY <3>3, <1>ty DEF StoreMessageBody, Goto, Leave
      <4>2. bodies' = bodies \cup {own} /\ pc'[t] = "ins_postings" => ~ServerEnds
        BY DEF ServerEnds
      <4>3. CASE ServerEnds
        BY <4>1, <4>2, <4>3
      <4>4. CASE SavedBody(t) /\ ~ServerEnds
        BY <4>1, <4>4
      <4> QED BY <3>3, <4>3, <4>4, SavesStep
    <3> QED BY <1>2, <3>1, <3>2, <3>3
  <2>3. ~HasKey(postings, CurMsgId(t))
    BY <2>1 DEF SeqInv, SequenceKeyFree
  <2>4. ASSUME NEW u \in Thread \ {t}, pc[u] = "ins_postings"
        PROVE  CurMsgId(u) # CurMsgId(t)
    <3>1. pc[u] \in NumberedPc
      BY <2>4 DEF NumberedPc
    <3>2. loc[u].num # loc[t].num
      BY <2>1, <3>1 DEF SeqInv, UniqNum
    <3> QED BY <3>2 DEF CurMsgId
  <2>5. CASE /\ \A b \in bodies : b.msgid # CurMsgId(t) => b \in bodies'
             /\ SavedBody(t)
             /\ pc'[t] = "ins_postings" => own \in bodies'
    <3>1. RowHasBody'
      BY <2>1, <2>3, <2>5 DEF SaveInv, RowHasBody, HasKey
    <3>2. ASSUME NEW u \in Thread, pc'[u] = "ins_postings"
          PROVE  [msgid |-> CurMsgId(u), art |-> CurArt(u)]' \in bodies'
      <4>1. CASE u = t
        <5>1. CurMsgId(t)' = CurMsgId(t) /\ CurArt(t)' = CurArt(t)
          BY <2>5, <3>2, <4>1 DEF SavedBody, CurMsgId, CurArt
        <5> QED BY <2>5, <3>2, <4>1, <5>1
      <4>2. CASE u # t
        <5>1. pc[u] = "ins_postings" /\ CurMsgId(u)' = CurMsgId(u) /\ CurArt(u)' = CurArt(u)
          BY <2>5, <3>2, <4>2 DEF SavedBody, CurMsgId, CurArt
        <5>2. [msgid |-> CurMsgId(u), art |-> CurArt(u)] \in bodies
          BY <5>1 DEF SaveInv
        <5>3. [msgid |-> CurMsgId(u), art |-> CurArt(u)] \in bodies'
          BY <2>4, <2>5, <4>2, <5>1, <5>2
        <5> QED BY <5>1, <5>3
      <4> QED BY <4>1, <4>2
    <3> QED BY <3>1, <3>2 DEF SaveInv
  <2> QED BY <1>en, <2>1, <2>2, <2>5
<1>3. ASSUME NEW t \in Thread, InsertIntoPostings(t) PROVE SaveInv'
  <2>1. bodies' = bodies /\ posts' = posts /\ pc[t] = "ins_postings"
    BY <1>3 DEF InsertIntoPostings
  <2>2. CASE Leave(t) /\ UNCHANGED postings
    <3>1. pc'[t] = "idle" /\ \A u \in Thread \ {t} : pc'[u] = pc[u] /\ loc'[u] = loc[u]
      BY <1>ty, <2>2 DEF Leave, Goto
    <3> QED BY <1>st, <2>1, <2>2, <3>1
  <2>3. CASE /\ postings' = postings \cup {[msgid |-> CurMsgId(t), art |-> CurArt(t)]}
             /\ Goto(t, LoopTop) /\ UNCHANGED loc
    <3>1. /\ pc'[t] # "ins_postings"
          /\ \A u \in Thread \ {t} : pc'[u] = pc[u]
      BY <1>ty, <2>3 DEF Goto, LoopTop
    <3>2. \A u \in Thread : CurMsgId(u)' = CurMsgId(u) /\ CurArt(u)' = CurArt(u)
      BY <2>1, <2>3 DEF CurMsgId, CurArt
    <3> QED BY <2>1, <2>3, <3>1, <3>2 DEF SaveInv, RowHasBody
  <2> QED BY <1>3, <2>2, <2>3 DEF InsertIntoPostings
<1>4. CASE Elsewhere
  <2>1. ASSUME NEW t \in Thread, Moved(t) PROVE SaveInv'
    <3>1. pc'[t] # "ins_postings"
      BY <2>1 DEF Moved, NumberedPc, LoopPc
    <3> QED BY <1>4, <1>st, <2>1, <3>1 DEF Elsewhere, Moved
  <2>2. ASSUME pc' = pc, loc' = loc, posts' = posts PROVE SaveInv'
    BY <1>4, <2>2 DEF Elsewhere, SaveInv, RowHasBody, CurMsgId, CurArt
  <2> QED BY <1>4, <1>en, <2>1, <2>2 DEF Elsewhere
<1> QED BY <1>1, <1>2, <1>3, <1>4, StepsElsewhere DEF Saves

\* With message-count-in-db, and as long as filebackend_savebody() can write its
\* file (its result is ignored), every stored article has its own body: no POST
\* unlinks or overwrites the file of another one, for any number of threads,
\* also after crashes and with the tool at work.
THEOREM BodiesWithSequence ==
  ASSUME "save" \notin Faults, \A c \in Confs : c.countInDb
  PROVE  Spec => []RowHasBody
<1> DEFINE Inv == TypeOK /\ SeqInv /\ SaveInv
<1>1. Init => Inv
  <2>1. Init => SaveInv
    BY DEF Init, SaveInv, RowHasBody
  <2> QED BY <2>1, SeqInit
<1>2. Inv /\ [Next]_vars => Inv'
  <2>1. TypeOK => conf.countInDb
    BY DEF TypeOK
  <2> QED BY <2>1, NextType, SeqNext, SaveNext
<1>3. Inv => RowHasBody
  BY DEF SaveInv
<1> QED BY <1>1, <1>2, <1>3, PTL DEF Spec
-----------------------------------------------------------------------------
(* The refinement. *)

\* Only groups the ACL refuses to the author are skipped.
Refused(author, gs) == \A g \in gs : UseAcl /\ <<author, g>> \notin acl

SkipInv ==
    /\ \A t \in Thread : pc[t] = "acl" => UseAcl
    /\ \A t \in Thread : Refused(t, loc[t].skipped)
    /\ \A a \in acked : Refused(a.art[1], a.skipped)

\* At most one article is answered by a step.
OneAck == acked' = acked \/ \E a : acked' = acked \cup {a}

\* A step of thread t that skips no group, or one that is refused.
LEMMA SkipStep ==
  ASSUME TypeOK, SkipInv, NEW t \in Thread, NEW w, NEW l, acl' = acl, acked' = acked,
         pc' = [pc EXCEPT ![t] = w], loc' = [loc EXCEPT ![t] = l],
         w = "acl" => UseAcl, Refused(t, l.skipped)
  PROVE  SkipInv'
<1>1. ASSUME NEW u \in Thread
      PROVE  (pc'[u] = "acl" => UseAcl) /\ Refused(u, loc'[u].skipped)
  <2>1. CASE u = t
    BY <2>1 DEF TypeOK
  <2>2. CASE u # t
    BY <2>2 DEF TypeOK, SkipInv
  <2> QED BY <2>1, <2>2
<1> QED BY <1>1 DEF SkipInv, Refused

\* The end of the handler.
LEMMA SkipLeave ==
  ASSUME TypeOK, SkipInv, NEW t \in Thread, acl' = acl, acked' = acked, Leave(t)
  PROVE  SkipInv'
<1>1. Refused(t, NoPost.skipped)
  BY DEF Refused, NoPost
<1>2. /\ pc' = [pc EXCEPT ![t] = "idle"] /\ loc' = [loc EXCEPT ![t] = NoPost]
      /\ ("idle" = "acl" => UseAcl)
  BY DEF Leave, Goto
<1> QED BY <1>1, <1>2, SkipStep

\* The end of the process.
LEMMA SkipEnds ==
  ASSUME SkipInv, acl' = acl, acked' = acked, ServerEnds
  PROVE  SkipInv'
<1>1. \A u \in Thread : pc'[u] = "idle" /\ loc'[u].skipped = {}
  BY DEF ServerEnds, NoPost
<1> QED BY <1>1 DEF SkipInv, Refused

\* The next turn of the loop, or the answer.
LEMMA SkipNextGroup ==
  ASSUME TypeOK, SkipInv, NEW t \in Thread, NEW l \in Local, acl' = acl,
         Refused(t, l.skipped), NextGroup(t, l)
  PROVE  SkipInv' /\ OneAck
<1>1. CASE /\ Goto(t, LoopTop)
           /\ loc' = [loc EXCEPT ![t] = [l EXCEPT !.k = l.k + 1]]
           /\ UNCHANGED acked
  <2>1. [l EXCEPT !.k = l.k + 1].skipped = l.skipped
    BY DEF Local
  <2>2. LoopTop = "acl" => UseAcl
    BY DEF LoopTop
  <2> QED BY <1>1, <2>1, <2>2, SkipStep DEF Goto, OneAck
<1>2. CASE /\ acked' = acked \cup {[msgid |-> CurMsgId(t), art |-> CurArt(t),
                                    ngs |-> l.ngs, skipped |-> l.skipped]}
           /\ Leave(t)
  <2> DEFINE a == [msgid |-> CurMsgId(t), art |-> CurArt(t),
                   ngs |-> l.ngs, skipped |-> l.skipped]
  <2>1. acked' = acked \cup {a} /\ a.art[1] = t /\ a.skipped = l.skipped
    BY <1>2 DEF CurArt
  <2> HIDE DEF a
  <2>2. \A b \in acked' : Refused(b.art[1], b.skipped)
    BY <2>1 DEF SkipInv
  <2>3. ASSUME NEW u \in Thread
        PROVE  (pc'[u] = "acl" => UseAcl) /\ Refused(u, loc'[u].skipped)
    BY <1>2 DEF Leave, Goto, TypeOK, SkipInv, Refused, NoPost
  <2> QED BY <2>1, <2>2, <2>3 DEF SkipInv, OneAck, Refused
<1> QED BY <1>1, <1>2 DEF NextGroup

\* SkipInv is preserved, no grant changes and at most one article is answered,
\* when the administration tool is not used.
LEMMA SkipNext ==
  ASSUME ~UseTool, TypeOK, AckInv, SkipInv, [Next]_vars
  PROVE  SkipInv' /\ OneAck /\ acl' = acl
<1>ty. /\ pc \in [Thread -> Pc] /\ loc \in [Thread -> Local]
       /\ \A t \in Thread : loc[t] \in Local /\ Refused(t, loc[t].skipped)
       /\ \A t \in Thread : loc' = loc => loc' = [loc EXCEPT ![t] = loc[t]]
  BY DEF TypeOK, SkipInv
<1> USE DEF OneAck, vars, fileVars, dbVars, groupVars, admVars
<1>1. ASSUME NEW t \in Thread, Post(t) PROVE SkipInv' /\ OneAck /\ acl' = acl
  <2>1. PICK line \in Lines :
            loc' = [loc EXCEPT ![t] = [NoPost EXCEPT !.ngs = line, !.k = 1]]
    BY <1>1 DEF Post
  <2>2. Refused(t, [NoPost EXCEPT !.ngs = line, !.k = 1].skipped)
    BY DEF Refused, NoPost
  <2>3. /\ pc' = [pc EXCEPT ![t] = "chk_exists"] /\ acl' = acl /\ acked' = acked
        /\ ("chk_exists" = "acl" => UseAcl)
    BY <1>1 DEF Post, Goto
  <2> QED BY <2>1, <2>2, <2>3, SkipStep
<1>2. ASSUME NEW t \in Thread,
             \/ ChkExistence(t) \/ ChkPostingAllowed(t)
             \/ UniqOpen(t) \/ UniqCreate(t) \/ UniqWrite(t) \/ NextVal(t)
             \/ SaveBodyUnlink(t) \/ SaveBodyWrite(t) \/ StoreMessageBody(t)
             \/ InsertIntoPostings(t) \/ InsertIntoNgposts(t) \/ StatementFails(t)
      PROVE  SkipInv' /\ OneAck /\ acl' = acl
  <2>1. acl' = acl /\ acked' = acked
    BY <1>2 DEF ChkExistence, ChkPostingAllowed, UniqOpen, UniqCreate, UniqWrite,
                NextVal, SaveBodyUnlink, SaveBodyWrite, StoreMessageBody,
                InsertIntoPostings, InsertIntoNgposts, StatementFails
  <2>2. \/ Leave(t) \/ ServerEnds
        \/ \E w \in (Pc \ {"acl"}) \cup {LoopTop} :
              /\ pc' = [pc EXCEPT ![t] = w]
              /\ \/ loc' = loc
                 \/ \E n : loc' = [loc EXCEPT ![t] = [loc[t] EXCEPT !.k = n]]
                 \/ \E n : loc' = [loc EXCEPT ![t] = [loc[t] EXCEPT !.num = n]]
    <3>1. /\ {"chk_exists", "chk_allowed", "uniq_create", "uniq_write", "write",
              "ins_postings", "upd_high"} \subseteq Pc \ {"acl"}
          /\ {Numbering, Saving} \subseteq Pc \ {"acl"}
      BY Branches DEF Pc, FilePc, DbPc
    <3>2. CASE ChkExistence(t) \/ ChkPostingAllowed(t)
      BY <3>1, <3>2 DEF ChkExistence, ChkPostingAllowed, Goto
    <3>3. CASE UniqOpen(t) \/ UniqCreate(t) \/ UniqWrite(t) \/ NextVal(t)
      BY <3>1, <3>3 DEF UniqOpen, UniqCreate, UniqWrite, NextVal, Goto
    <3>4. CASE \/ SaveBodyUnlink(t) \/ SaveBodyWrite(t) \/ StoreMessageBody(t)
               \/ InsertIntoPostings(t) \/ InsertIntoNgposts(t)
      BY <3>1, <3>4 DEF SaveBodyUnlink, SaveBodyWrite, StoreMessageBody,
                        InsertIntoPostings, InsertIntoNgposts, Goto
    <3>5. CASE StatementFails(t)
      BY <3>5 DEF StatementFails
    <3> QED BY <1>2, <3>2, <3>3, <3>4, <3>5
  <2>3. \A n : /\ Refused(t, [loc[t] EXCEPT !.k = n].skipped)
               /\ Refused(t, [loc[t] EXCEPT !.num = n].skipped)
    BY <1>ty DEF Local
  <2>4. \A w \in (Pc \ {"acl"}) \cup {LoopTop} : w = "acl" => UseAcl
    BY DEF LoopTop
  <2> QED BY <1>ty, <2>1, <2>2, <2>3, <2>4, SkipStep, SkipLeave, SkipEnds
<1>3. ASSUME NEW t \in Thread, AclCheck(t) PROVE SkipInv' /\ OneAck /\ acl' = acl
  <2>1. acl' = acl /\ pc[t] = "acl" /\ CurGroup(t) \in Group
    BY <1>3, CurGroupType DEF AclCheck
  <2>2. CASE Goto(t, "get_high") /\ UNCHANGED <<loc, acked>>
    <3>1. /\ pc' = [pc EXCEPT ![t] = "get_high"] /\ loc' = [loc EXCEPT ![t] = loc[t]]
          /\ acked' = acked /\ ("get_high" = "acl" => UseAcl)
      BY <1>ty, <2>2 DEF Goto
    <3> QED BY <1>ty, <2>1, <3>1, SkipStep
  <2>3. CASE ServerEnds /\ UNCHANGED acked
    BY <2>1, <2>3, SkipEnds
  <2>4. CASE /\ <<t, CurGroup(t)>> \notin acl
             /\ NextGroup(t, [loc[t] EXCEPT
                                !.skipped = loc[t].skipped \cup {CurGroup(t)}])
    <3> DEFINE l == [loc[t] EXCEPT !.skipped = loc[t].skipped \cup {CurGroup(t)}]
    <3>1. l \in Local /\ l.skipped = loc[t].skipped \cup {CurGroup(t)}
      BY <1>ty, <2>1 DEF Local
    <3>2. NextGroup(t, l)
      BY <2>4
    <3> HIDE DEF l
    <3>3. Refused(t, l.skipped)
      BY <1>ty, <2>1, <2>4, <3>1 DEF Refused, SkipInv
    <3> QED BY <2>1, <3>1, <3>2, <3>3, SkipNextGroup
  <2> QED BY <1>3, <2>2, <2>3, <2>4 DEF AclCheck
<1>4. ASSUME NEW t \in Thread, GetHighValue(t) PROVE SkipInv' /\ OneAck /\ acl' = acl
  <2>1. acl' = acl
    BY <1>4 DEF GetHighValue
  <2>2. PICK h \in High :
           \/ Leave(t) /\ UNCHANGED acked
           \/ /\ loc' = [loc EXCEPT ![t] = [loc[t] EXCEPT !.curHigh = h]]
              /\ Goto(t, "ins_ngposts")
              /\ UNCHANGED acked
           \/ NextGroup(t, loc[t])
    BY <1>4 DEF GetHighValue
  <2>3. Refused(t, [loc[t] EXCEPT !.curHigh = h].skipped)
    BY <1>ty DEF Local
  <2>4. CASE NextGroup(t, loc[t])
    BY <1>ty, <2>1, <2>4, SkipNextGroup
  <2>5. CASE /\ loc' = [loc EXCEPT ![t] = [loc[t] EXCEPT !.curHigh = h]]
             /\ Goto(t, "ins_ngposts")
             /\ UNCHANGED acked
    <3>1. /\ pc' = [pc EXCEPT ![t] = "ins_ngposts"]
          /\ acked' = acked /\ ("ins_ngposts" = "acl" => UseAcl)
      BY <2>5 DEF Goto
    <3> QED BY <2>1, <2>3, <2>5, <3>1, SkipStep
  <2> QED BY <2>1, <2>2, <2>4, <2>5, SkipLeave
<1>5. ASSUME NEW t \in Thread, UpdateHighValue(t)
      PROVE  SkipInv' /\ OneAck /\ acl' = acl
  <2> DEFINE l == [loc[t] EXCEPT !.stack = PushOn(loc[t].stack, CurGroup(t))]
  <2>1. /\ acl' = acl /\ CurGroup(t) \in Group /\ loc[t].stack \in Seq(Group)
    BY <1>5, CurGroupType DEF UpdateHighValue, Local
  <2>2. PushOn(loc[t].stack, CurGroup(t)) \in Seq(Group)
    BY <2>1, PushOnType
  <2>3. l \in Local /\ l.skipped = loc[t].skipped
    BY <1>ty, <2>2 DEF Local
  <2>4. NextGroup(t, l)
    BY <1>5 DEF UpdateHighValue
  <2> HIDE DEF l
  <2> QED BY <1>ty, <2>1, <2>3, <2>4, SkipNextGroup
<1>6. CASE Crash
  BY <1>6, SkipEnds DEF Crash
<1>7. ~AdminBegins /\ ~AdminStep /\ ~AdminFails
  BY DEF AdminBegins, AdminStep, DelNgposts, DelAcl, DelNewsgroupRow,
         DelOrphanPostings, AdminFails, AckInv
<1>8. CASE UNCHANGED vars
  BY <1>8 DEF SkipInv, Refused
<1> QED BY <1>1, <1>2, <1>3, <1>4, <1>5, <1>6, <1>7, <1>8
        DEF Next, PostStep, CreateNewsgroup, ModifyNewsgroup, DeleteNewsgroup,
            ChangeAcl

\* An article that is answered is where it was addressed to.
LEMMA AckSimulated ==
  ASSUME AckInv', SkipInv', OneAck, acl' = acl,
         postings' = postings, ngposts' = ngposts
  PROVE  [Store!Next]_(Store!storeVars)
<1> DEFINE Seen(a) == [msgid |-> a.msgid, art |-> a.art, ngs |-> a.ngs]
           Answers == {Seen(a) : a \in acked}
           Entry(r) == [msgid |-> r.msgid, ng |-> r.ng]
           Entries == {Entry(r) : r \in ngposts}
<1>1. CASE acked' = acked
  BY <1>1 DEF Store!storeVars
<1>2. ASSUME NEW a, acked' = acked \cup {a} PROVE Store!Acknowledge
  <2>1. a \in acked'
    BY <1>2
  <2>2. Answers' = Answers \cup {Seen(a)} /\ Seen(a) \in Answers'
    BY <1>2
  <2>3. Seen(a).msgid = a.msgid /\ Seen(a).art = a.art /\ Seen(a).ngs = a.ngs
    OBVIOUS
  <2>4. PICK p \in postings : p.msgid = a.msgid /\ p.art = a.art
    BY <2>1 DEF AckInv, AckedStored
  <2>5. ASSUME NEW i \in DOMAIN a.ngs
        PROVE  \/ \E e \in Entries : e.msgid = a.msgid /\ e.ng = a.ngs[i]
               \/ ~Store!MayWrite(a.art[1], a.ngs[i])
    <3>1. CASE a.ngs[i] \in a.skipped
      BY <2>1, <3>1 DEF SkipInv, Refused, Store!MayWrite
    <3>2. CASE \E r \in ngposts : r.msgid = a.msgid /\ r.ng = a.ngs[i]
      <4>1. PICK r \in ngposts : r.msgid = a.msgid /\ r.ng = a.ngs[i]
        BY <3>2
      <4>2. Entry(r) \in Entries /\ Entry(r).msgid = r.msgid /\ Entry(r).ng = r.ng
        BY <4>1
      <4> HIDE DEF Entry, Entries
      <4> QED BY <4>1, <4>2
    <3> QED BY <2>1, <3>1, <3>2 DEF AckInv, AckedDelivered, Posted
  <2>6. Entries' = Entries
    OBVIOUS
  <2> HIDE DEF Seen, Entry
  <2>7. /\ \E b \in Answers', q \in postings :
             /\ Answers' = Answers \cup {b}
             /\ q.msgid = b.msgid /\ q.art = b.art
             /\ \A i \in DOMAIN b.ngs :
                   \/ \E e \in Entries : e.msgid = b.msgid /\ e.ng = b.ngs[i]
                   \/ ~Store!MayWrite(b.art[1], b.ngs[i])
        /\ postings' = postings /\ Entries' = Entries /\ acl' = acl
    <3> HIDE DEF Answers, Entries
    <3> QED BY <2>2, <2>3, <2>4, <2>5, <2>6
  <2> QED BY <2>7 DEF Store!Acknowledge, Seen, Entry
<1> QED BY <1>1, <1>2 DEF OneAck, Store!Next

\* Every step of the server is a step of the store, or none.
LEMMA StoreStep ==
  ASSUME ~UseTool, TypeOK, RefInv, AckInv, SkipInv, [Next]_vars
  PROVE  [Store!Next]_(Store!storeVars)
<1> DEFINE Entry(r) == [msgid |-> r.msgid, ng |-> r.ng]
           Entries == {Entry(r) : r \in ngposts}
<1>0. AckInv' /\ SkipInv' /\ OneAck /\ acl' = acl
  BY AckNext, SkipNext
<1>1. CASE postings' = postings /\ ngposts' = ngposts
  BY <1>0, <1>1, AckSimulated
<1>2. ASSUME NEW t \in Thread, InsertIntoPostings(t)
      PROVE  [Store!Next]_(Store!storeVars)
  <2>1. acked' = acked /\ ngposts' = ngposts
    BY <1>2 DEF InsertIntoPostings
  <2>2. CASE UNCHANGED postings
    BY <1>1, <2>1, <2>2
  <2>3. CASE /\ ~HasKey(postings, CurMsgId(t))
             /\ postings' = postings \cup {[msgid |-> CurMsgId(t), art |-> CurArt(t)]}
    <3> DEFINE p == [msgid |-> CurMsgId(t), art |-> CurArt(t)]
    <3>1. p \in postings' /\ postings' = postings \cup {p} /\ p.msgid = CurMsgId(t)
      BY <2>3
    <3> HIDE DEF p
    <3>2. \A q \in postings : q.msgid # p.msgid
      BY <2>3, <3>1 DEF HasKey
    <3> QED BY <1>0, <2>1, <3>1, <3>2 DEF Store!StoreArticle, Store!Next
  <2> QED BY <1>2, <2>2, <2>3 DEF InsertIntoPostings
<1>3. ASSUME NEW t \in Thread, InsertIntoNgposts(t)
      PROVE  [Store!Next]_(Store!storeVars)
  <2>1. /\ acked' = acked /\ postings' = postings
        /\ pc[t] = "ins_ngposts"
    BY <1>3 DEF InsertIntoNgposts
  <2>2. CASE UNCHANGED ngposts
    BY <1>1, <2>1, <2>2
  <2>3. CASE ngposts' = ngposts \cup {[msgid |-> CurMsgId(t), ng |-> CurGroup(t),
                                      num |-> loc[t].curHigh + 1]}
    <3> DEFINE row == [msgid |-> CurMsgId(t), ng |-> CurGroup(t),
                       num |-> loc[t].curHigh + 1]
               own == [msgid |-> CurMsgId(t), art |-> CurArt(t)]
    <3>1. /\ row.msgid = CurMsgId(t) /\ row.ng = CurGroup(t)
          /\ ngposts' = ngposts \cup {row}
      BY <2>3
    <3>2. "ins_ngposts" \in LoopPc /\ "ins_ngposts" # "acl"
      BY DEF LoopPc
    <3>3. own \in postings /\ own.msgid = CurMsgId(t) /\ own.art[1] = t
      BY <2>1, <3>2 DEF AckInv, Progress, CurArt
    <3>4. UseAcl => <<t, CurGroup(t)>> \in acl
      BY <2>1, <3>2 DEF AckInv, Progress
    <3> HIDE DEF row, own
    <3>5. Entries' = Entries \cup {Entry(row)} /\ Entry(row) \in Entries'
      BY <3>1
    <3>6. Entry(row).msgid = own.msgid /\ Entry(row).ng = CurGroup(t)
      BY <3>1, <3>3
    <3>7. Store!MayWrite(own.art[1], Entry(row).ng)
      BY <3>3, <3>4, <3>6 DEF Store!MayWrite
    <3>8. \E e \in Entries', p \in postings :
             /\ Entries' = Entries \cup {e}
             /\ e.msgid = p.msgid
             /\ Store!MayWrite(p.art[1], e.ng)
      <4> HIDE DEF Entry, Entries
      <4> QED BY <3>3, <3>5, <3>6, <3>7
    <3> QED BY <1>0, <2>1, <3>8 DEF Store!EnterGroup, Store!Next
  <2> QED BY <1>3, <2>2, <2>3 DEF InsertIntoNgposts
<1>4. ~(DelNgposts \/ DelNewsgroupRow \/ DelOrphanPostings)
  BY DEF AckInv, DelNgposts, DelNewsgroupRow, DelOrphanPostings
<1> QED BY <1>1, <1>2, <1>3, <1>4, TablesKept

\* POST implements the store of articles, for any number of connections and
\* with failures and crashes anywhere, as long as no administration command
\* deletes what it has stored.
THEOREM StoreImplemented ==
  ASSUME ~UseTool
  PROVE  Spec => ImplementsStore
<1> DEFINE Inv == TypeOK /\ RefInv /\ AckInv /\ SkipInv
<1>1. Init => Inv
  <2>1. Init => SkipInv
    BY DEF Init, SkipInv, Refused, NoPost
  <2> QED BY <2>1, InitType, RefInit, AckInit
<1>2. Inv /\ [Next]_vars => Inv'
  BY NextType, RefNext, AckNext, SkipNext DEF Quiesced
<1>3. Init => Store!Init
  BY DEF Init, Store!Init
<1>4. Inv /\ [Next]_vars => [Store!Next]_(Store!storeVars)
  BY StoreStep
<1> QED BY <1>1, <1>2, <1>3, <1>4, PTL DEF Spec, ImplementsStore, Store!Spec
=============================================================================
