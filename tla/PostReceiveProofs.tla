------------------------- MODULE PostReceiveProofs -------------------------
(***************************************************************************)
(* Proofs about PostReceive: the invariants for every size limit, every    *)
(* way an article is cut into pieces, with and without TLS.                *)
(***************************************************************************)
EXTENDS PostReceive, TLAPS

-----------------------------------------------------------------------------
(* Sequences.                                                              *)

\* The elements of a part of a sequence.
LEMMA PartElements ==
    ASSUME NEW s \in Seq(Byte), NEW a \in Nat, NEW b \in Nat,
           1 <= a, b <= Len(s), a <= b
    PROVE  /\ SubSeq(s, a, b) \in Seq(Byte)
           /\ Len(SubSeq(s, a, b)) = b - a + 1
           /\ \A j \in 1..(b - a + 1) : SubSeq(s, a, b)[j] = s[a + j - 1]
  OBVIOUS

\* A sequence of three elements.
LEMMA ThreeElements ==
    ASSUME NEW s \in Seq(Byte), Len(s) = 3, s[1] = "dot", s[2] = "cr", s[3] = "lf"
    PROVE  s = <<"dot", "cr", "lf">>
  OBVIOUS

\* The mark, byte by byte.
LEMMA EndsAtBytes ==
    ASSUME NEW s \in Seq(Byte), NEW k \in Nat, k <= Len(s), EndsAt(s, k)
    PROVE  /\ k >= 5
           /\ s[k - 2] = "dot" /\ s[k - 1] = "cr" /\ s[k] = "lf"
           /\ SubSeq(s, k - 2, k) = <<"dot", "cr", "lf">>
  <1>1. k >= 5 /\ SubSeq(s, k - 4, k) = EndMark
    BY DEF EndsAt
  <1>2. k - 4 \in Nat /\ 1 <= k - 4 /\ k - 4 <= k /\ k - (k - 4) + 1 = 5
    BY <1>1
  <1>3. \A j \in 1..5 : EndMark[j] = s[k - 4 + j - 1]
    BY <1>1, <1>2, PartElements
  <1>4. EndMark[3] = "dot" /\ EndMark[4] = "cr" /\ EndMark[5] = "lf"
    BY DEF EndMark, cr, lf
  <1>5. k - 4 + 3 - 1 = k - 2 /\ k - 4 + 4 - 1 = k - 1 /\ k - 4 + 5 - 1 = k
    BY <1>1
  <1>6. s[k - 2] = "dot" /\ s[k - 1] = "cr" /\ s[k] = "lf"
    BY <1>3, <1>4, <1>5
  <1>7. k - 2 \in Nat /\ 1 <= k - 2 /\ k - 2 <= k /\ k - (k - 2) + 1 = 3
    BY <1>1
  <1>8. /\ SubSeq(s, k - 2, k) \in Seq(Byte) /\ Len(SubSeq(s, k - 2, k)) = 3
        /\ \A j \in 1..3 : SubSeq(s, k - 2, k)[j] = s[k - 2 + j - 1]
    BY <1>7, PartElements
  <1>9. k - 2 + 1 - 1 = k - 2 /\ k - 2 + 2 - 1 = k - 1 /\ k - 2 + 3 - 1 = k
    BY <1>1
  <1>10. /\ SubSeq(s, k - 2, k)[1] = "dot" /\ SubSeq(s, k - 2, k)[2] = "cr"
         /\ SubSeq(s, k - 2, k)[3] = "lf"
    BY <1>6, <1>8, <1>9
  <1>11. QED
    BY <1>1, <1>6, <1>8, <1>10, ThreeElements

\* Sending more does not change what has been sent.
LEMMA EndsAtKept ==
    ASSUME NEW s \in Seq(Byte), NEW t \in Seq(Byte), NEW k \in Nat, k <= Len(s)
    PROVE  EndsAt(s \o t, k) <=> EndsAt(s, k)
  <1>1. ASSUME k >= 5 PROVE SubSeq(s \o t, k - 4, k) = SubSeq(s, k - 4, k)
    BY <1>1
  <1>2. QED
    BY <1>1 DEF EndsAt

-----------------------------------------------------------------------------
(* The search for the mark.                                                *)

\* strstr() over the last five bytes finds the mark exactly when the text ends
\* with it, and then cuts nothing off.
LEMMA SearchFinds ==
    ASSUME NEW old, NEW r \in Nat, r <= Len(sent), sent \in Seq(Byte)
    PROVE  /\ FoundAt(SearchFrom(old, r), r) = {} => ~EndsAt(sent, r)
           /\ \A p \in FoundAt(SearchFrom(old, r), r) :
                 p + Len(Needle) = r /\ EndsAt(sent, r)
  <1>1. Len(Needle) = 5 /\ Needle = EndMark
    BY DEF Needle, EndMark
  <1>2. ASSUME NEW p \in FoundAt(SearchFrom(old, r), r)
        PROVE  p + 5 = r /\ EndsAt(sent, r)
    <2>1. /\ p \in SearchFrom(old, r)..r /\ p + 5 <= r
          /\ SubSeq(sent, p + 1, p + 5) = EndMark
      BY <1>1 DEF FoundAt
    <2>2. p + 5 = r
      BY <2>1 DEF SearchFrom
    <2>3. p + 1 = r - 4 /\ r >= 5
      BY <2>1, <2>2 DEF SearchFrom
    <2>4. QED
      BY <2>1, <2>2, <2>3 DEF EndsAt
  <1>3. ASSUME EndsAt(sent, r) PROVE r - 5 \in FoundAt(SearchFrom(old, r), r)
    <2>1. r >= 5 /\ SubSeq(sent, r - 4, r) = EndMark
      BY <1>3 DEF EndsAt
    <2>2. r - 5 \in SearchFrom(old, r)..r /\ r - 5 + 5 = r /\ r - 5 + 1 = r - 4
      BY <2>1 DEF SearchFrom
    <2>3. QED
      BY <1>1, <2>1, <2>2 DEF FoundAt
  <1>4. QED
    BY <1>1, <1>2, <1>3

\* What Receive() and the search do to the text in buf.
LEMMA ReceivedText ==
    ASSUME TypeOK, NEW n \in Nat, recv + n <= Len(sent), Received(n)
    PROVE  /\ recv' = recv + n
           /\ \/ pc' = "recv" /\ ~EndsAt(sent, recv')
              \/ pc' = "split" /\ EndsAt(sent, recv')
  <1>1. recv + n \in Nat /\ sent \in Seq(Byte)
    BY DEF TypeOK
  <1>2. CASE FoundAt(SearchFrom(recv, recv + n), recv + n) = {}
    BY <1>1, <1>2, SearchFinds DEF Received
  <1>3. CASE FoundAt(SearchFrom(recv, recv + n), recv + n) # {}
    <2>1. PICK p \in FoundAt(SearchFrom(recv, recv + n), recv + n) :
             recv' = p + Len(Needle)
      BY <1>3 DEF Received
    <2>2. pc' = "split"
      BY <1>3 DEF Received
    <2>3. p + Len(Needle) = recv + n /\ EndsAt(sent, recv + n)
      BY <1>1, <2>1, SearchFinds
    <2>4. QED
      BY <2>1, <2>2, <2>3
  <1>4. QED
    BY <1>2, <1>3

\* Both ways of receiving, reduced to numbers: n bytes go into buf and h stay
\* inside OpenSSL, which only happens when buf is full.
LEMMA ReceiveStep ==
    ASSUME TypeOK, ReceiveInv, ReceivePlain \/ ReceiveTls
    PROVE  /\ UNCHANGED <<conf, sent, closed, header, answer>>
           /\ pc = "recv"
           /\ \/ pc' = "recv" /\ ~EndsAt(sent, recv')
              \/ pc' = "split" /\ EndsAt(sent, recv')
           /\ recv' \in Nat /\ held' \in Nat
           /\ recv' < conf.max /\ recv' + held' <= Len(sent)
           /\ held' > 0 => recv' + 1 = conf.max
  <1>1. conf.max \in Nat /\ Len(sent) \in Nat
    BY ReceiveAssumption DEF TypeOK
  <1>2. recv + 1 < conf.max /\ held = 0 /\ pc = "recv"
    BY <1>1 DEF ReceivePlain, ReceiveTls, Readable, Full, ReceiveInv, TypeOK
  <1>3. UNCHANGED <<conf, sent, closed, header, answer>>
    BY DEF ReceivePlain, ReceiveTls
  <1>4. CASE ReceivePlain
    <2>1. PICK n \in 1..Room : n <= OnWire /\ Received(n)
      BY <1>4 DEF ReceivePlain
    <2>2. n \in Nat /\ recv + n < conf.max /\ recv + n <= Len(sent) /\ held' = held
      BY <1>1, <1>2, <1>4, <2>1 DEF Room, OnWire, TypeOK, ReceivePlain
    <2>3. /\ recv' = recv + n
          /\ \/ pc' = "recv" /\ ~EndsAt(sent, recv')
             \/ pc' = "split" /\ EndsAt(sent, recv')
      BY <2>1, <2>2, ReceivedText
    <2>4. QED
      BY <1>1, <1>2, <1>3, <2>2, <2>3 DEF TypeOK
  <1>5. CASE ReceiveTls
    <2>1. PICK r \in 1..OnWire, n \in 1..Room :
             /\ n = IF r <= Room THEN r ELSE Room
             /\ Received(n)
             /\ held' = held + r - n
      BY <1>5 DEF ReceiveTls
    <2>2. /\ n \in Nat /\ r \in Nat /\ n <= r /\ recv + n < conf.max
          /\ recv + r <= Len(sent) /\ held' = r - n
          /\ r - n > 0 => recv + n + 1 = conf.max
      <3> DEFINE room == conf.max - recv - 1
                 wire == Len(sent) - (recv + held)
      <3>1. /\ room \in Nat /\ wire \in Nat /\ recv \in Nat /\ held = 0
            /\ r \in 1..wire /\ n \in 1..room
            /\ n = IF r <= room THEN r ELSE room
            /\ held' = held + r - n
        BY <1>1, <1>2, <2>1 DEF Room, OnWire, TypeOK
      <3>2. n \in Nat /\ r \in Nat /\ n <= r /\ n <= room /\ r <= wire
        BY <3>1
      <3>3. held' = r - n
        BY <3>1, <3>2
      <3>4. r - n > 0 => n = room
        BY <3>1, <3>2
      <3>5. recv + n < conf.max
        BY <1>1, <3>1, <3>2
      <3>6. recv + r <= Len(sent)
        BY <1>1, <3>1, <3>2
      <3>7. n = room => recv + n + 1 = conf.max
        BY <1>1, <3>1
      <3> HIDE DEF room, wire
      <3> QED BY <3>2, <3>3, <3>4, <3>5, <3>6, <3>7
    <2>3. /\ recv' = recv + n
          /\ \/ pc' = "recv" /\ ~EndsAt(sent, recv')
             \/ pc' = "split" /\ EndsAt(sent, recv')
      <3>1. recv + n <= Len(sent)
        BY <1>1, <2>2 DEF TypeOK
      <3>2. QED
        BY <2>1, <2>2, <3>1, ReceivedText
    <2>4. QED
      BY <1>1, <1>2, <1>3, <2>2, <2>3 DEF TypeOK
  <1>6. QED
    BY <1>4, <1>5

-----------------------------------------------------------------------------
(* The invariants.                                                         *)

ReceiveSafe == TypeOK /\ ReceiveInv /\ WholeArticle /\ BodyTerminated /\ TooBigJustified

\* They hold before the first byte.
LEMMA InitSafe == Init => ReceiveSafe
  <1> SUFFICES ASSUME Init PROVE ReceiveSafe
    OBVIOUS
  <1>1. TypeOK
    <2>1. conf \in Confs /\ conf.max \in Nat \ {0}
      BY ReceiveAssumption DEF Init
    <2>2. sent \in Seq(Byte) /\ Len(sent) = 0
      BY DEF Init
    <2>3. recv = 0 /\ held = 0 /\ 0 < conf.max /\ recv + held <= Len(sent)
          /\ Len(sent) <= MaxSent
      BY <2>1, <2>2, ReceiveAssumption DEF Init
    <2>4. closed \in BOOLEAN /\ pc = "recv" /\ header = 0 /\ answer = "none"
      BY DEF Init
    <2>5. QED
      BY <2>1, <2>2, <2>3, <2>4 DEF TypeOK
  <1>2. ReceiveInv
    BY DEF Init, ReceiveInv, NothingBehind, EndsAt
  <1>3. QED
    BY <1>1, <1>2 DEF Init, ReceiveSafe, WholeArticle, BodyTerminated, TooBigJustified, Finished

\* Splitting the header off leaves the line with the dot in the body: the last
\* line end of an empty line is not that of the mark.
LEMMA SplitKeepsMark ==
    ASSUME TypeOK, EndsAt(sent, recv), NEW e \in HeaderEnds
    PROVE  e \in Nat /\ e + 7 <= recv
  <1>0. e \in Nat /\ recv \in Nat /\ Len(sent) \in Nat /\ e + 4 < recv
    BY DEF HeaderEnds, TypeOK
  <1>1. sent \in Seq(Byte) /\ recv <= Len(sent)
    BY DEF TypeOK
  <1>2. SubSeq(sent, e + 1, e + 4) = <<"cr", "lf", "cr", "lf">>
    BY DEF HeaderEnds, cr, lf
  <1>3. \A j \in 1..4 : SubSeq(sent, e + 1, e + 4)[j] = sent[e + 1 + j - 1]
    <2>1. /\ e + 1 \in Nat /\ e + 4 \in Nat /\ 1 <= e + 1
          /\ e + 1 <= e + 4 /\ e + 4 - (e + 1) + 1 = 4
      BY <1>0
    <2>2. e + 4 <= Len(sent)
      <3>1. recv <= Len(sent)
        BY <1>1
      <3> QED BY <1>0, <3>1
    <2>3. QED
      BY <1>0, <1>1, <2>1, <2>2, PartElements
  <1>4. sent[e + 4] = "lf"
    <2>1. e + 1 + 4 - 1 = e + 4
      BY <1>0
    <2>2. <<"cr", "lf", "cr", "lf">>[4] = "lf" /\ 4 \in 1..4
      OBVIOUS
    <2>3. SubSeq(sent, e + 1, e + 4)[4] = sent[e + 1 + 4 - 1]
      BY <1>3, <2>2
    <2>4. QED
      BY <1>2, <2>1, <2>2, <2>3
  <1>5. recv >= 5 /\ sent[recv - 2] = "dot" /\ sent[recv - 1] = "cr"
    BY <1>0, <1>1, EndsAtBytes
  <1>6. e + 4 # recv - 2 /\ e + 4 # recv - 1
    BY <1>4, <1>5
  <1>7. QED
    BY <1>0, <1>5, <1>6

\* Every step preserves them.
LEMMA NextSafe == ReceiveSafe /\ [Next]_vars => ReceiveSafe'
  <1> SUFFICES ASSUME ReceiveSafe, [Next]_vars PROVE ReceiveSafe'
    OBVIOUS
  <1> USE DEF ReceiveSafe
  <1>0. conf.max \in Nat /\ Len(sent) \in Nat /\ recv \in Nat /\ held \in Nat
        /\ recv + held <= Len(sent) /\ recv <= Len(sent)
    BY ReceiveAssumption DEF TypeOK
  <1>1. ASSUME NEW s \in Chunk, ClientSends(s) PROVE ReceiveSafe'
    <2>1. s \in Seq(Byte) /\ sent' = sent \o s /\ pc = "recv" /\ answer = "none"
          /\ UNCHANGED <<conf, closed, recv, held, pc, header, answer>>
      BY <1>1, ReceiveAssumption DEF ClientSends, ReceiveInv
    <2>2. sent' \in Seq(Byte) /\ Len(sent') = Len(sent) + Len(s) /\ Len(s) \in Nat
      BY <2>1 DEF TypeOK
    <2>3. TypeOK'
      BY <1>0, <1>1, <2>1, <2>2 DEF TypeOK, ClientSends
    <2>4. ~EndsAt(sent', recv)
      BY <1>0, <2>1, EndsAtKept DEF TypeOK, ReceiveInv
    <2>5. ReceiveInv'
      BY <1>1, <2>1, <2>4 DEF ReceiveInv, ClientSends
    <2>6. QED
      BY <2>1, <2>3, <2>5 DEF WholeArticle, BodyTerminated, TooBigJustified, Finished
  <1>2. CASE ClientCloses
    BY <1>2 DEF ClientCloses, TypeOK, ReceiveInv, WholeArticle, BodyTerminated,
                TooBigJustified, Finished, NothingBehind
  <1>3. ASSUME NEW a \in {"none", "too_big"}, Kill(a),
               a = "too_big" => Len(sent) >= conf.max \/ closed
        PROVE  ReceiveSafe'
    BY <1>3 DEF Kill, TypeOK, ReceiveInv, WholeArticle, BodyTerminated,
                TooBigJustified, Finished, NothingBehind
  <1>4. CASE TooBig
    <2>1. Len(sent) >= conf.max \/ closed
      BY <1>0, <1>4 DEF TooBig, Readable, Full, OnWire
    <2>2. QED
      BY <1>3, <1>4, <2>1 DEF TooBig
  <1>5. CASE ReceiveFails
    BY <1>3, <1>5 DEF ReceiveFails
  <1>6. CASE ReceivePlain \/ ReceiveTls
    <2>1. /\ UNCHANGED <<conf, sent, closed, header, answer>>
          /\ pc = "recv"
          /\ \/ pc' = "recv" /\ ~EndsAt(sent, recv')
             \/ pc' = "split" /\ EndsAt(sent, recv')
          /\ recv' \in Nat /\ held' \in Nat
          /\ recv' < conf.max /\ recv' + held' <= Len(sent)
          /\ held' > 0 => recv' + 1 = conf.max
      BY <1>6, ReceiveStep
    <2>2. TypeOK'
      BY <2>1 DEF TypeOK
    <2>3. ReceiveInv'
      BY <2>1 DEF ReceiveInv, NothingBehind
    <2>4. WholeArticle'
      <3>1. ASSUME conf.polite, EndsAt(sent, recv') PROVE recv' = Len(sent)
        <4>1. recv' >= 5 /\ recv' <= Len(sent)
          BY <1>0, <2>1, <3>1 DEF EndsAt
        <4>2. recv' \notin 1..(Len(sent) - 1)
          BY <3>1 DEF ReceiveInv, NothingBehind
        <4>3. QED
          BY <1>0, <2>1, <4>1, <4>2
      <3>2. QED
        BY <2>1, <3>1 DEF WholeArticle, Finished
    <2>5. QED
      BY <2>1, <2>2, <2>3, <2>4 DEF BodyTerminated, TooBigJustified, ReceiveInv
  <1>7. CASE Split
    <2>1. CASE Kill("none")
      BY <1>3, <2>1
    <2>2. ASSUME NEW e \in HeaderEnds, header' = e + 2, pc' = "check",
                 UNCHANGED <<conf, sent, closed, recv, held, answer>>
          PROVE  ReceiveSafe'
      <3>1. pc = "split" /\ EndsAt(sent, recv) /\ (conf.polite => recv = Len(sent))
        BY <1>7 DEF Split, WholeArticle, Finished
      <3>2. e \in Nat /\ e + 7 <= recv
        BY <3>1, SplitKeepsMark
      <3>3. SubSeq(sent, recv - 2, recv) = <<"dot", "cr", "lf">>
        BY <1>0, <3>1, EndsAtBytes DEF TypeOK
      <3>4. TypeOK' /\ ReceiveInv'
        BY <2>2, <3>2 DEF TypeOK, ReceiveInv, NothingBehind
      <3>5. BodyTerminated'
        BY <1>0, <2>2, <3>2, <3>3 DEF BodyTerminated, cr, lf
      <3>6. QED
        BY <2>2, <3>1, <3>4, <3>5 DEF WholeArticle, TooBigJustified, Finished
    <2>3. QED
      BY <1>7, <2>1, <2>2 DEF Split
  <1>8. CASE ChkRequiredHdrLines
    BY <1>8 DEF ChkRequiredHdrLines, TypeOK, ReceiveInv, WholeArticle, BodyTerminated,
                TooBigJustified, Finished, NothingBehind
  <1>9. CASE UNCHANGED vars
    BY <1>9 DEF vars, TypeOK, ReceiveInv, WholeArticle, BodyTerminated, TooBigJustified,
                Finished, NothingBehind
  <1>10. QED
    BY <1>1, <1>2, <1>4, <1>5, <1>6, <1>7, <1>8, <1>9 DEF Next, Receive

\* The invariants hold in every state.
LEMMA ReceiveInvariant == Spec => []ReceiveSafe
  <1>1. QED
    BY InitSafe, NextSafe, PTL DEF Spec

\* For every size limit and every way the bytes arrive, buf is not overrun.
THEOREM ReceiveTypeCorrect == Spec => []TypeOK
  <1>1. ReceiveSafe => TypeOK
    BY DEF ReceiveSafe
  <1>2. QED
    BY <1>1, ReceiveInvariant, PTL

\* The loop hands on the whole article of a client that stops at its end, in
\* however many pieces it came.
THEOREM ReceivedWhole == Spec => []WholeArticle
  <1>1. ReceiveSafe => WholeArticle
    BY DEF ReceiveSafe
  <1>2. QED
    BY <1>1, ReceiveInvariant, PTL

\* The body of every article that is posted ends with the line that ends the
\* answer to ARTICLE and BODY.
THEOREM BodiesTerminated == Spec => []BodyTerminated
  <1>1. ReceiveSafe => BodyTerminated
    BY DEF ReceiveSafe
  <1>2. QED
    BY <1>1, ReceiveInvariant, PTL

\* An article that fits is not refused as too big.
THEOREM FittingArticles == Spec => []TooBigJustified
  <1>1. ReceiveSafe => TooBigJustified
    BY DEF ReceiveSafe
  <1>2. QED
    BY <1>1, ReceiveInvariant, PTL

=============================================================================
