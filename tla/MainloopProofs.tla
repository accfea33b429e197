--------------------------- MODULE MainloopProofs ---------------------------
(***************************************************************************)
(* Proofs about Mainloop: the invariants for any number of clients and     *)
(* listeners, any limit on descriptors and any faults.                     *)
(***************************************************************************)
EXTENDS Mainloop, TLAPS

-----------------------------------------------------------------------------
(* Sequences.                                                              *)

\* What the queue of a listener is after a connection has come.
LEMMA AppendFacts ==
    ASSUME NEW C, NEW q \in Seq(C), NEW c \in C
    PROVE  /\ Append(q, c) \in Seq(C)
           /\ Len(Append(q, c)) = Len(q) + 1
           /\ \A k \in 1..Len(q) : Append(q, c)[k] = q[k]
           /\ Append(q, c)[Len(q) + 1] = c
           /\ Append(q, c) # <<>>
  OBVIOUS

\* What it is after accept().
LEMMA TailFacts ==
    ASSUME NEW C, NEW q \in Seq(C), q # <<>>
    PROVE  /\ Tail(q) \in Seq(C)
           /\ Len(q) \in Nat \ {0}
           /\ Head(q) = q[1] /\ Head(q) \in C
           /\ Len(Tail(q)) = Len(q) - 1
           /\ \A k \in 1..(Len(q) - 1) : Tail(q)[k] = q[k + 1]
  OBVIOUS

\* What it is after a connection has been withdrawn.
LEMMA WithoutFacts ==
    ASSUME NEW C, NEW q \in Seq(C), NEW k \in 1..Len(q)
    PROVE  /\ Without(q, k) \in Seq(C)
           /\ Len(Without(q, k)) = Len(q) - 1
           /\ \A n \in 1..(Len(q) - 1) :
                 Without(q, k)[n] = IF n < k THEN q[n] ELSE q[n + 1]
  <1> DEFINE N == Len(q) - 1
  <1>1. N \in Nat
    OBVIOUS
  <1>2. \A n \in 1..N : (IF n < k THEN q[n] ELSE q[n + 1]) \in C
    OBVIOUS
  <1>3. Without(q, k) = [n \in 1..N |-> IF n < k THEN q[n] ELSE q[n + 1]]
    BY DEF Without
  <1> HIDE DEF N
  <1>4. Without(q, k) \in [1..N -> C]
    BY <1>2, <1>3
  <1>5. Without(q, k) \in Seq(C) /\ Len(Without(q, k)) = N
    BY <1>1, <1>4
  <1>6. QED
    BY <1>3, <1>5 DEF N

-----------------------------------------------------------------------------
(* Types.                                                                  *)

\* The initial state is well typed.
LEMMA InitType == Init => TypeOK
  BY MainloopAssumption DEF Init, TypeOK, Listener, Fd, Stray, Other

\* Every step keeps the types.
LEMMA NextType == TypeOK /\ [Next]_vars => TypeOK'
  <1> SUFFICES ASSUME TypeOK, [Next]_vars PROVE TypeOK'
    OBVIOUS
  <1> USE MainloopAssumption
  <1>1. ASSUME NEW c \in Client, NEW l \in Listener, Arrive(c, l) PROVE TypeOK'
    <2>1. queue' \in [Listener -> Seq(Client)]
      BY <1>1, AppendFacts DEF TypeOK, Arrive
    <2>2. QED
      BY <1>1, <2>1 DEF TypeOK, Arrive, mainVars
  <1>2. ASSUME NEW l \in Listener, NEW k \in 1..Len(queue[l]), Withdraw(l, k)
        PROVE  TypeOK'
    <2>1. queue[l] \in Seq(Client)
      BY DEF TypeOK
    <2>2. Without(queue[l], k) \in Seq(Client)
      BY <2>1, WithoutFacts
    <2>3. queue' \in [Listener -> Seq(Client)]
      BY <1>2, <2>2 DEF TypeOK, Withdraw
    <2>4. st' \in [Client -> {"away", "waiting", "accepted", "start", "greet", "serve", "close"}]
      BY <1>2 DEF TypeOK, Withdraw
    <2>5. QED
      BY <1>2, <2>3, <2>4 DEF TypeOK, Withdraw, mainVars
  <1>3. ASSUME ProcessEnds PROVE TypeOK'
    <2>1. queue' \in [Listener -> Seq(Client)]
      BY <1>3 DEF ProcessEnds
    <2>2. QED
      BY <1>3, <2>1 DEF TypeOK, ProcessEnds, Listener
  <1>4. CASE Select
    <2>1. PICK ready \in SUBSET (fds \cap {Other}) : fds' = Waiting \cup ready
      BY <1>4 DEF Select
    <2>2. Stray \notin Waiting /\ Stray \notin ready
      BY <2>1 DEF Waiting, Listener, Stray, Other
    <2>3. /\ fds' \subseteq Listener \cup {Stray, Other}
          /\ Other \in fds' => "other" \in faults'
          /\ Stray \notin fds'
      <3>1. Waiting \subseteq Listener /\ Other \notin Listener
        BY DEF Waiting, Listener, Other
      <3>2. QED
        BY <1>4, <2>1, <2>2, <3>1 DEF TypeOK, Select
    <2>4. i' \in 1..(Listeners + 1) /\ pc' = "scan"
      BY <1>4 DEF Select
    <2>5. QED
      BY <1>4, <2>3, <2>4 DEF TypeOK, Select, threadVars
  <1>5. CASE Scan
    BY <1>5 DEF TypeOK, Scan, InLoop, threadVars, Listener
  <1>6. CASE Accept
    <2>1. queue[i] \in Seq(Client) /\ i \in Listener /\ queue[i] # <<>>
      BY <1>6 DEF TypeOK, Accept
    <2>2. Tail(queue[i]) \in Seq(Client) /\ Head(queue[i]) \in Client
      BY <2>1, TailFacts
    <2>3. queue' \in [Listener -> Seq(Client)]
      BY <1>6, <2>2 DEF TypeOK, Accept
    <2>4. PICK fd \in Fd : /\ open' = open \cup {fd}
                           /\ cur' = Head(queue[i])
                           /\ sock' = [sock EXCEPT ![cur'] = fd]
                           /\ st' = [st EXCEPT ![cur'] = "accepted"]
      BY <1>6 DEF Accept
    <2>5. QED
      BY <1>6, <2>1, <2>2, <2>3, <2>4 DEF TypeOK, Accept
  <1>7. CASE AcceptFails
    BY <1>7 DEF TypeOK, AcceptFails, NextListener, threadVars, Listener
  <1>8. CASE Spawn
    BY <1>8 DEF TypeOK, Spawn, NextListener, Listener
  <1>9. CASE SpawnFails
    BY <1>9 DEF TypeOK, SpawnFails, NextListener, Listener
  <1>10. ASSUME NEW c \in Client, Thread(c) PROVE TypeOK'
    <2>1. CASE OpenDb(c)
      BY <2>1 DEF TypeOK, OpenDb, mainVars
    <2>2. CASE Greet(c) \/ Leave(c)
      BY <2>2 DEF TypeOK, Greet, Leave, mainVars
    <2>3. CASE SendFails(c)
      BY <2>3 DEF TypeOK, SendFails, mainVars
    <2>4. CASE KillThreadDb(c)
      BY <2>4 DEF TypeOK, KillThreadDb, mainVars
    <2>5. CASE KillThreadSock(c)
      BY <2>5 DEF TypeOK, KillThreadSock, mainVars
    <2>6. QED
      BY <1>10, <2>1, <2>2, <2>3, <2>4, <2>5 DEF Thread
  <1>11. CASE UNCHANGED vars
    BY <1>11 DEF TypeOK, vars, mainVars, threadVars
  <1>12. QED
    BY <1>1, <1>2, <1>3, <1>4, <1>5, <1>6, <1>7, <1>8, <1>9, <1>10, <1>11
       DEF Next, Main, FatalError, Signal

\* The state of the loop and of the threads is well typed for any number of
\* clients and listeners and any faults: i stays within sockinfo[].
THEOREM MainloopTypeCorrect == Spec => []TypeOK
  <1>1. QED
    BY InitType, NextType, PTL DEF Spec

-----------------------------------------------------------------------------
(* Descriptors.                                                            *)

\* Nothing is open at first.
LEMMA InitDescriptors == Init => DescriptorInv
  BY DEF Init, DescriptorInv, OwnDescriptors, NothingLeaks, Live, HasSock

\* A thread, or the loop, closes only what is its own, and gives up what is
\* its own only by closing it, but for the two faults.
LEMMA NextDescriptors ==
    TypeOK /\ DescriptorInv /\ QueueInv /\ [Next]_vars => DescriptorInv'
  <1> SUFFICES ASSUME TypeOK, DescriptorInv, QueueInv, [Next]_vars
               PROVE  DescriptorInv'
    OBVIOUS
  <1> USE MainloopAssumption
  <1>1. ASSUME NEW c \in Client, NEW l \in Listener, Arrive(c, l)
        PROVE  DescriptorInv'
    BY <1>1 DEF TypeOK, DescriptorInv, OwnDescriptors, NothingLeaks, Live, HasSock,
                Arrive, mainVars
  <1>2. ASSUME NEW l \in Listener, NEW k \in 1..Len(queue[l]), Withdraw(l, k)
        PROVE  DescriptorInv'
    <2>1. queue[l][k] \in Client /\ st[queue[l][k]] = "waiting"
      BY DEF TypeOK, QueueInv
    <2>2. PICK c \in Client : st[c] = "waiting" /\ st' = [st EXCEPT ![c] = "away"]
      BY <1>2, <2>1 DEF Withdraw
    <2>3. QED
      BY <1>2, <2>2 DEF TypeOK, DescriptorInv, OwnDescriptors, NothingLeaks, Live,
                        HasSock, Withdraw, mainVars
  <1>3. ASSUME ProcessEnds PROVE DescriptorInv'
    BY <1>3 DEF DescriptorInv, OwnDescriptors, NothingLeaks, Live, HasSock, ProcessEnds
  <1>4. CASE Select \/ Scan \/ AcceptFails
    <2>1. UNCHANGED <<faults, open, cur, st, sock, db>> /\ pc # "spawn" /\ pc' # "spawn"
      BY <1>4 DEF Select, Scan, AcceptFails, NextListener, threadVars
    <2>2. QED
      BY <2>1 DEF DescriptorInv, OwnDescriptors, NothingLeaks, Live, HasSock
  <1>5. CASE Accept
    <2>1. queue[i] \in Seq(Client) /\ i \in Listener /\ queue[i] # <<>>
      BY <1>5 DEF TypeOK, Accept
    <2>2. Head(queue[i]) \in Client /\ st[Head(queue[i])] = "waiting"
      BY <2>1, TailFacts DEF QueueInv
    <2>3. PICK fd \in Fd : /\ Lowest(fd)
                           /\ open' = open \cup {fd}
                           /\ cur' = Head(queue[i])
                           /\ sock' = [sock EXCEPT ![cur'] = fd]
                           /\ st' = [st EXCEPT ![cur'] = "accepted"]
      BY <1>5 DEF Accept
    <2>4. fd \notin open /\ fd # 0
      BY <2>3 DEF Lowest, Fd
    <2>5. PICK c \in Client : c = cur' /\ st[c] = "waiting"
      BY <2>2, <2>3
    <2>6. sock[c] = 0 /\ db[c] = 0
      BY <2>5 DEF DescriptorInv, Live, HasSock
    <2>7. UNCHANGED <<faults, db>> /\ pc = "accept" /\ pc' = "spawn"
      BY <1>5 DEF Accept
    <2>8. /\ sock' = [sock EXCEPT ![c] = fd] /\ st' = [st EXCEPT ![c] = "accepted"]
          /\ open' = open \cup {fd} /\ cur' = c
      BY <2>3, <2>5
    <2>9. Live' = Live \cup {c} /\ c \notin Live
      BY <2>5, <2>8 DEF TypeOK, Live, HasSock
    <2>10. OwnDescriptors'
      <3>1. sock'[c] = fd /\ db'[c] = 0
        BY <2>6, <2>7, <2>8 DEF TypeOK
      <3>2. \A d \in Live : sock'[d] = sock[d] /\ db'[d] = db[d] /\ d # c
        BY <2>7, <2>8, <2>9 DEF TypeOK, Live
      <3>3. \A d \in Live : sock[d] # fd /\ db[d] # fd /\ sock[d] # 0
        BY <2>4 DEF TypeOK, DescriptorInv, OwnDescriptors, Fd
      <3>4. ASSUME NEW d \in Live'
            PROVE  sock'[d] \in open' /\ db'[d] \in open' \cup {0} /\ sock'[d] # db'[d]
        BY <2>4, <2>8, <2>9, <3>1, <3>2 DEF DescriptorInv, OwnDescriptors
      <3>5. ASSUME NEW d \in Live', NEW e \in Live', d # e
            PROVE  /\ sock'[d] # sock'[e] /\ sock'[d] # db'[e]
                   /\ db'[d] = db'[e] => db'[d] = 0
        <4>1. CASE d = c
          BY <2>4, <2>9, <3>1, <3>2, <3>3, <3>5, <4>1
        <4>2. CASE e = c
          BY <2>4, <2>9, <3>1, <3>2, <3>3, <3>5, <4>2
        <4>3. CASE d \in Live /\ e \in Live
          BY <3>2, <3>5, <4>3 DEF DescriptorInv, OwnDescriptors
        <4>4. QED
          BY <2>9, <4>1, <4>2, <4>3
      <3>6. QED
        BY <3>4, <3>5 DEF OwnDescriptors
    <2>11. NothingLeaks'
      <3> SUFFICES ASSUME faults \cap {"thread", "send"} = {}, NEW f \in open'
                   PROVE  \E d \in Live' : f \in {sock'[d], db'[d]}
        BY <2>7 DEF NothingLeaks
      <3>1. CASE f = fd
        BY <2>8, <2>9, <3>1 DEF TypeOK
      <3>2. CASE f \in open
        <4>1. PICK d \in Live : f \in {sock[d], db[d]}
          BY <3>2 DEF DescriptorInv, NothingLeaks
        <4>2. d # c /\ sock'[d] = sock[d] /\ db'[d] = db[d]
          BY <2>7, <2>8, <2>9, <4>1 DEF TypeOK, Live
        <4>3. QED
          BY <2>9, <4>1, <4>2
      <3>3. QED
        BY <2>8, <3>1, <3>2
    <2>12. QED
      BY <2>4, <2>5, <2>6, <2>7, <2>8, <2>9, <2>10, <2>11
         DEF TypeOK, DescriptorInv, Live, HasSock
  <1>6. CASE Spawn
    <2>1. cur \in Client /\ st[cur] = "accepted" /\ st' = [st EXCEPT ![cur] = "start"]
      BY <1>6 DEF TypeOK, DescriptorInv, Spawn
    <2>2. UNCHANGED <<faults, open, sock, db>> /\ pc = "spawn" /\ pc' = "scan"
      BY <1>6 DEF Spawn, NextListener
    <2>3. QED
      BY <2>1, <2>2 DEF TypeOK, DescriptorInv, OwnDescriptors, NothingLeaks, Live, HasSock
  <1>7. CASE SpawnFails
    <2>1. /\ cur \in Client /\ st[cur] = "accepted"
          /\ st' = [st EXCEPT ![cur] = "away"]
          /\ sock' = [sock EXCEPT ![cur] = 0]
      BY <1>7 DEF TypeOK, DescriptorInv, SpawnFails
    <2>2. /\ UNCHANGED <<faults, open, db>> /\ "thread" \in faults
          /\ pc = "spawn" /\ pc' = "scan"
      BY <1>7 DEF SpawnFails, NextListener
    <2>3. NothingLeaks'
      BY <2>2 DEF NothingLeaks
    <2>4. OwnDescriptors'
      BY <2>1, <2>2 DEF TypeOK, DescriptorInv, OwnDescriptors, Live, HasSock
    <2>5. QED
      BY <2>1, <2>2, <2>3, <2>4 DEF TypeOK, DescriptorInv, Live, HasSock
  <1>8. ASSUME NEW c \in Client, OpenDb(c) PROVE DescriptorInv'
    <2>1. CASE open = Fd /\ st' = [st EXCEPT ![c] = "close"] /\ UNCHANGED <<open, db>>
      BY <1>8, <2>1 DEF TypeOK, DescriptorInv, OwnDescriptors, NothingLeaks, Live,
                        HasSock, OpenDb, mainVars
    <2>2. ASSUME NEW fd \in Fd, Lowest(fd), open' = open \cup {fd},
                 db' = [db EXCEPT ![c] = fd], st' = [st EXCEPT ![c] = "greet"]
          PROVE  DescriptorInv'
      <3>1. fd \notin open /\ fd # 0
        BY <2>2 DEF Lowest, Fd
      <3>2. st[c] = "start" /\ db[c] = 0 /\ UNCHANGED <<faults, sock, pc, cur>>
        BY <1>8 DEF OpenDb, mainVars, DescriptorInv
      <3>3. OwnDescriptors'
        BY <2>2, <3>1, <3>2 DEF TypeOK, DescriptorInv, OwnDescriptors, Live, HasSock
      <3>4. NothingLeaks'
        <4> SUFFICES ASSUME faults \cap {"thread", "send"} = {}, NEW f \in open'
                     PROVE  \E d \in Live' : f \in {sock'[d], db'[d]}
          BY <3>2 DEF NothingLeaks
        <4>1. Live' = Live /\ c \in Live
          BY <2>2, <3>2 DEF TypeOK, Live, HasSock
        <4>2. CASE f = fd
          BY <2>2, <4>1, <4>2 DEF TypeOK
        <4>3. CASE f \in open
          <5>1. PICK d \in Live : f \in {sock[d], db[d]}
            BY <4>3 DEF DescriptorInv, NothingLeaks
          <5>2. f # 0
            BY <4>3 DEF TypeOK, Fd
          <5>3. f \in {sock'[d], db'[d]}
            BY <2>2, <3>2, <5>1, <5>2 DEF TypeOK, Live
          <5>4. QED
            BY <4>1, <5>3
        <4>4. QED
          BY <2>2, <4>2, <4>3
      <3>5. QED
        BY <2>2, <3>1, <3>2, <3>3, <3>4 DEF TypeOK, DescriptorInv, Live, HasSock
    <2>3. QED
      BY <1>8, <2>1, <2>2 DEF OpenDb
  <1>9. ASSUME NEW c \in Client, Greet(c) \/ Leave(c) PROVE DescriptorInv'
    <2>1. PICK s \in {"serve", "close"} : st' = [st EXCEPT ![c] = s]
      BY <1>9 DEF Greet, Leave
    <2>2. st[c] \in {"greet", "serve"} /\ UNCHANGED <<faults, open, sock, db, pc, cur>>
      BY <1>9 DEF Greet, Leave, mainVars
    <2>3. QED
      BY <2>1, <2>2 DEF TypeOK, DescriptorInv, OwnDescriptors, NothingLeaks, Live, HasSock
  <1>10. ASSUME NEW c \in Client, SendFails(c) PROVE DescriptorInv'
    <2>1. NothingLeaks'
      BY <1>10 DEF SendFails, NothingLeaks
    <2>2. OwnDescriptors'
      <3>1. Live' = Live \ {c} /\ open' = open
        BY <1>10 DEF TypeOK, Live, HasSock, SendFails
      <3>2. \A d \in Live' : sock'[d] = sock[d] /\ db'[d] = db[d]
        BY <1>10, <3>1 DEF TypeOK, Live, SendFails
      <3>3. QED
        BY <3>1, <3>2 DEF DescriptorInv, OwnDescriptors
    <2>3. QED
      BY <1>10, <2>1, <2>2 DEF TypeOK, DescriptorInv, Live, HasSock, SendFails, mainVars
  <1>11. ASSUME NEW c \in Client, KillThreadDb(c) PROVE DescriptorInv'
    <2>1. /\ st[c] = "close" /\ db[c] # 0 /\ open' = open \ {db[c]}
          /\ db' = [db EXCEPT ![c] = 0] /\ UNCHANGED <<faults, st, sock, pc, cur>>
      BY <1>11 DEF KillThreadDb, mainVars
    <2>2. OwnDescriptors'
      <3>1. Live' = Live /\ c \in Live /\ sock' = sock /\ db'[c] = 0
        BY <2>1 DEF TypeOK, Live, HasSock
      <3>2. \A d \in Live : d # c => db'[d] = db[d] /\ db[d] # db[c]
        BY <2>1, <3>1 DEF TypeOK, DescriptorInv, OwnDescriptors, Live
      <3>3. \A d \in Live : sock[d] # db[c] /\ sock[d] # 0
        BY <2>1, <3>1 DEF TypeOK, DescriptorInv, OwnDescriptors, Fd
      <3>4. QED
        BY <2>1, <3>1, <3>2, <3>3 DEF DescriptorInv, OwnDescriptors
    <2>3. NothingLeaks'
      <3> SUFFICES ASSUME faults \cap {"thread", "send"} = {}, NEW f \in open'
                   PROVE  \E d \in Live' : f \in {sock'[d], db'[d]}
        BY <2>1 DEF NothingLeaks
      <3>1. PICK d \in Live : f \in {sock[d], db[d]}
        BY <2>1 DEF DescriptorInv, NothingLeaks
      <3>2. f # db[c]
        BY <2>1
      <3>3. f \in {sock'[d], db'[d]} /\ d \in Live'
        BY <2>1, <3>1, <3>2 DEF TypeOK, Live
      <3>4. QED
        BY <3>3
    <2>4. QED
      BY <2>1, <2>2, <2>3 DEF TypeOK, DescriptorInv, Live, HasSock
  <1>12. ASSUME NEW c \in Client, KillThreadSock(c) PROVE DescriptorInv'
    <2>1. /\ st[c] = "close" /\ db[c] = 0 /\ open' = open \ {sock[c]}
          /\ sock' = [sock EXCEPT ![c] = 0] /\ st' = [st EXCEPT ![c] = "away"]
          /\ UNCHANGED <<faults, db, pc, cur>>
      BY <1>12 DEF KillThreadSock, mainVars
    <2>2. OwnDescriptors'
      BY <2>1 DEF TypeOK, DescriptorInv, OwnDescriptors, Live, HasSock, Fd
    <2>3. NothingLeaks'
      <3> SUFFICES ASSUME faults \cap {"thread", "send"} = {}, NEW f \in open'
                   PROVE  \E d \in Live' : f \in {sock'[d], db'[d]}
        BY <2>1 DEF NothingLeaks
      <3>1. f \in open /\ f # sock[c] /\ f # 0
        BY <2>1 DEF TypeOK, Fd
      <3>2. PICK d \in Live : f \in {sock[d], db[d]}
        BY <3>1 DEF DescriptorInv, NothingLeaks
      <3>3. d # c
        BY <2>1, <3>1, <3>2
      <3>4. d \in Live' /\ sock'[d] = sock[d] /\ db'[d] = db[d]
        BY <2>1, <3>2, <3>3 DEF TypeOK, Live
      <3>5. QED
        BY <3>2, <3>4
    <2>4. QED
      BY <2>1, <2>2, <2>3 DEF TypeOK, DescriptorInv, Live, HasSock
  <1>13. CASE UNCHANGED vars
    BY <1>13 DEF DescriptorInv, OwnDescriptors, NothingLeaks, Live, HasSock, vars,
                 mainVars, threadVars
  <1>14. QED
    BY <1>1, <1>2, <1>3, <1>4, <1>5, <1>6, <1>7, <1>8, <1>9, <1>10, <1>11, <1>12, <1>13
       DEF Next, Main, Thread, FatalError, Signal

-----------------------------------------------------------------------------
(* Queues.                                                                 *)

\* The queues are empty at first.
LEMMA InitQueues == Init => QueueInv
  BY DEF Init, QueueInv

\* Connections enter a queue when they arrive, at its end, and leave it for
\* good when they are accepted or withdrawn.
LEMMA NextQueues ==
    TypeOK /\ DescriptorInv /\ QueueInv /\ [Next]_vars => QueueInv'
  <1> SUFFICES ASSUME TypeOK, DescriptorInv, QueueInv, [Next]_vars
               PROVE  QueueInv'
    OBVIOUS
  <1> USE MainloopAssumption
  <1>0. \A l \in Listener : queue[l] \in Seq(Client) /\ Len(queue[l]) \in Nat
                            /\ \A k \in 1..Len(queue[l]) : queue[l][k] \in Client
    BY DEF TypeOK
  <1>1. ASSUME NEW c \in Client, NEW x \in Listener, Arrive(c, x)
        PROVE  QueueInv'
    <2>1. /\ Len(queue'[x]) = Len(queue[x]) + 1
          /\ \A k \in 1..Len(queue[x]) : queue'[x][k] = queue[x][k]
          /\ queue'[x][Len(queue[x]) + 1] = c
      BY <1>0, <1>1, AppendFacts DEF TypeOK, Arrive
    <2>2. \A l \in Listener : l # x => queue'[l] = queue[l]
      BY <1>1 DEF TypeOK, Arrive
    <2>3. st[c] = "away" /\ st' = [st EXCEPT ![c] = "waiting"]
      BY <1>1 DEF Arrive
    <2>4. \A l \in Listener : \A k \in 1..Len(queue[l]) : queue[l][k] # c
      BY <2>3 DEF QueueInv
    <2>5. \A l \in Listener : \A k \in 1..Len(queue'[l]) :
             \/ k \in 1..Len(queue[l]) /\ queue'[l][k] = queue[l][k]
             \/ l = x /\ k = Len(queue[x]) + 1 /\ queue'[l][k] = c
      BY <1>0, <2>1, <2>2
    <2>6. ASSUME NEW l \in Listener, NEW k \in 1..Len(queue'[l])
          PROVE  st'[queue'[l][k]] = "waiting"
      <3>1. st'[c] = "waiting"
        BY <2>3 DEF TypeOK
      <3>2. CASE k \in 1..Len(queue[l]) /\ queue'[l][k] = queue[l][k]
        <4>1. queue[l][k] \in Client /\ queue[l][k] # c /\ st[queue[l][k]] = "waiting"
          BY <1>0, <2>4, <3>2 DEF QueueInv
        <4>2. QED
          BY <2>3, <3>2, <4>1 DEF TypeOK
      <3>3. QED
        BY <2>5, <3>1, <3>2
    <2>7. ASSUME NEW l \in Listener, NEW m \in Listener,
                 NEW k \in 1..Len(queue'[l]), NEW n \in 1..Len(queue'[m]),
                 queue'[l][k] = queue'[m][n]
          PROVE  l = m /\ k = n
      <3>1. CASE queue'[l][k] = c
        <4>1. l = x /\ k = Len(queue[x]) + 1
          BY <2>4, <2>5, <3>1
        <4>2. m = x /\ n = Len(queue[x]) + 1
          BY <2>4, <2>5, <2>7, <3>1
        <4>3. QED
          BY <4>1, <4>2
      <3>2. CASE queue'[l][k] # c
        <4>1. k \in 1..Len(queue[l]) /\ queue'[l][k] = queue[l][k]
          BY <2>5, <3>2
        <4>2. n \in 1..Len(queue[m]) /\ queue'[m][n] = queue[m][n]
          BY <2>5, <2>7, <3>2
        <4>3. queue[l][k] = queue[m][n]
          BY <2>7, <4>1, <4>2
        <4>4. QED
          BY <4>1, <4>2, <4>3 DEF QueueInv
      <3>3. QED
        BY <3>1, <3>2
    <2>8. QED
      BY <2>6, <2>7 DEF QueueInv
  <1>2. ASSUME NEW x \in Listener, NEW y \in 1..Len(queue[x]), Withdraw(x, y)
        PROVE  QueueInv'
    <2>1. queue'[x] = Without(queue[x], y)
      BY <1>2 DEF TypeOK, Withdraw
    <2>2. /\ Len(queue'[x]) = Len(queue[x]) - 1
          /\ \A n \in 1..(Len(queue[x]) - 1) :
                queue'[x][n] = IF n < y THEN queue[x][n] ELSE queue[x][n + 1]
      BY <1>0, <2>1, WithoutFacts
    <2>3. \A l \in Listener : l # x => queue'[l] = queue[l]
      BY <1>2 DEF TypeOK, Withdraw
    <2> DEFINE At(l, k) == IF l # x \/ k < y THEN k ELSE k + 1
    <2>4. \A l \in Listener : \A k \in 1..Len(queue'[l]) :
             /\ At(l, k) \in 1..Len(queue[l])
             /\ queue'[l][k] = queue[l][At(l, k)]
             /\ l = x => At(l, k) # y
      <3> SUFFICES ASSUME NEW l \in Listener, NEW k \in 1..Len(queue'[l])
                   PROVE  /\ At(l, k) \in 1..Len(queue[l])
                          /\ queue'[l][k] = queue[l][At(l, k)]
                          /\ l = x => At(l, k) # y
        OBVIOUS
      <3>1. CASE l = x
        BY <1>0, <2>2, <3>1
      <3>2. CASE l # x
        BY <1>0, <2>3, <3>2
      <3>3. QED
        BY <3>1, <3>2
    <2>5. \A l \in Listener : \A k, n \in 1..Len(queue'[l]) : At(l, k) = At(l, n) => k = n
      BY <1>0, <2>2, <2>3
    <2> HIDE DEF At
    <2>6. st' = [st EXCEPT ![queue[x][y]] = "away"]
      BY <1>2 DEF Withdraw
    <2>7. \A l \in Listener : \A k \in 1..Len(queue'[l]) : queue'[l][k] # queue[x][y]
      BY <2>4 DEF QueueInv
    <2>8. \A l \in Listener : \A k \in 1..Len(queue'[l]) : st'[queue'[l][k]] = "waiting"
      BY <1>0, <2>4, <2>6, <2>7 DEF TypeOK, QueueInv
    <2>9. ASSUME NEW l \in Listener, NEW m \in Listener,
                 NEW k \in 1..Len(queue'[l]), NEW n \in 1..Len(queue'[m]),
                 queue'[l][k] = queue'[m][n]
          PROVE  l = m /\ k = n
      <3>1. l = m /\ At(l, k) = At(m, n)
        <4>1. At(l, k) \in 1..Len(queue[l]) /\ queue'[l][k] = queue[l][At(l, k)]
          BY <2>4
        <4>2. At(m, n) \in 1..Len(queue[m]) /\ queue'[m][n] = queue[m][At(m, n)]
          BY <2>4
        <4>3. queue[l][At(l, k)] = queue[m][At(m, n)]
          BY <2>9, <4>1, <4>2
        <4>4. QED
          BY <4>1, <4>2, <4>3 DEF QueueInv
      <3>2. QED
        BY <2>5, <3>1
    <2>10. QED
      BY <2>8, <2>9 DEF QueueInv
  <1>3. ASSUME ProcessEnds PROVE QueueInv'
    BY <1>3 DEF ProcessEnds, QueueInv
  <1>4. CASE Accept
    <2>1. queue[i] \in Seq(Client) /\ i \in Listener /\ queue[i] # <<>>
      BY <1>4 DEF TypeOK, Accept
    <2>2. queue'[i] = Tail(queue[i]) /\ \A l \in Listener : l # i => queue'[l] = queue[l]
      BY <1>4, <2>1 DEF TypeOK, Accept
    <2>3. /\ Len(queue[i]) \in Nat \ {0}
          /\ Head(queue[i]) = queue[i][1]
          /\ Len(queue'[i]) = Len(queue[i]) - 1
          /\ \A k \in 1..(Len(queue[i]) - 1) : queue'[i][k] = queue[i][k + 1]
      BY <2>1, <2>2, TailFacts
    <2> DEFINE At(l, k) == IF l # i THEN k ELSE k + 1
    <2>4. \A l \in Listener : \A k \in 1..Len(queue'[l]) :
             /\ At(l, k) \in 1..Len(queue[l])
             /\ queue'[l][k] = queue[l][At(l, k)]
             /\ l = i => At(l, k) # 1
      <3> SUFFICES ASSUME NEW l \in Listener, NEW k \in 1..Len(queue'[l])
                   PROVE  /\ At(l, k) \in 1..Len(queue[l])
                          /\ queue'[l][k] = queue[l][At(l, k)]
                          /\ l = i => At(l, k) # 1
        OBVIOUS
      <3>1. CASE l = i
        BY <2>3, <3>1
      <3>2. CASE l # i
        BY <1>0, <2>2, <3>2
      <3>3. QED
        BY <3>1, <3>2
    <2>5. \A l \in Listener : \A k, n \in 1..Len(queue'[l]) : At(l, k) = At(l, n) => k = n
      BY <1>0, <2>2, <2>3
    <2> HIDE DEF At
    <2>6. st' = [st EXCEPT ![queue[i][1]] = "accepted"]
      BY <1>4, <2>3 DEF Accept
    <2>7. \A l \in Listener : \A k \in 1..Len(queue'[l]) : queue'[l][k] # queue[i][1]
      <3>1. 1 \in 1..Len(queue[i])
        BY <2>3
      <3>2. QED
        BY <2>1, <2>4, <3>1 DEF QueueInv
    <2>8. \A l \in Listener : \A k \in 1..Len(queue'[l]) : st'[queue'[l][k]] = "waiting"
      BY <1>0, <2>4, <2>6, <2>7 DEF TypeOK, QueueInv
    <2>9. ASSUME NEW l \in Listener, NEW m \in Listener,
                 NEW k \in 1..Len(queue'[l]), NEW n \in 1..Len(queue'[m]),
                 queue'[l][k] = queue'[m][n]
          PROVE  l = m /\ k = n
      <3>1. l = m /\ At(l, k) = At(m, n)
        <4>1. At(l, k) \in 1..Len(queue[l]) /\ queue'[l][k] = queue[l][At(l, k)]
          BY <2>4
        <4>2. At(m, n) \in 1..Len(queue[m]) /\ queue'[m][n] = queue[m][At(m, n)]
          BY <2>4
        <4>3. queue[l][At(l, k)] = queue[m][At(m, n)]
          BY <2>9, <4>1, <4>2
        <4>4. QED
          BY <4>1, <4>2, <4>3 DEF QueueInv
      <3>2. QED
        BY <2>5, <3>1
    <2>10. QED
      BY <2>8, <2>9 DEF QueueInv
  <1>5. CASE Select \/ Scan \/ AcceptFails \/ UNCHANGED vars
    <2>1. queue' = queue /\ st' = st
      BY <1>5 DEF Select, Scan, AcceptFails, threadVars, vars
    <2>2. QED
      BY <2>1 DEF QueueInv
  <1>6. ASSUME NEW c \in Client, st[c] # "waiting", queue' = queue,
               NEW s, st' = [st EXCEPT ![c] = s]
        PROVE  QueueInv'
    <2>1. \A l \in Listener : \A k \in 1..Len(queue[l]) : queue[l][k] # c
      BY <1>6 DEF QueueInv
    <2>2. \A l \in Listener : \A k \in 1..Len(queue[l]) : st'[queue[l][k]] = "waiting"
      BY <1>0, <1>6, <2>1 DEF TypeOK, QueueInv
    <2>3. QED
      BY <1>6, <2>2 DEF QueueInv
  <1>7. CASE Spawn \/ SpawnFails
    <2>1. cur \in Client /\ st[cur] = "accepted" /\ queue' = queue
      BY <1>7 DEF TypeOK, DescriptorInv, Spawn, SpawnFails
    <2>2. QED
      BY <1>6, <1>7, <2>1 DEF Spawn, SpawnFails
  <1>8. ASSUME NEW c \in Client, Thread(c) PROVE QueueInv'
    <2>1. CASE KillThreadDb(c)
      BY <2>1 DEF KillThreadDb, QueueInv
    <2>2. CASE OpenDb(c) \/ Greet(c) \/ Leave(c) \/ SendFails(c) \/ KillThreadSock(c)
      <3>1. queue' = queue /\ st[c] # "waiting"
        BY <2>2 DEF OpenDb, Greet, Leave, SendFails, KillThreadSock
      <3>2. PICK s : st' = [st EXCEPT ![c] = s]
        BY <2>2 DEF OpenDb, Greet, Leave, SendFails, KillThreadSock
      <3>3. QED
        BY <1>6, <3>1, <3>2
    <2>3. QED
      BY <1>8, <2>1, <2>2 DEF Thread
  <1>9. QED
    BY <1>1, <1>2, <1>3, <1>4, <1>5, <1>7, <1>8
       DEF Next, Main, FatalError, Signal

-----------------------------------------------------------------------------
(* The scan of the listeners.                                              *)

\* The loop starts with select().
LEMMA InitScan == Init => ScanInv
  BY DEF Init, ScanInv

\* Unless connections are withdrawn, a queue loses one only to accept(), and
\* accept() is called once for a listener that select() announced.
LEMMA NextScan == TypeOK /\ ScanInv /\ [Next]_vars => ScanInv'
  <1> SUFFICES ASSUME TypeOK, ScanInv, [Next]_vars PROVE ScanInv'
    OBVIOUS
  <1> USE MainloopAssumption
  <1>1. ASSUME NEW c \in Client, NEW x \in Listener, Arrive(c, x)
        PROVE  ScanInv'
    <2>1. \A l \in Listener : queue[l] # <<>> => queue'[l] # <<>>
      BY <1>1, AppendFacts DEF TypeOK, Arrive
    <2>2. UNCHANGED <<faults, pc, i, fds>>
      BY <1>1 DEF Arrive, mainVars
    <2>3. QED
      BY <2>1, <2>2 DEF TypeOK, ScanInv
  <1>2. ASSUME NEW x \in Listener, NEW k \in 1..Len(queue[x]), Withdraw(x, k)
        PROVE  ScanInv'
    BY <1>2 DEF Withdraw, ScanInv, mainVars
  <1>3. ASSUME ProcessEnds PROVE ScanInv'
    BY <1>3 DEF ProcessEnds, ScanInv
  <1>4. CASE Select
    <2>1. PICK ready \in SUBSET (fds \cap {Other}) : fds' = Waiting \cup ready
      BY <1>4 DEF Select
    <2>2. Other \notin Listener
      BY DEF Other, Listener
    <2>3. \A l \in fds' \cap Listener : queue[l] # <<>>
      BY <2>1, <2>2 DEF Waiting
    <2>4. QED
      BY <1>4, <2>3 DEF Select, ScanInv
  <1>5. CASE Scan
    BY <1>5 DEF TypeOK, Scan, ScanInv, InLoop, Announced, threadVars, Listener
  <1>6. CASE Accept
    <2>1. \A l \in Listener : l # i => queue'[l] = queue[l]
      BY <1>6 DEF TypeOK, Accept
    <2>2. UNCHANGED <<faults, i, fds>> /\ pc = "accept" /\ pc' = "spawn"
      BY <1>6 DEF Accept
    <2>3. ASSUME "withdraw" \notin faults, NEW l \in fds \cap Listener, l > i
          PROVE  queue'[l] # <<>>
      <3>1. l \in Listener /\ l # i /\ queue[l] # <<>>
        BY <2>2, <2>3 DEF TypeOK, ScanInv, Listener
      <3>2. QED
        BY <2>1, <3>1
    <2>4. QED
      BY <2>2, <2>3 DEF ScanInv
  <1>7. CASE AcceptFails \/ Spawn \/ SpawnFails
    <2>1. UNCHANGED <<faults, queue, fds>> /\ pc \in {"accept", "spawn"}
          /\ pc' = "scan" /\ i' = i + 1
      BY <1>7 DEF AcceptFails, Spawn, SpawnFails, NextListener
    <2>2. QED
      BY <2>1 DEF TypeOK, ScanInv, Listener
  <1>8. ASSUME NEW c \in Client, Thread(c) PROVE ScanInv'
    <2>1. UNCHANGED <<faults, queue, pc, i, fds>>
      BY <1>8 DEF Thread, OpenDb, Greet, Leave, SendFails, KillThreadDb,
                  KillThreadSock, mainVars
    <2>2. QED
      BY <2>1 DEF ScanInv
  <1>9. CASE UNCHANGED vars
    BY <1>9 DEF ScanInv, vars, mainVars
  <1>10. QED
    BY <1>1, <1>2, <1>3, <1>4, <1>5, <1>6, <1>7, <1>8, <1>9
       DEF Next, Main, FatalError, Signal

-----------------------------------------------------------------------------
\* The inductive invariant holds throughout.
LEMMA MainloopInvariant == Spec => [](TypeOK /\ MainloopInv)
  <1>1. Init => TypeOK /\ MainloopInv
    BY InitType, InitDescriptors, InitQueues, InitScan DEF MainloopInv
  <1>2. TypeOK /\ MainloopInv /\ [Next]_vars => (TypeOK /\ MainloopInv)'
    BY NextType, NextDescriptors, NextQueues, NextScan DEF MainloopInv
  <1>3. QED
    BY <1>1, <1>2, PTL DEF Spec

\* For any number of clients, any limit on descriptors and any faults: no
\* connection uses a descriptor of another or one that has been closed.
THEOREM DescriptorsOwn == Spec => []OwnDescriptors
  <1>1. MainloopInv => OwnDescriptors
    BY DEF MainloopInv, DescriptorInv
  <1>2. QED
    BY <1>1, MainloopInvariant, PTL

\* Descriptors are lost only by pthread_create() or Send() failing.
THEOREM DescriptorsKept == Spec => []NothingLeaks
  <1>1. MainloopInv => NothingLeaks
    BY DEF MainloopInv, DescriptorInv
  <1>2. QED
    BY <1>1, MainloopInvariant, PTL

\* The loop does not block in accept() unless a connection was withdrawn.
THEOREM AcceptNeverBlocks == Spec => []AcceptReturns
  <1>1. TypeOK /\ MainloopInv => AcceptReturns
    BY MainloopAssumption DEF TypeOK, MainloopInv, ScanInv, AcceptReturns, Listener
  <1>2. QED
    BY <1>1, MainloopInvariant, PTL

=============================================================================
