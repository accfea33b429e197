------------------------------ MODULE Mainloop ------------------------------
(***************************************************************************)
(* The main loop of the server (main()), the life of the threads it        *)
(* starts (do_server(), kill_thread(), Send()) and the descriptors they    *)
(* use.  A connection takes two descriptors, its socket and the thread's   *)
(* connection to the database; the kernel hands out the lowest number that *)
(* is free.  What a thread does between its greeting and its end is in     *)
(* Session, PostReceive and Posting.                                       *)
(*                                                                         *)
(* A signal that does not end the process interrupts select(), which is    *)
(* then repeated.                                                          *)
(***************************************************************************)
EXTENDS Integers, Sequences

CONSTANTS
    Client,       \* clients, each with at most one connection at a time
    Listeners,    \* number of listening sockets: size_sockinfo_t
    MaxFd,        \* descriptors the process may have beyond the listeners
    NoOne,        \* not a client
    FaultSets     \* which faults can happen, one of these sets in a behaviour

Fault == {"withdraw",   \* a waiting connection disappears from its queue
          "stray",      \* fds, not initialised, names a closed descriptor
          "other",      \* fds, not initialised, names an open one
          "select",     \* select() fails for another reason, or calloc() does
          "signal",     \* SIGTERM, SIGINT, SIGQUIT, SIGSEGV
          "thread",     \* pthread_create() fails
          "send"}       \* send() or SSL_write() fails

ASSUME MainloopAssumption ==
    /\ Listeners \in Nat
    /\ MaxFd \in Nat
    /\ NoOne \notin Client
    /\ FaultSets \subseteq SUBSET Fault

Listener == 1..Listeners
Fd == 1..MaxFd

VARIABLES
    faults,
    \* kernel
    queue,      \* connections waiting at a listener
    open,       \* descriptors in use
    \* main()
    pc,         \* "select", "scan", "accept", "spawn" or "exit"
    i,          \* the loop over sockinfo[]
    fds,        \* what select() has announced, at first what was on the stack
    cur,        \* whose connection has just been accepted
    \* threads, by client
    st,         \* "away", "waiting", "accepted", "start", "greet", "serve", "close"
    sock,       \* descriptor of the socket, 0 for none
    db          \* descriptor of the database connection, 0 for none

mainVars == <<pc, i, fds, cur>>
threadVars == <<st, sock, db>>
vars == <<faults, queue, open, mainVars, threadVars>>

\* What the bits left in fds may name below the listeners: a descriptor that
\* is not open, and one that is but belongs to no listener, such as 0, the
\* configuration file, which is never closed.
Stray == 0
Other == -1

Init ==
    /\ faults \in FaultSets
    /\ queue = [l \in Listener |-> <<>>]
    /\ open = {}
    /\ pc = "select" /\ i = 1 /\ cur = NoOne
    /\ fds \in SUBSET {Stray, Other}
    /\ Stray \in fds => "stray" \in faults
    /\ Other \in fds => "other" \in faults
    /\ st = [c \in Client |-> "away"]
    /\ sock = [c \in Client |-> 0]
    /\ db = [c \in Client |-> 0]

\* The types of the state.
TypeOK ==
    /\ faults \in FaultSets
    /\ queue \in [Listener -> Seq(Client)]
    /\ open \subseteq Fd
    /\ pc \in {"select", "scan", "accept", "spawn", "exit"}
    /\ i \in 1..(Listeners + 1)
    /\ pc = "accept" => i \in Listener
    /\ fds \subseteq Listener \cup {Stray, Other}
    /\ Other \in fds => "other" \in faults
    /\ pc # "select" => Stray \notin fds
    /\ cur \in Client \cup {NoOne}
    /\ pc = "spawn" => cur \in Client /\ i \in Listener
    /\ st \in [Client -> {"away", "waiting", "accepted", "start", "greet", "serve", "close"}]
    /\ sock \in [Client -> Fd \cup {0}]
    /\ db \in [Client -> Fd \cup {0}]

Running == pc # "exit"

-----------------------------------------------------------------------------
(* Clients and the kernel.                                                 *)

Arrive(c, l) ==
    /\ Running /\ st[c] = "away"
    /\ queue' = [queue EXCEPT ![l] = Append(queue[l], c)]
    /\ st' = [st EXCEPT ![c] = "waiting"]
    /\ UNCHANGED <<faults, open, mainVars, sock, db>>

\* q without its k-th element
Without(q, k) == [n \in 1..(Len(q) - 1) |-> IF n < k THEN q[n] ELSE q[n + 1]]

Withdraw(l, k) ==
    /\ "withdraw" \in faults
    /\ Running /\ k \in 1..Len(queue[l])
    /\ queue' = [queue EXCEPT ![l] = Without(queue[l], k)]
    /\ st' = [st EXCEPT ![queue[l][k]] = "away"]
    /\ UNCHANGED <<faults, open, mainVars, sock, db>>

\* The lowest descriptor that is free.
Lowest(fd) == fd \in Fd \ open /\ \A e \in Fd \ open : fd <= e

-----------------------------------------------------------------------------
(* main()                                                                  *)

\* exit(): the kernel closes everything.
ProcessEnds ==
    /\ pc' = "exit"
    /\ open' = {} /\ fds' = {} /\ i' = 1 /\ cur' = NoOne
    /\ queue' = [l \in Listener |-> <<>>]
    /\ st' = [c \in Client |-> "away"]
    /\ sock' = [c \in Client |-> 0] /\ db' = [c \in Client |-> 0]
    /\ UNCHANGED faults

\* signal_action_handler()
Signal == Running /\ "signal" \in faults /\ ProcessEnds

\* sig_handler(): select() or calloc() fails.  fds is never cleared, only
\* filled with FD_SET(), so the first select() may be asked about a descriptor
\* that is not open.  A thread whose connection to SQLite or PostgreSQL fails
\* closes the handle twice, which the process may not survive.
FatalError ==
    \/ pc = "select" /\ (Stray \in fds \/ "select" \in faults) /\ ProcessEnds
    \/ pc = "spawn" /\ "select" \in faults /\ ProcessEnds
    \/ open = Fd /\ (\E c \in Client : st[c] = "start") /\ ProcessEnds

Waiting == {l \in Listener : queue[l] # <<>>}

\* select() has no timeout; its result replaces fds.  It asks about what fds
\* still names besides the listeners, too: a file is always ready, and then
\* the loop never sleeps; a terminal or a pipe may be.
Select ==
    /\ pc = "select"
    /\ Stray \notin fds
    /\ \E ready \in SUBSET (fds \cap {Other}) :
          /\ Waiting \cup ready # {}
          /\ fds' = Waiting \cup ready
    /\ i' = 1
    /\ pc' = "scan"
    /\ UNCHANGED <<faults, queue, open, cur, threadVars>>

\* Mutant: FD_ISSET() is left out.
AnnouncedAll(l) == TRUE

\* FD_ISSET()
Announced(l) == l \in fds

\* Mutant: i <= size_sockinfo_t.
InLoopBeyond == i <= Listeners + 1

\* for (i = 0; i < size_sockinfo_t; i++)
InLoop == i <= Listeners

Scan ==
    /\ pc = "scan"
    /\ \/ ~InLoop /\ pc' = "select" /\ i' = i
       \/ InLoop /\ ~Announced(i) /\ i' = i + 1 /\ pc' = pc
       \/ InLoop /\ Announced(i) /\ pc' = "accept" /\ i' = i
    /\ UNCHANGED <<faults, queue, open, fds, cur, threadVars>>

\* Mutant: after a connection the loop starts over with select().
NextListenerSelect == pc' = "select" /\ i' = i

NextListener == pc' = "scan" /\ i' = i + 1

\* accept() on a blocking socket waits for a connection.
Accept ==
    /\ pc = "accept"
    /\ queue[i] # <<>>
    /\ \E fd \in Fd :
          /\ Lowest(fd)
          /\ open' = open \cup {fd}
          /\ cur' = Head(queue[i])
          /\ sock' = [sock EXCEPT ![cur'] = fd]
          /\ st' = [st EXCEPT ![cur'] = "accepted"]
    /\ queue' = [queue EXCEPT ![i] = Tail(queue[i])]
    /\ pc' = "spawn"
    /\ UNCHANGED <<faults, i, fds, db>>

\* No descriptor is left: accept() fails, and the connection keeps waiting.
AcceptFails ==
    /\ pc = "accept"
    /\ queue[i] # <<>>
    /\ open = Fd
    /\ NextListener
    /\ UNCHANGED <<faults, queue, open, fds, cur, threadVars>>

\* Mutant: the loop closes the socket it has handed to the thread.
SpawnCloses ==
    /\ pc = "spawn"
    /\ st' = [st EXCEPT ![cur] = "start"]
    /\ open' = open \ {sock[cur]}
    /\ NextListener
    /\ cur' = NoOne
    /\ UNCHANGED <<faults, queue, fds, sock, db>>

Spawn ==
    /\ pc = "spawn"
    /\ st' = [st EXCEPT ![cur] = "start"]
    /\ NextListener
    /\ cur' = NoOne
    /\ UNCHANGED <<faults, queue, open, fds, sock, db>>

\* sockinf is freed, and with it all that knows of the socket, which is open.
SpawnFails ==
    /\ pc = "spawn"
    /\ "thread" \in faults
    /\ st' = [st EXCEPT ![cur] = "away"]
    /\ sock' = [sock EXCEPT ![cur] = 0]
    /\ NextListener
    /\ cur' = NoOne
    /\ UNCHANGED <<faults, queue, open, fds, db>>

-----------------------------------------------------------------------------
(* A thread                                                                *)

\* db_open_connection(); the thread is killed when there is no descriptor.
OpenDb(c) ==
    /\ st[c] = "start"
    /\ \/ \E fd \in Fd :
             /\ Lowest(fd)
             /\ open' = open \cup {fd}
             /\ db' = [db EXCEPT ![c] = fd]
             /\ st' = [st EXCEPT ![c] = "greet"]
       \/ /\ open = Fd
          /\ st' = [st EXCEPT ![c] = "close"]
          /\ UNCHANGED <<open, db>>
    /\ UNCHANGED <<faults, queue, mainVars, sock>>

\* The handshake of TLS, which may fail, and the greeting.
Greet(c) ==
    /\ st[c] = "greet"
    /\ st' \in {[st EXCEPT ![c] = "serve"], [st EXCEPT ![c] = "close"]}
    /\ UNCHANGED <<faults, queue, open, mainVars, sock, db>>

\* QUIT, a client that has gone, a line that is too long, a failing command.
Leave(c) ==
    /\ st[c] = "serve"
    /\ st' = [st EXCEPT ![c] = "close"]
    /\ UNCHANGED <<faults, queue, open, mainVars, sock, db>>

\* Send() ends the thread by itself and leaves everything open.
SendFails(c) ==
    /\ "send" \in faults
    /\ st[c] \in {"greet", "serve"}
    /\ st' = [st EXCEPT ![c] = "away"]
    /\ sock' = [sock EXCEPT ![c] = 0] /\ db' = [db EXCEPT ![c] = 0]
    /\ UNCHANGED <<faults, queue, open, mainVars>>

\* Mutant: the connection to the database is not closed.
KillThreadDbKeeps(c) ==
    /\ st[c] = "close" /\ db[c] # 0
    /\ db' = [db EXCEPT ![c] = 0]
    /\ UNCHANGED <<faults, queue, open, mainVars, st, sock>>

\* kill_thread(), first the database ...
KillThreadDb(c) ==
    /\ st[c] = "close" /\ db[c] # 0
    /\ open' = open \ {db[c]}
    /\ db' = [db EXCEPT ![c] = 0]
    /\ UNCHANGED <<faults, queue, mainVars, st, sock>>

\* ... then the socket.
KillThreadSock(c) ==
    /\ st[c] = "close" /\ db[c] = 0
    /\ open' = open \ {sock[c]}
    /\ sock' = [sock EXCEPT ![c] = 0]
    /\ st' = [st EXCEPT ![c] = "away"]
    /\ UNCHANGED <<faults, queue, mainVars, db>>

Main == Select \/ Scan \/ Accept \/ AcceptFails \/ Spawn

Thread(c) ==
    OpenDb(c) \/ Greet(c) \/ Leave(c) \/ SendFails(c) \/ KillThreadDb(c) \/ KillThreadSock(c)

Next ==
    \/ \E c \in Client, l \in Listener : Arrive(c, l)
    \/ \E l \in Listener : \E k \in 1..Len(queue[l]) : Withdraw(l, k)
    \/ Main \/ SpawnFails \/ FatalError \/ Signal
    \/ \E c \in Client : Thread(c)

\* The main thread is scheduled.  Nothing is assumed of clients and threads.
Spec == Init /\ [][Next]_vars /\ WF_vars(Main \/ SpawnFails)

-----------------------------------------------------------------------------
(* Properties.                                                             *)

HasSock == {"accepted", "start", "greet", "serve", "close"}

\* The connections whose thread, or the loop, still uses a descriptor.
Live == {c \in Client : st[c] \in HasSock}

\* No two connections use the same descriptor, none uses one that has been
\* closed, and a socket is never a database connection of another thread: a
\* number is closed only by its owner and only once (kill_thread()).
OwnDescriptors ==
    /\ \A c \in Live : sock[c] \in open /\ db[c] \in open \cup {0} /\ sock[c] # db[c]
    /\ \A c, d \in Live : c # d =>
          /\ sock[c] # sock[d] /\ sock[c] # db[d]
          /\ db[c] = db[d] => db[c] = 0

\* Descriptors are lost only when a thread cannot be created or a send fails:
\* without these faults every open one has its owner.
NothingLeaks ==
    faults \cap {"thread", "send"} = {} =>
        \A fd \in open : \E c \in Live : fd \in {sock[c], db[c]}

\* The loop calls accept() only where a connection waits, unless one may be
\* withdrawn between select() and accept(): then it blocks, and with it all
\* the other listeners.
AcceptReturns ==
    pc = "accept" /\ "withdraw" \notin faults => queue[i] # <<>>

\* Every client that waits at a listener is accepted, however busy the other
\* listeners are and whatever open descriptor fds names besides them, as long as
\* connections are not withdrawn, descriptors are not lost, there are enough of
\* them for all clients and the first select() does not fail.
Accepted ==
    \A c \in Client :
        (st[c] = "waiting" /\ faults \cap {"withdraw", "stray", "thread", "send"} = {})
            ~> st[c] # "waiting"

-----------------------------------------------------------------------------
(* What makes the properties inductive.                                    *)

\* Only live connections have descriptors, and the loop has one of them at
\* most: the one it has just accepted.
DescriptorInv ==
    /\ OwnDescriptors /\ NothingLeaks
    /\ \A c \in Client :
          /\ c \notin Live => sock[c] = 0 /\ db[c] = 0
          /\ st[c] \in {"accepted", "start"} => db[c] = 0
          /\ st[c] = "accepted" => pc = "spawn" /\ cur = c
    /\ pc = "spawn" => st[cur] = "accepted"

\* A connection is in one queue, once, and has no thread.
QueueInv ==
    /\ \A l \in Listener : \A k \in 1..Len(queue[l]) : st[queue[l][k]] = "waiting"
    /\ \A l, m \in Listener :
          \A k \in 1..Len(queue[l]), n \in 1..Len(queue[m]) :
             queue[l][k] = queue[m][n] => l = m /\ k = n

\* The listeners select() announced and the loop has not come to yet: there a
\* connection still waits.
ScanInv ==
    /\ pc = "accept" => i \in fds
    /\ pc \in {"scan", "accept", "spawn"} /\ "withdraw" \notin faults =>
          \A l \in fds \cap Listener : l > i \/ (l = i /\ pc # "spawn") => queue[l] # <<>>

MainloopInv == DescriptorInv /\ QueueInv /\ ScanInv
=============================================================================
