# WendzelNNTPd in TLA+

Models of the Usenet server WendzelNNTPd and of its administration tool
wendzelnntpadm, checked with TLC on small instances and, where stated, proved
with TLAPS for every instance. Everything is translated from the C, yacc and SQL
sources. POST and the tool are modelled on SQLite, MySQL and PostgreSQL, the
reading commands on SQLite, the default.

`PROJECT.json` lists components, runs, mutants, findings, hazards and theorems,
and maps each definition to the lines it stands for.

## 1. The system

| Part | State it keeps | Operations | Interacts with |
|---|---|---|---|
| Configuration (`config.y`, `config.l`, `libssl.c`) | global settings, connectors, TLS contexts | one parser action per directive, checks at the end of the file | read by server and tool, in two parser modes |
| Main loop (`main.c`, `globals.c`) | listening sockets, descriptors of the process | select, accept, one thread per connection; signal handlers | starts sessions, ends the process |
| Session (`server.c`, `acl.c`) | `serverinfo_t` and `sockinfo_t` of one connection: user, group, article, flags, TLS | command loop, AUTHINFO, STARTTLS, reading commands | reads the database, each query on its own |
| Receiving (`server.c`) | the buffer of `docmd_post()` | select, receive, search for the end, split | reads the connection, plain or TLS; hands the article to POST |
| POST (`server.c`, `database.c`) | locals of `docmd_post()` | number, body, rows, high values | writes files and database, shared by all threads without a lock |
| charstack (`charstack.c`) | groups already posted to | push, search | used by POST |
| Database (`db_sqlite3.c`; `db_mysql.c`, `db_postgres.c`) | newsgroups, postings, ngposts, users, roles, three association tables | one autocommitted statement per call | server threads and the tool, concurrently |
| Administration tool (`cdpnntpadm.c`) | one command per run | checks of existence, then statements | the same database |

What is hard here:

* **No lock anywhere.** A POST is some ten accesses to a counter file, a spool
  directory and four tables; any other thread or the tool may act between two
  of them.
* **No transaction anywhere.** A thread that dies, a statement that fails or a
  process that is killed leaves what has been done so far.
* **State that outlives its command.** `found_article`, `speccmd`,
  `cur_auth_user`, the selected group and article are set by one command and
  used by another.
* **Checks that come before their use.** Existence in the tool, access in the
  server, settings in the parser.
* **What arrives, arrives in pieces.** The end of an article may be split over
  any number of reads, and what select() announced may be gone.
* **Descriptors.** Threads open and close them on several paths, and the kernel
  gives the lowest free number to whoever asks next.

What makes each part correct: POST keeps what it acknowledges, under unique
names and numbers, only where it is allowed; a session acts for the user who was
authenticated, over TLS where demanded, on the group it selected, and answers
each command once; an article is received whole or not at all; the main loop
serves every listener and gives each thread descriptors of its own; the tool
leaves no association to what does not exist, and none to be inherited; a
configuration the server accepts is usable, and the tool understands it in the
same way. Not all of this is true of the code: section 3 lists what TLC refutes
and what else is known (the tool, for instance, has no default for the port of
the database).
`PROJECT.json` lists the single hazards.

## 2. Modules

| Module | Models | Proofs |
|---|---|---|
| `ArticleStore` | what POST promises: a store of articles, entries and acknowledgements that only grows | |
| `Posting` (uses `Charstack`, refines `ArticleStore`) | POST by any number of threads on three engines, and newsgroup commands of the tool on the same tables | `PostingProofs`, `PostingStoreProofs`, `PostingKeysProofs` |
| `Charstack` | the duplicate check of a Newsgroups line | |
| `PostReceive` | how `docmd_post()` receives and splits an article; Posting goes on where it ends | `PostReceiveProofs` |
| `Mainloop` | `main()`, the life of threads, descriptors, signals; what a thread does meanwhile is in the other modules | `MainloopProofs` |
| `Session` | one connection: command loop, conditions, reading commands; the rest of the world changes the database | `SessionProofs` |
| `Admin` | the tool on users, roles, newsgroups and access control lists, on three engines | `AdminProofs` |
| `Config` | the configuration file, for server and tool, up to the main loop | `ConfigProofs` |
| `MCPosting`, `MCPostReceive`, `MCMainloop`, `MCSession`, `MCAdmin`, `MCConfig` | values of constants for TLC | |

### Posting

A step is one SQL statement or one file access. `pc[t]` names the next one in
`docmd_post()`:

    Post                  command received, header parsed
    ChkExistence          every group of the line exists      } docmd_post_chk_
    ChkPostingAllowed     and may be posted to                } ng_name_correctness()
    UniqOpen / UniqCreate / UniqWrite      get_uniqnum(): read, create, write back
      or NextVal                           db_get_uniqnum(): the sequence
    SaveBodyUnlink / SaveBodyWrite         filebackend_savebody()
      or StoreMessageBody                  db_store_message_body()
    InsertIntoPostings    primary key msgid
    for each group: AclCheck, GetHighValue, InsertIntoNgposts, UpdateHighValue

`conf` is the engine with message-body-in-db and message-count-in-db. These two
are for PostgreSQL; config.y checks the engine that stands before them in the
file, which a later directive may replace, and then the first POST ends the
process (`ServerEnds`). MySQL and PostgreSQL have foreign keys with cascades
(`ForeignKeys`, `MayRefer`, `DelNewsgroupRow`), SQLite has not; delgroup is five
statements on SQLite and MySQL and one on PostgreSQL. A result that PostgreSQL's
ACL check clears twice lets the process go on or end.

`StatementFails` ends the thread as `pthread_exit()` in the back end does.
`Crash` ends the process and with it all threads; files and tables stay. A read
of `cur_high` where the group's row has gone is a free choice, as the variable
is uninitialised. With the fault "file" the nextmsgid file cannot be opened,
created or written, which ends the POST, except that an error at `fclose()` goes
unnoticed; a file that was created stays, empty. With "save" a body file cannot
be written, which the code ignores. Message-IDs are pairs of number and host; `HostOf` says
which connections share a host (all of them with `enable-anonym-mids`). Articles
are named by connection and count, so that it can be said whose row or body it is.
`UseTool` says whether the tool is used; if it is, `conf.beside` says whether at
any time or only while nobody posts (`Quiesced`).

`ArticleStore` has three steps: an article is stored under a new Message-ID, it
is entered in a group its author may write to, it is acknowledged when it is in
every group but those refused. `ImplementsStore` maps the rows of `postings` and
`ngposts` and the 240 answers to it; files, numbers, threads and faults are
stutters.

Bound, beside the sets: `MaxPosts`, `MaxAdmin`. `HighLimit` stands for
`0x7ffffffe`, small enough to be reached.

### PostReceive

Bytes are carriage return, line feed, dot and any other; an article has no zero
bytes, which `strstr()` would stop at. `sent` is what the client has sent, `recv`
the length of the text in the buffer (a prefix of it) and `held` what OpenSSL has
read in a record and not yet handed out. One step is one turn of the loop:
`TooBig`, `ReceivePlain`, `ReceiveTls` or `ReceiveFails`, then `Split` and
`ChkRequiredHdrLines`. Reads return any number of the bytes that are there. A
client is `polite` if it sends nothing behind the end of its article before the
answer. `conf.max` is `max_post_size`. Bound: `MaxSent`.

### Mainloop

`pc` and `i` are the position of `main()` in its loop, `fds` the set select() is
given and returns, `queue` the connections that wait at a listener. `fds` is
never cleared, so it may start with the bit of a descriptor that is closed
(`Stray`: select() fails) or that is open but no listener (`Other`, such as 0,
the configuration file: select() returns at once, always). A connection
has two descriptors, its socket and the thread's database connection; `open` is
what the kernel regards as open, `sock` and `db` what a thread believes. The
kernel hands out the lowest free number. `kill_thread()` closes the database and
then the socket; `SendFails` ends a thread without either, `SpawnFails` forgets
an accepted socket. `faults` is chosen at the start of a behaviour, so that a
property can say which faults it does not survive. Bounds: the sets and `MaxFd`.

### Session

The state is that of `serverinfo_t` and `sockinfo_t`. A command that executes
one query is one step. GROUP and LISTGROUP have a step per query (`pc` in
`CmdPc`), so that ACLs and groups change in between. `conf.ops` names what else
happens to the database and whether the stack of a new thread is dirty, which
matters for `inf.speccmd`. A range is any pair of numbers. Observers: `verified`,
`selTls`, `served`, `render`; no guard reads
them. The articles of a group have the numbers `1..high[g]`; that there are no
holes is `NumbersDense` of Posting. Bound: `MaxNum`.

### Admin

A run of the tool is `check` (one SELECT per argument), then `exec` (statement
`k` of its command). The statements are data: for each engine a list per
command, with the keys and cascades its schema declares (`Refused`, `Cascades`).
Newsgroup names are not a key in the SQLite and MySQL schemas, so the model
counts rows. `Exits` ends a run anywhere. `MayOverlap` are the engines on which
two runs may be under way. Bound: `MaxOps`.

### Config

One step per directive, executed in the order of the file, as the yacc actions
are. `env` holds for both parser modes what both keep, `cfg`, `conn` and
`listeners` what only the server keeps. Files of an instance are made of the
directives in `Offered`, in any order and number; there is no bound but
`MaxListeners`. OpenSSL and the socket interface succeed or fail, and a context
may have no store for revocation lists; a file is missing, readable or not.
Ports keep their 16 bits.

## 3. Runs

Passing runs (properties in brackets):

* `PostConcurrent` [AckedStored, AclRespected, AckedDelivered, BodyInDbOwn,
  SequenceKeyFree, NgpostsKeyFree, NumbersDense, BodyNotForeign,
  ImplementsStore]: two threads with all combinations of grants, lines that
  repeat groups, seven configurations of the database, crashes, failing
  statements, counter and body files that cannot be written.
* `PostTool` [TypeOK, RefsInOrder, KeysHold, PostTerminates]: two threads with
  cross-postings, and the tool, which may be interrupted, beside them on each
  engine and in between on SQLite; all combinations of grants; under fairness.
* `PostReceive` [TypeOK, WholeArticle, BodyTerminated, TooBigJustified,
  ReceiveEnds]: all texts of up to eight bytes in all pieces, plain and TLS,
  polite and not, with room for seven bytes or for none, under fairness.
* `Mainloop` [TypeOK, OwnDescriptors, NothingLeaks, AcceptReturns, Accepted]: two
  clients, two listeners, four descriptors; no faults, a bit of an open
  descriptor in `fds`, the faults that end the process, those that lose
  connections or descriptors; under fairness.
* `Session` [AuthIdentity, AclHasUser, TlsGate, TlsClean, PointerInGroup,
  OneReply]: all configurations with two accounts and one group, deleted and
  granted during commands (`SmallGates` keeps these small), and two open
  configurations with two groups to which articles come. Deadlock is checked: a
  client can always go on. PointerInGroup and OneReply speak of the latter,
  where no group is deleted.
* `AdmSerial` [AclIntegrity, OneRow, NoInheritedAccess]: seven
  interruptible runs per engine, overlapping on MySQL and PostgreSQL.
* `ConfFile` [TypeOK, ServesUsable, VersionsOrdered]: all files of two families
  (`OneFamily`): the directives outside of connectors with up to two connectors
  without TLS, or one connector made of any of its directives. The two hardly
  interact, and their product is too large.

Posting, PostReceive and Admin end when their bounds are used up, and a server
that has exited does nothing, so deadlock is not checked there. In Mainloop the
process may exit, and with "withdraw" the loop may block for good.

Are the bounds enough? Two threads suffice for each race on a file or a value
that is read and written back, and in PostConcurrent each POST can damage the
other's acknowledged article. Three names per line are what the charstack
handles, the fourth is where it fails (`PostCharstack`). Limits of 1 or 2 are
reached. Seven bytes are the shortest article with an empty line, so that there
are articles that just fit and ones that do not, and the five bytes of the mark
are split at every place. Four descriptors are what two clients need; with lost
ones accept() and the opening of the database fail. Two names and two passwords
let a session change its user. Seven runs of the tool create, link, half delete
and recreate an entity of each kind. The theorems below do not depend on bounds.
The type invariants of Session and Admin are proved and not run.

Runs in which TLC finds what a document or a comment excludes; each is a finding
in `PROJECT.json`:

| Run | Property violated | What happens |
|---|---|---|
| `PostUniqNum` | UniqNum | two POSTs with one "unique" number |
| `PostNumbers` | NumbersUnique | two threads read one high value, two articles get one number |
| `PostCharstack` | NgpostsKeyFree | `a,b,c,b` reaches the primary key |
| `SessInvisible` | InvisibleGroups | LISTGROUP selects before it checks |
| `SessXhdr` | XhdrConverts | date conversion survives its command |

What else the code does, seen while modelling it, that a comment or a document
says otherwise; the models contain it unless stated, and the notes of the hazards
in `PROJECT.json` give the lines:

* A server killed between the INSERT of an entry and the UPDATE of the high value
  gives the number again, as the race of `PostNumbers` does.
* A nextmsgid file that was created and not written, because of a crash or a
  failing write, ends every later POST.
* On PostgreSQL delgroup leaves the articles that were in no other group.
* LISTGROUP makes the last article current, or none, and not the first.
* The name of AUTHINFO USER survives the switch to TLS.
* A text with bytes behind its end mark in one read is not cut there.
* A connector with TLS and without certificate is served; message-body-in-db
  stays in force when a later directive changes the engine.
* Without database-port the tool takes port 0 for PostgreSQL. Ports above 32767
  are negative in the back ends (not modelled).
* With TLS, an article that is too big leaves the thread waiting, because select()
  does not see what OpenSSL holds.

Where a passing property holds only under a condition, the condition is part of
the instance or of the property: RefsInOrder speaks of a tool that is used while
nobody posts (beside a POST, entries dangle on SQLite), AdmSerial lets runs of
the tool overlap on MySQL and PostgreSQL only (`MayOverlap`; on SQLite
associations to nothing appear).

Fairness:

* Posting: weak fairness of `PostStep(t)` for each thread. A thread between two
  accesses is runnable; it waits for nobody, as there are no locks, and the
  operating system schedules runnable threads.
* PostReceive: weak fairness of `Progress` and `Split`. select() returns at the
  latest after a second and reports what is readable, and the thread is
  runnable. Failing reads are not fair, but the end of the stream is.
* Mainloop: weak fairness of the main thread, which is runnable whenever select()
  or accept() can return. Nothing is assumed of clients and threads: a thread
  may keep its connection for ever.

No fairness is assumed of clients, of the tool or of faults.

Each property of a passing run has a mutant: an operator in the same module,
marked as such, that changes one definition as a plausible slip in the code
would, and under which the run fails.

## 4. Proofs

| Theorem | States | Assumes | Inductive invariant |
|---|---|---|---|
| `TypeCorrect` | `[]TypeOK` of Posting | | TypeOK |
| `ReferentialIntegrity` | `[]RefsInOrder` | | TypeOK, `RefInv` if `Quiesced` |
| `AcknowledgedStored` | `[]AckedStored` | tool not used | `AckInv` |
| `AcknowledgedArticles` | `[]AckedDelivered` | tool not used | `AckInv` |
| `EntriesGranted` | `[]AclRespected` | tool not used | `AckInv` |
| `NumbersWithoutHoles` | `[]NumbersDense` | tool not used | TypeOK, `RefInv`, `AckInv`, `DenseInv` |
| `KeyFreeOnSeenLines` | `[]NgpostsKeyFree` | every line is `SeenThrough`; tool not used while somebody posts | TypeOK, `RefInv`, `KeyInv` |
| `ForeignKeysHold` | `[]KeysHold` | | KeysHold |
| `SequenceNumbers` | `[]SequenceKeyFree` | | TypeOK, `SeqInv` |
| `BodiesOwn` | `[]BodyInDbOwn` | | TypeOK, `BodyInv` |
| `BodiesNotForeign` | `[]BodyNotForeign` | | TypeOK, `SeqInv`, `ForeignInv` |
| `BodiesWithSequence` | `[]RowHasBody` | message-count-in-db; body files can be written | TypeOK, `SeqInv`, `SaveInv` |
| `StoreImplemented` | `ImplementsStore` | tool not used | TypeOK, `RefInv`, `AckInv`, `SkipInv` |
| `ReceiveTypeCorrect` | `[]TypeOK` of PostReceive | | TypeOK |
| `ReceivedWhole` | `[]WholeArticle` | | `ReceiveInv` |
| `BodiesTerminated` | `[]BodyTerminated` | | `ReceiveInv` |
| `FittingArticles` | `[]TooBigJustified` | | `ReceiveInv` |
| `MainloopTypeCorrect` | `[]TypeOK` of Mainloop | | TypeOK |
| `DescriptorsOwn` | `[]OwnDescriptors` | | `MainloopInv` |
| `DescriptorsKept` | `[]NothingLeaks` | | `MainloopInv` |
| `AcceptNeverBlocks` | `[]AcceptReturns` | | `MainloopInv` |
| `SessionTypeCorrect` | `[]TypeOK` of Session | | TypeOK |
| `AccessByVerifiedName` | `[]AuthIdentity` | | `SessionInv` |
| `AclAskedWithName` | `[]AclHasUser` | | `SessionInv` |
| `NothingInTheClear` | `[]TlsGate` | | `SessionInv` |
| `CleanSwitch` | `[]TlsClean` | | `SessionInv` |
| `OneStatusLine` | `[]OneReply` | | TypeOK, `ReplyInv` |
| `PointerFollowsGroup` | `[]PointerInGroup` | | TypeOK, `PointerInv` |
| `AdminTypeCorrect` | `[]TypeOK` of Admin | | TypeOK |
| `AdminIntegrity` | `[]AclIntegrity` | runs overlap only on MySQL and PostgreSQL | `AdminInv` |
| `OneRowPerGroup` | `[]OneRow` | runs overlap only on MySQL and PostgreSQL | `AdminInv` |
| `FreshNames` | `NoInheritedAccess` | runs overlap only on MySQL and PostgreSQL | `AdminInv` |
| `ConfigTypeCorrect` | `[]TypeOK` of Config | | `ConfigInv` |
| `TlsVersionsOrdered` | `[]VersionsOrdered` | | `ConfigInv` |
| `ServerUsable` | `[]ServesUsable` | | `ConfigInv` |

Assumptions on constants are the named ASSUMEs of the modules.

Two assumptions of the theorems on Posting are about use: the tool is not used
(`~UseTool`), or only while nobody posts (`Quiesced`, or `~c.beside` for all
configurations). That body files can be written, in
`BodiesWithSequence`, is needed because the code ignores the failure;
`BodiesNotForeign` says what is left without it. No theorem says that numbers of
articles or of the nextmsgid file are unique: they are not (`PostNumbers`,
`PostUniqNum`).

* `RefInv`: an entry is inserted long after its group was checked, so the
  invariant carries the check along: the groups of a line up to where the thread
  has come exist; once in the loop, the article's row exists; delgroup has
  emptied the group before it deletes it, and no thread posts meanwhile.
* `AckInv`: Message-IDs collide, but `postings` has a primary key. The thread
  whose INSERT succeeded owns the row, and everything it does in the loop is
  under that row; `Progress(t)` says what it has achieved up to group `k`, and
  that whatever is on the charstack has been posted to, so that a group is left
  out only if the article is already there.
* `DenseInv`: what a thread has read as the high value was covered by entries when
  it was read, and entries stay; so the value it writes, one more, is covered by
  its own entry, also when it takes the high value back. `RefInv` says that the
  group has its row when the high value is read, `AckInv` that the tool is idle.
* `KeyInv`: `Turn(t)` says which groups of its line a thread has posted to, and
  that its stack begins with the line's first group and has the latest one
  where charstack.c still looks. `SeenThrough` is the condition on a line for
  that to suffice: a group named again is the first one, or nothing but it and
  the first one came in between. `PostCharstack` shows a line that fails it.
* `SeqInv`: a number in use was drawn from the sequence, by one thread, and is at
  most the last one drawn; so the next is new. Failures and crashes give no
  number back.
* `ForeignInv`, `SaveInv`: a number is drawn after every body under a smaller one
  was written, so a body under the Message-ID of a POST in progress is its own,
  and the file of a body is written by its own POST only.
* `BodyInv`: the row of `body` precedes the row of `postings`, for the same article,
  and its key keeps a second thread with the same number away from both.
* `StoreImplemented` needs all of it: that the INSERT into `postings` is for a
  new key, that an entry belongs to the article of the same author (`Progress`),
  that a group is skipped only for want of a grant (`SkipInv`), and that nothing
  is deleted.
* `ReceiveInv`: as long as the loop goes on, the text received does not end with
  the mark. Since a polite client sends nothing behind it, the first read that
  reaches it ends there, and five bytes from the end is far enough to look back.
  OpenSSL holds bytes only when the buffer is full.
* `DescriptorInv`: a thread's numbers are open and its own. It rests on the order
  in `kill_thread()` and on the main loop forgetting a socket once it has handed
  it over. `QueueInv` and `ScanInv`: what select() announced still waits when
  the loop comes to it, because only the loop takes connections from a queue.
* `SessionInv`: conditions are evaluated when a command is read, and have to
  hold at its later queries.
* `ReplyInv`: GROUP answers nothing for a group without a row, so it has to be
  known that the group it asked for still exists at its last query.
* `PointerInv`: LISTGROUP sets group and article in two steps and is not left in
  between; high values do not fall.
* `AdminInv`: `JobInv` and `CheckInv` say what a run has already established at
  statement `k`. With two runs at a time on SQLite this is what breaks; on the
  others the foreign keys take its place.
* `ConfigInv`: adds what is known of a connector that is still being read and of
  a server that has read its file but not yet opened its database.

Only model-checked: `PostTerminates`, `ReceiveEnds` and `Accepted`, which are
liveness under fairness. What recursive definitions compute for all
inputs, liveness and ENABLED are out of reach of the prover. All other properties
of the passing runs are stated by a theorem.

## 5. Not modelled

* The reading commands on MySQL and PostgreSQL, whose queries differ from those
  of SQLite in how results are fetched, and their part of `db_abstraction.c`.
* The text of a range (XOVER, XHDR): Session takes any pair of numbers.
* The regular expressions on header lines, the lines POST adds to a header, the
  wording of answers, logging, string helpers, hashing (passwords are compared as
  values), Windows code.
* What OpenSSL, the socket interface and the database libraries do inside.

## 6. Plan

Done, in the order of importance: Posting with its refinement, Session, Admin,
Config, the engines, PostReceive and Mainloop, with their runs and theorems.
What is left:

1. The range parser as an operator on character classes, against a reference
   definition, for the TLC runs only.
2. Composition of Session with Posting's tables in place of the numbers
   `1..high`, so that duplicate numbers and numbers above the high value reach
   the reading commands.
3. `SeenThrough` as the exact condition: the proof shows that it suffices, TLC
   only that the lines of `PostCharstack` fail without it.
