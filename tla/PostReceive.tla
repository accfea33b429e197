---------------------------- MODULE PostReceive ----------------------------
(***************************************************************************)
(* How docmd_post() receives an article and splits it: the loop around     *)
(* select() and Receive() with its size limit and the search for the end   *)
(* of the article, the search for the end of the header, and the check of  *)
(* the required lines.  Posting goes on where this module ends.            *)
(*                                                                         *)
(* Bytes are carriage return, line feed, dot, and any other ("x"; no zero  *)
(* bytes).  What has been sent and not yet received is on the wire or,     *)
(* with TLS, in a record OpenSSL has read and not yet handed out, which    *)
(* select() does not see.  A timeout or a signal only repeats select().    *)
(***************************************************************************)
EXTENDS Naturals, Sequences, FiniteSets

CONSTANTS
    Confs,      \* [max : max_post_size, tls : TLS is active,
                \*  polite : the client sends nothing behind its article]
    Chunk,      \* what a client may send in one go
    MaxSent     \* bound: bytes sent

cr == "cr"
lf == "lf"

Byte == {"cr", "lf", "dot", "x"}

ASSUME ReceiveAssumption ==
    /\ Confs \subseteq [max : Nat \ {0}, tls : BOOLEAN, polite : BOOLEAN]
    /\ Chunk \subseteq Seq(Byte) \ {<<>>}
    /\ MaxSent \in Nat

VARIABLES
    conf,
    sent,       \* bytes the client has sent
    closed,     \* the client has shut the connection down
    recv,       \* length of the text in buf, a prefix of sent
    held,       \* bytes inside OpenSSL
    pc,         \* "recv", "split", "check", "ended" or "killed"
    header,     \* length of header
    answer      \* "none", "too_big", "441", or "go": the article is posted

vars == <<conf, sent, closed, recv, held, pc, header, answer>>

Init ==
    /\ conf \in Confs
    /\ sent = <<>> /\ closed = FALSE
    /\ recv = 0 /\ held = 0
    /\ pc = "recv" /\ header = 0 /\ answer = "none"

\* The state is well typed, and the buffer of max_post_size bytes always has
\* room for the zero that ends the text in it.
TypeOK ==
    /\ conf \in Confs
    /\ sent \in Seq(Byte) /\ Len(sent) <= MaxSent
    /\ closed \in BOOLEAN
    /\ recv \in Nat /\ recv < conf.max
    /\ held \in Nat
    /\ recv + held <= Len(sent)
    /\ pc \in {"recv", "split", "check", "ended", "killed"}
    /\ header \in Nat
    /\ answer \in {"none", "too_big", "441", "go"}

-----------------------------------------------------------------------------
(* The client.                                                             *)

EndMark == <<cr, lf, "dot", cr, lf>>

\* The first k bytes of s end with the line that ends an article.
EndsAt(s, k) == k >= 5 /\ SubSeq(s, k - 4, k) = EndMark

\* s holds no byte behind the end of the article.
NothingBehind(s) == \A k \in 1..(Len(s) - 1) : ~EndsAt(s, k)

\* What is sent after the loop belongs to the next command.
ClientSends(s) ==
    /\ pc = "recv" /\ ~closed
    /\ Len(sent) + Len(s) <= MaxSent
    /\ conf.polite => NothingBehind(sent \o s)
    /\ sent' = sent \o s
    /\ UNCHANGED <<conf, closed, recv, held, pc, header, answer>>

ClientCloses ==
    /\ pc = "recv" /\ ~closed
    /\ closed' = TRUE
    /\ UNCHANGED <<conf, sent, recv, held, pc, header, answer>>

-----------------------------------------------------------------------------
(* The receive loop.                                                       *)

OnWire == Len(sent) - (recv + held)

\* FD_ISSET() after select(): there are bytes, or the end of the stream.
Readable == pc = "recv" /\ (OnWire > 0 \/ closed)

\* Mutant: full one byte too early.
FullEarly == conf.max <= recv + 2

\* max_post_size - recv_bytes <= 1
Full == conf.max <= recv + 1

\* Mutant: no room is left for the zero at the end.
RoomAll == conf.max - recv

Room == conf.max - recv - 1

\* kill_thread() with answer a already sent
Kill(a) ==
    /\ pc' = "killed"
    /\ answer' = a
    /\ UNCHANGED <<conf, sent, closed, recv, held, header>>

TooBig == Readable /\ Full /\ Kill("too_big")

\* recv() or select() fails, or the stream has ended.
ReceiveFails == pc = "recv" /\ Kill("none")

\* Mutant: a dot at the end of any line is taken for the end.
NeedleDot == <<"dot", cr, lf>>

\* Mutant: an empty line is taken for the end.
NeedleBlank == <<cr, lf, cr, lf>>

Needle == <<cr, lf, "dot", cr, lf>>

\* Mutant: only what this call received is searched.
SearchFromOld(old, new) == old

\* Where strstr() starts, so as to find a mark that came in two pieces.
SearchFrom(old, new) == IF new > 5 THEN new - 5 ELSE 0

\* strstr() in the bytes from..new of buf.
FoundAt(from, new) ==
    {p \in from..new : p + Len(Needle) <= new
                       /\ SubSeq(sent, p + 1, p + Len(Needle)) = Needle}

\* Receive() returns n bytes.  Text behind the mark would be cut off.
Received(n) ==
    LET found == FoundAt(SearchFrom(recv, recv + n), recv + n)
    IN  \/ found = {} /\ recv' = recv + n /\ pc' = "recv"
        \/ /\ found # {}
           /\ \E p \in found : /\ \A q \in found : p <= q
                               /\ recv' = p + Len(Needle)
           /\ pc' = "split"

\* recv() hands out some of the bytes that are there.
ReceivePlain ==
    /\ ~conf.tls
    /\ Readable /\ ~Full
    /\ \E n \in 1..Room : n <= OnWire /\ Received(n)
    /\ UNCHANGED <<conf, sent, closed, held, header, answer>>

\* SSL_read() reads a record of r bytes and hands out what there is room for.
\* As long as there is room, nothing is left of an earlier record.
ReceiveTls ==
    /\ conf.tls
    /\ Readable /\ ~Full
    /\ \E r \in 1..OnWire, n \in 1..Room :
          /\ n = IF r <= Room THEN r ELSE Room
          /\ Received(n)
          /\ held' = held + r - n
    /\ UNCHANGED <<conf, sent, closed, header, answer>>

-----------------------------------------------------------------------------
(* The header.                                                             *)

\* Places of an empty line with at least one byte behind it.
HeaderEnds == {i \in 0..recv : /\ i + 4 < recv
                               /\ SubSeq(sent, i + 1, i + 4) = <<cr, lf, cr, lf>>}

\* An article without an empty line ends the connection.  The 503 for an
\* article without a body cannot be reached (BodyTerminated).
Split ==
    /\ pc = "split"
    /\ \/ HeaderEnds = {} /\ Kill("none")
       \/ /\ \E i \in HeaderEnds : /\ \A j \in HeaderEnds : i <= j
                                   /\ header' = i + 2
          /\ pc' = "check"
          /\ UNCHANGED <<conf, sent, closed, recv, held, answer>>

\* docmd_post_chk_required_hdr_lines(): Newsgroups, From and Subject are there
\* and in order, or one of them is refused with 441.
ChkRequiredHdrLines ==
    /\ pc = "check"
    /\ pc' = "ended"
    /\ answer' \in {"441", "go"}
    /\ UNCHANGED <<conf, sent, closed, recv, held, header>>

Receive == TooBig \/ ReceiveFails \/ ReceivePlain \/ ReceiveTls

Next ==
    \/ \E s \in Chunk : ClientSends(s)
    \/ ClientCloses
    \/ Receive \/ Split \/ ChkRequiredHdrLines

\* select() returns at the latest after a second, so what is readable is read.
Progress == TooBig \/ ReceivePlain \/ ReceiveTls \/ (Readable /\ OnWire = 0 /\ ReceiveFails)

Spec == Init /\ [][Next]_vars /\ WF_vars(Progress) /\ WF_vars(Split)

-----------------------------------------------------------------------------
(* Properties.                                                             *)

Finished == pc \in {"split", "check", "ended"}

\* The article that is posted is the whole article: it ends with the mark, and
\* when the client stops there nothing of it is left behind, in however many
\* pieces it came (the search in docmd_post()).
WholeArticle ==
    Finished => EndsAt(sent, recv) /\ (conf.polite => recv = Len(sent))

\* The body kept of an article carries the line with the dot, all of it: what
\* ARTICLE and BODY send of it later is the end of their answers, and the 503
\* for an article without a body cannot be reached.
BodyTerminated ==
    pc \in {"check", "ended"} =>
        /\ header + 5 <= recv
        /\ SubSeq(sent, recv - 2, recv) = <<"dot", cr, lf>>

\* An article that fits into max_post_size - 1 bytes is never called too big,
\* unless the client goes away before its end (the check before Receive()).
TooBigJustified ==
    answer = "too_big" => Len(sent) >= conf.max \/ closed

\* A client that has sent its article, or has gone away, does not leave the
\* thread in the loop; with TLS, as long as the article is not too big.
ReceiveEnds ==
    /\ closed ~> pc # "recv"
    /\ (/\ conf.polite /\ EndsAt(sent, Len(sent))
        /\ conf.tls => Len(sent) < conf.max) ~> pc # "recv"

-----------------------------------------------------------------------------
\* What makes the properties inductive: as long as the loop goes on no mark has
\* been received up to the end of the text, and OpenSSL holds bytes only when
\* the buffer is full.
ReceiveInv ==
    /\ conf.polite => NothingBehind(sent)
    /\ pc = "recv" => ~EndsAt(sent, recv)
    /\ held > 0 => recv + 1 = conf.max
    /\ pc = "recv" => answer = "none"
=============================================================================
