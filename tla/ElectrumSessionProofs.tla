----------------------- MODULE ElectrumSessionProofs ------------------------
(***************************************************************************)
(* Proved of ElectrumSession, for any number of connections, transactions  *)
(* and script hashes, any capacity of the notification channel and any     *)
(* bounds: what a wallet was told of the outputs of a transaction is true  *)
(* or about to be put right, what it has broadcast it is shown, and what   *)
(* it is shown waits in the pool.                                          *)
(*                                                                         *)
(* The invariant comes in layers.  Each line a wallet sends is in one      *)
(* place; so is each broadcast that has been counted; so a background job  *)
(* takes over from every session that acknowledges one; and so what is     *)
(* held is backed by a row, a job or a session.                            *)
(***************************************************************************)
EXTENDS ElectrumSession, FoldProofs, SequenceTheorems

-----------------------------------------------------------------------------
(* First layer: the lines.                                                 *)

\* No line is twice in a buffer.
Once(seq) == \A a, b \in DOMAIN seq : seq[a] = seq[b] => a = b

\* A line that waits has been sent and not been answered.
Open(s) == DOMAIN wal[s].asked \ wal[s].answered

LinesOnce(s) ==
    /\ wal[s].answered \subseteq DOMAIN wal[s].asked
    /\ Len(wal[s].asked) <= MaxLines
    /\ Once(ses[s].buf) /\ Once(wal[s].sock)
    /\ \A a \in DOMAIN ses[s].buf :
          /\ ses[s].buf[a] \in Open(s)
          /\ ses[s].pc # "idle" => ses[s].buf[a] # ses[s].line
    /\ \A a \in DOMAIN wal[s].sock :
          /\ wal[s].sock[a] \in Open(s)
          /\ ses[s].pc # "idle" => wal[s].sock[a] # ses[s].line
    /\ \A a \in DOMAIN ses[s].buf, b \in DOMAIN wal[s].sock :
          ses[s].buf[a] # wal[s].sock[b]

\* Where the connection's task is goes with the line it works on.
Serving(s) ==
    /\ ~ses[s].up => ses[s].pc = "idle" /\ ses[s].buf = <<>>
    /\ ses[s].pc = "idle" => ses[s].line = NULL /\ ses[s].todo = {}
    /\ ses[s].pc = "forward" =>
          /\ ses[s].line \in Open(s) /\ ses[s].todo = {}
          /\ wal[s].asked[ses[s].line].op = "poll"
    /\ ses[s].pc = "store" =>
          /\ ses[s].line \in Open(s)
          /\ wal[s].asked[ses[s].line].op = "broadcast"

\* A job that runs has a transaction, and notifications only while it sends them.
JobRuns(j) ==
    /\ job[j].pc # "none" => job[j].tx \in Tx
    /\ job[j].pc # "notify" => job[j].todo = {}

\* TypeOK, without the bound on the rows, which needs the next layer.
Typed ==
    /\ vm \in [Tx -> {NULL} \cup SUBSET Sh]
    /\ rows \in [Tx -> Nat]
    /\ gone \subseteq Tx /\ orphans \subseteq Tx
    /\ leaving \in [Tx -> SUBSET Sh]
    /\ job \in [Job -> JobRecord]
    /\ ses \in [Session -> SessionRecord]
    /\ chan \in [Session -> ChanRecord]
    /\ wal \in [Session -> WalletRecord]

LineInv ==
    /\ Typed
    /\ \A s \in Session : LinesOnce(s) /\ Serving(s)
    /\ \A j \in Job : JobRuns(j)

-----------------------------------------------------------------------------
(* Second layer: the broadcasts that are counted.                          *)

Past(t) == {j \in Job : job[j].tx = t /\ job[j].pc \notin {"none", "ingest"}}

CountInv ==
    /\ Broadcasts <= MaxBroadcasts
    /\ \A t \in Tx : rows[t] <= Cardinality(Past(t))

-----------------------------------------------------------------------------
(* Third layer: what is held.                                              *)

\* The transaction that a session at its store is about to acknowledge.
Stored(s) == wal[s].asked[ses[s].line].tx

HeldOf(s) ==
    /\ ses[s].pc = "store" => Held(Stored(s)) \/ Stored(s) \in gone
    /\ wal[s].acked # NULL =>
          \/ wal[s].acked \in gone
          \/ Held(wal[s].acked) /\ ses[s].recent = wal[s].acked

\* A job that has gone past its insert has put a row in the pool, if it could.
RowOf(j) ==
    job[j].pc \notin {"none", "ingest"} =>
        rows[job[j].tx] > 0 \/ job[j].tx \in gone \cup orphans

HeldInv ==
    /\ \A t \in Tx : Held(t) => Outs[t] \subseteq vm[t]
    /\ \A s \in Session : HeldOf(s)
    /\ \A j \in Job : RowOf(j)
    /\ HeldIsQueued

-----------------------------------------------------------------------------
(* Fourth layer: what a wallet has been told.                              *)

\* A wallet has been told nothing of what it does not follow, and follows what
\* it waits for.
FollowsFirst(s) ==
    /\ \A sh \in Sh \ ses[s].subs : wal[s].told[sh] = {}
    /\ ses[s].pc = "forward" => wal[s].asked[ses[s].line].sh \in ses[s].subs

ToldInv ==
    /\ \A s \in Session : FollowsFirst(s)
    /\ OutputsTold

IInv == LineInv /\ CountInv /\ HeldInv /\ ToldInv

-----------------------------------------------------------------------------
(* Sequences.                                                              *)

\* Taking one line out of a buffer leaves the others, once each.
LEMMA RemoveAtIs ==
    ASSUME NEW S, NEW seq \in Seq(S), NEW p \in DOMAIN seq, Once(seq)
    PROVE  /\ SeqX!RemoveAt(seq, p) \in Seq(S)
           /\ Once(SeqX!RemoveAt(seq, p))
           /\ \A k \in DOMAIN SeqX!RemoveAt(seq, p) :
                 /\ \E m \in DOMAIN seq : SeqX!RemoveAt(seq, p)[k] = seq[m]
                 /\ SeqX!RemoveAt(seq, p)[k] # seq[p]
  <1> DEFINE a == SubSeq(seq, 1, p - 1)
             b == SubSeq(seq, p + 1, Len(seq))
             r == SeqX!RemoveAt(seq, p)
             from(k) == IF k < p THEN k ELSE k + 1
  <1>1. Len(seq) \in Nat /\ DOMAIN seq = 1 .. Len(seq) /\ p \in 1 .. Len(seq)
    BY LenProperties
  <1>2. /\ a \in Seq(S) /\ Len(a) = p - 1
        /\ \A i \in 1 .. p - 1 : a[i] = seq[i]
    <2>1. \A i \in 1 .. p - 1 : seq[i] \in S
      BY <1>1, ElementOfSeq
    <2>2. /\ a \in Seq(S)
          /\ Len(a) = IF 1 <= p - 1 THEN (p - 1) - 1 + 1 ELSE 0
          /\ \A i \in 1 .. (p - 1) - 1 + 1 : a[i] = seq[1 + i - 1]
      BY <1>1, <2>1, SubSeqProperties
    <2> HIDE DEF a
    <2>3. QED
      BY <1>1, <2>2
  <1>3. /\ b \in Seq(S) /\ Len(b) = Len(seq) - p
        /\ \A i \in 1 .. Len(seq) - p : b[i] = seq[p + i]
    <2>1. \A i \in p + 1 .. Len(seq) : seq[i] \in S
      BY <1>1, ElementOfSeq
    <2>2. /\ b \in Seq(S)
          /\ Len(b) = IF p + 1 <= Len(seq) THEN Len(seq) - (p + 1) + 1 ELSE 0
          /\ \A i \in 1 .. Len(seq) - (p + 1) + 1 : b[i] = seq[(p + 1) + i - 1]
      BY <1>1, <2>1, SubSeqProperties
    <2> HIDE DEF b
    <2>3. Len(b) = Len(seq) - p
      BY <1>1, <2>2
    <2>4. ASSUME NEW i \in 1 .. Len(seq) - p
          PROVE  b[i] = seq[p + i]
      <3>1. i \in 1 .. Len(seq) - (p + 1) + 1 /\ (p + 1) + i - 1 = p + i
        BY <1>1
      <3>2. QED BY <2>2, <3>1
    <2>5. QED
      BY <2>2, <2>3, <2>4
  <1>4. r = a \o b
    BY DEF SeqX!RemoveAt
  <1> HIDE DEF a, b, r
  <1>5. /\ r \in Seq(S) /\ Len(r) = Len(a) + Len(b)
        /\ \A i \in 1 .. Len(a) + Len(b) :
              r[i] = IF i <= Len(a) THEN a[i] ELSE b[i - Len(a)]
    BY <1>2, <1>3, <1>4, ConcatProperties
  <1>6. DOMAIN r = 1 .. Len(seq) - 1
    BY <1>1, <1>2, <1>3, <1>5, LenProperties
  <1>7. ASSUME NEW k \in DOMAIN r
        PROVE  from(k) \in DOMAIN seq /\ from(k) # p /\ r[k] = seq[from(k)]
    <2>1. k \in 1 .. Len(seq) - 1
      BY <1>6, <1>7
    <2>2. CASE k < p
      BY <1>1, <1>2, <1>3, <1>5, <2>1, <2>2
    <2>3. CASE ~(k < p)
      <3>1. r[k] = b[k - (p - 1)] /\ (k - (p - 1)) \in 1 .. Len(seq) - p
        BY <1>1, <1>2, <1>3, <1>5, <2>1, <2>3
      <3>2. b[k - (p - 1)] = seq[p + (k - (p - 1))] /\ p + (k - (p - 1)) = k + 1
        BY <1>1, <1>3, <2>1, <3>1
      <3>3. QED
        BY <1>1, <2>1, <2>3, <3>1, <3>2
    <2>4. QED
      BY <1>1, <2>1, <2>2, <2>3
  <1>8. \A k, m \in DOMAIN r : from(k) = from(m) => k = m
    BY <1>1, <1>6
  <1> HIDE DEF from
  <1>9. Once(r)
    BY <1>7, <1>8 DEF Once
  <1>10. \A k \in DOMAIN r : (\E m \in DOMAIN seq : r[k] = seq[m]) /\ r[k] # seq[p]
    BY <1>7 DEF Once
  <1>11. QED
    BY <1>5, <1>9, <1>10 DEF r

\* Reading a part of the socket splits it.
LEMMA SplitIs ==
    ASSUME NEW S, NEW seq \in Seq(S), NEW n \in 1 .. Len(seq), Once(seq)
    PROVE  LET a == SubSeq(seq, 1, n)
               b == SubSeq(seq, n + 1, Len(seq))
           IN  /\ a \in Seq(S) /\ b \in Seq(S) /\ Once(a) /\ Once(b)
               /\ \A i \in DOMAIN a : \E m \in DOMAIN seq : a[i] = seq[m]
               /\ \A i \in DOMAIN b : \E m \in DOMAIN seq : b[i] = seq[m]
               /\ \A i \in DOMAIN a, k \in DOMAIN b : a[i] # b[k]
  <1> DEFINE a == SubSeq(seq, 1, n)
             b == SubSeq(seq, n + 1, Len(seq))
  <1>1. Len(seq) \in Nat /\ DOMAIN seq = 1 .. Len(seq)
    BY LenProperties
  <1>2. a \in Seq(S) /\ Len(a) = n /\ \A i \in 1 .. n : a[i] = seq[i]
    <2>1. \A i \in 1 .. n : seq[i] \in S
      BY <1>1, ElementOfSeq
    <2>2. /\ a \in Seq(S) /\ Len(a) = IF 1 <= n THEN n - 1 + 1 ELSE 0
          /\ \A i \in 1 .. n - 1 + 1 : a[i] = seq[1 + i - 1]
      BY <1>1, <2>1, SubSeqProperties
    <2> HIDE DEF a
    <2>3. QED
      BY <1>1, <2>2
  <1>3. /\ b \in Seq(S) /\ Len(b) = Len(seq) - n
        /\ \A i \in 1 .. Len(seq) - n : b[i] = seq[n + i]
    <2>1. \A i \in n + 1 .. Len(seq) : seq[i] \in S
      BY <1>1, ElementOfSeq
    <2>2. /\ b \in Seq(S)
          /\ Len(b) = IF n + 1 <= Len(seq) THEN Len(seq) - (n + 1) + 1 ELSE 0
          /\ \A i \in 1 .. Len(seq) - (n + 1) + 1 : b[i] = seq[(n + 1) + i - 1]
      BY <1>1, <2>1, SubSeqProperties
    <2> HIDE DEF b
    <2>3. Len(b) = Len(seq) - n
      <3>1. n \in Nat /\ n <= Len(seq)
        BY <1>1
      <3>2. CASE n + 1 <= Len(seq)
        BY <1>1, <2>2, <3>1, <3>2
      <3>3. CASE n = Len(seq)
        BY <1>1, <2>2, <3>1, <3>3
      <3>4. \A L \in Nat : n <= L => n + 1 <= L \/ n = L
        BY <3>1
      <3>5. n + 1 <= Len(seq) \/ n = Len(seq)
        BY <1>1, <3>1, <3>4
      <3>6. QED BY <3>2, <3>3, <3>5
    <2>4. ASSUME NEW i \in 1 .. Len(seq) - n
          PROVE  b[i] = seq[n + i]
      <3>1. i \in 1 .. Len(seq) - (n + 1) + 1 /\ (n + 1) + i - 1 = n + i
        BY <1>1
      <3>2. QED BY <2>2, <3>1
    <2>5. QED
      BY <2>2, <2>3, <2>4
  <1> HIDE DEF a, b
  <1>4. DOMAIN a = 1 .. n /\ DOMAIN b = 1 .. Len(seq) - n
    BY <1>1, <1>2, <1>3, LenProperties
  <1>5. \A i \in DOMAIN a : i \in DOMAIN seq /\ a[i] = seq[i]
    BY <1>1, <1>2, <1>4
  <1>6. \A k \in DOMAIN b : n + k \in DOMAIN seq /\ b[k] = seq[n + k]
    BY <1>1, <1>3, <1>4
  <1>7. Once(a) /\ Once(b)
    BY <1>1, <1>4, <1>5, <1>6 DEF Once
  <1>8. \A i \in DOMAIN a, k \in DOMAIN b : a[i] # b[k]
    <2>1. \A i \in DOMAIN a, k \in DOMAIN b : i # n + k
      BY <1>1, <1>4
    <2>2. QED
      BY <1>5, <1>6, <2>1 DEF Once
  <1>9. QED
    BY <1>2, <1>3, <1>5, <1>6, <1>7, <1>8 DEF a, b

\* Appending a line that is not there yet.
LEMMA AppendIs ==
    ASSUME NEW S, NEW seq \in Seq(S), NEW x \in S
    PROVE  /\ Append(seq, x) \in Seq(S)
           /\ Len(Append(seq, x)) = Len(seq) + 1
           /\ DOMAIN Append(seq, x) = DOMAIN seq \cup {Len(seq) + 1}
           /\ \A i \in DOMAIN seq : Append(seq, x)[i] = seq[i]
           /\ Append(seq, x)[Len(seq) + 1] = x
           /\ Len(seq) + 1 \notin DOMAIN seq
  <1>1. Len(seq) \in Nat /\ DOMAIN seq = 1 .. Len(seq)
    BY LenProperties
  <1>2. /\ Append(seq, x) \in Seq(S)
        /\ Len(Append(seq, x)) = Len(seq) + 1
        /\ \A i \in 1 .. Len(seq) : Append(seq, x)[i] = seq[i]
        /\ Append(seq, x)[Len(seq) + 1] = x
    BY AppendProperties
  <1>3. DOMAIN Append(seq, x) = 1 .. Len(seq) + 1
    BY <1>2, LenProperties
  <1>4. 1 .. Len(seq) + 1 = (1 .. Len(seq)) \cup {Len(seq) + 1}
    BY <1>1
  <1>5. QED
    BY <1>1, <1>2, <1>3, <1>4

\* pop_client_line picks a line of the buffer, if there is one.
LEMMA PickedIs ==
    ASSUME NEW s \in Session, ses[s].buf \in Seq(Line), ses[s].buf # <<>>
    PROVE  Picked(s) \in DOMAIN ses[s].buf
  <1> DEFINE B == {q \in DOMAIN ses[s].buf : IsBroadcast(s, q)}
  <1>1. DOMAIN ses[s].buf = 1 .. Len(ses[s].buf) /\ Len(ses[s].buf) \in Nat
    BY LenProperties
  <1>2. 1 \in DOMAIN ses[s].buf
    BY <1>1, EmptySeq
  <1>3. CASE B = {}
    <2>1. ~\E q \in DOMAIN ses[s].buf : IsBroadcast(s, q)
      BY <1>3
    <2>2. Picked(s) = CHOOSE p \in DOMAIN ses[s].buf : p = 1
      BY <2>1 DEF Picked
    <2>3. QED BY <1>2, <2>2
  <1>4. CASE B # {}
    <2>1. B \in SUBSET Nat
      BY <1>1
    <2>2. PICK p \in B : \A q \in B : p <= q
      BY <1>4, <2>1, Least
    <2>3. p \in Nat /\ p \in 1 .. Len(ses[s].buf) /\ IsBroadcast(s, p)
      BY <1>1, <2>2
    <2>4. \A q \in 1 .. p - 1 : ~IsBroadcast(s, q)
      <3>1. SUFFICES ASSUME NEW q \in 1 .. p - 1, IsBroadcast(s, q) PROVE FALSE
        OBVIOUS
      <3>2. q \in 1 .. Len(ses[s].buf) /\ ~(p <= q)
        BY <1>1, <2>3, <3>1
      <3>3. q \in B
        BY <1>1, <3>1, <3>2
      <3>4. QED BY <2>2, <3>2, <3>3
    <2>5. \E q \in DOMAIN ses[s].buf : IsBroadcast(s, q)
      BY <1>4
    <2>6. Picked(s) = CHOOSE q \in DOMAIN ses[s].buf :
                          IsBroadcast(s, q) /\ \A m \in 1 .. q - 1 : ~IsBroadcast(s, m)
      BY <2>5 DEF Picked
    <2>7. QED BY <1>1, <2>3, <2>4, <2>6
  <1>5. QED BY <1>3, <1>4

-----------------------------------------------------------------------------
(* What the session's steps do, field by field.                            *)

SesOnly(s) ==
    /\ ses' \in [Session -> SessionRecord]
    /\ \A z \in Session : z # s => ses'[z] = ses[z]

WalOnly(s) ==
    /\ wal' \in [Session -> WalletRecord]
    /\ \A z \in Session : z # s => wal'[z] = wal[z]

\* A connection that has been given a new state.
LEMMA SesUpdated ==
    ASSUME ses \in [Session -> SessionRecord], NEW s \in Session,
           NEW r \in SessionRecord, ses' = [ses EXCEPT ![s] = r]
    PROVE  SesOnly(s) /\ ses'[s] = r
  BY DEF SesOnly

\* A wallet that has been given a new state.
LEMMA WalUpdated ==
    ASSUME wal \in [Session -> WalletRecord], NEW s \in Session,
           NEW r \in WalletRecord, wal' = [wal EXCEPT ![s] = r]
    PROVE  WalOnly(s) /\ wal'[s] = r
  BY DEF WalOnly

\* A request that is asked for an address has one, a broadcast a transaction.
LEMMA RequestIs ==
    ASSUME NEW req \in Request
    PROVE  /\ req.op \in {"poll", "broadcast"}
           /\ req.op = "poll" => req.sh \in Sh
           /\ req.op = "broadcast" => req.tx \in Tx
  BY DEF Request

\* The line that is handled is open, and the others stay in the buffer.
LEMMA HandlesIs ==
    ASSUME LineInv, NEW s \in Session, NEW i, NEW req, Handles(s, i, req)
    PROVE  /\ i \in Line /\ i \in Open(s) /\ req = wal[s].asked[i] /\ req \in Request
           /\ ses[s].up /\ ses[s].pc = "idle" /\ ses[s].todo = {}
           /\ LinesLeft(s) \in Seq(Line) /\ Once(LinesLeft(s))
           /\ \A a \in DOMAIN LinesLeft(s) :
                 /\ LinesLeft(s)[a] \in Open(s) /\ LinesLeft(s)[a] # i
                 /\ \A b \in DOMAIN wal[s].sock : LinesLeft(s)[a] # wal[s].sock[b]
           /\ \A b \in DOMAIN wal[s].sock : wal[s].sock[b] # i
  <1>1. /\ ses[s] \in SessionRecord /\ wal[s] \in WalletRecord
        /\ LinesOnce(s) /\ Serving(s)
    BY DEF LineInv, Typed
  <1>2. /\ ses[s].buf \in Seq(Line) /\ wal[s].asked \in Seq(Request)
        /\ ses[s].up /\ ses[s].pc = "idle" /\ ses[s].buf # <<>> /\ ses[s].todo = {}
    BY <1>1 DEF Handles, SessionRecord, WalletRecord, Serving
  <1> DEFINE p == Picked(s)
             left == LinesLeft(s)
  <1>3. p \in DOMAIN ses[s].buf
    BY <1>2, PickedIs
  <1>4. i = ses[s].buf[p] /\ req = wal[s].asked[i]
    BY DEF Handles
  <1>5. /\ left \in Seq(Line) /\ Once(left)
        /\ \A k \in DOMAIN left :
              (\E m \in DOMAIN ses[s].buf : left[k] = ses[s].buf[m]) /\ left[k] # i
    BY <1>1, <1>2, <1>3, <1>4, RemoveAtIs DEF LinesOnce, LinesLeft
  <1>6. i \in Line /\ i \in Open(s)
    BY <1>1, <1>2, <1>3, <1>4, ElementOfSeq, LenProperties DEF LinesOnce
  <1>7. req \in Request
    BY <1>2, <1>4, <1>6, ElementOfSeq, LenProperties DEF Open
  <1> HIDE DEF p, left
  <1>8. \A k \in DOMAIN left :
          /\ left[k] \in Open(s)
          /\ \A b \in DOMAIN wal[s].sock : left[k] # wal[s].sock[b]
    BY <1>1, <1>5 DEF LinesOnce
  <1>9. \A b \in DOMAIN wal[s].sock : wal[s].sock[b] # i
    BY <1>1, <1>3, <1>4 DEF LinesOnce
  <1>10. QED
    BY <1>2, <1>4, <1>5, <1>6, <1>7, <1>8, <1>9 DEF left

\* A request answered from the pool: followed, told and answered at once.
LEMMA PollFastIs ==
    ASSUME LineInv, NEW s \in Session, NEW i \in Line, NEW req \in Request,
           Handles(s, i, req), req.op = "poll",
           ses' = [ses EXCEPT ![s].buf = LinesLeft(s), ![s].subs = @ \cup {req.sh}],
           wal' = [wal EXCEPT ![s].told[req.sh] = PendingInSession(s, req.sh),
                              ![s].answered = @ \cup {i}]
    PROVE  /\ SesOnly(s) /\ WalOnly(s)
           /\ ses'[s].up = ses[s].up /\ ses'[s].pc = ses[s].pc
           /\ ses'[s].line = ses[s].line /\ ses'[s].buf = LinesLeft(s)
           /\ ses'[s].subs = ses[s].subs \cup {req.sh}
           /\ ses'[s].recent = ses[s].recent /\ ses'[s].todo = ses[s].todo
           /\ wal'[s].asked = wal[s].asked /\ wal'[s].sock = wal[s].sock
           /\ wal'[s].answered = wal[s].answered \cup {i}
           /\ wal'[s].told = [wal[s].told EXCEPT ![req.sh] = PendingInSession(s, req.sh)]
           /\ wal'[s].acked = wal[s].acked
  <1>1. /\ ses \in [Session -> SessionRecord] /\ wal \in [Session -> WalletRecord]
        /\ ses[s] \in SessionRecord /\ wal[s] \in WalletRecord
        /\ req.sh \in Sh /\ LinesLeft(s) \in Seq(Line)
    BY HandlesIs, RequestIs DEF LineInv, Typed
  <1> DEFINE r == [ses[s] EXCEPT !.buf = LinesLeft(s), !.subs = @ \cup {req.sh}]
             told == [wal[s].told EXCEPT ![req.sh] = PendingInSession(s, req.sh)]
             w == [wal[s] EXCEPT !.told = told, !.answered = @ \cup {i}]
  <1>2. /\ r \in SessionRecord
        /\ r.up = ses[s].up /\ r.pc = ses[s].pc /\ r.line = ses[s].line
        /\ r.buf = LinesLeft(s) /\ r.subs = ses[s].subs \cup {req.sh}
        /\ r.recent = ses[s].recent /\ r.todo = ses[s].todo
    BY <1>1 DEF SessionRecord
  <1>3. ses' = [ses EXCEPT ![s] = r]
    BY <1>1
  <1>4. PendingInSession(s, req.sh) \in SUBSET Tx
    BY DEF PendingInSession, PendingFor
  <1>5. told \in [Sh -> SUBSET Tx]
    BY <1>1, <1>4 DEF WalletRecord
  <1>6. wal' = [wal EXCEPT ![s] = w]
    BY <1>1
  <1> HIDE DEF told
  <1>7. /\ w \in WalletRecord /\ w.asked = wal[s].asked /\ w.sock = wal[s].sock
        /\ w.answered = wal[s].answered \cup {i} /\ w.told = told
        /\ w.acked = wal[s].acked
    BY <1>1, <1>5 DEF WalletRecord
  <1> HIDE DEF r, w
  <1>8. SesOnly(s) /\ ses'[s] = r
    BY <1>1, <1>2, <1>3, SesUpdated
  <1>9. WalOnly(s) /\ wal'[s] = w
    BY <1>1, <1>6, <1>7, WalUpdated
  <1>10. QED
    BY <1>2, <1>7, <1>8, <1>9 DEF told

\* A request is forwarded, and the script hash followed.
LEMMA PollForwardIs ==
    ASSUME LineInv, NEW s \in Session, NEW i \in Line, NEW req \in Request,
           Handles(s, i, req), req.op = "poll",
           ses' = [ses EXCEPT ![s].buf = LinesLeft(s), ![s].subs = @ \cup {req.sh},
                              ![s].pc = "forward", ![s].line = i]
    PROVE  /\ SesOnly(s)
           /\ ses'[s].up = ses[s].up /\ ses'[s].pc = "forward"
           /\ ses'[s].line = i /\ ses'[s].buf = LinesLeft(s)
           /\ ses'[s].subs = ses[s].subs \cup {req.sh}
           /\ ses'[s].recent = ses[s].recent /\ ses'[s].todo = ses[s].todo
  <1>1. /\ ses \in [Session -> SessionRecord] /\ ses[s] \in SessionRecord
        /\ req.sh \in Sh /\ LinesLeft(s) \in Seq(Line)
    BY HandlesIs, RequestIs DEF LineInv, Typed
  <1> DEFINE r == [ses[s] EXCEPT !.buf = LinesLeft(s), !.subs = @ \cup {req.sh},
                                 !.pc = "forward", !.line = i]
  <1>2. /\ r \in SessionRecord
        /\ r.up = ses[s].up /\ r.pc = "forward" /\ r.line = i
        /\ r.buf = LinesLeft(s) /\ r.subs = ses[s].subs \cup {req.sh}
        /\ r.recent = ses[s].recent /\ r.todo = ses[s].todo
    BY <1>1 DEF SessionRecord
  <1>3. ses' = [ses EXCEPT ![s] = r]
    BY <1>1
  <1> HIDE DEF r
  <1>4. QED
    BY <1>1, <1>2, <1>3, SesUpdated

\* The answer of the indexer, with what is pending by then, or an error.
LEMMA PollAnswerIs ==
    ASSUME LineInv, NEW s \in Session, PollAnswer(s)
    PROVE  /\ SesOnly(s) /\ WalOnly(s)
           /\ ses'[s].up = ses[s].up /\ ses'[s].pc = "idle" /\ ses'[s].line = NULL
           /\ ses'[s].buf = ses[s].buf /\ ses'[s].subs = ses[s].subs
           /\ ses'[s].recent = ses[s].recent /\ ses'[s].todo = ses[s].todo
           /\ wal'[s].asked = wal[s].asked /\ wal'[s].sock = wal[s].sock
           /\ wal'[s].answered = wal[s].answered \cup {ses[s].line}
           /\ wal'[s].acked = wal[s].acked
           /\ \E sh \in Sh :
                 /\ wal[s].asked[ses[s].line].sh = sh
                 /\ \/ wal'[s].told = [wal[s].told EXCEPT ![sh] = PendingInSession(s, sh)]
                    \/ wal'[s].told = wal[s].told
  <1>1. /\ ses \in [Session -> SessionRecord] /\ wal \in [Session -> WalletRecord]
        /\ ses[s] \in SessionRecord /\ wal[s] \in WalletRecord
        /\ ses[s].pc = "forward" /\ Serving(s)
    BY DEF LineInv, Typed, PollAnswer
  <1>2. /\ ses[s].line \in Open(s) /\ wal[s].asked[ses[s].line] \in Request
        /\ wal[s].asked[ses[s].line].op = "poll" /\ ses[s].line \in Line
    <2>1. ses[s].line \in Open(s) /\ wal[s].asked[ses[s].line].op = "poll"
      BY <1>1 DEF Serving
    <2>2. wal[s].asked \in Seq(Request)
      BY <1>1 DEF WalletRecord
    <2>3. ses[s].line \in 1 .. Len(wal[s].asked)
      BY <2>1, <2>2, LenProperties DEF Open
    <2>4. Len(wal[s].asked) <= MaxLines /\ Len(wal[s].asked) \in Nat
      BY <2>2, LenProperties DEF LineInv, LinesOnce
    <2>5. ses[s].line \in Line
      BY <2>3, <2>4, SessionAssumption DEF Line
    <2>6. QED BY <2>1, <2>2, <2>3, <2>5, ElementOfSeq
  <1> DEFINE r == [ses[s] EXCEPT !.pc = "idle", !.line = NULL]
  <1>3. /\ r \in SessionRecord
        /\ r.up = ses[s].up /\ r.pc = "idle" /\ r.line = NULL /\ r.buf = ses[s].buf
        /\ r.subs = ses[s].subs /\ r.recent = ses[s].recent /\ r.todo = ses[s].todo
    BY <1>1 DEF SessionRecord
  <1>4. ses' = [ses EXCEPT ![s] = r]
    BY <1>1 DEF PollAnswer
  <1> HIDE DEF r
  <1>5. SesOnly(s) /\ ses'[s] = r
    BY <1>1, <1>3, <1>4, SesUpdated
  <1>6. PICK sh \in Sh : sh = wal[s].asked[ses[s].line].sh
    BY <1>2, RequestIs
  <1>7. PICK answer \in {PendingInSession(s, sh), wal[s].told[sh]} :
          wal' = [wal EXCEPT ![s].told[sh] = answer, ![s].answered = @ \cup {ses[s].line}]
    BY <1>6 DEF PollAnswer
  <1>8. wal[s].told \in [Sh -> SUBSET Tx] /\ PendingInSession(s, sh) \in SUBSET Tx
    BY <1>1 DEF WalletRecord, PendingInSession, PendingFor
  <1> DEFINE told == [wal[s].told EXCEPT ![sh] = answer]
             w == [wal[s] EXCEPT !.told = told, !.answered = @ \cup {ses[s].line}]
  <1>9. /\ told \in [Sh -> SUBSET Tx]
        /\ \/ told = [wal[s].told EXCEPT ![sh] = PendingInSession(s, sh)]
           \/ told = wal[s].told
    BY <1>7, <1>8
  <1>10. wal' = [wal EXCEPT ![s] = w]
    BY <1>1, <1>7
  <1> HIDE DEF told
  <1>11. /\ w \in WalletRecord /\ w.asked = wal[s].asked /\ w.sock = wal[s].sock
         /\ w.answered = wal[s].answered \cup {ses[s].line} /\ w.told = told
         /\ w.acked = wal[s].acked
    BY <1>1, <1>2, <1>9 DEF WalletRecord
  <1> HIDE DEF w
  <1>12. WalOnly(s) /\ wal'[s] = w
    BY <1>1, <1>10, <1>11, WalUpdated
  <1>13. QED
    BY <1>3, <1>5, <1>6, <1>9, <1>11, <1>12

\* A broadcast is stored, and its notifications are to be sent.
LEMMA BroadcastStoreIs ==
    ASSUME LineInv, NEW s \in Session, NEW i \in Line, NEW req \in Request,
           Handles(s, i, req), req.op = "broadcast",
           ses' = [ses EXCEPT ![s].buf = LinesLeft(s), ![s].pc = "store",
                              ![s].line = i, ![s].todo = Outs[req.tx]]
    PROVE  /\ SesOnly(s)
           /\ ses'[s].up = ses[s].up /\ ses'[s].pc = "store"
           /\ ses'[s].line = i /\ ses'[s].buf = LinesLeft(s)
           /\ ses'[s].subs = ses[s].subs
           /\ ses'[s].recent = ses[s].recent /\ ses'[s].todo = Outs[req.tx]
  <1>1. /\ ses \in [Session -> SessionRecord] /\ ses[s] \in SessionRecord
        /\ Outs[req.tx] \in SUBSET Sh /\ LinesLeft(s) \in Seq(Line)
    BY HandlesIs, RequestIs, SessionAssumption DEF LineInv, Typed
  <1> DEFINE r == [ses[s] EXCEPT !.buf = LinesLeft(s), !.pc = "store",
                                 !.line = i, !.todo = Outs[req.tx]]
  <1>2. /\ r \in SessionRecord
        /\ r.up = ses[s].up /\ r.pc = "store" /\ r.line = i
        /\ r.buf = LinesLeft(s) /\ r.subs = ses[s].subs
        /\ r.recent = ses[s].recent /\ r.todo = Outs[req.tx]
    BY <1>1 DEF SessionRecord
  <1>3. ses' = [ses EXCEPT ![s] = r]
    BY <1>1
  <1> HIDE DEF r
  <1>4. QED
    BY <1>1, <1>2, <1>3, SesUpdated

\* store_pending_tx sends one of its notifications.
LEMMA BroadcastNotifyIs ==
    ASSUME LineInv, NEW s \in Session, NEW sh \in Sh, BroadcastNotify(s, sh)
    PROVE  /\ SesOnly(s) /\ ses[s].pc = "store"
           /\ ses'[s].up = ses[s].up /\ ses'[s].pc = ses[s].pc
           /\ ses'[s].line = ses[s].line /\ ses'[s].buf = ses[s].buf
           /\ ses'[s].subs = ses[s].subs /\ ses'[s].recent = ses[s].recent
           /\ ses'[s].todo = ses[s].todo \ {sh}
  <1>1. /\ ses \in [Session -> SessionRecord] /\ ses[s] \in SessionRecord
        /\ sh \in ses[s].todo /\ Serving(s)
    BY DEF LineInv, Typed, BroadcastNotify
  <1> DEFINE r == [ses[s] EXCEPT !.todo = @ \ {sh}]
  <1>2. /\ r \in SessionRecord
        /\ r.up = ses[s].up /\ r.pc = ses[s].pc /\ r.line = ses[s].line
        /\ r.buf = ses[s].buf /\ r.subs = ses[s].subs
        /\ r.recent = ses[s].recent /\ r.todo = ses[s].todo \ {sh}
    BY <1>1 DEF SessionRecord
  <1>3. ses' = [ses EXCEPT ![s] = r]
    BY <1>1 DEF BroadcastNotify
  <1> HIDE DEF r
  <1>4. ses[s].pc = "store"
    BY <1>1 DEF Serving, SessionRecord
  <1>5. QED
    BY <1>1, <1>2, <1>3, <1>4, SesUpdated

\* A session at its store works on an open line, a broadcast of a transaction.
LEMMA StoredIs ==
    ASSUME LineInv, NEW s \in Session, ses[s].pc = "store"
    PROVE  /\ ses[s].line \in Open(s) /\ ses[s].line \in Line
           /\ wal[s].asked[ses[s].line].op = "broadcast" /\ Stored(s) \in Tx
  <1>1. ses[s].line \in Open(s) /\ wal[s].asked[ses[s].line].op = "broadcast"
    BY DEF LineInv, Serving
  <1>2. /\ wal[s].asked \in Seq(Request)
        /\ Len(wal[s].asked) <= MaxLines /\ Len(wal[s].asked) \in Nat
    BY LenProperties DEF LineInv, LinesOnce, Typed, WalletRecord
  <1>3. ses[s].line \in 1 .. Len(wal[s].asked)
    BY <1>1, <1>2, LenProperties DEF Open
  <1>4. ses[s].line \in Line
    BY <1>2, <1>3, SessionAssumption DEF Line
  <1>5. wal[s].asked[ses[s].line] \in Request
    BY <1>2, <1>3, ElementOfSeq
  <1>6. QED BY <1>1, <1>4, <1>5, RequestIs DEF Stored

\* The acknowledgement is written and a free job takes over.
LEMMA BroadcastAckIs ==
    ASSUME LineInv, NEW s \in Session, BroadcastAck(s)
    PROVE  /\ SesOnly(s) /\ WalOnly(s) /\ Stored(s) \in Tx /\ ses[s].pc = "store"
           /\ ses'[s].up = ses[s].up /\ ses'[s].pc = "idle" /\ ses'[s].line = NULL
           /\ ses'[s].buf = ses[s].buf /\ ses'[s].subs = ses[s].subs
           /\ ses'[s].recent = Stored(s) /\ ses'[s].todo = {} /\ ses[s].todo = {}
           /\ wal'[s].asked = wal[s].asked /\ wal'[s].sock = wal[s].sock
           /\ wal'[s].answered = wal[s].answered \cup {ses[s].line}
           /\ wal'[s].told = wal[s].told /\ wal'[s].acked = Stored(s)
           /\ \E j : /\ job' = [job EXCEPT ![j] =
                                  [pc |-> "ingest", tx |-> Stored(s), todo |-> {}]]
                     /\ (\E k \in Job : job[k].pc = "none") =>
                           j \in Job /\ job[j].pc = "none"
  <1>1. /\ ses \in [Session -> SessionRecord] /\ wal \in [Session -> WalletRecord]
        /\ ses[s] \in SessionRecord /\ wal[s] \in WalletRecord
        /\ ses[s].pc = "store" /\ ses[s].todo = {} /\ Serving(s) /\ LinesOnce(s)
    BY DEF LineInv, Typed, BroadcastAck
  <1>2. Stored(s) \in Tx /\ ses[s].line \in Line
    BY <1>1, StoredIs
  <1> DEFINE t == Stored(s)
             Free(k) == /\ job[k].pc = "none"
                        /\ \A m \in 1 .. k - 1 : job[m].pc # "none"
             j == CHOOSE k \in Job : Free(k)
             r == [ses[s] EXCEPT !.pc = "idle", !.line = NULL, !.recent = t]
             w == [wal[s] EXCEPT !.acked = t, !.answered = @ \cup {ses[s].line}]
  <1>3. /\ ses' = [ses EXCEPT ![s].pc = "idle", ![s].line = NULL, ![s].recent = t]
        /\ wal' = [wal EXCEPT ![s].acked = t, ![s].answered = @ \cup {ses[s].line}]
        /\ job' = [job EXCEPT ![j] = [pc |-> "ingest", tx |-> t, todo |-> {}]]
    BY DEF BroadcastAck, Stored
  <1> HIDE DEF t, j
  <1>4. /\ r \in SessionRecord
        /\ r.up = ses[s].up /\ r.pc = "idle" /\ r.line = NULL /\ r.buf = ses[s].buf
        /\ r.subs = ses[s].subs /\ r.recent = t /\ r.todo = ses[s].todo
    BY <1>1, <1>2 DEF SessionRecord, t
  <1>5. /\ w \in WalletRecord /\ w.asked = wal[s].asked /\ w.sock = wal[s].sock
        /\ w.answered = wal[s].answered \cup {ses[s].line} /\ w.told = wal[s].told
        /\ w.acked = t
    BY <1>1, <1>2 DEF WalletRecord, t
  <1>6. ses' = [ses EXCEPT ![s] = r] /\ wal' = [wal EXCEPT ![s] = w]
    BY <1>1, <1>3
  <1> HIDE DEF r, w
  <1>7. SesOnly(s) /\ ses'[s] = r /\ WalOnly(s) /\ wal'[s] = w
    BY <1>1, <1>4, <1>5, <1>6, SesUpdated, WalUpdated
  <1>8. (\E k \in Job : job[k].pc = "none") => j \in Job /\ job[j].pc = "none"
    <2>1. SUFFICES ASSUME \E k \in Job : job[k].pc = "none"
                   PROVE  j \in Job /\ job[j].pc = "none"
      OBVIOUS
    <2> DEFINE F == {k \in Job : job[k].pc = "none"}
    <2>2. F \in SUBSET Nat /\ F # {}
      BY <2>1 DEF Job
    <2>3. PICK k \in F : \A m \in F : k <= m
      BY <2>2, Least
    <2>4. k \in Job /\ k \in Nat /\ job[k].pc = "none" /\ k <= MaxBroadcasts
      BY <2>3, SessionAssumption DEF Job
    <2>5. ASSUME NEW m \in 1 .. k - 1 PROVE job[m].pc # "none"
      <3>1. m \in Job /\ ~(k <= m)
        BY <2>4, <2>5, SessionAssumption DEF Job
      <3>2. QED BY <2>3, <3>1
    <2>6. Free(k)
      BY <2>4, <2>5
    <2> HIDE DEF Free
    <2>7. j \in Job /\ Free(j)
      BY <2>4, <2>6 DEF j
    <2> USE DEF Free
    <2>8. QED BY <2>7
  <1>9. QED
    BY <1>1, <1>2, <1>3, <1>4, <1>5, <1>7, <1>8 DEF t

\* Lines are read: the first ones of the socket become the buffer.
LEMMA ReadIs ==
    ASSUME LineInv, NEW s \in Session, Read(s)
    PROVE  /\ SesOnly(s) /\ WalOnly(s)
           /\ ses'[s].up = ses[s].up /\ ses[s].pc = "idle" /\ ses'[s].pc = "idle"
           /\ ses'[s].line = ses[s].line /\ ses'[s].subs = ses[s].subs
           /\ ses'[s].recent = ses[s].recent /\ ses'[s].todo = ses[s].todo
           /\ wal'[s].asked = wal[s].asked /\ wal'[s].answered = wal[s].answered
           /\ wal'[s].told = wal[s].told /\ wal'[s].acked = wal[s].acked
           /\ ses[s].up
           /\ Once(ses'[s].buf) /\ Once(wal'[s].sock)
           /\ \A a \in DOMAIN ses'[s].buf :
                 \E m \in DOMAIN wal[s].sock : ses'[s].buf[a] = wal[s].sock[m]
           /\ \A a \in DOMAIN wal'[s].sock :
                 \E m \in DOMAIN wal[s].sock : wal'[s].sock[a] = wal[s].sock[m]
           /\ \A a \in DOMAIN ses'[s].buf, b \in DOMAIN wal'[s].sock :
                 ses'[s].buf[a] # wal'[s].sock[b]
  <1>1. /\ ses \in [Session -> SessionRecord] /\ wal \in [Session -> WalletRecord]
        /\ ses[s] \in SessionRecord /\ wal[s] \in WalletRecord
        /\ ses[s].pc = "idle" /\ ses[s].up /\ LinesOnce(s)
        /\ wal[s].sock \in Seq(Line)
    BY DEF LineInv, Typed, Read, WalletRecord
  <1>2. PICK n \in 1 .. Len(wal[s].sock) :
          /\ ses' = [ses EXCEPT ![s].buf = SubSeq(wal[s].sock, 1, n)]
          /\ wal' = [wal EXCEPT ![s].sock = SubSeq(@, n + 1, Len(@))]
    BY DEF Read
  <1> DEFINE a == SubSeq(wal[s].sock, 1, n)
             b == SubSeq(wal[s].sock, n + 1, Len(wal[s].sock))
             r == [ses[s] EXCEPT !.buf = a]
             w == [wal[s] EXCEPT !.sock = b]
  <1>3. /\ a \in Seq(Line) /\ b \in Seq(Line) /\ Once(a) /\ Once(b)
        /\ \A i \in DOMAIN a : \E m \in DOMAIN wal[s].sock : a[i] = wal[s].sock[m]
        /\ \A i \in DOMAIN b : \E m \in DOMAIN wal[s].sock : b[i] = wal[s].sock[m]
        /\ \A i \in DOMAIN a, k \in DOMAIN b : a[i] # b[k]
    BY <1>1, SplitIs DEF LinesOnce
  <1>4. ses' = [ses EXCEPT ![s] = r] /\ wal' = [wal EXCEPT ![s] = w]
    BY <1>1, <1>2
  <1> HIDE DEF a, b
  <1>5. /\ r \in SessionRecord
        /\ r.up = ses[s].up /\ r.pc = ses[s].pc /\ r.line = ses[s].line /\ r.buf = a
        /\ r.subs = ses[s].subs /\ r.recent = ses[s].recent /\ r.todo = ses[s].todo
    BY <1>1, <1>3 DEF SessionRecord
  <1>6. /\ w \in WalletRecord /\ w.asked = wal[s].asked /\ w.sock = b
        /\ w.answered = wal[s].answered /\ w.told = wal[s].told /\ w.acked = wal[s].acked
    BY <1>1, <1>3 DEF WalletRecord
  <1> HIDE DEF r, w
  <1>7. SesOnly(s) /\ ses'[s] = r /\ WalOnly(s) /\ wal'[s] = w
    BY <1>1, <1>4, <1>5, <1>6, SesUpdated, WalUpdated
  <1>8. ses'[s].buf = a /\ wal'[s].sock = b
    BY <1>5, <1>6, <1>7
  <1>9. /\ Once(ses'[s].buf) /\ Once(wal'[s].sock)
        /\ \A i \in DOMAIN ses'[s].buf :
              \E m \in DOMAIN wal[s].sock : ses'[s].buf[i] = wal[s].sock[m]
        /\ \A i \in DOMAIN wal'[s].sock :
              \E m \in DOMAIN wal[s].sock : wal'[s].sock[i] = wal[s].sock[m]
        /\ \A i \in DOMAIN ses'[s].buf, k \in DOMAIN wal'[s].sock :
              ses'[s].buf[i] # wal'[s].sock[k]
    BY <1>3, <1>8
  <1>10. QED
    BY <1>1, <1>5, <1>6, <1>7, <1>9

\* The wallet sends a line, numbered after the ones before it.
LEMMA SendLineIs ==
    ASSUME LineInv, NEW s \in Session, NEW req \in Request, SendLine(s, req)
    PROVE  /\ WalOnly(s) /\ ses[s].up
           /\ Len(wal[s].asked) \in Nat /\ Len(wal[s].asked) < MaxLines
           /\ wal'[s].asked = Append(wal[s].asked, req)
           /\ wal'[s].sock = Append(wal[s].sock, Len(wal[s].asked) + 1)
           /\ (Len(wal[s].asked) + 1) \in Line
           /\ wal'[s].answered = wal[s].answered
           /\ wal'[s].told = wal[s].told /\ wal'[s].acked = wal[s].acked
  <1>1. /\ wal \in [Session -> WalletRecord] /\ wal[s] \in WalletRecord
        /\ ses[s].up /\ Len(wal[s].asked) < MaxLines
    BY DEF LineInv, Typed, SendLine
  <1>2. /\ wal[s].asked \in Seq(Request) /\ wal[s].sock \in Seq(Line)
        /\ Len(wal[s].asked) \in Nat
    BY <1>1, LenProperties DEF WalletRecord
  <1>3. (Len(wal[s].asked) + 1) \in Line
    BY <1>1, <1>2, SessionAssumption DEF Line
  <1> DEFINE a == Append(wal[s].asked, req)
             b == Append(wal[s].sock, Len(wal[s].asked) + 1)
             w == [wal[s] EXCEPT !.asked = a, !.sock = b]
  <1>4. a \in Seq(Request) /\ b \in Seq(Line)
    BY <1>2, <1>3, AppendIs
  <1>5. wal' = [wal EXCEPT ![s] = w]
    BY <1>1 DEF SendLine
  <1> HIDE DEF a, b
  <1>6. /\ w \in WalletRecord /\ w.asked = a /\ w.sock = b
        /\ w.answered = wal[s].answered /\ w.told = wal[s].told /\ w.acked = wal[s].acked
    BY <1>1, <1>4 DEF WalletRecord
  <1> HIDE DEF w
  <1>7. WalOnly(s) /\ wal'[s] = w
    BY <1>1, <1>5, <1>6, WalUpdated
  <1>8. QED
    BY <1>1, <1>2, <1>3, <1>6, <1>7 DEF a, b

\* A notification received.
LEMMA HearIs ==
    ASSUME LineInv, NEW s \in Session, Hear(s)
    PROVE  /\ SesOnly(s) /\ WalOnly(s) /\ ses[s].up /\ chan[s].queue # <<>>
           /\ ses'[s].up = ses[s].up /\ ses'[s].pc = ses[s].pc
           /\ ses'[s].line = ses[s].line /\ ses'[s].buf = ses[s].buf
           /\ ses'[s].subs = ses[s].subs /\ ses'[s].todo = ses[s].todo
           /\ \/ ses'[s].recent = ses[s].recent
              \/ ses'[s].recent = NULL /\ ~Held(ses[s].recent)
           /\ wal'[s].asked = wal[s].asked /\ wal'[s].sock = wal[s].sock
           /\ wal'[s].answered = wal[s].answered /\ wal'[s].acked = wal[s].acked
           /\ Head(chan[s].queue) \in Sh
           /\ wal'[s].told = IF Head(chan[s].queue) \in ses[s].subs
                             THEN [wal[s].told EXCEPT ![Head(chan[s].queue)] =
                                      PendingInSession(s, Head(chan[s].queue))]
                             ELSE wal[s].told
  <1>1. /\ ses \in [Session -> SessionRecord] /\ wal \in [Session -> WalletRecord]
        /\ ses[s] \in SessionRecord /\ wal[s] \in WalletRecord
        /\ ses[s].up /\ chan[s].queue \in Seq(Sh) /\ chan[s].queue # <<>>
    BY DEF LineInv, Typed, Hear, Listens, ChanRecord
  <1>2. PICK sh \in Sh : sh = Head(chan[s].queue)
    BY <1>1, HeadTailProperties
  <1>3. PICK recent \in {ses[s].recent, NULL} :
          /\ recent = IF ses[s].recent # NULL /\ ~Held(ses[s].recent) THEN NULL
                      ELSE ses[s].recent
          /\ recent = ses[s].recent \/ ~Held(ses[s].recent)
    OBVIOUS
  <1> DEFINE r == [ses[s] EXCEPT !.recent = recent]
  <1>4. /\ r \in SessionRecord
        /\ r.up = ses[s].up /\ r.pc = ses[s].pc /\ r.line = ses[s].line
        /\ r.buf = ses[s].buf /\ r.subs = ses[s].subs /\ r.recent = recent
        /\ r.todo = ses[s].todo
    BY <1>1, <1>3 DEF SessionRecord
  <1>5. ses' = [ses EXCEPT ![s] = r]
    BY <1>1, <1>3 DEF Hear
  <1> DEFINE told == IF sh \in ses[s].subs
                     THEN [wal[s].told EXCEPT ![sh] = PendingInSession(s, sh)]
                     ELSE wal[s].told
             w == [wal[s] EXCEPT !.told = told]
  <1>6. told \in [Sh -> SUBSET Tx]
    BY <1>1, <1>2 DEF WalletRecord, PendingInSession, PendingFor
  <1>7. wal' = [wal EXCEPT ![s] = w]
    <2>1. CASE sh \in ses[s].subs
      BY <1>1, <1>2, <2>1 DEF Hear, StatusSent
    <2>2. CASE sh \notin ses[s].subs
      BY <1>1, <1>2, <2>2 DEF Hear, StatusSent, WalletRecord
    <2>3. QED BY <2>1, <2>2
  <1> HIDE DEF told
  <1>8. /\ w \in WalletRecord /\ w.asked = wal[s].asked /\ w.sock = wal[s].sock
        /\ w.answered = wal[s].answered /\ w.told = told /\ w.acked = wal[s].acked
    BY <1>1, <1>6 DEF WalletRecord
  <1> HIDE DEF r, w
  <1>9. SesOnly(s) /\ ses'[s] = r /\ WalOnly(s) /\ wal'[s] = w
    BY <1>1, <1>4, <1>5, <1>7, <1>8, SesUpdated, WalUpdated
  <1>10. QED
    BY <1>1, <1>2, <1>3, <1>4, <1>8, <1>9 DEF told

\* A connection begins and ends.
LEMMA ConnectIs ==
    ASSUME LineInv, NEW s \in Session, Connect(s) \/ Disconnect(s)
    PROVE  /\ SesOnly(s) /\ WalOnly(s) /\ chan' \in [Session -> ChanRecord]
           /\ \A z \in Session : z # s => chan'[z] = chan[z]
           /\ ses'[s].pc = "idle" /\ ses'[s].line = NULL /\ ses'[s].buf = <<>>
           /\ ses'[s].subs = {} /\ ses'[s].todo = {}
           /\ wal'[s] = NewWallet
           /\ ses[s].todo = {}
  <1>1. /\ ses \in [Session -> SessionRecord] /\ wal \in [Session -> WalletRecord]
        /\ chan \in [Session -> ChanRecord]
        /\ ses[s] \in SessionRecord /\ Serving(s)
    BY DEF LineInv, Typed
  <1>2. <<>> \in Seq(Line) /\ <<>> \in Seq(Sh) /\ <<>> \in Seq(Request)
    BY EmptySeq
  <1>3. /\ NewSession \in SessionRecord /\ NewWallet \in WalletRecord
        /\ NewChan \in ChanRecord
    BY <1>2 DEF NewSession, NewWallet, NewChan, SessionRecord, WalletRecord, ChanRecord
  <1> DEFINE n == [NewSession EXCEPT !.up = TRUE]
  <1>4. /\ n \in SessionRecord /\ n.pc = "idle" /\ n.line = NULL /\ n.buf = <<>>
        /\ n.subs = {} /\ n.todo = {}
    BY <1>3 DEF NewSession, SessionRecord
  <1>5. PICK r \in {n, NewSession} : ses' = [ses EXCEPT ![s] = r]
    BY DEF Connect, Disconnect
  <1> HIDE DEF n
  <1>6. SesOnly(s) /\ ses'[s] = r
    BY <1>1, <1>3, <1>4, <1>5, SesUpdated
  <1>7. WalOnly(s) /\ wal'[s] = NewWallet
    BY <1>1, <1>3, WalUpdated DEF Connect, Disconnect
  <1>8. chan' \in [Session -> ChanRecord] /\ \A z \in Session : z # s => chan'[z] = chan[z]
    BY <1>1, <1>3 DEF Connect, Disconnect
  <1>9. ses[s].todo = {}
    BY <1>1 DEF Connect, Disconnect, Serving, SessionRecord
  <1>10. QED
    BY <1>4, <1>5, <1>6, <1>7, <1>8, <1>9 DEF NewSession

-----------------------------------------------------------------------------
(* What notifications, jobs and removals do.                               *)

\* A notification about sh waits in the channel for session s.
Queued(s, sh) == \E n \in DOMAIN chan[s].queue : chan[s].queue[n] = sh

\* Unless the channel overflows, Sender::send adds a notification for every
\* connection and takes none away.
LEMMA PushIs ==
    ASSUME NEW c \in ChanRecord, NEW sh \in Sh
    PROVE  /\ Push(c, sh) \in ChanRecord
           /\ ~Push(c, sh).lost =>
                 /\ ~c.lost
                 /\ \E m \in DOMAIN Push(c, sh).queue : Push(c, sh).queue[m] = sh
                 /\ \A n \in DOMAIN c.queue :
                       \E m \in DOMAIN Push(c, sh).queue :
                          Push(c, sh).queue[m] = c.queue[n]
  <1>1. c.queue \in Seq(Sh) /\ Len(c.queue) \in Nat /\ ChanCap \in Nat \ {0}
    BY LenProperties, SessionAssumption DEF ChanRecord
  <1>2. CASE Len(c.queue) < ChanCap
    <2> DEFINE a == Append(c.queue, sh)
    <2>1. /\ a \in Seq(Sh)
          /\ DOMAIN a = DOMAIN c.queue \cup {Len(c.queue) + 1}
          /\ \A i \in DOMAIN c.queue : a[i] = c.queue[i]
          /\ a[Len(c.queue) + 1] = sh
      BY <1>1, AppendIs
    <2>2. Push(c, sh) = [c EXCEPT !.queue = a]
      BY <1>2 DEF Push
    <2> HIDE DEF a
    <2>3. Push(c, sh) \in ChanRecord /\ Push(c, sh).queue = a /\ Push(c, sh).lost = c.lost
      BY <2>1, <2>2 DEF ChanRecord
    <2>4. QED
      BY <2>1, <2>3
  <1>3. CASE ~(Len(c.queue) < ChanCap)
    <2> DEFINE a == Append(Tail(c.queue), sh)
    <2>1. c.queue # <<>>
      BY <1>1, <1>3, EmptySeq
    <2>2. Tail(c.queue) \in Seq(Sh)
      BY <1>1, <2>1, HeadTailProperties
    <2>3. a \in Seq(Sh)
      BY <2>2, AppendIs
    <2>4. Push(c, sh) = [c EXCEPT !.queue = a, !.lagged = TRUE, !.lost = TRUE]
      BY <1>3 DEF Push
    <2> HIDE DEF a
    <2>5. QED
      BY <2>3, <2>4 DEF ChanRecord
  <1>4. QED
    BY <1>2, <1>3

\* The same of every connection at once.
LEMMA SendIs ==
    ASSUME LineInv, NEW sh \in Sh, Send(sh)
    PROVE  /\ chan' \in [Session -> ChanRecord]
           /\ \A s \in Session : ses[s].up /\ ~chan'[s].lost =>
                 /\ ~chan[s].lost
                 /\ Queued(s, sh)'
                 /\ \A x \in Sh : Queued(s, x) => Queued(s, x)'
  <1>1. chan \in [Session -> ChanRecord]
    BY DEF LineInv, Typed
  <1>2. \A s \in Session : Push(chan[s], sh) \in ChanRecord
    BY <1>1, PushIs
  <1>3. chan' = [s \in Session |-> IF ses[s].up THEN Push(chan[s], sh) ELSE chan[s]]
    BY DEF Send
  <1>4. chan' \in [Session -> ChanRecord]
    BY <1>1, <1>2, <1>3
  <1>5. ASSUME NEW s \in Session, ses[s].up, ~chan'[s].lost
        PROVE  /\ ~chan[s].lost
               /\ Queued(s, sh)'
               /\ \A x \in Sh : Queued(s, x) => Queued(s, x)'
    <2>1. chan'[s] = Push(chan[s], sh) /\ chan[s] \in ChanRecord
      BY <1>1, <1>3, <1>5
    <2>2. QED
      BY <1>5, <2>1, PushIs DEF Queued
  <1>6. QED
    BY <1>4, <1>5

\* Job j is the only one that changes.
JobOnly(j) ==
    /\ job' \in [Job -> JobRecord]
    /\ \A k \in Job : k # j => job'[k] = job[k]

\* A background job that has been given a new record.
LEMMA JobUpdated ==
    ASSUME job \in [Job -> JobRecord], NEW j \in Job,
           NEW r \in JobRecord, job' = [job EXCEPT ![j] = r]
    PROVE  JobOnly(j) /\ job'[j] = r
  BY DEF JobOnly

\* handle_broadcast inserts the row, or ends.
LEMMA JobInsertIs ==
    ASSUME LineInv, NEW j \in Job, JobInsert(j)
    PROVE  /\ JobOnly(j) /\ job[j].pc = "ingest" /\ job[j].tx \in Tx
           /\ job'[j].tx = job[j].tx /\ job'[j].todo = {} /\ job[j].todo = {}
           /\ \/ /\ rows' = [rows EXCEPT ![job[j].tx] = @ + 1]
                 /\ job'[j].pc = "store" /\ orphans' = orphans
              \/ /\ rows' = rows /\ job'[j].pc = "done"
                 /\ orphans' = orphans \cup {job[j].tx}
  <1>1. /\ job \in [Job -> JobRecord] /\ job[j] \in JobRecord /\ job[j].pc = "ingest"
        /\ JobRuns(j)
    BY DEF LineInv, Typed, JobInsert
  <1>2. job[j].tx \in Tx /\ job[j].todo = {}
    BY <1>1 DEF JobRuns
  <1> DEFINE r == [job[j] EXCEPT !.pc = "store"]
             d == [job[j] EXCEPT !.pc = "done"]
  <1>3. /\ r \in JobRecord /\ r.pc = "store" /\ r.tx = job[j].tx /\ r.todo = job[j].todo
        /\ d \in JobRecord /\ d.pc = "done" /\ d.tx = job[j].tx /\ d.todo = job[j].todo
    BY <1>1 DEF JobRecord
  <1>4. \/ /\ rows' = [rows EXCEPT ![job[j].tx] = @ + 1]
           /\ job' = [job EXCEPT ![j] = r] /\ orphans' = orphans
        \/ /\ rows' = rows /\ job' = [job EXCEPT ![j] = d]
           /\ orphans' = orphans \cup {job[j].tx}
    BY <1>1 DEF JobInsert
  <1> HIDE DEF r, d
  <1>5. CASE job' = [job EXCEPT ![j] = r] /\ orphans' = orphans
             /\ rows' = [rows EXCEPT ![job[j].tx] = @ + 1]
    <2>1. JobOnly(j) /\ job'[j] = r
      BY <1>1, <1>3, <1>5, JobUpdated
    <2>2. QED BY <1>1, <1>2, <1>3, <1>5, <2>1
  <1>6. CASE job' = [job EXCEPT ![j] = d] /\ rows' = rows
             /\ orphans' = orphans \cup {job[j].tx}
    <2>1. JobOnly(j) /\ job'[j] = d
      BY <1>1, <1>3, <1>6, JobUpdated
    <2>2. QED BY <1>1, <1>2, <1>3, <1>6, <2>1
  <1>7. QED
    BY <1>4, <1>5, <1>6

\* The transaction is stored again.
LEMMA JobStoreIs ==
    ASSUME LineInv, NEW j \in Job, JobStore(j)
    PROVE  /\ JobOnly(j) /\ job[j].pc = "store" /\ job[j].tx \in Tx
           /\ job'[j].tx = job[j].tx /\ job'[j].pc = "notify"
           /\ job[j].todo = {} /\ job'[j].todo = Outs[job[j].tx]
           /\ vm' = [vm EXCEPT ![job[j].tx] = Outs[job[j].tx]]
  <1>1. /\ job \in [Job -> JobRecord] /\ job[j] \in JobRecord /\ job[j].pc = "store"
        /\ JobRuns(j)
    BY DEF LineInv, Typed, JobStore
  <1>2. job[j].tx \in Tx /\ job[j].todo = {} /\ Outs[job[j].tx] \in SUBSET Sh
    BY <1>1, SessionAssumption DEF JobRuns
  <1> DEFINE r == [job[j] EXCEPT !.pc = "notify", !.todo = Outs[job[j].tx]]
  <1>3. /\ r \in JobRecord /\ r.pc = "notify" /\ r.tx = job[j].tx
        /\ r.todo = Outs[job[j].tx]
    BY <1>1, <1>2 DEF JobRecord
  <1>4. job' = [job EXCEPT ![j] = r]
    BY <1>1 DEF JobStore
  <1> HIDE DEF r
  <1>5. JobOnly(j) /\ job'[j] = r
    BY <1>1, <1>3, <1>4, JobUpdated
  <1>6. QED
    BY <1>1, <1>2, <1>3, <1>5 DEF JobStore

\* One of its notifications is sent.
LEMMA JobNotifyIs ==
    ASSUME LineInv, NEW j \in Job, NEW sh \in Sh, JobNotify(j, sh)
    PROVE  /\ JobOnly(j) /\ job[j].pc = "notify" /\ job[j].tx \in Tx
           /\ job'[j].tx = job[j].tx /\ job'[j].todo = job[j].todo \ {sh}
           /\ \/ job'[j].pc = "notify"
              \/ job'[j].pc = "enrich" /\ job'[j].todo = {}
  <1>1. /\ job \in [Job -> JobRecord] /\ job[j] \in JobRecord /\ job[j].pc = "notify"
        /\ JobRuns(j) /\ job[j].tx \in Tx
    BY DEF LineInv, Typed, JobNotify, JobRuns
  <1>2. PICK pc \in {"notify", "enrich"} :
          /\ pc = IF job[j].todo = {sh} THEN "enrich" ELSE job[j].pc
          /\ pc = "enrich" => job[j].todo = {sh}
    BY <1>1
  <1> DEFINE r == [job[j] EXCEPT !.todo = @ \ {sh}, !.pc = pc]
  <1>3. /\ r \in JobRecord /\ r.pc = pc /\ r.tx = job[j].tx
        /\ r.todo = job[j].todo \ {sh}
    BY <1>1 DEF JobRecord
  <1>4. job' = [job EXCEPT ![j] = r]
    BY <1>1, <1>2 DEF JobNotify
  <1> HIDE DEF r
  <1>5. JobOnly(j) /\ job'[j] = r
    BY <1>1, <1>3, <1>4, JobUpdated
  <1>6. QED
    BY <1>1, <1>2, <1>3, <1>5

\* Inputs found are added to what is held, which stays held.
LEMMA JobEnrichIs ==
    ASSUME LineInv, NEW j \in Job, JobEnrich(j)
    PROVE  /\ JobOnly(j) /\ job[j].pc = "enrich" /\ job[j].tx \in Tx
           /\ job'[j].tx = job[j].tx /\ job'[j].pc = "done"
           /\ job[j].todo = {} /\ job'[j].todo = {}
           /\ vm' \in [Tx -> {NULL} \cup SUBSET Sh]
           /\ \A t \in Tx : /\ Held(t)' <=> Held(t)
                            /\ Held(t) => vm[t] \subseteq vm'[t]
  <1>1. /\ job \in [Job -> JobRecord] /\ job[j] \in JobRecord /\ job[j].pc = "enrich"
        /\ JobRuns(j) /\ vm \in [Tx -> {NULL} \cup SUBSET Sh]
    BY DEF LineInv, Typed, JobEnrich
  <1>2. job[j].tx \in Tx /\ job[j].todo = {} /\ Ins[job[j].tx] \in SUBSET Sh
    BY <1>1, SessionAssumption DEF JobRuns
  <1> DEFINE r == [job[j] EXCEPT !.pc = "done"]
  <1>3. /\ r \in JobRecord /\ r.pc = "done" /\ r.tx = job[j].tx
        /\ r.todo = job[j].todo
    BY <1>1 DEF JobRecord
  <1>4. job' = [job EXCEPT ![j] = r]
    BY <1>1 DEF JobEnrich
  <1> HIDE DEF r
  <1>5. JobOnly(j) /\ job'[j] = r
    BY <1>1, <1>3, <1>4, JobUpdated
  <1>6. PICK found \in SUBSET Ins[job[j].tx] :
          vm' = IF Held(job[j].tx)
                THEN [vm EXCEPT ![job[j].tx] = @ \cup found] ELSE vm
    BY DEF JobEnrich
  <1>7. /\ vm' \in [Tx -> {NULL} \cup SUBSET Sh]
        /\ \A t \in Tx : /\ Held(t)' <=> Held(t)
                         /\ Held(t) => vm[t] \subseteq vm'[t]
    <2>1. CASE ~Held(job[j].tx)
      BY <1>1, <1>6, <2>1 DEF Held
    <2>2. CASE Held(job[j].tx)
      <3>1. vm[job[j].tx] \in SUBSET Sh
        BY <1>1, <1>2, <2>2 DEF Held
      <3>2. PICK v \in SUBSET Sh : v = vm[job[j].tx] \cup found
        BY <1>2, <1>6, <3>1
      <3>3. v # NULL /\ vm' = [vm EXCEPT ![job[j].tx] = v]
        BY <1>6, <2>2, <3>2, SessionAssumption
      <3>4. vm' \in [Tx -> {NULL} \cup SUBSET Sh]
        BY <1>1, <3>2, <3>3
      <3>5. \A t \in Tx : vm'[t] = IF t = job[j].tx THEN v ELSE vm[t]
        BY <1>1, <3>3
      <3>6. QED
        BY <2>2, <3>2, <3>3, <3>4, <3>5 DEF Held
    <2>3. QED BY <2>1, <2>2
  <1>8. QED
    BY <1>1, <1>2, <1>3, <1>5, <1>7

-----------------------------------------------------------------------------
(* The first layer is kept.                                                *)

Quiet(s) == LinesOnce(s) /\ Serving(s)

\* What no step touches keeps its lines.
LEMMA QuietKept ==
    ASSUME NEW z \in Session, Quiet(z), ses'[z] = ses[z], wal'[z] = wal[z]
    PROVE  Quiet(z)'
  BY DEF Quiet, LinesOnce, Serving, Open, Once

\* So it is enough to look at the connection that a step is of.
LEMMA QuietElsewhere ==
    ASSUME LineInv, NEW s \in Session, SesOnly(s), WalOnly(s), Quiet(s)'
    PROVE  \A z \in Session : Quiet(z)'
  BY QuietKept DEF LineInv, SesOnly, WalOnly, Quiet

\* A connection that begins or ends has no lines.
LEMMA ConnectLines ==
    ASSUME LineInv, NEW s \in Session, Connect(s) \/ Disconnect(s)
    PROVE  Quiet(s)'
  <1>1. /\ ses'[s].pc = "idle" /\ ses'[s].line = NULL /\ ses'[s].buf = <<>>
        /\ ses'[s].todo = {} /\ wal'[s] = NewWallet
    BY ConnectIs
  <1>2. wal'[s].asked = <<>> /\ wal'[s].sock = <<>> /\ wal'[s].answered = {}
    BY <1>1 DEF NewWallet
  <1>3. DOMAIN <<>> = {} /\ Len(<<>>) = 0 /\ 0 <= MaxLines
    BY EmptySeq, SessionAssumption
  <1>4. QED
    BY <1>1, <1>2, <1>3 DEF Quiet, LinesOnce, Serving, Open, Once

\* A line that is sent is a new one.
LEMMA SendLineLines ==
    ASSUME LineInv, NEW s \in Session, NEW req \in Request, SendLine(s, req)
    PROVE  Quiet(s)'
  <1> DEFINE n == Len(wal[s].asked) + 1
  <1>1. /\ LinesOnce(s) /\ Serving(s) /\ wal[s] \in WalletRecord
        /\ wal[s].asked \in Seq(Request) /\ wal[s].sock \in Seq(Line)
        /\ ses'[s] = ses[s]
    BY DEF LineInv, Typed, WalletRecord, SendLine
  <1>2. /\ Len(wal[s].asked) \in Nat /\ Len(wal[s].asked) < MaxLines
        /\ wal'[s].asked = Append(wal[s].asked, req)
        /\ wal'[s].sock = Append(wal[s].sock, n)
        /\ n \in Line /\ wal'[s].answered = wal[s].answered
    BY SendLineIs
  <1>3. /\ DOMAIN wal'[s].asked = DOMAIN wal[s].asked \cup {n}
        /\ Len(wal'[s].asked) = Len(wal[s].asked) + 1
        /\ \A i \in DOMAIN wal[s].asked : wal'[s].asked[i] = wal[s].asked[i]
        /\ n \notin DOMAIN wal[s].asked
    BY <1>1, <1>2, AppendIs
  <1> HIDE DEF n
  <1>4. Open(s)' = Open(s) \cup {n} /\ n \notin Open(s)
    BY <1>1, <1>2, <1>3 DEF LinesOnce, Open
  <1> DEFINE m == Len(wal[s].sock) + 1
  <1>5. /\ DOMAIN wal'[s].sock = DOMAIN wal[s].sock \cup {m}
        /\ \A i \in DOMAIN wal[s].sock : wal'[s].sock[i] = wal[s].sock[i]
        /\ wal'[s].sock[m] = n /\ m \notin DOMAIN wal[s].sock
    BY <1>1, <1>2, AppendIs
  <1> HIDE DEF m
  <1>6. Once(wal'[s].sock)
    BY <1>1, <1>4, <1>5 DEF LinesOnce, Once
  <1>7. wal'[s].answered \subseteq DOMAIN wal'[s].asked /\ Len(wal'[s].asked) <= MaxLines
    BY <1>1, <1>2, <1>3, SessionAssumption DEF LinesOnce
  <1>8. \A a \in DOMAIN wal'[s].sock :
          /\ wal'[s].sock[a] \in Open(s)'
          /\ ses[s].pc # "idle" => wal'[s].sock[a] # ses[s].line
          /\ \A b \in DOMAIN ses[s].buf : ses[s].buf[b] # wal'[s].sock[a]
    <2>1. ses[s].pc # "idle" => ses[s].line \in Open(s)
      BY <1>1 DEF Serving, LineInv, Typed, SessionRecord
    <2>2. QED
      BY <1>1, <1>4, <1>5, <2>1 DEF LinesOnce
  <1>9. LinesOnce(s)'
    <2>1. Once(ses'[s].buf)
      BY <1>1 DEF LinesOnce
    <2>2. \A a \in DOMAIN ses'[s].buf :
            /\ ses'[s].buf[a] \in Open(s)'
            /\ ses'[s].pc # "idle" => ses'[s].buf[a] # ses'[s].line
      BY <1>1, <1>4 DEF LinesOnce
    <2>3. QED
      BY <1>1, <1>6, <1>7, <1>8, <2>1, <2>2 DEF LinesOnce
  <1>10. Serving(s)'
    <2>1. \A i \in Open(s) : wal'[s].asked[i] = wal[s].asked[i]
      BY <1>3 DEF Open
    <2>2. QED
      BY <1>1, <1>4, <2>1 DEF Serving
  <1>11. QED
    BY <1>9, <1>10 DEF Quiet

\* Lines that are read leave the socket.
LEMMA ReadLines ==
    ASSUME LineInv, NEW s \in Session, Read(s)
    PROVE  Quiet(s)'
  <1>1. LinesOnce(s) /\ Serving(s)
    BY DEF LineInv
  <1>2. Open(s)' = Open(s)
    BY ReadIs DEF Open
  <1>3. LinesOnce(s)'
    <2>1. /\ \A a \in DOMAIN ses'[s].buf : ses'[s].buf[a] \in Open(s)
          /\ \A a \in DOMAIN wal'[s].sock : wal'[s].sock[a] \in Open(s)
      BY <1>1, ReadIs DEF LinesOnce
    <2>2. QED
      BY <1>1, <1>2, <2>1, ReadIs DEF LinesOnce
  <1>4. Serving(s)'
    BY <1>1, ReadIs DEF Serving
  <1>5. QED
    BY <1>3, <1>4 DEF Quiet

\* A line that is answered is out of the buffer.
LEMMA PollFastLines ==
    ASSUME LineInv, NEW s \in Session, PollFast(s)
    PROVE  SesOnly(s) /\ WalOnly(s) /\ Quiet(s)'
  <1>1. PICK i \in Line, req \in Request :
          /\ Handles(s, i, req) /\ req.op = "poll"
          /\ ses' = [ses EXCEPT ![s].buf = LinesLeft(s), ![s].subs = @ \cup {req.sh}]
          /\ wal' = [wal EXCEPT ![s].told[req.sh] = PendingInSession(s, req.sh),
                                ![s].answered = @ \cup {i}]
    BY DEF PollFast
  <1>2. /\ SesOnly(s) /\ WalOnly(s)
        /\ ses'[s].up = ses[s].up /\ ses'[s].pc = ses[s].pc
        /\ ses'[s].line = ses[s].line /\ ses'[s].buf = LinesLeft(s)
        /\ ses'[s].todo = ses[s].todo
        /\ wal'[s].asked = wal[s].asked /\ wal'[s].sock = wal[s].sock
        /\ wal'[s].answered = wal[s].answered \cup {i}
    BY <1>1, PollFastIs
  <1>3. /\ i \in Open(s) /\ ses[s].up /\ ses[s].pc = "idle"
        /\ Once(LinesLeft(s))
        /\ \A a \in DOMAIN LinesLeft(s) :
              /\ LinesLeft(s)[a] \in Open(s) /\ LinesLeft(s)[a] # i
              /\ \A b \in DOMAIN wal[s].sock : LinesLeft(s)[a] # wal[s].sock[b]
        /\ \A b \in DOMAIN wal[s].sock : wal[s].sock[b] # i
    BY <1>1, HandlesIs
  <1>4. LinesOnce(s) /\ Serving(s)
    BY DEF LineInv
  <1>5. Open(s)' = Open(s) \ {i} /\ i \in DOMAIN wal[s].asked
    BY <1>2, <1>3 DEF Open
  <1>6. LinesOnce(s)'
    BY <1>2, <1>3, <1>4, <1>5 DEF LinesOnce
  <1>7. Serving(s)'
    BY <1>2, <1>3, <1>4 DEF Serving
  <1>8. QED
    BY <1>2, <1>6, <1>7 DEF Quiet

\* A line that is forwarded is the one the task works on.
LEMMA PollForwardLines ==
    ASSUME LineInv, NEW s \in Session, PollForward(s)
    PROVE  SesOnly(s) /\ WalOnly(s) /\ Quiet(s)'
  <1>1. PICK i \in Line, req \in Request :
          /\ Handles(s, i, req) /\ req.op = "poll"
          /\ ses' = [ses EXCEPT ![s].buf = LinesLeft(s), ![s].subs = @ \cup {req.sh},
                                ![s].pc = "forward", ![s].line = i]
          /\ wal' = wal
    BY DEF PollForward
  <1>2. /\ SesOnly(s) /\ WalOnly(s)
        /\ ses'[s].up = ses[s].up /\ ses'[s].pc = "forward"
        /\ ses'[s].line = i /\ ses'[s].buf = LinesLeft(s)
        /\ ses'[s].todo = ses[s].todo
    BY <1>1, PollForwardIs DEF LineInv, Typed, WalOnly
  <1>3. /\ i \in Open(s) /\ ses[s].up /\ ses[s].todo = {} /\ req = wal[s].asked[i]
        /\ Once(LinesLeft(s))
        /\ \A a \in DOMAIN LinesLeft(s) :
              /\ LinesLeft(s)[a] \in Open(s) /\ LinesLeft(s)[a] # i
              /\ \A b \in DOMAIN wal[s].sock : LinesLeft(s)[a] # wal[s].sock[b]
        /\ \A b \in DOMAIN wal[s].sock : wal[s].sock[b] # i
    BY <1>1, HandlesIs
  <1>4. LinesOnce(s) /\ Serving(s)
    BY DEF LineInv
  <1>5. Open(s)' = Open(s)
    BY <1>1 DEF Open
  <1>6. LinesOnce(s)'
    <2>1. wal'[s] = wal[s]
      BY <1>1
    <2>2. Once(ses'[s].buf)
      BY <1>2, <1>3
    <2>3. /\ \A a \in DOMAIN ses'[s].buf :
                /\ ses'[s].buf[a] \in Open(s)' /\ ses'[s].buf[a] # ses'[s].line
                /\ \A b \in DOMAIN wal'[s].sock : ses'[s].buf[a] # wal'[s].sock[b]
          /\ \A b \in DOMAIN wal'[s].sock : wal'[s].sock[b] # ses'[s].line
      BY <1>2, <1>3, <1>5, <2>1
    <2>4. QED
      BY <1>4, <1>5, <2>1, <2>2, <2>3 DEF LinesOnce
  <1>7. Serving(s)'
    BY <1>1, <1>2, <1>3, <1>5 DEF Serving
  <1>8. QED
    BY <1>2, <1>6, <1>7 DEF Quiet

\* The same of a broadcast, which keeps its line until it is acknowledged.
LEMMA BroadcastStoreLines ==
    ASSUME LineInv, NEW s \in Session, BroadcastStore(s)
    PROVE  SesOnly(s) /\ WalOnly(s) /\ Quiet(s)'
  <1>1. PICK i \in Line, req \in Request :
          /\ Handles(s, i, req) /\ req.op = "broadcast"
          /\ ses' = [ses EXCEPT ![s].buf = LinesLeft(s), ![s].pc = "store",
                                ![s].line = i, ![s].todo = Outs[req.tx]]
          /\ wal' = wal
    BY DEF BroadcastStore
  <1>2. /\ SesOnly(s) /\ WalOnly(s)
        /\ ses'[s].up = ses[s].up /\ ses'[s].pc = "store"
        /\ ses'[s].line = i /\ ses'[s].buf = LinesLeft(s)
    BY <1>1, BroadcastStoreIs DEF LineInv, Typed, WalOnly
  <1>3. /\ i \in Open(s) /\ ses[s].up /\ req = wal[s].asked[i]
        /\ Once(LinesLeft(s))
        /\ \A a \in DOMAIN LinesLeft(s) :
              /\ LinesLeft(s)[a] \in Open(s) /\ LinesLeft(s)[a] # i
              /\ \A b \in DOMAIN wal[s].sock : LinesLeft(s)[a] # wal[s].sock[b]
        /\ \A b \in DOMAIN wal[s].sock : wal[s].sock[b] # i
    BY <1>1, HandlesIs
  <1>4. LinesOnce(s) /\ Serving(s)
    BY DEF LineInv
  <1>5. Open(s)' = Open(s)
    BY <1>1 DEF Open
  <1>6. LinesOnce(s)'
    <2>1. wal'[s] = wal[s]
      BY <1>1
    <2>2. Once(ses'[s].buf)
      BY <1>2, <1>3
    <2>3. /\ \A a \in DOMAIN ses'[s].buf :
                /\ ses'[s].buf[a] \in Open(s)' /\ ses'[s].buf[a] # ses'[s].line
                /\ \A b \in DOMAIN wal'[s].sock : ses'[s].buf[a] # wal'[s].sock[b]
          /\ \A b \in DOMAIN wal'[s].sock : wal'[s].sock[b] # ses'[s].line
      BY <1>2, <1>3, <1>5, <2>1
    <2>4. QED
      BY <1>4, <1>5, <2>1, <2>2, <2>3 DEF LinesOnce
  <1>7. Serving(s)'
    BY <1>1, <1>2, <1>3, <1>5 DEF Serving
  <1>8. QED
    BY <1>2, <1>6, <1>7 DEF Quiet

\* The line the task worked on is answered, and the task is free.
LEMMA AnswerLines ==
    ASSUME LineInv, NEW s \in Session, PollAnswer(s) \/ BroadcastAck(s)
    PROVE  SesOnly(s) /\ WalOnly(s) /\ Quiet(s)'
  <1>1. /\ SesOnly(s) /\ WalOnly(s)
        /\ ses'[s].up = ses[s].up /\ ses'[s].pc = "idle" /\ ses'[s].line = NULL
        /\ ses'[s].buf = ses[s].buf /\ ses'[s].todo = {}
        /\ wal'[s].asked = wal[s].asked /\ wal'[s].sock = wal[s].sock
        /\ wal'[s].answered = wal[s].answered \cup {ses[s].line}
        /\ ses[s].pc # "idle" /\ ses[s].line \in Open(s)
    <2>1. CASE PollAnswer(s)
      <3>1. ses[s].pc = "forward" /\ Serving(s)
        BY <2>1 DEF PollAnswer, LineInv
      <3>2. QED BY <2>1, <3>1, PollAnswerIs DEF Serving
    <2>2. CASE BroadcastAck(s)
      <3>1. ses[s].pc = "store" /\ Serving(s)
        BY <2>2 DEF BroadcastAck, LineInv
      <3>2. QED BY <2>2, <3>1, BroadcastAckIs DEF Serving
    <2>3. QED BY <2>1, <2>2
  <1>2. LinesOnce(s) /\ Serving(s)
    BY DEF LineInv
  <1>3. Open(s)' = Open(s) \ {ses[s].line} /\ ses[s].line \in DOMAIN wal[s].asked
    BY <1>1 DEF Open
  <1>4. LinesOnce(s)'
    BY <1>1, <1>2, <1>3 DEF LinesOnce
  <1>5. Serving(s)'
    <2>1. ~ses[s].up => ses[s].buf = <<>>
      BY <1>2 DEF Serving
    <2>2. QED
      BY <1>1, <2>1 DEF Serving
  <1>6. QED
    BY <1>1, <1>4, <1>5 DEF Quiet

\* Notifications sent or received move no line.
LEMMA NotifyLines ==
    ASSUME LineInv, NEW s \in Session, NEW sh \in Sh, BroadcastNotify(s, sh)
    PROVE  SesOnly(s) /\ WalOnly(s) /\ Quiet(s)'
  <1>1. /\ SesOnly(s) /\ ses[s].pc = "store"
        /\ ses'[s].up = ses[s].up /\ ses'[s].pc = ses[s].pc
        /\ ses'[s].line = ses[s].line /\ ses'[s].buf = ses[s].buf
    BY BroadcastNotifyIs
  <1>2. LinesOnce(s) /\ Serving(s) /\ wal' = wal /\ WalOnly(s)
    BY DEF LineInv, BroadcastNotify, Typed, WalOnly
  <1>3. LinesOnce(s)'
    BY <1>1, <1>2 DEF LinesOnce, Open
  <1>4. Serving(s)'
    BY <1>1, <1>2 DEF Serving, Open
  <1>5. QED
    BY <1>1, <1>2, <1>3, <1>4 DEF Quiet

\* The same of a notification received.
LEMMA HearLines ==
    ASSUME LineInv, NEW s \in Session, Hear(s)
    PROVE  Quiet(s)'
  <1>1. LinesOnce(s) /\ Serving(s)
    BY DEF LineInv
  <1>2. /\ ses'[s].up = ses[s].up /\ ses'[s].pc = ses[s].pc
        /\ ses'[s].line = ses[s].line /\ ses'[s].buf = ses[s].buf
        /\ ses'[s].todo = ses[s].todo
        /\ wal'[s].asked = wal[s].asked /\ wal'[s].sock = wal[s].sock
        /\ wal'[s].answered = wal[s].answered
    BY HearIs
  <1>3. Open(s)' = Open(s)
    BY <1>2 DEF Open
  <1>4. LinesOnce(s)'
    BY <1>1, <1>2, <1>3 DEF LinesOnce
  <1>5. Serving(s)'
    BY <1>1, <1>2, <1>3 DEF Serving
  <1>6. QED
    BY <1>4, <1>5 DEF Quiet

\* The first layer, from its parts.
LEMMA LineInvIs ==
    ASSUME Typed', \A s \in Session : Quiet(s)', \A j \in Job : JobRuns(j)'
    PROVE  LineInv'
  BY DEF LineInv, Quiet

\* A step of connections alone keeps the layer when it keeps their lines.
LEMMA SessionStepKeeps ==
    ASSUME LineInv, NEW s \in Session, SesOnly(s), WalOnly(s), Quiet(s)', job' = job,
           vm' \in [Tx -> {NULL} \cup SUBSET Sh], rows' = rows, gone' = gone,
           orphans' \subseteq Tx, leaving' = leaving,
           chan' \in [Session -> ChanRecord]
    PROVE  LineInv'
  <1>1. Typed'
    BY DEF LineInv, Typed, SesOnly, WalOnly
  <1>2. \A z \in Session : Quiet(z)'
    BY QuietElsewhere
  <1>3. \A j \in Job : JobRuns(j)'
    BY DEF LineInv, JobRuns
  <1>4. QED
    BY <1>1, <1>2, <1>3, LineInvIs

\* A step of job j alone, when what it leaves of the job is in order.
LEMMA JobStepKeeps ==
    ASSUME LineInv, NEW j \in Job, JobOnly(j), JobRuns(j)', ses' = ses, wal' = wal,
           vm' \in [Tx -> {NULL} \cup SUBSET Sh], rows' \in [Tx -> Nat], gone' = gone,
           orphans' \subseteq Tx, leaving' = leaving,
           chan' \in [Session -> ChanRecord]
    PROVE  LineInv'
  <1>1. Typed'
    BY DEF LineInv, Typed, JobOnly
  <1>2. \A z \in Session : Quiet(z)'
    BY QuietKept DEF LineInv, Quiet
  <1>3. \A k \in Job : JobRuns(k)'
    BY DEF LineInv, JobRuns, JobOnly
  <1>4. QED
    BY <1>1, <1>2, <1>3, LineInvIs

\* The connection's steps keep the first layer.
LEMMA SessionLineStep ==
    ASSUME LineInv, NEW s \in Session,
           \/ Connect(s) \/ Disconnect(s)
           \/ \E req \in Request : SendLine(s, req)
           \/ SessionStep(s) \/ HearStep(s)
    PROVE  LineInv'
  <1>1. /\ ses \in [Session -> SessionRecord] /\ wal \in [Session -> WalletRecord]
        /\ chan \in [Session -> ChanRecord] /\ vm \in [Tx -> {NULL} \cup SUBSET Sh]
        /\ orphans \subseteq Tx /\ Serving(s)
    BY DEF LineInv, Typed
  <1>2. CASE Connect(s)
    BY <1>1, <1>2, ConnectIs, ConnectLines, SessionStepKeeps DEF Connect
  <1>3. CASE Disconnect(s)
    <2>1. ses[s].pc = "store" => wal[s].asked[ses[s].line].tx \in Tx
      BY StoredIs DEF Stored
    <2>2. orphans' \subseteq Tx
      BY <1>1, <1>3, <2>1 DEF Disconnect
    <2>3. QED
      BY <1>1, <1>3, <2>2, ConnectIs, ConnectLines, SessionStepKeeps DEF Disconnect
  <1>4. ASSUME NEW req \in Request, SendLine(s, req) PROVE LineInv'
    <2>1. SesOnly(s)
      BY <1>1, <1>4 DEF SendLine, SesOnly
    <2>2. QED
      BY <1>1, <1>4, <2>1, SendLineIs, SendLineLines, SessionStepKeeps DEF SendLine
  <1>5. CASE Read(s)
    <2>1. chan' \in [Session -> ChanRecord]
      BY <1>1, <1>5 DEF Read, ChanRecord
    <2>2. QED
      BY <1>1, <1>5, <2>1, ReadIs, ReadLines, SessionStepKeeps DEF Read
  <1>6. CASE PollFast(s)
    BY <1>1, <1>6, PollFastLines, SessionStepKeeps DEF PollFast
  <1>7. CASE PollForward(s)
    BY <1>1, <1>7, PollForwardLines, SessionStepKeeps DEF PollForward
  <1>8. CASE PollAnswer(s)
    BY <1>1, <1>8, AnswerLines, SessionStepKeeps DEF PollAnswer
  <1>9. CASE BroadcastStore(s)
    <2>1. PICK req \in Request :
            /\ req.op = "broadcast" /\ vm' = [vm EXCEPT ![req.tx] = Outs[req.tx]]
      BY <1>9 DEF BroadcastStore
    <2>2. vm' \in [Tx -> {NULL} \cup SUBSET Sh]
      BY <1>1, <2>1, RequestIs, SessionAssumption
    <2>3. QED
      BY <1>1, <1>9, <2>2, BroadcastStoreLines, SessionStepKeeps DEF BroadcastStore
  <1>10. ASSUME NEW sh \in Sh, BroadcastNotify(s, sh) PROVE LineInv'
    BY <1>1, <1>10, NotifyLines, SendIs, SessionStepKeeps DEF BroadcastNotify
  <1>11. CASE BroadcastAck(s)
    <2>1. SesOnly(s) /\ WalOnly(s) /\ Quiet(s)'
      BY <1>11, AnswerLines
    <2>2. PICK j : job' = [job EXCEPT ![j] =
                             [pc |-> "ingest", tx |-> Stored(s), todo |-> {}]]
      BY <1>11, BroadcastAckIs
    <2> DEFINE r == [pc |-> "ingest", tx |-> Stored(s), todo |-> {}]
    <2>3. r \in JobRecord /\ r.pc = "ingest" /\ r.tx \in Tx /\ r.todo = {}
      BY <1>11, BroadcastAckIs DEF JobRecord
    <2>4. job \in [Job -> JobRecord] /\ \A k \in Job : JobRuns(k)
      BY DEF LineInv, Typed
    <2>5. job' = [job EXCEPT ![j] = r]
      BY <2>2
    <2> HIDE DEF r
    <2>6. job' \in [Job -> JobRecord] /\ \A k \in Job : job'[k] \in {job[k], r}
      BY <2>3, <2>4, <2>5
    <2>7. \A k \in Job : JobRuns(k)'
      BY <2>3, <2>4, <2>6 DEF JobRuns
    <2>8. Typed'
      BY <1>11, <2>1, <2>6 DEF LineInv, Typed, SesOnly, WalOnly, BroadcastAck
    <2>9. QED
      BY <2>1, <2>7, <2>8, QuietElsewhere, LineInvIs
  <1>12. CASE HearLagged(s)
    <2>1. chan' \in [Session -> ChanRecord] /\ ses'[s] = ses[s] /\ wal'[s] = wal[s]
      BY <1>1, <1>12 DEF HearLagged, ChanRecord
    <2>2. SesOnly(s) /\ WalOnly(s) /\ Quiet(s)'
      BY <1>1, <1>12, <2>1, QuietKept DEF HearLagged, SesOnly, WalOnly, LineInv, Quiet
    <2>3. QED
      BY <1>1, <1>12, <2>1, <2>2, SessionStepKeeps DEF HearLagged
  <1>13. CASE Hear(s)
    <2>1. chan[s].queue # <<>> /\ chan[s].queue \in Seq(Sh)
      BY <1>1, <1>13 DEF Hear, ChanRecord
    <2>2. Tail(chan[s].queue) \in Seq(Sh)
      BY <2>1, HeadTailProperties
    <2>3. chan' \in [Session -> ChanRecord]
      BY <1>1, <1>13, <2>2 DEF Hear, ChanRecord
    <2>4. QED
      BY <1>1, <1>13, <2>3, HearIs, HearLines, SessionStepKeeps DEF Hear
  <1>14. QED
    BY <1>2, <1>3, <1>4, <1>5, <1>6, <1>7, <1>8, <1>9, <1>10, <1>11, <1>12, <1>13
    DEF SessionStep, HearStep

\* So do the background jobs and the removals.
LEMMA JobLineStep ==
    ASSUME LineInv,
           \/ \E j \in Job : JobStep(j)
           \/ \E t \in Tx : RemovePendingTx(t)
           \/ RemoveNotifyStep
    PROVE  LineInv'
  <1>1. /\ job \in [Job -> JobRecord] /\ rows \in [Tx -> Nat]
        /\ chan \in [Session -> ChanRecord] /\ vm \in [Tx -> {NULL} \cup SUBSET Sh]
        /\ orphans \subseteq Tx /\ leaving \in [Tx -> SUBSET Sh]
    BY DEF LineInv, Typed
  <1>2. ASSUME NEW j \in Job, JobInsert(j) PROVE LineInv'
    <2>1. /\ JobOnly(j) /\ job[j].tx \in Tx
          /\ job'[j].tx = job[j].tx /\ job'[j].todo = {}
          /\ rows' \in {rows, [rows EXCEPT ![job[j].tx] = @ + 1]}
          /\ orphans' \subseteq Tx
      BY <1>1, <1>2, JobInsertIs
    <2>2. JobRuns(j)' /\ rows' \in [Tx -> Nat]
      BY <1>1, <2>1 DEF JobRuns
    <2>3. QED
      BY <1>1, <1>2, <2>1, <2>2, JobStepKeeps DEF JobInsert
  <1>3. ASSUME NEW j \in Job, JobStore(j) PROVE LineInv'
    <2>1. vm' \in [Tx -> {NULL} \cup SUBSET Sh] /\ JobRuns(j)' /\ JobOnly(j)
      BY <1>1, <1>3, JobStoreIs, SessionAssumption DEF JobRuns
    <2>2. QED
      BY <1>1, <1>3, <2>1, JobStepKeeps DEF JobStore
  <1>4. ASSUME NEW j \in Job, JobEnrich(j) PROVE LineInv'
    <2>1. JobRuns(j)'
      BY <1>4, JobEnrichIs DEF JobRuns
    <2>2. QED
      BY <1>1, <1>4, <2>1, JobEnrichIs, JobStepKeeps DEF JobEnrich
  <1>5. ASSUME NEW j \in Job, NEW sh \in Sh, JobNotify(j, sh) PROVE LineInv'
    <2>1. JobRuns(j)'
      BY <1>5, JobNotifyIs DEF JobRuns
    <2>2. JobOnly(j) /\ chan' \in [Session -> ChanRecord]
      BY <1>5, JobNotifyIs, SendIs DEF JobNotify
    <2>3. QED
      BY <1>1, <1>5, <2>1, <2>2, JobStepKeeps DEF JobNotify
  <1>6. ASSUME NEW t \in Tx, RemovePendingTx(t) PROVE LineInv'
    <2>1. \A z \in Session : Quiet(z)'
      BY <1>6, QuietKept DEF RemovePendingTx, LineInv, Quiet
    <2>2. \A j \in Job : JobRuns(j)'
      BY <1>6 DEF RemovePendingTx, LineInv, JobRuns
    <2>3. rows' \in [Tx -> Nat] /\ vm' \in [Tx -> {NULL} \cup SUBSET Sh]
      BY <1>1, <1>6 DEF RemovePendingTx
    <2>4. leaving' \in [Tx -> SUBSET Sh]
      <3>1. PICK h \in SUBSET Sh : h = IF Held(t) THEN vm[t] ELSE {}
        BY <1>1 DEF Held
      <3>2. leaving' = [leaving EXCEPT ![t] = @ \cup h]
        BY <1>6, <3>1 DEF RemovePendingTx
      <3>3. QED BY <1>1, <3>2
    <2>5. Typed'
      BY <1>6, <2>3, <2>4 DEF RemovePendingTx, LineInv, Typed
    <2>6. QED BY <2>1, <2>2, <2>5, LineInvIs
  <1>7. ASSUME NEW t \in Tx, NEW sh \in Sh, RemoveNotify(t, sh) PROVE LineInv'
    <2>1. \A z \in Session : Quiet(z)'
      BY <1>7, QuietKept DEF RemoveNotify, LineInv, Quiet
    <2>2. \A j \in Job : JobRuns(j)'
      BY <1>7 DEF RemoveNotify, LineInv, JobRuns
    <2>3. chan' \in [Session -> ChanRecord] /\ leaving' \in [Tx -> SUBSET Sh]
      BY <1>1, <1>7, SendIs DEF RemoveNotify
    <2>4. Typed'
      BY <1>7, <2>3 DEF RemoveNotify, LineInv, Typed
    <2>5. QED BY <2>1, <2>2, <2>4, LineInvIs
  <1>8. QED
    BY <1>2, <1>3, <1>4, <1>5, <1>6, <1>7 DEF JobStep, RemoveNotifyStep

\* A stuttering step keeps it.
LEMMA LineStutter ==
    ASSUME LineInv, UNCHANGED vars
    PROVE  LineInv'
  BY DEF LineInv, Typed, LinesOnce, Serving, JobRuns, Open, Once, vars

\* Initially no line has been sent.
LEMMA LineInit ==
    ASSUME Init
    PROVE  LineInv
  <1>1. <<>> \in Seq(Line) /\ <<>> \in Seq(Sh) /\ <<>> \in Seq(Request)
        /\ DOMAIN <<>> = {} /\ Len(<<>>) = 0 /\ 0 <= MaxLines
    BY EmptySeq, SessionAssumption
  <1>2. /\ NewSession \in SessionRecord /\ NewWallet \in WalletRecord
        /\ NewChan \in ChanRecord
    BY <1>1 DEF NewSession, NewWallet, NewChan, SessionRecord, WalletRecord, ChanRecord
  <1>3. Typed
    <2>1. [pc |-> "none", tx |-> NULL, todo |-> {}] \in JobRecord
      BY DEF JobRecord
    <2>2. QED
      BY <1>2, <2>1 DEF Init, Typed
  <1>4. ASSUME NEW s \in Session PROVE LinesOnce(s) /\ Serving(s)
    <2>1. ses[s] = NewSession /\ wal[s] = NewWallet
      BY DEF Init
    <2>2. /\ ses[s].pc = "idle" /\ ses[s].line = NULL /\ ses[s].buf = <<>>
          /\ ses[s].todo = {} /\ wal[s].asked = <<>> /\ wal[s].sock = <<>>
          /\ wal[s].answered = {}
      BY <2>1 DEF NewSession, NewWallet
    <2>3. QED
      BY <1>1, <2>2 DEF LinesOnce, Serving, Open, Once
  <1>5. \A j \in Job : JobRuns(j)
    BY DEF Init, JobRuns
  <1>6. QED
    BY <1>3, <1>4, <1>5 DEF LineInv

-----------------------------------------------------------------------------
(* The second layer: a broadcast that is counted is a line that is open or *)
(* a job that runs.                                                        *)

Busy == {j \in Job : job[j].pc # "none"}

\* Line i of connection z is a broadcast that has not been acknowledged.
Asks(z, i) == i \in Open(z) /\ wal[z].asked[i].op = "broadcast"

Asked == {q \in Session \X Line : Asks(q[1], q[2])}

\* What is counted is finite.
LEMMA CountIs ==
    /\ Broadcasts = Cardinality(Busy) + Cardinality(Asked)
    /\ IsFiniteSet(Job) /\ Cardinality(Job) = MaxBroadcasts /\ IsFiniteSet(Line)
    /\ IsFiniteSet(Busy) /\ Cardinality(Busy) \in Nat
    /\ IsFiniteSet(Asked) /\ Cardinality(Asked) \in Nat
    /\ \A t : IsFiniteSet(Past(t)) /\ Cardinality(Past(t)) \in Nat
              /\ Cardinality(Past(t)) <= MaxBroadcasts
  <1>1. Broadcasts = Cardinality(Busy) + Cardinality(Asked)
    BY DEF Broadcasts, Busy, Asked, Asks, Open
  <1>2. /\ IsFiniteSet(Job) /\ IsFiniteSet(Line)
        /\ Cardinality(Job) = MaxBroadcasts
    <2>1. /\ IsFiniteSet(1 .. MaxBroadcasts) /\ IsFiniteSet(1 .. MaxLines)
          /\ Cardinality(1 .. MaxBroadcasts) =
                IF 1 > MaxBroadcasts THEN 0 ELSE MaxBroadcasts - 1 + 1
      BY FS_Interval, SessionAssumption
    <2>2. CASE 1 > MaxBroadcasts
      BY <2>1, <2>2, SessionAssumption DEF Job, Line
    <2>3. CASE ~(1 > MaxBroadcasts)
      BY <2>1, <2>3, SessionAssumption DEF Job, Line
    <2>4. QED BY <2>2, <2>3
  <1>3. IsFiniteSet(Session \X Line)
    BY <1>2, FS_Product, SessionAssumption
  <1>4. Busy \subseteq Job /\ Asked \subseteq Session \X Line
    BY DEF Busy, Asked
  <1>5. /\ IsFiniteSet(Busy) /\ Cardinality(Busy) \in Nat
        /\ IsFiniteSet(Asked) /\ Cardinality(Asked) \in Nat
    BY <1>2, <1>3, <1>4, FS_Subset, FS_CardinalityType
  <1>6. ASSUME NEW t
        PROVE  /\ IsFiniteSet(Past(t)) /\ Cardinality(Past(t)) \in Nat
               /\ Cardinality(Past(t)) <= MaxBroadcasts
    <2>1. Past(t) \subseteq Job
      BY DEF Past
    <2>2. QED BY <1>2, <2>1, FS_Subset, FS_CardinalityType
  <1>7. QED
    BY <1>1, <1>2, <1>5, <1>6

\* The same facts hold after a step.
LEMMA CountIsAfter ==
    /\ Broadcasts' = Cardinality(Busy') + Cardinality(Asked')
    /\ IsFiniteSet(Busy') /\ Cardinality(Busy') \in Nat
    /\ IsFiniteSet(Asked') /\ Cardinality(Asked') \in Nat
    /\ \A t : IsFiniteSet(Past(t)') /\ Cardinality(Past(t)') \in Nat
  <1>1. Broadcasts' = Cardinality(Busy') + Cardinality(Asked')
    BY DEF Broadcasts, Busy, Asked, Asks, Open
  <1>2. /\ IsFiniteSet(Job) /\ IsFiniteSet(Session \X Line)
    BY CountIs, FS_Product, SessionAssumption
  <1>3. Busy' \subseteq Job /\ Asked' \subseteq Session \X Line
    BY DEF Busy, Asked
  <1>4. /\ IsFiniteSet(Busy') /\ Cardinality(Busy') \in Nat
        /\ IsFiniteSet(Asked') /\ Cardinality(Asked') \in Nat
    BY <1>2, <1>3, FS_Subset, FS_CardinalityType
  <1>5. ASSUME NEW t
        PROVE  IsFiniteSet(Past(t)') /\ Cardinality(Past(t)') \in Nat
    <2>1. Past(t)' \subseteq Job
      BY DEF Past
    <2>2. QED BY <1>2, <2>1, FS_Subset, FS_CardinalityType
  <1>6. QED
    BY <1>1, <1>4, <1>5

\* A step that starts no job and opens no broadcast counts nothing new.
LEMMA CountFewer ==
    ASSUME CountInv, Busy' \subseteq Busy, Asked' \subseteq Asked
    PROVE  Broadcasts' <= MaxBroadcasts
  <1>1. Cardinality(Busy') <= Cardinality(Busy) /\ Cardinality(Asked') <= Cardinality(Asked)
    BY CountIs, FS_Subset
  <1>2. QED
    BY <1>1, CountIs, CountIsAfter, SessionAssumption DEF CountInv

\* Only the connection whose lines change matters.
LEMMA AskedFewer ==
    ASSUME NEW s \in Session, WalOnly(s),
           \A i \in Line : Asks(s, i)' => Asks(s, i)
    PROVE  Asked' \subseteq Asked
  BY DEF Asked, Asks, Open, WalOnly

\* Rows are covered while none is added and no job goes back.
LEMMA RowsCovered ==
    ASSUME LineInv, CountInv, rows' = rows,
           \A j \in Job : /\ job[j].pc \notin {"none", "ingest"}
                             => job'[j].pc \notin {"none", "ingest"}
                          /\ job[j].pc # "none" => job'[j].tx = job[j].tx
    PROVE  \A t \in Tx : rows'[t] <= Cardinality(Past(t)')
  <1>1. SUFFICES ASSUME NEW t \in Tx PROVE rows[t] <= Cardinality(Past(t)')
    OBVIOUS
  <1>2. Past(t) \subseteq Past(t)'
    BY DEF Past
  <1>3. Cardinality(Past(t)) <= Cardinality(Past(t)')
    BY <1>2, CountIsAfter, FS_Subset
  <1>4. rows[t] \in Nat /\ rows[t] <= Cardinality(Past(t))
    BY DEF LineInv, Typed, CountInv
  <1>5. QED
    BY <1>3, <1>4, CountIs, CountIsAfter

\* A session that stores a broadcast is counted, so a job is free to take over.
LEMMA FreeJob ==
    ASSUME LineInv, CountInv, NEW s \in Session, ses[s].pc = "store"
    PROVE  \E k \in Job : job[k].pc = "none"
  <1>1. SUFFICES ASSUME \A k \in Job : job[k].pc # "none" PROVE FALSE
    OBVIOUS
  <1>2. Busy = Job
    BY <1>1 DEF Busy
  <1>3. ses[s].line \in Line /\ Asks(s, ses[s].line)
    BY StoredIs DEF Asks
  <1>4. <<s, ses[s].line>> \in Asked
    BY <1>3 DEF Asked
  <1>5. Cardinality(Asked) # 0
    BY <1>4, CountIs, FS_EmptySet
  <1>6. QED
    BY <1>2, <1>5, CountIs, SessionAssumption DEF CountInv

\* The steps of the connections keep the count.
LEMMA SessionCountStep ==
    ASSUME LineInv, CountInv, NEW s \in Session,
           \/ Connect(s) \/ Disconnect(s)
           \/ \E req \in Request : SendLine(s, req)
           \/ SessionStep(s) \/ HearStep(s)
    PROVE  CountInv'
  <1>0. /\ wal \in [Session -> WalletRecord] /\ LinesOnce(s) /\ Serving(s)
    BY DEF LineInv, Typed
  <1>1. ASSUME job' = job, rows' = rows, Asked' \subseteq Asked PROVE CountInv'
    <2>1. Busy' \subseteq Busy
      BY <1>1 DEF Busy
    <2>2. Broadcasts' <= MaxBroadcasts
      BY <1>1, <2>1, CountFewer
    <2>3. \A t \in Tx : rows'[t] <= Cardinality(Past(t)')
      BY <1>1, RowsCovered
    <2>4. QED BY <2>2, <2>3 DEF CountInv
  <1>2. CASE Connect(s) \/ Disconnect(s)
    <2>1. WalOnly(s) /\ wal'[s] = NewWallet
      BY <1>2, ConnectIs
    <2>2. \A i \in Line : ~Asks(s, i)'
      BY <2>1, EmptySeq DEF Asks, Open, NewWallet
    <2>3. Asked' \subseteq Asked
      BY <2>1, <2>2, AskedFewer
    <2>4. QED
      BY <1>1, <1>2, <2>3 DEF Connect, Disconnect
  <1>3. ASSUME NEW req \in Request, SendLine(s, req) PROVE CountInv'
    <2> DEFINE n == Len(wal[s].asked) + 1
    <2>1. /\ wal[s].asked \in Seq(Request) /\ wal'[s].asked = Append(wal[s].asked, req)
          /\ wal'[s].answered = wal[s].answered /\ WalOnly(s) /\ n \in Line
      BY <1>0, <1>3, SendLineIs DEF WalletRecord
    <2>2. /\ DOMAIN wal'[s].asked = DOMAIN wal[s].asked \cup {n}
          /\ \A i \in DOMAIN wal[s].asked : wal'[s].asked[i] = wal[s].asked[i]
          /\ wal'[s].asked[n] = req
      BY <2>1, AppendIs
    <2> HIDE DEF n
    <2>3. \A i \in Line : Asks(s, i)' => Asks(s, i) \/ (i = n /\ req.op = "broadcast")
      BY <2>1, <2>2 DEF Asks, Open
    <2>4. job' = job /\ rows' = rows
      BY <1>3 DEF SendLine
    <2>5. CASE req.op # "broadcast"
      BY <1>1, <2>1, <2>3, <2>4, <2>5, AskedFewer
    <2>6. CASE req.op = "broadcast"
      <3>1. Broadcasts < MaxBroadcasts
        BY <1>3, <2>6 DEF SendLine
      <3>2. Asked' \subseteq Asked \cup {<<s, n>>}
        BY <2>1, <2>3 DEF Asked, Asks, Open, WalOnly
      <3>3. /\ IsFiniteSet(Asked \cup {<<s, n>>})
            /\ Cardinality(Asked \cup {<<s, n>>}) <= Cardinality(Asked) + 1
        <4>1. \/ Cardinality(Asked \cup {<<s, n>>}) = Cardinality(Asked)
              \/ Cardinality(Asked \cup {<<s, n>>}) = Cardinality(Asked) + 1
          BY CountIs, FS_AddElement
        <4>2. IsFiniteSet(Asked \cup {<<s, n>>})
          BY CountIs, FS_AddElement
        <4>3. QED BY <4>1, <4>2, CountIs
      <3>4. /\ Cardinality(Asked') <= Cardinality(Asked \cup {<<s, n>>})
            /\ Cardinality(Asked \cup {<<s, n>>}) \in Nat
        BY <3>2, <3>3, FS_Subset, FS_CardinalityType
      <3>5. Busy' = Busy
        BY <2>4 DEF Busy
      <3>6. Broadcasts' <= MaxBroadcasts
        BY <3>1, <3>3, <3>4, <3>5, CountIs, CountIsAfter, SessionAssumption
      <3>7. \A t \in Tx : rows'[t] <= Cardinality(Past(t)')
        BY <2>4, RowsCovered
      <3>8. QED BY <3>6, <3>7 DEF CountInv
    <2>7. QED BY <2>5, <2>6
  <1>4. ASSUME wal'[s].asked = wal[s].asked, wal[s].answered \subseteq wal'[s].answered,
               WalOnly(s)
        PROVE  Asked' \subseteq Asked
    BY <1>4, AskedFewer DEF Asks, Open
  <1>5. CASE Read(s)
    BY <1>0, <1>1, <1>4, <1>5, ReadIs DEF Read
  <1>6. CASE PollFast(s)
    <2>1. PICK i \in Line, req \in Request :
            /\ Handles(s, i, req) /\ req.op = "poll"
            /\ ses' = [ses EXCEPT ![s].buf = LinesLeft(s), ![s].subs = @ \cup {req.sh}]
            /\ wal' = [wal EXCEPT ![s].told[req.sh] = PendingInSession(s, req.sh),
                                  ![s].answered = @ \cup {i}]
      BY <1>6 DEF PollFast
    <2>2. /\ WalOnly(s) /\ wal'[s].asked = wal[s].asked
          /\ wal'[s].answered = wal[s].answered \cup {i}
      BY <2>1, PollFastIs
    <2>3. job' = job /\ rows' = rows
      BY <1>6 DEF PollFast
    <2>4. QED BY <1>1, <1>4, <2>2, <2>3
  <1>7. CASE PollForward(s) \/ BroadcastStore(s) \/ HearLagged(s)
             \/ \E sh \in Sh : BroadcastNotify(s, sh)
    <2>1. wal' = wal /\ job' = job /\ rows' = rows
      BY <1>7 DEF PollForward, BroadcastStore, HearLagged, BroadcastNotify
    <2>2. Asked' \subseteq Asked
      BY <2>1 DEF Asked, Asks, Open
    <2>3. QED BY <1>1, <2>1, <2>2
  <1>8. CASE PollAnswer(s)
    <2>1. /\ WalOnly(s) /\ wal'[s].asked = wal[s].asked
          /\ wal[s].answered \subseteq wal'[s].answered
      BY <1>8, PollAnswerIs
    <2>2. job' = job /\ rows' = rows
      BY <1>8 DEF PollAnswer
    <2>3. QED BY <1>1, <1>4, <2>1, <2>2
  <1>9. CASE Hear(s)
    <2>1. /\ WalOnly(s) /\ wal'[s].asked = wal[s].asked
          /\ wal[s].answered \subseteq wal'[s].answered
      BY <1>9, HearIs
    <2>2. job' = job /\ rows' = rows
      BY <1>9 DEF Hear
    <2>3. QED BY <1>1, <1>4, <2>1, <2>2
  <1>10. CASE BroadcastAck(s)
    <2>1. /\ WalOnly(s) /\ ses[s].pc = "store" /\ wal'[s].asked = wal[s].asked
          /\ wal'[s].answered = wal[s].answered \cup {ses[s].line}
          /\ \E k \in Job : job[k].pc = "none"
      BY <1>10, BroadcastAckIs, FreeJob
    <2>2. PICK j \in Job :
            /\ job[j].pc = "none"
            /\ job' = [job EXCEPT ![j] =
                         [pc |-> "ingest", tx |-> Stored(s), todo |-> {}]]
      BY <1>10, <2>1, BroadcastAckIs
    <2> DEFINE q == <<s, ses[s].line>>
    <2>3. q \in Asked
      BY <2>1, StoredIs DEF Asked, Asks
    <2>4. Asked' \subseteq Asked \ {q}
      <3>1. Asked' \subseteq Asked
        BY <1>4, <2>1
      <3>2. q \notin Asked'
        BY <2>1 DEF Asked, Asks, Open
      <3>3. QED BY <3>1, <3>2
    <2> HIDE DEF q
    <2>5. job \in [Job -> JobRecord]
      BY DEF LineInv, Typed
    <2>6. \A k \in Job : job'[k] = IF k = j THEN [pc |-> "ingest", tx |-> Stored(s), todo |-> {}]
                                   ELSE job[k]
      BY <2>2, <2>5
    <2>7. Busy' \subseteq Busy \cup {j}
      BY <2>6 DEF Busy
    <2>8. /\ IsFiniteSet(Asked \ {q})
          /\ Cardinality(Asked \ {q}) = Cardinality(Asked) - 1
      BY <2>3, CountIs, FS_RemoveElement
    <2>9. Cardinality(Asked') <= Cardinality(Asked) - 1
      BY <2>4, <2>8, FS_Subset
    <2>10. /\ IsFiniteSet(Busy \cup {j})
           /\ \/ Cardinality(Busy \cup {j}) = Cardinality(Busy)
              \/ Cardinality(Busy \cup {j}) = Cardinality(Busy) + 1
      BY CountIs, FS_AddElement
    <2>11. /\ Cardinality(Busy') <= Cardinality(Busy \cup {j})
           /\ Cardinality(Busy \cup {j}) \in Nat
      BY <2>7, <2>10, FS_Subset, FS_CardinalityType
    <2>12. Broadcasts' <= MaxBroadcasts
      BY <2>9, <2>10, <2>11, CountIs, CountIsAfter, SessionAssumption DEF CountInv
    <2>13. rows' = rows
      BY <1>10 DEF BroadcastAck
    <2>14. \A k \in Job : /\ job[k].pc \notin {"none", "ingest"}
                             => job'[k].pc \notin {"none", "ingest"}
                          /\ job[k].pc # "none" => job'[k].tx = job[k].tx
      BY <2>2, <2>6
    <2>15. \A t \in Tx : rows'[t] <= Cardinality(Past(t)')
      BY <2>13, <2>14, RowsCovered
    <2>16. QED BY <2>12, <2>15 DEF CountInv
  <1>11. QED
    BY <1>2, <1>3, <1>5, <1>6, <1>7, <1>8, <1>9, <1>10 DEF SessionStep, HearStep

\* So do the background jobs: the row that one inserts is the row it is past.
LEMMA JobCountStep ==
    ASSUME LineInv, CountInv,
           \/ \E j \in Job : JobStep(j)
           \/ \E t \in Tx : RemovePendingTx(t)
           \/ RemoveNotifyStep
    PROVE  CountInv'
  <1>1. ASSUME wal' = wal,
               \A k \in Job : job[k].pc = "none" => job'[k].pc = "none"
        PROVE  Broadcasts' <= MaxBroadcasts
    <2>1. Busy' \subseteq Busy /\ Asked' \subseteq Asked
      BY <1>1 DEF Busy, Asked, Asks, Open
    <2>2. QED BY <2>1, CountFewer
  <1>2. ASSUME NEW j \in Job, JobOnly(j), job[j].pc # "none", job'[j].pc # "none",
               job[j].pc # "ingest", job'[j].pc # "ingest", job'[j].tx = job[j].tx,
               wal' = wal, rows' = rows
        PROVE  CountInv'
    <2>1. \A k \in Job : /\ job[k].pc = "none" => job'[k].pc = "none"
                         /\ job[k].pc \notin {"none", "ingest"}
                               => job'[k].pc \notin {"none", "ingest"}
                         /\ job[k].pc # "none" => job'[k].tx = job[k].tx
      BY <1>2 DEF JobOnly
    <2>2. QED BY <1>1, <1>2, <2>1, RowsCovered DEF CountInv
  <1>3. ASSUME NEW j \in Job, JobInsert(j) PROVE CountInv'
    <2>1. /\ JobOnly(j) /\ job[j].pc = "ingest" /\ job'[j].tx = job[j].tx
          /\ job'[j].pc \in {"store", "done"} /\ job[j].tx \in Tx
      BY <1>3, JobInsertIs
    <2>2. Broadcasts' <= MaxBroadcasts
      BY <1>1, <1>3, <2>1 DEF JobOnly, JobInsert
    <2>3. \A k \in Job : /\ job[k].pc \notin {"none", "ingest"}
                            => job'[k].pc \notin {"none", "ingest"}
                         /\ job[k].pc # "none" => job'[k].tx = job[k].tx
      BY <2>1 DEF JobOnly
    <2>4. CASE rows' = rows
      BY <2>2, <2>3, <2>4, RowsCovered DEF CountInv
    <2>5. CASE rows' = [rows EXCEPT ![job[j].tx] = @ + 1]
      <3>1. SUFFICES ASSUME NEW t \in Tx PROVE rows'[t] <= Cardinality(Past(t)')
        BY <2>2 DEF CountInv
      <3>2. /\ rows \in [Tx -> Nat] /\ rows[t] \in Nat /\ rows[t] <= Cardinality(Past(t))
            /\ rows'[t] = IF t = job[j].tx THEN rows[t] + 1 ELSE rows[t]
        BY <2>1, <2>5 DEF LineInv, Typed, CountInv
      <3>3. Past(t) \subseteq Past(t)'
        BY <2>3 DEF Past
      <3>4. CASE t # job[j].tx
        BY <3>2, <3>3, <3>4, CountIs, CountIsAfter, FS_Subset
      <3>5. CASE t = job[j].tx
        <4>1. j \notin Past(t) /\ j \in Past(t)'
          BY <2>1, <3>5 DEF Past
        <4>2. Past(t) \subseteq Past(t)' \ {j}
          BY <3>3, <4>1
        <4>3. /\ IsFiniteSet(Past(t)' \ {j})
              /\ Cardinality(Past(t)' \ {j}) = Cardinality(Past(t)') - 1
          BY <4>1, CountIsAfter, FS_RemoveElement
        <4>4. Cardinality(Past(t)) <= Cardinality(Past(t)') - 1
          BY <4>2, <4>3, FS_Subset
        <4>5. QED BY <3>2, <3>5, <4>4, CountIs, CountIsAfter
      <3>6. QED BY <3>4, <3>5
    <2>6. QED BY <1>3, <2>4, <2>5, JobInsertIs
  <1>4. ASSUME NEW j \in Job, JobStore(j) PROVE CountInv'
    <2>1. /\ JobOnly(j) /\ job[j].pc = "store" /\ job'[j].tx = job[j].tx
          /\ job'[j].pc = "notify"
      BY <1>4, JobStoreIs
    <2>2. QED BY <1>2, <1>4, <2>1 DEF JobStore
  <1>5. ASSUME NEW j \in Job, JobEnrich(j) PROVE CountInv'
    <2>1. /\ JobOnly(j) /\ job[j].pc = "enrich" /\ job'[j].tx = job[j].tx
          /\ job'[j].pc = "done"
      BY <1>5, JobEnrichIs
    <2>2. QED BY <1>2, <1>5, <2>1 DEF JobEnrich
  <1>6. ASSUME NEW j \in Job, NEW sh \in Sh, JobNotify(j, sh) PROVE CountInv'
    <2>1. /\ JobOnly(j) /\ job[j].pc = "notify" /\ job'[j].tx = job[j].tx
          /\ job'[j].pc \in {"notify", "enrich"}
      BY <1>6, JobNotifyIs
    <2>2. QED BY <1>2, <1>6, <2>1 DEF JobNotify
  <1>7. ASSUME NEW t \in Tx, RemovePendingTx(t) PROVE CountInv'
    <2>1. job' = job /\ wal' = wal /\ rows' = [rows EXCEPT ![t] = @ - 1] /\ rows[t] > 0
      BY <1>7 DEF RemovePendingTx
    <2>2. Broadcasts' <= MaxBroadcasts
      BY <1>1, <2>1
    <2>3. ASSUME NEW u \in Tx PROVE rows'[u] <= Cardinality(Past(u)')
      <3>1. Past(u)' = Past(u)
        BY <2>1 DEF Past
      <3>2. /\ rows \in [Tx -> Nat] /\ rows[u] \in Nat /\ rows[u] <= Cardinality(Past(u))
            /\ rows'[u] = IF u = t THEN rows[u] - 1 ELSE rows[u]
        BY <2>1 DEF LineInv, Typed, CountInv
      <3>3. QED BY <3>1, <3>2, CountIs
    <2>4. QED BY <2>2, <2>3 DEF CountInv
  <1>8. ASSUME NEW t \in Tx, NEW sh \in Sh, RemoveNotify(t, sh) PROVE CountInv'
    <2>1. job' = job /\ wal' = wal /\ rows' = rows
      BY <1>8 DEF RemoveNotify
    <2>2. QED BY <1>1, <2>1, RowsCovered DEF CountInv
  <1>9. QED
    BY <1>3, <1>4, <1>5, <1>6, <1>7, <1>8 DEF JobStep, RemoveNotifyStep

\* A stuttering step counts the same.
LEMMA CountStutter ==
    ASSUME CountInv, UNCHANGED vars
    PROVE  CountInv'
  BY DEF CountInv, Broadcasts, Past, vars

\* Initially nothing is counted.
LEMMA CountInit ==
    ASSUME Init
    PROVE  CountInv
  <1>1. Busy = {}
    BY DEF Init, Busy
  <1>2. Asked = {}
    <2>1. \A s \in Session : wal[s].asked = <<>>
      BY DEF Init, NewWallet
    <2>2. QED BY <2>1, EmptySeq DEF Asked, Asks, Open
  <1>3. Broadcasts <= MaxBroadcasts
    BY <1>1, <1>2, CountIs, FS_EmptySet, SessionAssumption
  <1>4. \A t \in Tx : rows[t] <= Cardinality(Past(t))
    <2>1. SUFFICES ASSUME NEW t \in Tx PROVE rows[t] <= Cardinality(Past(t))
      OBVIOUS
    <2>2. rows[t] = 0 /\ Cardinality(Past(t)) \in Nat
      BY CountIs DEF Init
    <2>3. QED BY <2>2
  <1>5. QED BY <1>3, <1>4 DEF CountInv

-----------------------------------------------------------------------------
(* The third layer: what is held is backed.                                *)

\* What HeldIsQueued asks of a transaction that is held.
Backed(t) ==
    \/ rows[t] > 0
    \/ \E j \in Job : job[j].tx = t /\ job[j].pc = "ingest"
    \/ \E s \in Session : ses[s].pc = "store" /\ Stored(s) = t

\* HeldIsQueued, in those words.
LEMMA QueuedIs ==
    HeldIsQueued <=> \A t \in Tx : Held(t) /\ t \notin gone \cup orphans => Backed(t)
  BY DEF HeldIsQueued, Backed, Stored

\* The same after a step.
LEMMA QueuedIsAfter ==
    ASSUME \A t \in Tx : Held(t)' /\ t \notin gone' \cup orphans' => Backed(t)'
    PROVE  HeldIsQueued'
  BY DEF HeldIsQueued, Backed, Stored

\* Storing a transaction holds it under its outputs, and the others stay.
LEMMA VmStored ==
    ASSUME vm \in [Tx -> {NULL} \cup SUBSET Sh], NEW t \in Tx,
           vm' = [vm EXCEPT ![t] = Outs[t]]
    PROVE  /\ Held(t)'
           /\ \A u \in Tx : Held(u) => Held(u)'
           /\ \A u \in Tx : Held(u)' => Held(u) \/ u = t
           /\ \A u \in Tx : u # t => vm'[u] = vm[u]
           /\ vm'[t] = Outs[t]
  <1>1. vm'[t] = Outs[t] /\ \A u \in Tx : u # t => vm'[u] = vm[u]
    OBVIOUS
  <1>2. Outs[t] \in SUBSET Sh /\ Outs[t] # NULL
    BY SessionAssumption
  <1>3. QED
    BY <1>1, <1>2 DEF Held

\* A connection and a wallet that a step does not touch are still right, if
\* what is held stays held unless it has left the pool.
LEMMA HeldOfKept ==
    ASSUME LineInv, NEW z \in Session, HeldOf(z), ses'[z] = ses[z], wal'[z] = wal[z],
           \A t \in Tx : Held(t) => Held(t)' \/ t \in gone',
           gone \subseteq gone'
    PROVE  HeldOf(z)'
  <1>1. ses[z].pc = "store" => Stored(z) \in Tx
    BY StoredIs
  <1>2. wal[z].acked \in Tx \cup {NULL}
    BY DEF LineInv, Typed, WalletRecord
  <1>3. Stored(z)' = Stored(z)
    BY DEF Stored
  <1>4. ses[z].pc = "store" => Held(Stored(z))' \/ Stored(z)' \in gone'
    BY <1>1, <1>3 DEF HeldOf
  <1>5. wal[z].acked # NULL =>
          \/ wal[z].acked \in gone'
          \/ Held(wal[z].acked)' /\ ses[z].recent = wal[z].acked
    BY <1>2 DEF HeldOf, Held
  <1>6. QED
    BY <1>4, <1>5 DEF HeldOf, Held, Stored

\* A step of one connection that stores nothing and starts no job.
LEMMA SessionHeldKept ==
    ASSUME LineInv, HeldInv, NEW s \in Session, SesOnly(s), WalOnly(s),
           vm' = vm, rows' = rows, gone' = gone, job' = job,
           orphans \subseteq orphans', HeldOf(s)',
           ses[s].pc = "store" =>
              \/ ses'[s].pc = "store" /\ Stored(s)' = Stored(s)
              \/ Stored(s) \in orphans'
    PROVE  HeldInv'
  <1>1. \A t \in Tx : Held(t)' => Outs[t] \subseteq vm'[t]
    BY DEF HeldInv, Held
  <1>2. \A z \in Session : HeldOf(z)'
    <2>1. SUFFICES ASSUME NEW z \in Session, z # s PROVE HeldOf(z)'
      OBVIOUS
    <2>2. \A t \in Tx : Held(t) => Held(t)'
      BY DEF Held
    <2>3. HeldOf(z) /\ ses'[z] = ses[z] /\ wal'[z] = wal[z]
      BY <2>1 DEF HeldInv, SesOnly, WalOnly
    <2>4. QED BY <2>2, <2>3, HeldOfKept
  <1>3. \A j \in Job : RowOf(j)'
    BY DEF HeldInv, RowOf
  <1>4. HeldIsQueued'
    <2>1. SUFFICES ASSUME NEW t \in Tx, Held(t)', t \notin gone' \cup orphans'
                   PROVE  Backed(t)'
      BY QueuedIsAfter
    <2>2. Backed(t)
      BY <2>1, QueuedIs DEF HeldInv, Held
    <2>3. CASE rows[t] > 0
      BY <2>3 DEF Backed
    <2>4. CASE \E j \in Job : job[j].tx = t /\ job[j].pc = "ingest"
      BY <2>4 DEF Backed
    <2>5. ASSUME NEW z \in Session, ses[z].pc = "store", Stored(z) = t
          PROVE  Backed(t)'
      <3>1. CASE z = s
        BY <2>1, <2>5, <3>1 DEF Backed
      <3>2. CASE z # s
        <4>1. ses'[z].pc = "store" /\ Stored(z)' = t
          BY <2>5, <3>2 DEF SesOnly, WalOnly, Stored
        <4>2. QED BY <4>1 DEF Backed
      <3>3. QED BY <3>1, <3>2
    <2>6. QED BY <2>2, <2>3, <2>4, <2>5 DEF Backed
  <1>5. QED
    BY <1>1, <1>2, <1>3, <1>4 DEF HeldInv

\* The steps of the connections: a session that stores a transaction backs it
\* until a job does, and remembers it until it has left.
LEMMA SessionHeldStep ==
    ASSUME LineInv, CountInv, HeldInv, NEW s \in Session,
           \/ Connect(s) \/ Disconnect(s)
           \/ \E req \in Request : SendLine(s, req)
           \/ SessionStep(s) \/ HearStep(s)
    PROVE  HeldInv'
  <1>1. /\ ses \in [Session -> SessionRecord] /\ wal \in [Session -> WalletRecord]
        /\ vm \in [Tx -> {NULL} \cup SUBSET Sh]
        /\ Serving(s) /\ HeldOf(s) /\ wal[s].acked \in Tx \cup {NULL}
    BY DEF LineInv, Typed, HeldInv, WalletRecord
  <1>2. ASSUME wal'[s].acked = wal[s].acked, ses'[s].recent = ses[s].recent,
               ses'[s].pc = "store" => ses[s].pc = "store" /\ Stored(s)' = Stored(s),
               vm' = vm, gone' = gone
        PROVE  HeldOf(s)'
    BY <1>1, <1>2 DEF HeldOf, Held
  <1>3. CASE Connect(s) \/ Disconnect(s)
    <2>1. SesOnly(s) /\ WalOnly(s) /\ ses'[s].pc = "idle" /\ wal'[s] = NewWallet
      BY <1>3, ConnectIs
    <2>2. HeldOf(s)'
      BY <2>1 DEF HeldOf, NewWallet
    <2>3. /\ vm' = vm /\ rows' = rows /\ gone' = gone /\ job' = job
          /\ orphans \subseteq orphans'
      BY <1>3 DEF Connect, Disconnect
    <2>4. ses[s].pc = "store" => Stored(s) \in orphans'
      BY <1>1, <1>3 DEF Connect, Disconnect, Serving, Stored
    <2>5. QED BY <2>1, <2>2, <2>3, <2>4, SessionHeldKept
  <1>4. ASSUME NEW req \in Request, SendLine(s, req) PROVE HeldInv'
    <2>1. /\ WalOnly(s) /\ wal'[s].acked = wal[s].acked
          /\ wal'[s].asked = Append(wal[s].asked, req)
      BY <1>4, SendLineIs
    <2>2. /\ ses' = ses /\ SesOnly(s) /\ vm' = vm /\ rows' = rows /\ gone' = gone
          /\ job' = job /\ orphans' = orphans
      BY <1>1, <1>4 DEF SendLine, SesOnly
    <2>3. ses[s].pc = "store" => Stored(s)' = Stored(s)
      <3>1. SUFFICES ASSUME ses[s].pc = "store" PROVE Stored(s)' = Stored(s)
        OBVIOUS
      <3>2. ses[s].line \in DOMAIN wal[s].asked
        BY <3>1, StoredIs DEF Open
      <3>3. wal'[s].asked[ses[s].line] = wal[s].asked[ses[s].line]
        BY <1>1, <2>1, <3>2, AppendIs DEF WalletRecord
      <3>4. QED BY <2>2, <3>3 DEF Stored
    <2>4. HeldOf(s)'
      BY <1>2, <2>1, <2>2, <2>3
    <2>5. QED BY <2>1, <2>2, <2>3, <2>4, SessionHeldKept
  <1>5. CASE Read(s)
    <2>1. /\ SesOnly(s) /\ WalOnly(s) /\ ses[s].pc = "idle" /\ ses'[s].pc = "idle"
          /\ wal'[s].acked = wal[s].acked /\ ses'[s].recent = ses[s].recent
      BY <1>5, ReadIs
    <2>2. vm' = vm /\ rows' = rows /\ gone' = gone /\ job' = job /\ orphans' = orphans
      BY <1>5 DEF Read
    <2>3. QED BY <1>2, <2>1, <2>2, SessionHeldKept
  <1>6. CASE PollFast(s)
    <2>1. PICK i \in Line, req \in Request :
            /\ Handles(s, i, req) /\ req.op = "poll"
            /\ ses' = [ses EXCEPT ![s].buf = LinesLeft(s), ![s].subs = @ \cup {req.sh}]
            /\ wal' = [wal EXCEPT ![s].told[req.sh] = PendingInSession(s, req.sh),
                                  ![s].answered = @ \cup {i}]
      BY <1>6 DEF PollFast
    <2>2. /\ SesOnly(s) /\ WalOnly(s) /\ ses'[s].pc = ses[s].pc
          /\ wal'[s].acked = wal[s].acked /\ ses'[s].recent = ses[s].recent
          /\ ses[s].pc = "idle"
      BY <2>1, PollFastIs, HandlesIs
    <2>3. vm' = vm /\ rows' = rows /\ gone' = gone /\ job' = job /\ orphans' = orphans
      BY <1>6 DEF PollFast
    <2>4. QED BY <1>2, <2>2, <2>3, SessionHeldKept
  <1>7. CASE PollForward(s)
    <2>1. PICK i \in Line, req \in Request :
            /\ Handles(s, i, req) /\ req.op = "poll"
            /\ ses' = [ses EXCEPT ![s].buf = LinesLeft(s), ![s].subs = @ \cup {req.sh},
                                  ![s].pc = "forward", ![s].line = i]
      BY <1>7 DEF PollForward
    <2>2. /\ SesOnly(s) /\ ses'[s].pc = "forward" /\ ses'[s].recent = ses[s].recent
          /\ ses[s].pc = "idle"
      BY <2>1, PollForwardIs, HandlesIs
    <2>3. /\ vm' = vm /\ rows' = rows /\ gone' = gone /\ job' = job /\ orphans' = orphans
          /\ wal' = wal /\ WalOnly(s)
      BY <1>1, <1>7 DEF PollForward, WalOnly
    <2>4. QED BY <1>2, <2>2, <2>3, SessionHeldKept
  <1>8. CASE PollAnswer(s)
    <2>1. /\ SesOnly(s) /\ WalOnly(s) /\ ses'[s].pc = "idle" /\ ses[s].pc = "forward"
          /\ wal'[s].acked = wal[s].acked /\ ses'[s].recent = ses[s].recent
      BY <1>8, PollAnswerIs DEF PollAnswer
    <2>2. vm' = vm /\ rows' = rows /\ gone' = gone /\ job' = job /\ orphans' = orphans
      BY <1>8 DEF PollAnswer
    <2>3. QED BY <1>2, <2>1, <2>2, SessionHeldKept
  <1>9. CASE HearLagged(s)
    <2>1. /\ SesOnly(s) /\ WalOnly(s) /\ ses' = ses /\ wal' = wal
          /\ vm' = vm /\ rows' = rows /\ gone' = gone /\ job' = job /\ orphans' = orphans
      BY <1>1, <1>9 DEF HearLagged, SesOnly, WalOnly
    <2>2. Stored(s)' = Stored(s)
      BY <2>1 DEF Stored
    <2>3. QED BY <1>2, <2>1, <2>2, SessionHeldKept
  <1>10. CASE Hear(s)
    <2>1. /\ SesOnly(s) /\ WalOnly(s) /\ ses'[s].pc = ses[s].pc
          /\ wal'[s].acked = wal[s].acked
          /\ \/ ses'[s].recent = ses[s].recent
             \/ ses'[s].recent = NULL /\ ~Held(ses[s].recent)
      BY <1>10, HearIs
    <2>2. /\ vm' = vm /\ rows' = rows /\ gone' = gone /\ job' = job /\ orphans' = orphans
          /\ ses[s].pc = "idle"
      BY <1>10 DEF Hear, Listens
    <2>3. HeldOf(s)'
      BY <1>1, <2>1, <2>2 DEF HeldOf, Held
    <2>4. QED BY <2>1, <2>2, <2>3, SessionHeldKept
  <1>11. ASSUME NEW sh \in Sh, BroadcastNotify(s, sh) PROVE HeldInv'
    <2>1. /\ SesOnly(s) /\ ses'[s].pc = ses[s].pc /\ ses'[s].line = ses[s].line
          /\ ses'[s].recent = ses[s].recent
      BY <1>11, BroadcastNotifyIs
    <2>2. /\ vm' = vm /\ rows' = rows /\ gone' = gone /\ job' = job /\ orphans' = orphans
          /\ wal' = wal /\ WalOnly(s)
      BY <1>1, <1>11 DEF BroadcastNotify, WalOnly
    <2>3. Stored(s)' = Stored(s)
      BY <2>1, <2>2 DEF Stored
    <2>4. QED BY <1>2, <2>1, <2>2, <2>3, SessionHeldKept
  <1>12. CASE BroadcastStore(s)
    <2>1. PICK i \in Line, req \in Request :
            /\ Handles(s, i, req) /\ req.op = "broadcast"
            /\ vm' = [vm EXCEPT ![req.tx] = Outs[req.tx]]
            /\ ses' = [ses EXCEPT ![s].buf = LinesLeft(s), ![s].pc = "store",
                                  ![s].line = i, ![s].todo = Outs[req.tx]]
      BY <1>12 DEF BroadcastStore
    <2>2. /\ SesOnly(s) /\ ses'[s].pc = "store" /\ ses'[s].line = i
          /\ ses'[s].recent = ses[s].recent
      BY <2>1, BroadcastStoreIs
    <2>3. req = wal[s].asked[i] /\ req.tx \in Tx /\ ses[s].pc = "idle"
      BY <2>1, HandlesIs, RequestIs
    <2>4. /\ rows' = rows /\ gone' = gone /\ job' = job /\ orphans' = orphans
          /\ wal' = wal
      BY <1>12 DEF BroadcastStore
    <2>5. Stored(s)' = req.tx
      BY <2>2, <2>3, <2>4 DEF Stored
    <2>6. /\ Held(req.tx)'
          /\ \A u \in Tx : Held(u) => Held(u)'
          /\ \A u \in Tx : Held(u)' => Held(u) \/ u = req.tx
          /\ \A u \in Tx : u # req.tx => vm'[u] = vm[u]
          /\ vm'[req.tx] = Outs[req.tx]
      BY <1>1, <2>1, <2>3, VmStored
    <2>7. \A t \in Tx : Held(t)' => Outs[t] \subseteq vm'[t]
      BY <2>6 DEF HeldInv, Held
    <2>8. HeldOf(s)'
      <3>1. Held(Stored(s))'
        BY <2>5, <2>6 DEF Held
      <3>2. wal[s].acked # NULL /\ wal[s].acked \notin gone =>
               Held(wal[s].acked)' /\ ses[s].recent = wal[s].acked
        BY <1>1, <2>4, <2>6 DEF HeldOf, Held
      <3>3. QED BY <2>2, <2>4, <3>1, <3>2 DEF HeldOf, Held, Stored
    <2>9. \A z \in Session : HeldOf(z)'
      <3>1. SUFFICES ASSUME NEW z \in Session, z # s PROVE HeldOf(z)'
        BY <2>8
      <3>2. HeldOf(z) /\ ses'[z] = ses[z] /\ wal'[z] = wal[z]
        BY <2>2, <2>4, <3>1 DEF HeldInv, SesOnly
      <3>3. QED BY <2>4, <2>6, <3>2, HeldOfKept
    <2>10. \A j \in Job : RowOf(j)'
      BY <2>4 DEF HeldInv, RowOf
    <2>11. HeldIsQueued'
      <3>1. SUFFICES ASSUME NEW t \in Tx, Held(t)', t \notin gone' \cup orphans'
                     PROVE  Backed(t)'
        BY QueuedIsAfter
      <3>2. CASE t = req.tx
        BY <2>2, <2>5, <3>2 DEF Backed
      <3>3. CASE t # req.tx
        <4>1. Backed(t)
          BY <2>4, <2>6, <3>1, <3>3, QueuedIs DEF HeldInv
        <4>2. \A z \in Session : ses[z].pc = "store" => z # s
          BY <2>3
        <4>3. \A z \in Session : ses[z].pc = "store" =>
                  ses'[z].pc = "store" /\ Stored(z)' = Stored(z)
          BY <2>2, <2>4, <4>2 DEF SesOnly, Stored
        <4>4. QED BY <2>4, <4>1, <4>3 DEF Backed
      <3>4. QED BY <3>2, <3>3
    <2>12. QED BY <2>7, <2>9, <2>10, <2>11 DEF HeldInv
  <1>13. CASE BroadcastAck(s)
    <2> DEFINE r == [pc |-> "ingest", tx |-> Stored(s), todo |-> {}]
    <2>1. /\ SesOnly(s) /\ WalOnly(s) /\ Stored(s) \in Tx /\ ses[s].pc = "store"
          /\ ses'[s].pc = "idle" /\ ses'[s].recent = Stored(s)
          /\ wal'[s].acked = Stored(s)
          /\ \E k \in Job : job[k].pc = "none"
      BY <1>13, BroadcastAckIs, FreeJob
    <2>2. PICK j \in Job : job[j].pc = "none" /\ job' = [job EXCEPT ![j] = r]
      BY <1>13, <2>1, BroadcastAckIs
    <2>3. r.pc = "ingest" /\ r.tx = Stored(s)
      OBVIOUS
    <2> HIDE DEF r
    <2>4. /\ job'[j] = r
          /\ \A k \in Job : k # j => job'[k] = job[k]
      BY <2>2 DEF LineInv, Typed
    <2>5. vm' = vm /\ rows' = rows /\ gone' = gone /\ orphans' = orphans
      BY <1>13 DEF BroadcastAck
    <2>6. \A t \in Tx : Held(t)' => Outs[t] \subseteq vm'[t]
      BY <2>5 DEF HeldInv, Held
    <2>7. HeldOf(s)'
      BY <1>1, <2>1, <2>5 DEF HeldOf, Held
    <2>8. \A z \in Session : HeldOf(z)'
      <3>1. SUFFICES ASSUME NEW z \in Session, z # s PROVE HeldOf(z)'
        BY <2>7
      <3>2. HeldOf(z) /\ ses'[z] = ses[z] /\ wal'[z] = wal[z]
        BY <2>1, <3>1 DEF HeldInv, SesOnly, WalOnly
      <3>3. \A t \in Tx : Held(t) => Held(t)'
        BY <2>5 DEF Held
      <3>4. QED BY <2>5, <3>2, <3>3, HeldOfKept
    <2>9. \A k \in Job : RowOf(k)'
      BY <2>3, <2>4, <2>5 DEF HeldInv, RowOf
    <2>10. HeldIsQueued'
      <3>1. SUFFICES ASSUME NEW t \in Tx, Held(t)', t \notin gone' \cup orphans'
                     PROVE  Backed(t)'
        BY QueuedIsAfter
      <3>2. Backed(t)
        BY <2>5, <3>1, QueuedIs DEF HeldInv, Held
      <3>3. CASE rows[t] > 0
        BY <2>5, <3>3 DEF Backed
      <3>4. ASSUME NEW k \in Job, job[k].tx = t, job[k].pc = "ingest"
            PROVE  Backed(t)'
        <4>1. job'[k] = job[k]
          BY <2>2, <2>4, <3>4
        <4>2. QED BY <3>4, <4>1 DEF Backed
      <3>5. ASSUME NEW z \in Session, ses[z].pc = "store", Stored(z) = t
            PROVE  Backed(t)'
        <4>1. CASE z = s
          BY <2>3, <2>4, <3>5, <4>1 DEF Backed
        <4>2. CASE z # s
          <5>1. ses'[z].pc = "store" /\ Stored(z)' = t
            BY <2>1, <3>5, <4>2 DEF SesOnly, WalOnly, Stored
          <5>2. QED BY <5>1 DEF Backed
        <4>3. QED BY <4>1, <4>2
      <3>6. QED BY <3>2, <3>3, <3>4, <3>5 DEF Backed
    <2>11. QED BY <2>6, <2>8, <2>9, <2>10 DEF HeldInv
  <1>14. QED
    BY <1>3, <1>4, <1>5, <1>6, <1>7, <1>8, <1>9, <1>10, <1>11, <1>12, <1>13
    DEF SessionStep, HearStep

\* The jobs and the removals: a row is backed by itself until the pool is left.
LEMMA JobHeldStep ==
    ASSUME LineInv, HeldInv,
           \/ \E j \in Job : JobStep(j)
           \/ \E t \in Tx : RemovePendingTx(t)
           \/ RemoveNotifyStep
    PROVE  HeldInv'
  <1>1. /\ vm \in [Tx -> {NULL} \cup SUBSET Sh] /\ rows \in [Tx -> Nat]
        /\ ses' = ses /\ wal' = wal
        /\ \A j \in Job : JobRuns(j) /\ RowOf(j)
    BY DEF LineInv, Typed, HeldInv, JobStep, JobInsert, JobStore, JobEnrich, JobNotify,
           RemovePendingTx, RemoveNotifyStep, RemoveNotify
  <1>2. ASSUME \A t \in Tx : Held(t) => Held(t)' \/ t \in gone', gone \subseteq gone'
        PROVE  \A z \in Session : HeldOf(z)'
    BY <1>1, <1>2, HeldOfKept DEF HeldInv
  <1>3. ASSUME NEW t \in Tx, \E s \in Session : ses[s].pc = "store" /\ Stored(s) = t
        PROVE  Backed(t)'
    BY <1>1, <1>3 DEF Backed, Stored
  <1>4. ASSUME NEW j \in Job, JobInsert(j) PROVE HeldInv'
    <2>1. /\ JobOnly(j) /\ job[j].pc = "ingest" /\ job[j].tx \in Tx
          /\ job'[j].tx = job[j].tx
          /\ \/ /\ rows' = [rows EXCEPT ![job[j].tx] = @ + 1]
                /\ orphans' = orphans
             \/ /\ rows' = rows /\ orphans' = orphans \cup {job[j].tx}
      BY <1>4, JobInsertIs
    <2>2. vm' = vm /\ gone' = gone
      BY <1>4 DEF JobInsert
    <2>3. /\ orphans \subseteq orphans'
          /\ \A t \in Tx : rows[t] > 0 => rows'[t] > 0
          /\ rows'[job[j].tx] > 0 \/ job[j].tx \in orphans'
      <3>1. CASE rows' = [rows EXCEPT ![job[j].tx] = @ + 1] /\ orphans' = orphans
        <4>1. \A t \in Tx : rows[t] \in Nat
                            /\ rows'[t] = IF t = job[j].tx THEN rows[t] + 1 ELSE rows[t]
          BY <1>1, <3>1
        <4>2. QED BY <2>1, <3>1, <4>1
      <3>2. CASE rows' = rows /\ orphans' = orphans \cup {job[j].tx}
        BY <3>2
      <3>3. QED BY <2>1, <3>1, <3>2
    <2>4. \A t \in Tx : Held(t)' => Outs[t] \subseteq vm'[t]
      BY <2>2 DEF HeldInv, Held
    <2>5. \A z \in Session : HeldOf(z)'
      BY <1>2, <2>2 DEF Held
    <2>6. ASSUME NEW k \in Job PROVE RowOf(k)'
      <3>1. CASE k = j
        BY <2>1, <2>3, <3>1 DEF RowOf
      <3>2. CASE k # j
        <4>1. job'[k] = job[k] /\ RowOf(k) /\ JobRuns(k)
          BY <1>1, <2>1, <3>2 DEF JobOnly
        <4>2. QED BY <2>2, <2>3, <4>1 DEF RowOf, JobRuns
      <3>3. QED BY <3>1, <3>2
    <2>7. HeldIsQueued'
      <3>1. SUFFICES ASSUME NEW t \in Tx, Held(t)', t \notin gone' \cup orphans'
                     PROVE  Backed(t)'
        BY QueuedIsAfter
      <3>2. Backed(t)
        BY <2>2, <2>3, <3>1, QueuedIs DEF HeldInv, Held
      <3>3. CASE rows[t] > 0
        BY <2>3, <3>3 DEF Backed
      <3>4. ASSUME NEW k \in Job, job[k].tx = t, job[k].pc = "ingest"
            PROVE  Backed(t)'
        <4>1. CASE k = j
          BY <2>3, <3>1, <3>4, <4>1 DEF Backed
        <4>2. CASE k # j
          BY <2>1, <3>4, <4>2 DEF Backed, JobOnly
        <4>3. QED BY <4>1, <4>2
      <3>5. QED BY <1>3, <3>2, <3>3, <3>4 DEF Backed
    <2>8. QED BY <2>4, <2>5, <2>6, <2>7 DEF HeldInv
  \* Past its insert, a job takes nothing away.
  <1>5. ASSUME NEW j \in Job, JobOnly(j), job[j].pc \notin {"none", "ingest"},
               job'[j].tx = job[j].tx,
               rows' = rows, gone' = gone, orphans' = orphans,
               \A t \in Tx : Held(t) => Held(t)',
               \A t \in Tx : Held(t)' => Held(t) \/ t = job[j].tx,
               \A t \in Tx : Held(t)' => Outs[t] \subseteq vm'[t]
        PROVE  HeldInv'
    <2>1. \A z \in Session : HeldOf(z)'
      BY <1>2, <1>5
    <2>2. ASSUME NEW k \in Job PROVE RowOf(k)'
      BY <1>1, <1>5, <2>2 DEF RowOf, JobOnly
    <2>3. HeldIsQueued'
      <3>1. SUFFICES ASSUME NEW t \in Tx, Held(t)', t \notin gone' \cup orphans'
                     PROVE  Backed(t)'
        BY QueuedIsAfter
      <3>2. CASE t = job[j].tx
        BY <1>1, <1>5, <3>1, <3>2 DEF RowOf, Backed
      <3>3. CASE t # job[j].tx
        <4>1. Backed(t)
          BY <1>5, <3>1, <3>3, QueuedIs DEF HeldInv
        <4>2. CASE rows[t] > 0
          BY <1>5, <4>2 DEF Backed
        <4>3. CASE \E k \in Job : job[k].tx = t /\ job[k].pc = "ingest"
          BY <1>5, <4>3 DEF Backed, JobOnly
        <4>4. QED BY <1>3, <4>1, <4>2, <4>3 DEF Backed
      <3>4. QED BY <3>2, <3>3
    <2>4. QED BY <1>5, <2>1, <2>2, <2>3 DEF HeldInv
  <1>6. ASSUME NEW j \in Job, JobStore(j) PROVE HeldInv'
    <2>1. /\ JobOnly(j) /\ job[j].pc = "store" /\ job[j].tx \in Tx
          /\ job'[j].tx = job[j].tx
          /\ vm' = [vm EXCEPT ![job[j].tx] = Outs[job[j].tx]]
      BY <1>6, JobStoreIs
    <2>2. PICK t \in Tx : t = job[j].tx
      BY <2>1
    <2>3. /\ \A u \in Tx : Held(u) => Held(u)'
          /\ \A u \in Tx : Held(u)' => Held(u) \/ u = t
          /\ \A u \in Tx : u # t => vm'[u] = vm[u]
          /\ vm'[t] = Outs[t]
      BY <1>1, <2>1, <2>2, VmStored
    <2>4. \A u \in Tx : Held(u)' => Outs[u] \subseteq vm'[u]
      BY <2>3 DEF HeldInv, Held
    <2>5. rows' = rows /\ gone' = gone /\ orphans' = orphans
      BY <1>6 DEF JobStore
    <2>6. QED BY <1>5, <2>1, <2>2, <2>3, <2>4, <2>5
  <1>7. ASSUME NEW j \in Job, JobEnrich(j) PROVE HeldInv'
    <2>1. /\ JobOnly(j) /\ job[j].pc = "enrich" /\ job'[j].tx = job[j].tx
          /\ \A t \in Tx : /\ Held(t)' <=> Held(t)
                           /\ Held(t) => vm[t] \subseteq vm'[t]
      BY <1>7, JobEnrichIs
    <2>2. \A u \in Tx : Held(u)' => Outs[u] \subseteq vm'[u]
      BY <2>1 DEF HeldInv
    <2>3. rows' = rows /\ gone' = gone /\ orphans' = orphans
      BY <1>7 DEF JobEnrich
    <2>4. QED BY <1>5, <2>1, <2>2, <2>3
  <1>8. ASSUME NEW j \in Job, NEW sh \in Sh, JobNotify(j, sh) PROVE HeldInv'
    <2>1. JobOnly(j) /\ job[j].pc = "notify" /\ job'[j].tx = job[j].tx
      BY <1>8, JobNotifyIs
    <2>2. vm' = vm /\ rows' = rows /\ gone' = gone /\ orphans' = orphans
      BY <1>8 DEF JobNotify
    <2>3. /\ \A t \in Tx : Held(t)' <=> Held(t)
          /\ \A u \in Tx : Held(u)' => Outs[u] \subseteq vm'[u]
      BY <2>2 DEF HeldInv, Held
    <2>4. QED BY <1>5, <2>1, <2>2, <2>3
  <1>9. ASSUME NEW u \in Tx, RemovePendingTx(u) PROVE HeldInv'
    <2>1. /\ rows[u] > 0 /\ rows' = [rows EXCEPT ![u] = @ - 1]
          /\ vm' = [vm EXCEPT ![u] = NULL] /\ gone' = gone \cup {u}
          /\ orphans' = orphans /\ job' = job
      BY <1>9 DEF RemovePendingTx
    <2>2. /\ ~Held(u)'
          /\ \A t \in Tx : t # u => /\ vm'[t] = vm[t] /\ rows'[t] = rows[t]
                                    /\ Held(t)' <=> Held(t)
      BY <1>1, <2>1 DEF Held
    <2>3. \A t \in Tx : Held(t)' => Outs[t] \subseteq vm'[t]
      BY <2>2 DEF HeldInv
    <2>4. \A z \in Session : HeldOf(z)'
      BY <1>2, <2>1, <2>2
    <2>5. ASSUME NEW k \in Job PROVE RowOf(k)'
      <3>1. JobRuns(k) /\ RowOf(k) /\ job'[k] = job[k]
        BY <1>1, <2>1
      <3>2. CASE job[k].tx = u
        BY <2>1, <3>1, <3>2 DEF RowOf
      <3>3. CASE job[k].tx # u
        BY <2>1, <2>2, <3>1, <3>3 DEF RowOf, JobRuns
      <3>4. QED BY <3>2, <3>3
    <2>6. HeldIsQueued'
      <3>1. SUFFICES ASSUME NEW t \in Tx, Held(t)', t \notin gone' \cup orphans'
                     PROVE  Backed(t)'
        BY QueuedIsAfter
      <3>2. t # u
        BY <2>1, <3>1
      <3>3. Backed(t)
        BY <2>1, <2>2, <3>1, <3>2, QueuedIs DEF HeldInv
      <3>4. QED BY <1>3, <2>1, <2>2, <3>2, <3>3 DEF Backed
    <2>7. QED BY <2>3, <2>4, <2>5, <2>6 DEF HeldInv
  <1>10. ASSUME NEW t \in Tx, NEW sh \in Sh, RemoveNotify(t, sh) PROVE HeldInv'
    <2>1. /\ vm' = vm /\ rows' = rows /\ gone' = gone /\ orphans' = orphans
          /\ job' = job
      BY <1>10 DEF RemoveNotify
    <2>2. QED
      BY <1>1, <2>1 DEF HeldInv, HeldOf, RowOf, HeldIsQueued, Held, Stored
  <1>11. QED
    BY <1>4, <1>6, <1>7, <1>8, <1>9, <1>10 DEF JobStep, RemoveNotifyStep

\* A stuttering step changes nothing of it.
LEMMA HeldStutter ==
    ASSUME HeldInv, UNCHANGED vars
    PROVE  HeldInv'
  BY DEF HeldInv, HeldOf, RowOf, HeldIsQueued, Held, Stored, vars

\* Initially nothing is held and nothing acknowledged.
LEMMA HeldInit ==
    ASSUME Init
    PROVE  HeldInv
  <1>1. \A t \in Tx : ~Held(t)
    BY DEF Init, Held
  <1>2. \A s \in Session : HeldOf(s)
    BY DEF Init, NewSession, NewWallet, HeldOf
  <1>3. \A j \in Job : RowOf(j)
    BY DEF Init, RowOf
  <1>4. QED
    BY <1>1, <1>2, <1>3 DEF HeldInv, HeldIsQueued

-----------------------------------------------------------------------------
(* The fourth layer: what a wallet was told, or is about to be.             *)

\* A notification about sh that no channel has been sent yet.
ToBeSent(sh) ==
    \/ \E z \in Session : sh \in ses[z].todo
    \/ \E j \in Job : sh \in job[j].todo
    \/ \E t \in Tx : sh \in leaving[t]

\* OutputsTold, of one connection.
TruthOf(s) ==
    ses[s].up /\ ~chan[s].lost =>
        \A sh \in ses[s].subs, t \in Tx : sh \in Outs[t] =>
            \/ (t \in wal[s].told[sh]) = Held(t)
            \/ Queued(s, sh) \/ ToBeSent(sh)

\* OutputsTold, in those words.
LEMMA ToldIs ==
    OutputsTold <=> \A s \in Session : TruthOf(s)
  BY DEF OutputsTold, TruthOf, Coming, Queued, ToBeSent

\* The same after a step.
LEMMA ToldIsAfter ==
    ASSUME \A s \in Session : TruthOf(s)'
    PROVE  OutputsTold'
  BY DEF OutputsTold, TruthOf, Coming, Queued, ToBeSent

\* Of an address it pays to, a transaction is shown exactly while it is held.
LEMMA ShownIs ==
    ASSUME HeldInv, NEW s \in Session, NEW t \in Tx, NEW sh \in Outs[t]
    PROVE  (t \in PendingInSession(s, sh)) = Held(t)
  <1>1. ASSUME Held(t) PROVE t \in PendingInSession(s, sh)
    <2>1. sh \in vm[t]
      BY <1>1 DEF HeldInv
    <2>2. t \in PendingFor(sh)
      BY <1>1, <2>1 DEF PendingFor
    <2>3. QED BY <2>2 DEF PendingInSession
  <1>2. ASSUME t \in PendingInSession(s, sh) PROVE Held(t)
    BY <1>2 DEF PendingInSession, PendingFor
  <1>3. (t \in PendingInSession(s, sh)) <=> Held(t)
    BY <1>1, <1>2
  <1>4. QED
    BY <1>3 DEF Held

\* A notification that leaves the channel is its first.
LEMMA TailIs ==
    ASSUME NEW S, NEW seq \in Seq(S), seq # <<>>, NEW n \in DOMAIN seq
    PROVE  \/ seq[n] = Head(seq)
           \/ \E m \in DOMAIN Tail(seq) : Tail(seq)[m] = seq[n]
  <1>1. /\ Len(seq) \in Nat /\ Len(seq) # 0 /\ n \in 1 .. Len(seq)
        /\ Head(seq) = seq[1] /\ Tail(seq) \in Seq(S)
        /\ Len(Tail(seq)) = Len(seq) - 1
        /\ \A i \in 1 .. Len(Tail(seq)) : Tail(seq)[i] = seq[i + 1]
    BY HeadTailProperties, LenProperties, EmptySeq
  <1>2. DOMAIN Tail(seq) = 1 .. Len(Tail(seq))
    BY <1>1, LenProperties
  <1>3. CASE n = 1
    BY <1>1, <1>3
  <1>4. CASE n # 1
    <2>1. n - 1 \in 1 .. Len(seq) - 1 /\ (n - 1) + 1 = n
      BY <1>1, <1>4
    <2>2. Tail(seq)[n - 1] = seq[n] /\ n - 1 \in DOMAIN Tail(seq)
      BY <1>1, <1>2, <2>1
    <2>3. QED BY <2>2
  <1>5. QED BY <1>3, <1>4

\* A wallet that is told nothing new stays right while no notification about
\* what it follows is lost and what becomes false is about to be put right.
LEMMA TruthKept ==
    ASSUME NEW z \in Session, TruthOf(z),
           ses'[z].subs = ses[z].subs, wal'[z].told = wal[z].told,
           ses[z].subs \subseteq Sh,
           ses'[z].up /\ ~chan'[z].lost =>
              /\ ses[z].up /\ ~chan[z].lost
              /\ \A sh \in Sh : Queued(z, sh) \/ ToBeSent(sh)
                                => Queued(z, sh)' \/ ToBeSent(sh)',
           \A t \in Tx : \/ Held(t)' = Held(t)
                         \/ \A sh \in Outs[t] : ToBeSent(sh)'
    PROVE  TruthOf(z)'
  <1>1. SUFFICES ASSUME ses'[z].up, ~chan'[z].lost,
                        NEW sh \in ses[z].subs, NEW t \in Tx, sh \in Outs[t]
                 PROVE  \/ (t \in wal[z].told[sh]) = Held(t)'
                        \/ Queued(z, sh)' \/ ToBeSent(sh)'
    BY DEF TruthOf
  <1>2. \/ (t \in wal[z].told[sh]) = Held(t)
        \/ Queued(z, sh) \/ ToBeSent(sh)
    BY <1>1 DEF TruthOf
  <1>3. QED
    BY <1>1, <1>2

\* What is still to be sent, when only connection s has changed its own.
LEMMA ToBeSentBy ==
    ASSUME NEW s \in Session, SesOnly(s), job' = job, leaving' = leaving, NEW sh,
           sh \in ses[s].todo => sh \in ses'[s].todo
    PROVE  ToBeSent(sh) => ToBeSent(sh)'
  BY DEF ToBeSent, SesOnly

\* A wallet follows first what it waits for, if a step of another leaves it alone.
LEMMA FollowsKept ==
    ASSUME NEW z \in Session, FollowsFirst(z), ses'[z] = ses[z], wal'[z] = wal[z]
    PROVE  FollowsFirst(z)'
  BY DEF FollowsFirst

\* A step of connection s that takes no notification from the others and that
\* stores nothing, or stores with its notifications to be sent.
LEMMA OthersTold ==
    ASSUME LineInv, ToldInv, NEW s \in Session, SesOnly(s), WalOnly(s),
           \A z \in Session : z # s => chan'[z] = chan[z],
           \A sh \in Sh : ToBeSent(sh) => ToBeSent(sh)',
           \A t \in Tx : \/ Held(t)' = Held(t)
                         \/ \A sh \in Outs[t] : ToBeSent(sh)',
           FollowsFirst(s)', TruthOf(s)'
    PROVE  ToldInv'
  <1>1. ASSUME NEW z \in Session, z # s PROVE FollowsFirst(z)' /\ TruthOf(z)'
    <2>1. /\ ses'[z] = ses[z] /\ wal'[z] = wal[z] /\ chan'[z] = chan[z]
          /\ FollowsFirst(z) /\ TruthOf(z) /\ ses[z].subs \subseteq Sh
      BY <1>1, ToldIs DEF SesOnly, WalOnly, ToldInv, LineInv, Typed, SessionRecord
    <2>2. \A sh \in Sh : Queued(z, sh)' = Queued(z, sh)
      BY <2>1 DEF Queued
    <2>3. TruthOf(z)'
      BY <2>1, <2>2, TruthKept
    <2>4. QED BY <2>1, <2>3, FollowsKept
  <1>2. QED
    BY <1>1, ToldIsAfter DEF ToldInv

\* A wallet that is told at most the truth of one script hash it follows.
LEMMA ToldTruth ==
    ASSUME LineInv, HeldInv, ToldInv, NEW s \in Session, NEW sh \in Sh,
           WalOnly(s), sh \in ses'[s].subs,
           ses'[s].subs = ses[s].subs \cup {sh}, ses'[s].up = ses[s].up,
           chan'[s].lost = chan[s].lost, vm' = vm,
           ses'[s].pc # "forward",
           wal'[s].told = [wal[s].told EXCEPT ![sh] = PendingInSession(s, sh)],
           \A x \in Sh : Queued(s, x) /\ x # sh => Queued(s, x)',
           \A x \in Sh : ToBeSent(x) => ToBeSent(x)'
    PROVE  FollowsFirst(s)' /\ TruthOf(s)'
  <1>1. /\ wal[s].told \in [Sh -> SUBSET Tx] /\ ses[s].subs \subseteq Sh
        /\ FollowsFirst(s) /\ TruthOf(s)
    BY ToldIs DEF LineInv, Typed, WalletRecord, SessionRecord, ToldInv
  <1>2. /\ \A x \in Sh : x # sh => wal'[s].told[x] = wal[s].told[x]
        /\ wal'[s].told[sh] = PendingInSession(s, sh)
    BY <1>1
  <1>3. FollowsFirst(s)'
    BY <1>1, <1>2 DEF FollowsFirst
  <1>4. TruthOf(s)'
    <2>1. SUFFICES ASSUME ses[s].up, ~chan[s].lost,
                          NEW x \in ses'[s].subs, NEW t \in Tx, x \in Outs[t]
                   PROVE  \/ (t \in wal'[s].told[x]) = Held(t)'
                          \/ Queued(s, x)' \/ ToBeSent(x)'
      BY DEF TruthOf
    <2>2. Held(t)' = Held(t)
      BY DEF Held
    <2>3. CASE x = sh
      BY <1>2, <2>1, <2>2, <2>3, ShownIs
    <2>4. CASE x # sh
      <3>1. x \in ses[s].subs /\ x \in Sh
        BY <1>1, <2>1, <2>4
      <3>2. \/ (t \in wal[s].told[x]) = Held(t)
            \/ Queued(s, x) \/ ToBeSent(x)
        BY <1>1, <2>1, <3>1 DEF TruthOf
      <3>3. QED BY <1>2, <2>2, <2>4, <3>1, <3>2
    <2>5. QED BY <2>3, <2>4
  <1>5. QED
    BY <1>3, <1>4

\* A connection whose wallet is told nothing new.
LEMMA ToldNothing ==
    ASSUME LineInv, ToldInv, NEW s \in Session,
           ses'[s].subs = ses[s].subs, ses'[s].up = ses[s].up,
           wal'[s].told = wal[s].told, chan'[s].lost = chan[s].lost,
           \/ ses'[s].pc # "forward"
           \/ wal'[s].asked = wal[s].asked /\ ses'[s].line = ses[s].line
              /\ ses'[s].pc = ses[s].pc,
           \A x \in Sh : Queued(s, x) => Queued(s, x)',
           \A x \in Sh : ToBeSent(x) => ToBeSent(x)',
           \A t \in Tx : \/ Held(t)' = Held(t)
                         \/ \A sh \in Outs[t] : ToBeSent(sh)'
    PROVE  FollowsFirst(s)' /\ TruthOf(s)'
  <1>1. /\ ses[s].subs \subseteq Sh /\ FollowsFirst(s) /\ TruthOf(s)
    BY ToldIs DEF LineInv, Typed, WalletRecord, SessionRecord, ToldInv
  <1>2. FollowsFirst(s)'
    BY <1>1 DEF FollowsFirst
  <1>3. TruthOf(s)'
    BY <1>1, TruthKept
  <1>4. QED BY <1>2, <1>3

\* The steps of the connections: answers tell the truth, and a store has its
\* notifications to send.
LEMMA SessionToldStep ==
    ASSUME LineInv, CountInv, HeldInv, ToldInv, NEW s \in Session,
           \/ Connect(s) \/ Disconnect(s)
           \/ \E req \in Request : SendLine(s, req)
           \/ SessionStep(s) \/ HearStep(s)
    PROVE  ToldInv'
  <1>1. /\ ses \in [Session -> SessionRecord] /\ wal \in [Session -> WalletRecord]
        /\ chan \in [Session -> ChanRecord] /\ ses[s] \in SessionRecord
        /\ vm \in [Tx -> {NULL} \cup SUBSET Sh] /\ ses[s].subs \subseteq Sh
        /\ Serving(s) /\ FollowsFirst(s) /\ TruthOf(s)
    BY ToldIs DEF LineInv, Typed, ToldInv, SessionRecord
  <1>2. ASSUME vm' = vm PROVE \A t \in Tx : Held(t)' = Held(t)
    BY <1>2 DEF Held
  <1>3. ASSUME chan' = chan
        PROVE  /\ \A z \in Session : chan'[z] = chan[z]
               /\ \A x \in Sh : Queued(s, x) => Queued(s, x)'
    BY <1>3 DEF Queued
  <1>4. CASE Connect(s) \/ Disconnect(s)
    <2>1. /\ SesOnly(s) /\ WalOnly(s) /\ ses'[s].subs = {} /\ ses[s].todo = {}
          /\ \A z \in Session : z # s => chan'[z] = chan[z]
          /\ ses'[s].pc = "idle" /\ wal'[s] = NewWallet
      BY <1>4, ConnectIs
    <2>2. vm' = vm /\ job' = job /\ leaving' = leaving
      BY <1>4 DEF Connect, Disconnect
    <2>3. \A sh \in Sh : ToBeSent(sh) => ToBeSent(sh)'
      BY <2>1, <2>2, ToBeSentBy
    <2>4. FollowsFirst(s)' /\ TruthOf(s)'
      BY <2>1 DEF FollowsFirst, TruthOf, NewWallet
    <2>5. QED BY <1>2, <2>1, <2>2, <2>3, <2>4, OthersTold
  <1>5. ASSUME NEW req \in Request, SendLine(s, req) PROVE ToldInv'
    <2>1. /\ WalOnly(s) /\ wal'[s].told = wal[s].told
          /\ wal'[s].asked = Append(wal[s].asked, req)
      BY <1>5, SendLineIs
    <2>2. /\ ses' = ses /\ SesOnly(s) /\ vm' = vm /\ job' = job /\ leaving' = leaving
          /\ chan' = chan
      BY <1>1, <1>5 DEF SendLine, SesOnly
    <2>3. \A sh \in Sh : ToBeSent(sh) => ToBeSent(sh)'
      BY <2>2, ToBeSentBy
    <2>4. FollowsFirst(s)'
      <3>1. CASE ses[s].pc # "forward"
        BY <1>1, <2>1, <2>2, <3>1 DEF FollowsFirst
      <3>2. CASE ses[s].pc = "forward"
        <4>1. ses[s].line \in DOMAIN wal[s].asked
          BY <1>1, <3>2 DEF Serving, Open
        <4>2. wal'[s].asked[ses[s].line] = wal[s].asked[ses[s].line]
          BY <1>1, <2>1, <4>1, AppendIs DEF WalletRecord
        <4>3. QED BY <1>1, <2>1, <2>2, <4>2 DEF FollowsFirst
      <3>3. QED BY <3>1, <3>2
    <2>5. TruthOf(s)'
      BY <1>1, <1>2, <1>3, <2>1, <2>2, <2>3, TruthKept
    <2>6. QED BY <1>2, <1>3, <2>1, <2>2, <2>3, <2>4, <2>5, OthersTold
  <1>6. CASE Read(s)
    <2>1. /\ SesOnly(s) /\ WalOnly(s) /\ ses'[s].pc = "idle" /\ ses'[s].up = ses[s].up
          /\ ses'[s].subs = ses[s].subs /\ ses'[s].todo = ses[s].todo
          /\ wal'[s].told = wal[s].told
      BY <1>6, ReadIs
    <2>2. /\ vm' = vm /\ job' = job /\ leaving' = leaving
          /\ \A z \in Session : z # s => chan'[z] = chan[z]
          /\ chan'[s].lost = chan[s].lost /\ chan'[s].queue = chan[s].queue
      BY <1>1, <1>6 DEF Read, ChanRecord
    <2>3. \A sh \in Sh : ToBeSent(sh) => ToBeSent(sh)'
      BY <2>1, <2>2, ToBeSentBy
    <2>4. \A x \in Sh : Queued(s, x) => Queued(s, x)'
      BY <2>2 DEF Queued
    <2>5. FollowsFirst(s)' /\ TruthOf(s)'
      BY <1>2, <2>1, <2>2, <2>3, <2>4, ToldNothing
    <2>6. QED BY <1>2, <2>1, <2>2, <2>3, <2>5, OthersTold
  <1>7. CASE PollFast(s)
    <2>1. PICK i \in Line, req \in Request :
            /\ Handles(s, i, req) /\ req.op = "poll"
            /\ ses' = [ses EXCEPT ![s].buf = LinesLeft(s), ![s].subs = @ \cup {req.sh}]
            /\ wal' = [wal EXCEPT ![s].told[req.sh] = PendingInSession(s, req.sh),
                                  ![s].answered = @ \cup {i}]
      BY <1>7 DEF PollFast
    <2>2. /\ SesOnly(s) /\ WalOnly(s) /\ ses'[s].pc = ses[s].pc /\ ses'[s].up = ses[s].up
          /\ ses'[s].subs = ses[s].subs \cup {req.sh} /\ ses'[s].todo = ses[s].todo
          /\ wal'[s].told = [wal[s].told EXCEPT ![req.sh] = PendingInSession(s, req.sh)]
      <3>1. /\ SesOnly(s) /\ WalOnly(s) /\ ses'[s].pc = ses[s].pc
            /\ ses'[s].up = ses[s].up
            /\ ses'[s].subs = ses[s].subs \cup {req.sh} /\ ses'[s].todo = ses[s].todo
        BY <2>1, PollFastIs
      <3>2. wal'[s].told = [wal[s].told EXCEPT ![req.sh] = PendingInSession(s, req.sh)]
        <4> DEFINE shown == [wal[s].told EXCEPT ![req.sh] = PendingInSession(s, req.sh)]
                   w == [wal[s] EXCEPT !.told = shown, !.answered = @ \cup {i}]
        <4>1. wal' = [wal EXCEPT ![s] = w] /\ wal[s] \in WalletRecord
          BY <1>1, <2>1
        <4> HIDE DEF shown
        <4>2. w.told = shown
          BY <4>1 DEF WalletRecord
        <4> HIDE DEF w
        <4>3. wal'[s].told = shown
          BY <1>1, <4>1, <4>2
        <4>4. QED BY <4>3 DEF shown
      <3>3. QED BY <3>1, <3>2
    <2>3. ses[s].pc = "idle" /\ req.sh \in Sh
      BY <2>1, HandlesIs, RequestIs
    <2>4. vm' = vm /\ job' = job /\ leaving' = leaving /\ chan' = chan
      BY <1>7 DEF PollFast
    <2>5. \A sh \in Sh : ToBeSent(sh) => ToBeSent(sh)'
      BY <2>2, <2>4, ToBeSentBy
    <2>6. FollowsFirst(s)' /\ TruthOf(s)'
      <3>1. PICK sh \in Sh : sh = req.sh
        BY <2>3
      <3>2. QED BY <1>3, <2>2, <2>3, <2>4, <2>5, <3>1, ToldTruth
    <2>7. QED BY <1>2, <1>3, <2>2, <2>4, <2>5, <2>6, OthersTold
  <1>8. CASE PollForward(s)
    <2>1. PICK i \in Line, req \in Request :
            /\ Handles(s, i, req) /\ req.op = "poll"
            /\ PendingInSession(s, req.sh) = {}
            /\ ses' = [ses EXCEPT ![s].buf = LinesLeft(s), ![s].subs = @ \cup {req.sh},
                                  ![s].pc = "forward", ![s].line = i]
      BY <1>8 DEF PollForward
    <2>2. /\ SesOnly(s) /\ ses'[s].line = i /\ ses'[s].up = ses[s].up
          /\ ses'[s].subs = ses[s].subs \cup {req.sh} /\ ses'[s].todo = ses[s].todo
      BY <2>1, PollForwardIs
    <2>3. req.sh \in Sh /\ req = wal[s].asked[i]
      BY <2>1, HandlesIs, RequestIs
    <2>4. /\ vm' = vm /\ job' = job /\ leaving' = leaving /\ chan' = chan
          /\ wal' = wal /\ WalOnly(s)
      BY <1>1, <1>8 DEF PollForward, WalOnly
    <2>5. \A sh \in Sh : ToBeSent(sh) => ToBeSent(sh)'
      BY <2>2, <2>4, ToBeSentBy
    <2>6. FollowsFirst(s)'
      BY <1>1, <2>2, <2>3, <2>4 DEF FollowsFirst
    <2>7. TruthOf(s)'
      <3>1. SUFFICES ASSUME ses[s].up, ~chan[s].lost,
                            NEW x \in ses'[s].subs, NEW t \in Tx, x \in Outs[t]
                     PROVE  \/ (t \in wal'[s].told[x]) = Held(t)'
                            \/ Queued(s, x)' \/ ToBeSent(x)'
        BY <2>2, <2>4 DEF TruthOf
      <3>2. CASE x \in ses[s].subs
        <4>1. \/ (t \in wal[s].told[x]) = Held(t)
              \/ Queued(s, x) \/ ToBeSent(x)
          BY <1>1, <3>1, <3>2 DEF TruthOf
        <4>2. QED BY <1>1, <1>2, <1>3, <2>4, <2>5, <3>2, <4>1
      <3>3. CASE x \notin ses[s].subs
        <4>1. x = req.sh /\ wal[s].told[x] = {}
          BY <1>1, <2>2, <2>3, <3>1, <3>3 DEF FollowsFirst
        <4>2. (t \in PendingInSession(s, x)) = Held(t)
          BY <3>1, ShownIs
        <4>3. (t \in wal'[s].told[x]) = (t \in PendingInSession(s, x))
          BY <2>1, <2>4, <4>1
        <4>4. QED BY <1>2, <2>4, <4>2, <4>3
      <3>4. QED BY <3>2, <3>3
    <2>8. QED BY <1>2, <1>3, <2>2, <2>4, <2>5, <2>6, <2>7, OthersTold
  <1>9. CASE PollAnswer(s)
    <2>1. /\ SesOnly(s) /\ WalOnly(s) /\ ses'[s].pc = "idle" /\ ses[s].pc = "forward"
          /\ ses'[s].up = ses[s].up /\ ses'[s].subs = ses[s].subs
          /\ ses'[s].todo = ses[s].todo
      BY <1>9, PollAnswerIs DEF PollAnswer
    <2>2. PICK sh \in Sh :
            /\ wal[s].asked[ses[s].line].sh = sh
            /\ \/ wal'[s].told = [wal[s].told EXCEPT ![sh] = PendingInSession(s, sh)]
               \/ wal'[s].told = wal[s].told
      BY <1>9, PollAnswerIs
    <2>3. vm' = vm /\ job' = job /\ leaving' = leaving /\ chan' = chan
      BY <1>9 DEF PollAnswer
    <2>4. \A x \in Sh : ToBeSent(x) => ToBeSent(x)'
      BY <2>1, <2>3, ToBeSentBy
    <2>5. sh \in ses[s].subs
      BY <1>1, <2>1, <2>2 DEF FollowsFirst
    <2>6. FollowsFirst(s)' /\ TruthOf(s)'
      <3>1. CASE wal'[s].told = [wal[s].told EXCEPT ![sh] = PendingInSession(s, sh)]
        <4>1. ses'[s].subs = ses[s].subs \cup {sh} /\ sh \in ses'[s].subs
          BY <2>1, <2>5
        <4>2. QED BY <1>3, <2>1, <2>3, <2>4, <3>1, <4>1, ToldTruth
      <3>2. CASE wal'[s].told = wal[s].told
        BY <1>2, <1>3, <2>1, <2>3, <2>4, <3>2, ToldNothing
      <3>3. QED BY <2>2, <3>1, <3>2
    <2>7. QED BY <1>2, <1>3, <2>1, <2>3, <2>4, <2>6, OthersTold
  <1>10. CASE HearLagged(s)
    <2>1. /\ ses' = ses /\ wal' = wal /\ SesOnly(s) /\ WalOnly(s)
          /\ vm' = vm /\ job' = job /\ leaving' = leaving
          /\ \A z \in Session : z # s => chan'[z] = chan[z]
          /\ chan'[s].lost = chan[s].lost /\ chan'[s].queue = chan[s].queue
      BY <1>1, <1>10 DEF HearLagged, ChanRecord, SesOnly, WalOnly
    <2>2. \A x \in Sh : ToBeSent(x) => ToBeSent(x)'
      BY <2>1, ToBeSentBy
    <2>3. \A x \in Sh : Queued(s, x) => Queued(s, x)'
      BY <2>1 DEF Queued
    <2>4. FollowsFirst(s)' /\ TruthOf(s)'
      BY <1>2, <2>1, <2>2, <2>3, ToldNothing
    <2>5. QED BY <1>2, <2>1, <2>2, <2>4, OthersTold
  <1>11. CASE Hear(s)
    <2>1. PICK sh \in Sh : sh = Head(chan[s].queue)
      BY <1>11, HearIs
    <2>2. /\ SesOnly(s) /\ WalOnly(s) /\ ses'[s].pc = ses[s].pc /\ ses'[s].up = ses[s].up
          /\ ses'[s].subs = ses[s].subs /\ ses'[s].todo = ses[s].todo
          /\ chan[s].queue # <<>>
          /\ wal'[s].told = IF sh \in ses[s].subs
                            THEN [wal[s].told EXCEPT ![sh] = PendingInSession(s, sh)]
                            ELSE wal[s].told
      BY <1>11, <2>1, HearIs
    <2>3. /\ vm' = vm /\ job' = job /\ leaving' = leaving /\ ses[s].pc = "idle"
          /\ chan' = [chan EXCEPT ![s].queue = Tail(@)]
      BY <1>11 DEF Hear, Listens
    <2>4. /\ \A z \in Session : z # s => chan'[z] = chan[z]
          /\ chan'[s].lost = chan[s].lost /\ chan'[s].queue = Tail(chan[s].queue)
          /\ chan[s].queue \in Seq(Sh)
      BY <1>1, <2>3 DEF ChanRecord
    <2>5. \A x \in Sh : ToBeSent(x) => ToBeSent(x)'
      BY <2>2, <2>3, ToBeSentBy
    <2>6. \A x \in Sh : Queued(s, x) /\ x # sh => Queued(s, x)'
      BY <2>1, <2>2, <2>4, TailIs DEF Queued
    <2>7. CASE sh \in ses[s].subs
      <3>1. ses'[s].subs = ses[s].subs \cup {sh} /\ sh \in ses'[s].subs
        BY <2>2, <2>7
      <3>2. wal'[s].told = [wal[s].told EXCEPT ![sh] = PendingInSession(s, sh)]
        BY <2>2, <2>7
      <3>3. FollowsFirst(s)' /\ TruthOf(s)'
        BY <2>2, <2>3, <2>4, <2>5, <2>6, <3>1, <3>2, ToldTruth
      <3>4. QED BY <1>2, <2>2, <2>3, <2>4, <2>5, <3>3, OthersTold
    <2>8. CASE sh \notin ses[s].subs
      <3>1. wal'[s].told = wal[s].told
        BY <2>2, <2>8
      <3>2. FollowsFirst(s)'
        BY <1>1, <2>2, <2>3, <3>1 DEF FollowsFirst
      <3>3. TruthOf(s)'
        <4>1. SUFFICES ASSUME ses[s].up, ~chan[s].lost,
                              NEW x \in ses[s].subs, NEW t \in Tx, x \in Outs[t]
                       PROVE  \/ (t \in wal[s].told[x]) = Held(t)'
                              \/ Queued(s, x)' \/ ToBeSent(x)'
          BY <2>2, <2>4, <3>1 DEF TruthOf
        <4>2. x \in Sh /\ x # sh
          BY <1>1, <2>8, <4>1
        <4>3. \/ (t \in wal[s].told[x]) = Held(t)
              \/ Queued(s, x) \/ ToBeSent(x)
          BY <1>1, <4>1 DEF TruthOf
        <4>4. QED BY <1>2, <2>3, <2>5, <2>6, <4>2, <4>3
      <3>4. QED BY <1>2, <2>2, <2>3, <2>4, <2>5, <3>2, <3>3, OthersTold
    <2>9. QED BY <2>7, <2>8
  <1>12. ASSUME NEW sh \in Sh, BroadcastNotify(s, sh) PROVE ToldInv'
    <2>1. /\ SesOnly(s) /\ ses'[s].pc = ses[s].pc /\ ses'[s].line = ses[s].line
          /\ ses'[s].up = ses[s].up /\ ses'[s].subs = ses[s].subs
          /\ ses'[s].todo = ses[s].todo \ {sh} /\ ses[s].pc = "store"
      BY <1>12, BroadcastNotifyIs
    <2>2. /\ vm' = vm /\ job' = job /\ leaving' = leaving /\ wal' = wal /\ Send(sh)
      BY <1>12 DEF BroadcastNotify
    <2>3. \A x \in Sh : ToBeSent(x) => ToBeSent(x)' \/ x = sh
      BY <2>1, <2>2 DEF ToBeSent, SesOnly
    <2>4. ASSUME NEW z \in Session PROVE FollowsFirst(z)' /\ TruthOf(z)'
      <3>1. /\ ses'[z].subs = ses[z].subs /\ ses'[z].up = ses[z].up
            /\ ses'[z].pc = ses[z].pc /\ ses'[z].line = ses[z].line
            /\ wal'[z] = wal[z] /\ FollowsFirst(z) /\ TruthOf(z)
            /\ ses[z].subs \subseteq Sh
        BY <2>1, <2>2, ToldIs DEF SesOnly, ToldInv, LineInv, Typed, SessionRecord
      <3>2. FollowsFirst(z)'
        BY <3>1 DEF FollowsFirst
      <3>3. ses'[z].up /\ ~chan'[z].lost =>
              /\ ses[z].up /\ ~chan[z].lost
              /\ \A x \in Sh : Queued(z, x) \/ ToBeSent(x)
                               => Queued(z, x)' \/ ToBeSent(x)'
        BY <2>2, <2>3, <3>1, SendIs
      <3>4. TruthOf(z)'
        BY <1>2, <2>2, <3>1, <3>3, TruthKept
      <3>5. QED BY <3>2, <3>4
    <2>5. QED BY <2>4, ToldIsAfter DEF ToldInv
  <1>13. CASE BroadcastStore(s)
    <2>1. PICK i \in Line, req \in Request :
            /\ Handles(s, i, req) /\ req.op = "broadcast"
            /\ vm' = [vm EXCEPT ![req.tx] = Outs[req.tx]]
            /\ ses' = [ses EXCEPT ![s].buf = LinesLeft(s), ![s].pc = "store",
                                  ![s].line = i, ![s].todo = Outs[req.tx]]
      BY <1>13 DEF BroadcastStore
    <2>2. /\ SesOnly(s) /\ ses'[s].pc = "store" /\ ses'[s].up = ses[s].up
          /\ ses'[s].subs = ses[s].subs /\ ses'[s].todo = Outs[req.tx]
      BY <2>1, BroadcastStoreIs
    <2>3. req.tx \in Tx /\ ses[s].todo = {}
      BY <2>1, HandlesIs, RequestIs
    <2>4. /\ job' = job /\ leaving' = leaving /\ chan' = chan /\ wal' = wal /\ WalOnly(s)
      BY <1>1, <1>13 DEF BroadcastStore, WalOnly
    <2>5. \A x \in Sh : ToBeSent(x) => ToBeSent(x)'
      BY <2>2, <2>3, <2>4, ToBeSentBy
    <2>6. ASSUME NEW t \in Tx
          PROVE  Held(t)' = Held(t) \/ \A x \in Outs[t] : ToBeSent(x)'
      <3>1. CASE t = req.tx
        BY <2>2, <3>1 DEF ToBeSent
      <3>2. CASE t # req.tx
        BY <1>1, <2>1, <3>2 DEF Held
      <3>3. QED BY <3>1, <3>2
    <2>7. FollowsFirst(s)' /\ TruthOf(s)'
      BY <1>3, <2>2, <2>4, <2>5, <2>6, ToldNothing
    <2>8. QED BY <1>3, <2>2, <2>4, <2>5, <2>6, <2>7, OthersTold
  <1>14. CASE BroadcastAck(s)
    <2>1. /\ SesOnly(s) /\ WalOnly(s) /\ ses'[s].pc = "idle" /\ ses'[s].up = ses[s].up
          /\ ses'[s].subs = ses[s].subs /\ ses[s].todo = {} /\ ses[s].pc = "store"
          /\ wal'[s].told = wal[s].told
      BY <1>14, BroadcastAckIs
    <2>2. vm' = vm /\ leaving' = leaving /\ chan' = chan
      BY <1>14 DEF BroadcastAck
    <2>3. \A k \in Job : job[k].todo \subseteq job'[k].todo
      <3> DEFINE r == [pc |-> "ingest", tx |-> Stored(s), todo |-> {}]
      <3>1. PICK j \in Job : job[j].pc = "none" /\ job' = [job EXCEPT ![j] = r]
        BY <1>14, <2>1, BroadcastAckIs, FreeJob
      <3> HIDE DEF r
      <3>2. \A k \in Job : k # j => job'[k] = job[k]
        BY <3>1 DEF LineInv, Typed
      <3>3. job[j].todo = {}
        BY <3>1 DEF LineInv, JobRuns
      <3>4. QED BY <3>2, <3>3
    <2>4. \A x \in Sh : ToBeSent(x) => ToBeSent(x)'
      BY <2>1, <2>2, <2>3 DEF ToBeSent, SesOnly
    <2>5. FollowsFirst(s)' /\ TruthOf(s)'
      BY <1>2, <1>3, <2>1, <2>2, <2>4, ToldNothing
    <2>6. QED BY <1>2, <1>3, <2>1, <2>2, <2>4, <2>5, OthersTold
  <1>15. QED
    BY <1>4, <1>5, <1>6, <1>7, <1>8, <1>9, <1>10, <1>11, <1>12, <1>13, <1>14
    DEF SessionStep, HearStep

\* The jobs and the removals: whatever they change, they have notifications to
\* send, and every one they send reaches each channel.
LEMMA JobToldStep ==
    ASSUME LineInv, HeldInv, ToldInv,
           \/ \E j \in Job : JobStep(j)
           \/ \E t \in Tx : RemovePendingTx(t)
           \/ RemoveNotifyStep
    PROVE  ToldInv'
  <1>1. /\ ses' = ses /\ wal' = wal /\ vm \in [Tx -> {NULL} \cup SUBSET Sh]
        /\ leaving \in [Tx -> SUBSET Sh]
    BY DEF LineInv, Typed, JobStep, JobInsert, JobStore, JobEnrich, JobNotify,
           RemovePendingTx, RemoveNotifyStep, RemoveNotify
  <1>2. ASSUME \A z \in Session : ses[z].up /\ ~chan'[z].lost =>
                  /\ ~chan[z].lost
                  /\ \A x \in Sh : Queued(z, x) \/ ToBeSent(x)
                                   => Queued(z, x)' \/ ToBeSent(x)',
               \A t \in Tx : \/ Held(t)' = Held(t)
                             \/ \A x \in Outs[t] : ToBeSent(x)'
        PROVE  ToldInv'
    <2>1. ASSUME NEW z \in Session PROVE FollowsFirst(z)' /\ TruthOf(z)'
      <3>1. FollowsFirst(z) /\ TruthOf(z) /\ ses[z].subs \subseteq Sh
        BY ToldIs DEF ToldInv, LineInv, Typed, SessionRecord
      <3>2. FollowsFirst(z)'
        BY <1>1, <3>1 DEF FollowsFirst
      <3>3. TruthOf(z)'
        BY <1>1, <1>2, <3>1, TruthKept
      <3>4. QED BY <3>2, <3>3
    <2>2. QED BY <2>1, ToldIsAfter DEF ToldInv
  <1>3. ASSUME chan' = chan, \A x \in Sh : ToBeSent(x) => ToBeSent(x)',
               \A t \in Tx : \/ Held(t)' = Held(t)
                             \/ \A x \in Outs[t] : ToBeSent(x)'
        PROVE  ToldInv'
    BY <1>2, <1>3 DEF Queued
  <1>4. ASSUME NEW sh \in Sh, Send(sh), vm' = vm,
               \A x \in Sh : ToBeSent(x) => ToBeSent(x)' \/ x = sh
        PROVE  ToldInv'
    <2>1. \A t \in Tx : Held(t)' = Held(t)
      BY <1>4 DEF Held
    <2>2. \A z \in Session : ses[z].up /\ ~chan'[z].lost =>
             /\ ~chan[z].lost
             /\ \A x \in Sh : Queued(z, x) \/ ToBeSent(x)
                              => Queued(z, x)' \/ ToBeSent(x)'
      BY <1>4, SendIs
    <2>3. QED BY <1>2, <2>1, <2>2
  <1>5. ASSUME NEW j \in Job, JobInsert(j) PROVE ToldInv'
    <2>1. JobOnly(j) /\ job[j].todo = {} /\ job'[j].todo = {}
      BY <1>5, JobInsertIs
    <2>2. vm' = vm /\ chan' = chan /\ leaving' = leaving
      BY <1>5 DEF JobInsert
    <2>3. \A x \in Sh : ToBeSent(x) => ToBeSent(x)'
      BY <1>1, <2>1, <2>2 DEF ToBeSent, JobOnly
    <2>4. QED BY <1>3, <2>2, <2>3 DEF Held
  <1>6. ASSUME NEW j \in Job, JobStore(j) PROVE ToldInv'
    <2>1. /\ JobOnly(j) /\ job[j].todo = {} /\ job[j].tx \in Tx
          /\ job'[j].todo = Outs[job[j].tx]
          /\ vm' = [vm EXCEPT ![job[j].tx] = Outs[job[j].tx]]
      BY <1>6, JobStoreIs
    <2>2. chan' = chan /\ leaving' = leaving
      BY <1>6 DEF JobStore
    <2>3. \A x \in Sh : ToBeSent(x) => ToBeSent(x)'
      BY <1>1, <2>1, <2>2 DEF ToBeSent, JobOnly
    <2>4. ASSUME NEW t \in Tx
          PROVE  Held(t)' = Held(t) \/ \A x \in Outs[t] : ToBeSent(x)'
      <3>1. CASE t = job[j].tx
        BY <2>1, <3>1 DEF ToBeSent
      <3>2. CASE t # job[j].tx
        BY <1>1, <2>1, <3>2 DEF Held
      <3>3. QED BY <3>1, <3>2
    <2>5. QED BY <1>3, <2>2, <2>3, <2>4
  <1>7. ASSUME NEW j \in Job, JobEnrich(j) PROVE ToldInv'
    <2>1. /\ JobOnly(j) /\ job[j].todo = {} /\ job'[j].todo = {}
          /\ \A t \in Tx : Held(t)' <=> Held(t)
      BY <1>7, JobEnrichIs
    <2>2. chan' = chan /\ leaving' = leaving
      BY <1>7 DEF JobEnrich
    <2>3. \A x \in Sh : ToBeSent(x) => ToBeSent(x)'
      BY <1>1, <2>1, <2>2 DEF ToBeSent, JobOnly
    <2>4. \A t \in Tx : Held(t)' = Held(t)
      BY <2>1 DEF Held
    <2>5. QED BY <1>3, <2>2, <2>3, <2>4
  <1>8. ASSUME NEW j \in Job, NEW sh \in Sh, JobNotify(j, sh) PROVE ToldInv'
    <2>1. JobOnly(j) /\ job'[j].todo = job[j].todo \ {sh}
      BY <1>8, JobNotifyIs
    <2>2. vm' = vm /\ Send(sh) /\ leaving' = leaving
      BY <1>8 DEF JobNotify
    <2>3. \A x \in Sh : ToBeSent(x) => ToBeSent(x)' \/ x = sh
      BY <1>1, <2>1, <2>2 DEF ToBeSent, JobOnly
    <2>4. QED BY <1>4, <2>2, <2>3
  <1>9. ASSUME NEW u \in Tx, RemovePendingTx(u) PROVE ToldInv'
    <2>1. /\ vm' = [vm EXCEPT ![u] = NULL] /\ chan' = chan /\ job' = job
      BY <1>9 DEF RemovePendingTx
    <2>2. PICK h \in SUBSET Sh :
            /\ Held(u) => h = vm[u]
            /\ leaving' = [leaving EXCEPT ![u] = @ \cup h]
      <3>1. PICK h \in SUBSET Sh : h = IF Held(u) THEN vm[u] ELSE {}
        BY <1>1 DEF Held
      <3>2. leaving' = [leaving EXCEPT ![u] = @ \cup h]
        BY <1>9, <3>1 DEF RemovePendingTx
      <3>3. QED BY <3>1, <3>2
    <2>3. /\ leaving'[u] = leaving[u] \cup h
          /\ \A t \in Tx : t # u => leaving'[t] = leaving[t]
      BY <1>1, <2>2
    <2>4. \A x \in Sh : ToBeSent(x) => ToBeSent(x)'
      BY <1>1, <2>1, <2>3 DEF ToBeSent
    <2>5. ASSUME NEW t \in Tx
          PROVE  Held(t)' = Held(t) \/ \A x \in Outs[t] : ToBeSent(x)'
      <3>1. CASE t # u
        BY <1>1, <2>1, <3>1 DEF Held
      <3>2. CASE t = u /\ Held(u)
        <4>1. Outs[u] \subseteq leaving'[u]
          BY <2>2, <2>3, <3>2 DEF HeldInv
        <4>2. QED BY <3>2, <4>1 DEF ToBeSent
      <3>3. CASE t = u /\ ~Held(u)
        BY <1>1, <2>1, <3>3 DEF Held
      <3>4. QED BY <3>1, <3>2, <3>3
    <2>6. QED BY <1>3, <2>1, <2>4, <2>5
  <1>10. ASSUME NEW t \in Tx, NEW sh \in Sh, RemoveNotify(t, sh) PROVE ToldInv'
    <2>1. /\ vm' = vm /\ Send(sh) /\ job' = job
          /\ leaving' = [leaving EXCEPT ![t] = @ \ {sh}]
      BY <1>10 DEF RemoveNotify
    <2>2. /\ leaving'[t] = leaving[t] \ {sh}
          /\ \A u \in Tx : u # t => leaving'[u] = leaving[u]
      BY <1>1, <2>1
    <2>3. \A x \in Sh : ToBeSent(x) => ToBeSent(x)' \/ x = sh
      BY <1>1, <2>1, <2>2 DEF ToBeSent
    <2>4. QED BY <1>4, <2>1, <2>3
  <1>11. QED
    BY <1>5, <1>6, <1>7, <1>8, <1>9, <1>10 DEF JobStep, RemoveNotifyStep

\* A stuttering step tells nothing.
LEMMA ToldStutter ==
    ASSUME ToldInv, UNCHANGED vars
    PROVE  ToldInv'
  BY DEF ToldInv, FollowsFirst, OutputsTold, Coming, Held, vars

\* Initially no connection is up.
LEMMA ToldInit ==
    ASSUME Init
    PROVE  ToldInv
  <1>1. \A s \in Session : FollowsFirst(s)
    BY DEF Init, NewSession, NewWallet, FollowsFirst
  <1>2. OutputsTold
    BY DEF Init, NewSession, OutputsTold
  <1>3. QED
    BY <1>1, <1>2 DEF ToldInv

-----------------------------------------------------------------------------
(* The theorems.                                                           *)

\* Every step keeps all four layers.
LEMMA StepKeeps ==
    ASSUME IInv, [Next]_vars
    PROVE  IInv'
  <1>1. ASSUME NEW s \in Session,
               \/ Connect(s) \/ Disconnect(s)
               \/ \E req \in Request : SendLine(s, req)
               \/ SessionStep(s) \/ HearStep(s)
        PROVE  IInv'
    BY <1>1, SessionLineStep, SessionCountStep, SessionHeldStep, SessionToldStep DEF IInv
  <1>2. ASSUME \/ \E j \in Job : JobStep(j)
               \/ \E t \in Tx : RemovePendingTx(t)
               \/ RemoveNotifyStep
        PROVE  IInv'
    BY <1>2, JobLineStep, JobCountStep, JobHeldStep, JobToldStep DEF IInv
  <1>3. CASE UNCHANGED vars
    BY <1>3, LineStutter, CountStutter, HeldStutter, ToldStutter DEF IInv
  <1>4. QED
    BY <1>1, <1>2, <1>3 DEF Next, WalletStep

\* The invariant of all four layers holds in every state of every run.
THEOREM AlwaysIInv == Spec => []IInv
  <1>1. Init => IInv
    BY LineInit, CountInit, HeldInit, ToldInit DEF IInv
  <1>2. IInv /\ [Next]_vars => IInv'
    BY StepKeeps
  <1>3. QED
    BY <1>1, <1>2, PTL DEF Spec

\* Every field of every connection, wallet, job and channel has its type, and
\* no transaction has more rows than broadcasts that were acknowledged: an
\* acknowledgement starts one job, which inserts at most one row.
THEOREM AlwaysTypeOK == Spec => []TypeOK
  <1>1. IInv => TypeOK
    <2>1. SUFFICES ASSUME IInv PROVE rows \in [Tx -> 0 .. MaxBroadcasts]
      BY DEF IInv, LineInv, Typed, TypeOK
    <2>2. rows \in [Tx -> Nat]
      BY <2>1 DEF IInv, LineInv, Typed
    <2>3. \A t \in Tx : rows[t] \in 0 .. MaxBroadcasts
      <3>1. SUFFICES ASSUME NEW t \in Tx PROVE rows[t] \in 0 .. MaxBroadcasts
        OBVIOUS
      <3>2. rows[t] \in Nat /\ rows[t] <= Cardinality(Past(t))
        BY <2>1, <2>2 DEF IInv, CountInv
      <3>3. Cardinality(Past(t)) \in Nat /\ Cardinality(Past(t)) <= MaxBroadcasts
        BY CountIs
      <3>4. QED BY <3>2, <3>3, SessionAssumption
    <2>4. QED BY <2>2, <2>3
  <1>2. QED
    BY <1>1, AlwaysIInv, PTL

\* What a wallet was last told of the outputs of a transaction is the truth, or
\* a notification about them is on its way to its connection, unless one has
\* been dropped: remove_pending_tx and both stores change what is held together
\* with the notifications they owe, and every answer and every notification
\* shows what is held at that moment.
THEOREM AlwaysOutputsTold == Spec => []OutputsTold
  <1>1. IInv => OutputsTold
    BY DEF IInv, ToldInv
  <1>2. QED
    BY <1>1, AlwaysIInv, PTL

\* From its acknowledgement until it leaves the pool, a broadcast is shown for
\* every script hash its wallet asks about: the session forgets it only when it
\* is no longer held, and nothing but a removal ends that.
THEOREM AlwaysAckedIsPolled == Spec => []AckedIsPolled
  <1>1. IInv => AckedIsPolled
    <2>1. SUFFICES ASSUME IInv, NEW s \in Session, wal[s].acked # NULL,
                          wal[s].acked \notin gone, NEW sh \in Sh
                   PROVE  wal[s].acked \in PendingInSession(s, sh)
      BY DEF AckedIsPolled
    <2>2. wal[s].acked \in Tx
      BY <2>1 DEF IInv, LineInv, Typed, WalletRecord
    <2>3. Held(wal[s].acked) /\ ses[s].recent = wal[s].acked
      BY <2>1 DEF IInv, HeldInv, HeldOf
    <2>4. QED
      BY <2>2, <2>3 DEF PendingInSession
  <1>2. QED
    BY <1>1, AlwaysIInv, PTL

\* What wallets are shown waits in the pool to be sent, or is about to: the
\* session that stores it hands it to a job, of which one is always free, and
\* the job hands it to a row.
THEOREM AlwaysHeldIsQueued == Spec => []HeldIsQueued
  <1>1. IInv => HeldIsQueued
    BY DEF IInv, HeldInv
  <1>2. QED
    BY <1>1, AlwaysIInv, PTL

===============================================================================
