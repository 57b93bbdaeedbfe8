-------------------------- MODULE PipeChannelProofs --------------------------
(***************************************************************************)
(* A pipe that one reader at a time reads without a timeout implements     *)
(* ByteChannel, for any number of writers and any buffer size.             *)
(***************************************************************************)
EXTENDS PipeManagerProofs

\* Most leaves are first-order; the ones that need arithmetic or sequences say SMT.
USE Zenon

Reading(r) == waiter_id[r] # 0

(* The buffer holds what was sent after byte m; the last close drops it.   *)
Follows(m) ==
  /\ m <= sent
  /\ buffer = IF PipeExists THEN Span(m, sent - m) ELSE <<>>

(* What the PendingRead of the reader under way holds: nothing yet, end of *)
(* file, or the bytes that come next, with the buffer behind them.         *)
Unanswered(r) ==
  /\ waiters[waiter_id[r]].result = None /\ Live(waiter_id[r])
  /\ waiting_reads = <<waiter_id[r]>>
  /\ buffer = <<>> /\ sent = Len(delivered) /\ ~closed_write
ToldEof(r) ==
  /\ waiters[waiter_id[r]].result = Eof /\ waiting_reads = <<>>
  /\ closed_write /\ sent = Len(delivered) /\ buffer = <<>>
ToldData(r) ==
  \E k \in Nat \ {0} :
    /\ waiters[waiter_id[r]].result = Data(Span(Len(delivered), k))
    /\ waiting_reads = <<>> /\ Follows(Len(delivered) + k)

(* At most one reader is under way, and what is registered is its.         *)
OneThreads ==
  /\ \A q, r \in Readers : Reading(q) /\ Reading(r) => q = r
  /\ \A r \in Readers :
       /\ pc[r] # "expired" /\ (pc[r] = "idle" <=> ~Reading(r))
       /\ Reading(r) => req[r].wait = "forever" /\ req[r].length \in Lengths
  /\ \A w \in Writers : pc[w] # "idle" => req[w].length \in Lengths

OneWaiter ==
  \A i \in WaiterIds : Live(i) => /\ waiters[i].length \in Lengths
                                  /\ \E r \in Readers : waiter_id[r] = i

OneBytes ==
  /\ InOrder
  /\ \A r \in Readers : Reading(r) => Unanswered(r) \/ ToldEof(r) \/ ToldData(r)
  /\ (\A r \in Readers : ~Reading(r)) => waiting_reads = <<>> /\ Follows(Len(delivered))
  /\ OverrunIsOneWrite

OneInv == TypeOK /\ OneThreads /\ OneWaiter /\ OneBytes

(* A step of the pipe seen as a step of the channel.                       *)
ChannelStep == [Channel!Next]_(Channel!vars)

------------------------------------------------------------------------------
(* The bytes a write accepts: their numbers, and how they are joined to    *)
(* the ones before and split by a read.                                    *)
LEMMA SpanFacts ==
  ASSUME NEW m \in Nat, NEW n \in Nat
  PROVE  /\ Span(m, n) \in Seq(Bytes) /\ Len(Span(m, n)) = n
         /\ \A i \in 1..n : Span(m, n)[i] = m + i
         /\ Span(m, 0) = <<>>
         /\ Span(m, n) = <<>> => n = 0
<1>1. Span(m, n) \in Seq(Bytes) /\ Len(Span(m, n)) = n
  BY SpanType
<1>2. Span(m, 0) = <<>>
  <2>1. Span(m, 0) \in Seq(Bytes) /\ Len(Span(m, 0)) = 0
    BY SpanType
  <2> QED BY SMT, <2>1
<1>3. \A i \in 1..n : Span(m, n)[i] = m + i
  BY DEF Span
<1> QED BY <1>1, <1>2, <1>3

(* Sequences joined, and sequences with the same bytes.                    *)
LEMMA Joined ==
  ASSUME NEW s \in Seq(Bytes), NEW t \in Seq(Bytes)
  PROVE  /\ s \o t \in Seq(Bytes) /\ Len(s \o t) = Len(s) + Len(t)
         /\ \A i \in 1..(Len(s) + Len(t)) :
              (s \o t)[i] = IF i <= Len(s) THEN s[i] ELSE t[i - Len(s)]
         /\ s \o <<>> = s /\ <<>> \o s = s
  BY SMT

\* Two sequences of the same length with the same bytes are the same.
LEMMA SameBytes ==
  ASSUME NEW s \in Seq(Bytes), NEW t \in Seq(Bytes), Len(s) = Len(t),
         \A i \in 1..Len(s) : s[i] = t[i]
  PROVE  s = t
  BY SMT

\* Bytes written one after the other join to one span (buffer.push_back).
LEMMA SpanJoin ==
  ASSUME NEW m \in Nat, NEW a \in Nat, NEW b \in Nat
  PROVE  Span(m, a) \o Span(m + a, b) = Span(m, a + b)
<1> DEFINE s == Span(m, a)
           t == Span(m + a, b)
           u == Span(m, a + b)
<1>1. /\ s \in Seq(Bytes) /\ Len(s) = a /\ \A i \in 1..a : s[i] = m + i
      /\ t \in Seq(Bytes) /\ Len(t) = b /\ \A i \in 1..b : t[i] = m + a + i
      /\ u \in Seq(Bytes) /\ Len(u) = a + b /\ \A i \in 1..(a + b) : u[i] = m + i
  <2>1. m + a \in Nat /\ a + b \in Nat
    BY SMT
  <2> QED BY <2>1, SpanFacts
<1> HIDE DEF s, t, u
<1>2. /\ s \o t \in Seq(Bytes) /\ Len(s \o t) = a + b
      /\ \A i \in 1..(a + b) : (s \o t)[i] = IF i <= a THEN s[i] ELSE t[i - a]
  <2>1. s \in Seq(Bytes) /\ t \in Seq(Bytes) /\ Len(s) = a /\ Len(t) = b
    BY <1>1
  <2> QED BY ONLY <2>1, Joined
<1>3. ASSUME NEW i \in 1..(a + b) PROVE (s \o t)[i] = u[i]
  <2>1. (s \o t)[i] = IF i <= a THEN s[i] ELSE t[i - a]
    BY <1>2
  <2>2. u[i] = m + i
    BY <1>1
  <2>3. CASE i <= a
    <3>1. i \in 1..a
      BY SMT, <2>3
    <3>2. s[i] = m + i
      BY <3>1, <1>1
    <3> QED BY <3>2, <2>1, <2>2, <2>3
  <2>4. CASE ~(i <= a)
    <3>1. i - a \in 1..b /\ m + a + (i - a) = m + i
      BY SMT, <2>4
    <3>2. t[i - a] = m + i
      BY <3>1, <1>1
    <3> QED BY <3>2, <2>1, <2>2, <2>4
  <2> QED BY <2>3, <2>4
<1>4. s \o t = u
  BY <1>1, <1>2, <1>3, SameBytes
<1> QED BY <1>4 DEF s, t, u

\* What a read takes and what it leaves of a span are spans (drain_buffer).
LEMMA SpanSplit ==
  ASSUME NEW m \in Nat, NEW n \in Nat, NEW len \in Nat
  PROVE  /\ Min2(len, n) \in 0..n
         /\ Take(Span(m, n), len) = Span(m, Min2(len, n))
         /\ Drop(Span(m, n), len) = Span(m + Min2(len, n), n - Min2(len, n))
<1> DEFINE s == Span(m, n)
           k == Min2(len, n)
<1>1. k \in 0..n
  BY SMT DEF Min2
<1>2. s \in Seq(Bytes) /\ Len(s) = n /\ \A i \in 1..n : s[i] = m + i
  BY SpanFacts
<1>3. Take(s, len) = SubSeq(s, 1, k) /\ Drop(s, len) = SubSeq(s, k + 1, n)
  BY <1>2 DEF Take, Drop
<1> HIDE DEF s, k
<1>4. /\ SubSeq(s, 1, k) \in Seq(Bytes) /\ Len(SubSeq(s, 1, k)) = k
      /\ \A i \in 1..k : SubSeq(s, 1, k)[i] = s[i]
      /\ SubSeq(s, k + 1, n) \in Seq(Bytes) /\ Len(SubSeq(s, k + 1, n)) = n - k
      /\ \A i \in 1..(n - k) : SubSeq(s, k + 1, n)[i] = s[k + i]
  BY SMT, <1>1, <1>2
<1>5. /\ Span(m, k) \in Seq(Bytes) /\ Len(Span(m, k)) = k /\ \A i \in 1..k : Span(m, k)[i] = m + i
      /\ Span(m + k, n - k) \in Seq(Bytes) /\ Len(Span(m + k, n - k)) = n - k
      /\ \A i \in 1..(n - k) : Span(m + k, n - k)[i] = m + k + i
  <2>1. k \in Nat /\ m + k \in Nat /\ n - k \in Nat
    BY SMT, <1>1
  <2> QED BY <2>1, SpanFacts
<1>6. SubSeq(s, 1, k) = Span(m, k)
  <2>1. \A i \in 1..k : i \in 1..n
    BY SMT, <1>1
  <2>2. \A i \in 1..k : SubSeq(s, 1, k)[i] = Span(m, k)[i]
    BY <2>1, <1>2, <1>4, <1>5
  <2> QED BY <2>2, <1>4, <1>5, SameBytes
<1>7. SubSeq(s, k + 1, n) = Span(m + k, n - k)
  <2>1. \A i \in 1..(n - k) : k + i \in 1..n /\ m + (k + i) = m + k + i
    BY SMT, <1>1
  <2>2. \A i \in 1..(n - k) : SubSeq(s, k + 1, n)[i] = Span(m + k, n - k)[i]
    <3>1. ASSUME NEW i \in 1..(n - k) PROVE SubSeq(s, k + 1, n)[i] = Span(m + k, n - k)[i]
      <4>1. SubSeq(s, k + 1, n)[i] = s[k + i] /\ Span(m + k, n - k)[i] = m + k + i
        BY <1>4, <1>5
      <4>2. s[k + i] = m + (k + i)
        BY <2>1, <1>2
      <4> QED BY <4>1, <4>2, <2>1
    <3> QED BY <3>1
  <2> QED BY <2>2, <1>4, <1>5, SameBytes
<1> QED BY <1>1, <1>3, <1>6, <1>7 DEF s, k

(* Bytes delivered in order, and the next k after them, are in order.      *)
LEMMA InOrderJoin ==
  ASSUME NEW d \in Seq(Bytes), \A i \in DOMAIN d : d[i] = i, NEW k \in Nat
  PROVE  /\ Len(d \o Span(Len(d), k)) = Len(d) + k
         /\ \A i \in DOMAIN (d \o Span(Len(d), k)) : (d \o Span(Len(d), k))[i] = i
<1> DEFINE s == Span(Len(d), k)
<1>1. Len(d) \in Nat
  BY SMT
<1>2. s \in Seq(Bytes) /\ Len(s) = k /\ \A i \in 1..k : s[i] = Len(d) + i
  BY <1>1, SpanFacts
<1> HIDE DEF s
<1>3. /\ Len(d \o s) = Len(d) + k /\ DOMAIN (d \o s) = 1..(Len(d) + k)
      /\ \A i \in 1..(Len(d) + k) : (d \o s)[i] = IF i <= Len(d) THEN d[i] ELSE s[i - Len(d)]
  BY SMT, <1>2
<1>4. \A i \in 1..(Len(d) + k) : (d \o s)[i] = i
  BY SMT, <1>1, <1>2, <1>3
<1> QED BY <1>3, <1>4 DEF s

(* The three answers are different.                                        *)
LEMMA AnswersDiffer == None # Eof /\ \A s : Data(s) # None /\ Data(s) # Eof
  BY DEF None, Eof, Data

------------------------------------------------------------------------------
(* A step of one thread, which may wake the others, keeps OneThreads when  *)
(* that thread is left as it should be.                                    *)
LEMMA ThreadStep ==
  ASSUME OneThreads, NEW t \in Threads,
         \A u \in Threads \ {t} : /\ req'[u] = req[u]
                                  /\ \/ pc'[u] = pc[u]
                                     \/ pc[u] = "blocked" /\ pc'[u] = "ready",
         \A r \in Readers \ {t} : waiter_id'[r] = waiter_id[r],
         t \in Writers => (pc'[t] # "idle" => req'[t].length \in Lengths),
         t \in Readers =>
           /\ pc'[t] # "expired" /\ (pc'[t] = "idle" <=> waiter_id'[t] = 0)
           /\ waiter_id'[t] # 0 =>
                /\ req'[t].wait = "forever" /\ req'[t].length \in Lengths
                /\ \A q \in Readers \ {t} : ~Reading(q)
  PROVE  OneThreads'
<1>1. \A r \in Readers \ {t} :
        /\ pc'[r] # "expired" /\ (pc'[r] = "idle" <=> waiter_id'[r] = 0)
        /\ waiter_id'[r] # 0 => req'[r].wait = "forever" /\ req'[r].length \in Lengths
  BY SMT DEF OneThreads, Reading, Threads
<1>2. \A q, r \in Readers : waiter_id'[q] # 0 /\ waiter_id'[r] # 0 => q = r
  BY SMT DEF OneThreads, Reading
<1>3. \A w \in Writers : pc'[w] # "idle" => req'[w].length \in Lengths
  BY DEF OneThreads, Threads
<1> QED BY <1>1, <1>2, <1>3 DEF OneThreads, Reading

(* What the notifications do to the other threads.                         *)
LEMMA NotifyOthers ==
  ASSUME TypeOK, NEW t \in Threads, NEW s, NotifyAll(t, s) \/ NoNotify(t, s)
  PROVE  /\ pc'[t] = s
         /\ \A u \in Threads \ {t} : \/ pc'[u] = pc[u]
                                     \/ pc[u] = "blocked" /\ pc'[u] = "ready"
  BY DEF TypeOK, NotifyAll, NoNotify

(* A step that leaves the pipe and its waiters alone is no step of the     *)
(* channel.                                                                *)
LEMMA OneQuiet ==
  ASSUME OneInv,
         UNCHANGED <<buffer, closed_read, closed_write, waiting_reads, waiters, waiter_id,
                     sent, delivered, eof>>
  PROVE  OneWaiter' /\ OneBytes' /\ ChannelStep
<1>1. OneWaiter'
  BY DEF OneInv, OneWaiter, Live
<1>2. PipeExists' = PipeExists
  BY DEF PipeExists
<1>3. OneBytes'
  BY <1>2 DEF OneInv, OneBytes, InOrder, Reading, Unanswered, ToldEof, ToldData, Follows, Live,
              OverrunIsOneWrite
<1>4. ChannelStep
  BY DEF ChannelStep, Channel!vars
<1> QED BY <1>1, <1>3, <1>4

------------------------------------------------------------------------------
(* A writer finds the reader blocked: the reader is given the next bytes,  *)
(* and the buffer holds the rest.                                          *)
LEMMA OneHandOff ==
  ASSUME OneInv, NEW w \in Writers, NEW n \in Lengths, NEW b \in BOOLEAN,
         WritePass(w, n, b), HandOff(w, n)
  PROVE  OneWaiter' /\ OneBytes' /\ ChannelStep
<1>0. /\ n \in Nat \ {0} /\ sent \in Nat /\ waiters \in [WaiterIds -> PendingReads]
      /\ waiting_reads \in Seq(WaiterIds) /\ delivered \in Seq(Bytes)
      /\ \A i \in WaiterIds : i # 0
  BY SMT, PipeConstants DEF OneInv, TypeOK, WaiterIds
<1>1. PICK i \in DOMAIN waiting_reads :
        /\ Live(waiting_reads[i])
        /\ LET id   == waiting_reads[i]
               give == Min2(waiters[id].length, n)
           IN /\ waiters' = [waiters EXCEPT ![id] =
                               [@ EXCEPT !.result = Data(Span(sent, give))]]
              /\ buffer' = buffer \o Span(sent + give, n - give)
        /\ waiting_reads' = Drop(waiting_reads, i)
  BY DEF HandOff, IsFirstLive, LiveWaiting
<1> DEFINE id   == waiting_reads[i]
           give == Min2(waiters[id].length, n)
<1>2. id \in WaiterIds /\ waiters[id] \in PendingReads /\ Live(id)
  BY SMT, <1>0, <1>1
<1>3. waiters[id].length \in Nat \ {0} /\ waiters[id].length \in Lengths
  BY <1>2, PipeConstants DEF OneInv, OneWaiter
<1>4. PICK g \in 1..n : g = give
  <2>1. give \in 1..n
    <3> HIDE DEF id
    <3> QED BY SMT, <1>0, <1>3 DEF Min2
  <2> QED BY <2>1
<1>5. /\ waiters'[id].result = Data(Span(sent, g)) /\ waiters'[id].length = waiters[id].length
      /\ \A j \in WaiterIds \ {id} : waiters'[j] = waiters[j]
  BY <1>0, <1>1, <1>2, <1>4 DEF PendingReads
<1>6. /\ UNCHANGED <<closed_read, closed_write, waiter_id, delivered, eof>>
      /\ sent' = sent + n /\ ~closed_write /\ ~closed_read
  BY DEF HandOff, WritePass
<1>7. PICK r \in Readers : waiter_id[r] = id
  BY <1>2 DEF OneInv, OneWaiter
<1>8. Reading(r) /\ Unanswered(r)
  <2>1. Reading(r)
    BY <1>0, <1>2, <1>7 DEF Reading
  <2>2. waiting_reads # <<>>
    BY SMT, <1>0
  <2> QED BY <2>1, <2>2 DEF OneInv, OneBytes, ToldEof, ToldData
<1>9. waiting_reads = <<id>> /\ buffer = <<>> /\ sent = Len(delivered)
  BY <1>7, <1>8 DEF Unanswered
<1>10. buffer' = <<>> \o Span(sent + g, n - g)
  BY <1>1, <1>4, <1>9
<1>11. waiting_reads' = <<>>
  <2>1. i = 1 /\ Len(waiting_reads) = 1
    <3> HIDE DEF id
    <3> QED BY SMT, <1>9
  <2> QED BY SMT, <1>0, <1>1, <2>1 DEF Drop, Min2
<1> HIDE DEF id
<1>12. buffer' = Span(sent + g, sent' - (sent + g)) /\ Len(buffer') = n - g
  <2>1. sent + g \in Nat /\ n - g \in Nat /\ sent' - (sent + g) = n - g
    BY SMT, <1>0, <1>4, <1>6
  <2>2. Span(sent + g, n - g) \in Seq(Bytes) /\ Len(Span(sent + g, n - g)) = n - g
    BY <2>1, SpanFacts
  <2> QED BY <1>10, <2>1, <2>2, Joined
<1>13. OneWaiter'
  <2>1. ASSUME NEW j \in WaiterIds, waiters'[j] # Absent
        PROVE  waiters'[j].length \in Lengths /\ \E q \in Readers : waiter_id'[q] = j
    <3>1. CASE j = id
      BY <3>1, <1>3, <1>5, <1>6, <1>7
    <3>2. CASE j # id
      BY <3>2, <2>1, <1>5, <1>6 DEF OneInv, OneWaiter, Live
    <3> QED BY <3>1, <3>2
  <2> QED BY <2>1 DEF OneWaiter, Live
<1>14. OneBytes'
  <2>1. InOrder'
    BY <1>6 DEF OneInv, OneBytes, InOrder
  <2>2. OverrunIsOneWrite'
    <3>1. Len(buffer') < n
      BY SMT, <1>0, <1>4, <1>12
    <3> QED BY <3>1 DEF OverrunIsOneWrite
  <2>3. ToldData(r)'
    <3>1. Follows(Len(delivered) + g)'
      <4>1. PipeExists'
        BY <1>6 DEF PipeExists
      <4>2. Len(delivered) + g <= sent'
        BY SMT, <1>0, <1>4, <1>6, <1>9
      <4> QED BY <4>1, <4>2, <1>6, <1>9, <1>12 DEF Follows
    <3>2. waiters'[waiter_id'[r]].result = Data(Span(Len(delivered'), g))
      BY <1>5, <1>6, <1>7, <1>9
    <3>3. g \in Nat \ {0}
      BY SMT, <1>0, <1>4
    <3> QED BY <1>6, <1>11, <3>1, <3>2, <3>3 DEF ToldData
  <2>4. \A q \in Readers : Reading(q)' => q = r
    BY <1>6, <1>8 DEF OneInv, OneThreads, Reading
  <2>5. Reading(r)'
    BY <1>6, <1>8 DEF Reading
  <2> QED BY <2>1, <2>2, <2>3, <2>4, <2>5 DEF OneBytes
<1>15. ChannelStep
  <2>1. sent' > sent
    BY SMT, <1>0, <1>6
  <2>2. Channel!Send
    BY <1>6, <2>1 DEF Channel!Send
  <2> QED BY <2>2 DEF ChannelStep, Channel!Next
<1> QED BY <1>13, <1>14, <1>15

(* No reader waits: the bytes are put behind the ones in the buffer.       *)
LEMMA OneNoneWaits ==
  ASSUME OneInv, LiveWaiting = {}, ~closed_write, ~closed_read
  PROVE  /\ \A r \in Readers : Reading(r) => ToldData(r)
         /\ waiting_reads = <<>> /\ PipeExists
         /\ \E m \in Nat : Follows(m)
<1>1. delivered \in Seq(Bytes) /\ waiting_reads \in Seq(WaiterIds)
  BY DEF OneInv, TypeOK
<1>2. ASSUME NEW r \in Readers, Reading(r) PROVE ToldData(r)
  <2>1. ~Unanswered(r)
    <3>1. ASSUME Unanswered(r) PROVE FALSE
      <4>1. waiting_reads = <<waiter_id[r]>> /\ Live(waiter_id[r])
        BY <3>1 DEF Unanswered
      <4>2. 1 \in LiveWaiting
        BY SMT, <4>1 DEF LiveWaiting
      <4> QED BY <4>2
    <3> QED BY <3>1
  <2>2. ~ToldEof(r)
    BY DEF ToldEof
  <2> QED BY <1>2, <2>1, <2>2 DEF OneInv, OneBytes
<1>3. waiting_reads = <<>> /\ \E m \in Nat : Follows(m)
  <2>1. CASE \E r \in Readers : Reading(r)
    <3>1. PICK r \in Readers : ToldData(r)
      BY <1>2, <2>1
    <3>2. PICK k \in Nat \ {0} : waiting_reads = <<>> /\ Follows(Len(delivered) + k)
      BY <3>1 DEF ToldData
    <3>3. Len(delivered) + k \in Nat
      BY SMT, <1>1
    <3> QED BY <3>2, <3>3
  <2>2. CASE \A r \in Readers : ~Reading(r)
    <3>1. waiting_reads = <<>> /\ Follows(Len(delivered))
      BY <2>2 DEF OneInv, OneBytes
    <3>2. Len(delivered) \in Nat
      BY SMT, <1>1
    <3> QED BY <3>1, <3>2
  <2> QED BY <2>1, <2>2
<1> QED BY <1>2, <1>3 DEF PipeExists

\* A write that is buffered, because no reader waits, is a write of the channel.
LEMMA OneWriteBuffer ==
  ASSUME OneInv, NEW w \in Writers, NEW n \in Lengths, NEW b \in BOOLEAN,
         WritePass(w, n, b), WriteBuffer(w, n)
  PROVE  OneWaiter' /\ OneBytes' /\ ChannelStep
<1> DEFINE a == Accepted(n)
<1>0. /\ n \in Nat \ {0} /\ sent \in Nat /\ buffer \in Seq(Bytes) /\ delivered \in Seq(Bytes)
      /\ MAX_PIPE_BUFFER_BYTES \in Nat /\ PIPE_BUF_BYTES \in Nat /\ Len(buffer) \in Nat
  BY SMT, PipeConstants DEF OneInv, TypeOK
<1>1. /\ a \in Nat \ {0} /\ Len(buffer) + a <= MAX_PIPE_BUFFER_BYTES
  BY SMT, <1>0 DEF WriteBuffer, HasRoom, Accepted, Available, Min2
<1>2. /\ LiveWaiting = {} /\ waiting_reads' = <<>> /\ buffer' = buffer \o Span(sent, a)
      /\ sent' = sent + a /\ ~closed_write /\ ~closed_read
      /\ UNCHANGED <<waiters, closed_read, closed_write, waiter_id, delivered, eof>>
  BY DEF WriteBuffer, WritePass
<1> HIDE DEF a
<1>3. /\ \A r \in Readers : Reading(r) => ToldData(r)
      /\ waiting_reads = <<>> /\ PipeExists /\ PipeExists'
  BY <1>2, OneNoneWaits DEF PipeExists
<1>4. ASSUME NEW m \in Nat, Follows(m) PROVE Follows(m)'
  <2>1. m <= sent /\ buffer = Span(m, sent - m)
    BY <1>3, <1>4 DEF Follows
  <2>2. /\ sent - m \in Nat /\ m + (sent - m) = sent /\ (sent - m) + a = sent' - m /\ m <= sent'
    BY SMT, <1>0, <1>1, <1>2, <2>1
  <2>3. Span(m, sent - m) \o Span(m + (sent - m), a) = Span(m, (sent - m) + a)
    BY <1>1, <2>2, SpanJoin
  <2>4. buffer' = Span(m, sent' - m)
    <3>1. buffer' = Span(m, sent - m) \o Span(m + (sent - m), a)
      BY <1>2, <2>1, <2>2
    <3> QED BY ONLY <3>1, <2>2, <2>3
  <2> QED BY <1>3, <2>2, <2>4 DEF Follows
<1>5. OneWaiter'
  BY <1>2 DEF OneInv, OneWaiter, Live
<1>6. OneBytes'
  <2>1. InOrder'
    BY <1>2 DEF OneInv, OneBytes, InOrder
  <2>2. OverrunIsOneWrite'
    <3>1. Len(buffer') = Len(buffer) + a
      <4>1. Span(sent, a) \in Seq(Bytes) /\ Len(Span(sent, a)) = a
        BY <1>0, <1>1, SpanFacts
      <4>2. Len(buffer \o Span(sent, a)) = Len(buffer) + Len(Span(sent, a))
        BY <1>0, <4>1, Joined
      <4> QED BY <1>2, <4>1, <4>2
    <3> QED BY <1>1, <3>1 DEF OverrunIsOneWrite
  <2>3. ASSUME NEW r \in Readers, Reading(r)' PROVE ToldData(r)'
    <3>1. ToldData(r)
      BY <1>2, <1>3, <2>3 DEF Reading
    <3>2. PICK k \in Nat \ {0} : /\ waiters[waiter_id[r]].result = Data(Span(Len(delivered), k))
                                 /\ Follows(Len(delivered) + k)
      BY <3>1 DEF ToldData
    <3>3. Len(delivered) + k \in Nat
      BY SMT, <1>0
    <3>4. Follows(Len(delivered) + k)'
      BY <1>2, <1>4, <3>2, <3>3
    <3> QED BY <1>2, <3>2, <3>4 DEF ToldData
  <2>4. (\A r \in Readers : ~Reading(r)') => waiting_reads' = <<>> /\ Follows(Len(delivered))'
    <3>1. ASSUME \A r \in Readers : ~Reading(r)' PROVE Follows(Len(delivered))'
      <4>1. Follows(Len(delivered))
        BY <1>2, <3>1 DEF OneInv, OneBytes, Reading
      <4>2. Len(delivered) \in Nat
        BY SMT, <1>0
      <4> QED BY <1>2, <1>4, <4>1, <4>2
    <3> QED BY <1>2, <3>1
  <2> QED BY <2>1, <2>2, <2>3, <2>4 DEF OneBytes
<1>7. ChannelStep
  <2>1. sent' > sent
    BY SMT, <1>0, <1>1, <1>2
  <2>2. Channel!Send
    BY <1>2, <2>1 DEF Channel!Send
  <2> QED BY <2>2 DEF ChannelStep, Channel!Next
<1> QED BY <1>5, <1>6, <1>7

(* A pass of write_with_mode.                                              *)
LEMMA OneWrite ==
  ASSUME OneInv, NEW w \in Writers, NEW n \in Lengths, NEW b \in BOOLEAN, WritePass(w, n, b)
  PROVE  OneThreads' /\ OneWaiter' /\ OneBytes' /\ ChannelStep
<1>0. TypeOK /\ OneThreads /\ w \in Threads /\ w \notin Readers /\ waiter_id' = waiter_id
  BY PipeConstants DEF OneInv, Threads, WritePass
<1>1. OneThreads'
  <2>1. \/ (NotifyAll(w, "idle") \/ NoNotify(w, "idle")) /\ Leave(w)
        \/ NoNotify(w, "blocked") /\ req' = [req EXCEPT ![w] = [length |-> n, wait |-> "forever"]]
    BY DEF WritePass, HandOff, WriteBuffer, WriteFull
  <2>2. \A u \in Threads \ {w} : req'[u] = req[u]
    BY <1>0, <2>1 DEF Leave, TypeOK
  <2>3. pc'[w] # "idle" => req'[w].length = n
    BY SMT, <1>0, <2>1, NotifyOthers DEF TypeOK
  <2>4. \A u \in Threads \ {w} : pc'[u] = pc[u] \/ (pc[u] = "blocked" /\ pc'[u] = "ready")
    BY <1>0, <2>1, NotifyOthers
  <2> QED BY <1>0, <2>2, <2>3, <2>4, ThreadStep
<1>2. CASE HandOff(w, n)
  BY <1>1, <1>2, OneHandOff
<1>3. CASE WriteBuffer(w, n)
  BY <1>1, <1>3, OneWriteBuffer
<1>4. CASE WriteFull(w, n, b)
  <2>1. /\ waiting_reads' = <<>> /\ LiveWaiting = {} /\ ~closed_write /\ ~closed_read
        /\ UNCHANGED <<buffer, closed_read, closed_write, waiters, waiter_id, sent, delivered, eof>>
    BY <1>4 DEF WritePass, WriteFull
  <2>2. waiting_reads = <<>>
    BY <2>1, OneNoneWaits
  <2> QED BY <1>1, <2>1, <2>2, OneQuiet
<1> QED BY <1>1, <1>2, <1>3, <1>4 DEF WritePass

------------------------------------------------------------------------------
(* A read is over: the reader has left, and no other is under way.         *)
LEMMA OneLeaves ==
  ASSUME OneInv, NEW r \in Readers, \A q \in Readers \ {r} : ~Reading(q),
         ForgetWaiter(r), Leave(r), NotifyAll(r, "idle") \/ NoNotify(r, "idle")
  PROVE  OneThreads' /\ \A q \in Readers : ~Reading(q)'
<1>0. TypeOK /\ OneThreads /\ r \in Threads /\ r \notin Writers
  BY PipeConstants DEF OneInv, Threads
<1>1. waiter_id'[r] = 0 /\ \A q \in Readers \ {r} : waiter_id'[q] = waiter_id[q]
  BY <1>0 DEF TypeOK, ForgetWaiter
<1>2. \A u \in Threads \ {r} : req'[u] = req[u]
  BY <1>0 DEF TypeOK, Leave
<1>3. /\ pc'[r] = "idle"
      /\ \A u \in Threads \ {r} : pc'[u] = pc[u] \/ (pc[u] = "blocked" /\ pc'[u] = "ready")
  BY <1>0, NotifyOthers
<1>4. OneThreads'
  BY <1>0, <1>1, <1>2, <1>3, ThreadStep
<1> QED BY <1>1, <1>4 DEF Reading

(* A sleeping reader finds its answer: end of file when all was read, or   *)
(* the bytes that come next.                                               *)
LEMMA OneTakesResult ==
  ASSUME OneInv, NEW r \in Readers, \A q \in Readers \ {r} : ~Reading(q),
         TakeResult(r), UNCHANGED <<closed_read, closed_write>>
  PROVE  OneThreads' /\ OneWaiter' /\ OneBytes' /\ ChannelStep
<1> DEFINE result == waiters[waiter_id[r]].result
<1>0. /\ delivered \in Seq(Bytes) /\ sent \in Nat /\ eof \in BOOLEAN
      /\ waiters \in [WaiterIds -> PendingReads] /\ waiter_id[r] \in 0..MaxWaiters
  BY DEF OneInv, TypeOK
<1>1. /\ Reading(r) /\ result # None /\ delivered' = delivered \o result.bytes
      /\ eof' = (eof \/ result = Eof) /\ waiters' = [waiters EXCEPT ![waiter_id[r]] = Absent]
      /\ UNCHANGED <<buffer, waiting_reads, sent>>
  BY DEF TakeResult, Reading
<1>2. OneThreads' /\ \A q \in Readers : ~Reading(q)'
  BY OneLeaves DEF TakeResult
<1>3. OneWaiter'
  <2>1. waiter_id[r] \in WaiterIds
    BY SMT, <1>0, <1>1 DEF Reading, WaiterIds
  <2>2. \A i \in WaiterIds : ~Live(i)'
    <3>1. ASSUME NEW i \in WaiterIds, i # waiter_id[r] PROVE ~Live(i)
      <4>1. i # 0
        BY SMT DEF WaiterIds
      <4> QED BY <3>1, <4>1 DEF OneInv, OneWaiter, Reading
    <3> QED BY <1>0, <1>1, <2>1, <3>1 DEF Live
  <2> QED BY <2>2 DEF OneWaiter
<1>4. PipeExists' = PipeExists
  BY DEF PipeExists
<1>5. OverrunIsOneWrite'
  BY <1>1 DEF OneInv, OneBytes, OverrunIsOneWrite
<1>6. ToldEof(r) \/ ToldData(r)
  BY <1>1 DEF OneInv, OneBytes, Unanswered
<1>7. CASE ToldEof(r)
  <2>1. /\ result = Eof /\ waiting_reads = <<>> /\ closed_write /\ sent = Len(delivered)
        /\ buffer = <<>>
    BY <1>7 DEF ToldEof
  <2>2. delivered' = delivered /\ eof' = TRUE
    <3>1. Eof.bytes = <<>>
      BY DEF Eof
    <3> QED BY <1>0, <1>1, <2>1, <3>1, Joined
  <2>3. Follows(Len(delivered))'
    <3>1. Span(sent, 0) = <<>> /\ sent - sent = 0 /\ sent <= sent
      BY SMT, <1>0, SpanFacts
    <3> QED BY <1>1, <2>1, <2>2, <3>1 DEF Follows
  <2>4. OneBytes'
    BY <1>1, <1>2, <1>5, <2>1, <2>2, <2>3 DEF OneInv, OneBytes, InOrder
  <2>5. Channel!Eof
    BY <1>1, <2>1, <2>2 DEF Channel!Eof
  <2> QED BY <1>2, <1>3, <2>4, <2>5 DEF ChannelStep, Channel!Next
<1>8. CASE ToldData(r)
  <2>1. PICK k \in Nat \ {0} : /\ result = Data(Span(Len(delivered), k))
                               /\ waiting_reads = <<>> /\ Follows(Len(delivered) + k)
    BY <1>8 DEF ToldData
  <2>2. delivered' = delivered \o Span(Len(delivered), k) /\ eof' = eof
    <3>1. result.bytes = Span(Len(delivered), k) /\ result # Eof
      BY SMT, <2>1, AnswersDiffer DEF Data
    <3> QED BY <1>0, <1>1, <3>1
  <2>3. Len(delivered') = Len(delivered) + k /\ InOrder'
    <3>1. \A i \in DOMAIN delivered : delivered[i] = i
      BY DEF OneInv, OneBytes, InOrder
    <3> QED BY <1>0, <2>2, <3>1, InOrderJoin DEF InOrder
  <2>4. Follows(Len(delivered))'
    BY <1>1, <1>4, <2>1, <2>3 DEF Follows
  <2>5. OneBytes'
    BY <1>1, <1>2, <1>5, <2>1, <2>3, <2>4 DEF OneBytes
  <2>6. Channel!Receive
    <3>1. Len(delivered) \in Nat /\ Len(delivered) + k <= sent
      BY SMT, <1>0, <2>1 DEF Follows
    <3>2. Len(delivered') > Len(delivered) /\ Len(delivered') <= sent
      BY SMT, <2>3, <3>1
    <3> QED BY <1>1, <2>2, <3>2 DEF Channel!Receive
  <2> QED BY <1>2, <1>3, <2>5, <2>6 DEF ChannelStep, Channel!Next
<1> QED BY <1>6, <1>7, <1>8

(* A read starts when none is under way.                                   *)
LEMMA OneStarts ==
  ASSUME OneInv, NEW r \in Readers, NEW n \in Lengths, \A q \in Readers : ~Reading(q),
         ~closed_read, ReadPass(r, n, "forever")
  PROVE  OneThreads' /\ OneWaiter' /\ OneBytes' /\ ChannelStep
<1>0. /\ delivered \in Seq(Bytes) /\ sent \in Nat /\ n \in Nat \ {0} /\ Len(delivered) \in Nat
      /\ waiters \in [WaiterIds -> PendingReads] /\ waiter_id \in [Readers -> 0..MaxWaiters]
      /\ pc \in [Threads -> Stages] /\ req \in [Threads -> Requests]
      /\ r \in Threads /\ r \notin Writers
  BY SMT, PipeConstants DEF OneInv, TypeOK, Threads
<1>1. /\ waiter_id[r] = 0 /\ waiting_reads = <<>> /\ Follows(Len(delivered))
      /\ UNCHANGED <<closed_read, closed_write>>
  BY DEF OneInv, OneBytes, Reading, ReadPass
<1>2. PipeExists /\ PipeExists' /\ Len(delivered) <= sent
      /\ buffer = Span(Len(delivered), sent - Len(delivered))
  BY <1>1 DEF PipeExists, Follows
<1>3. sent - Len(delivered) \in Nat /\ (buffer = <<>> => sent = Len(delivered))
  <2>1. sent - Len(delivered) \in Nat
    BY SMT, <1>0, <1>2
  <2>2. buffer = <<>> => sent - Len(delivered) = 0
    BY <1>0, <1>2, <2>1, SpanFacts
  <2> QED BY SMT, <1>0, <2>1, <2>2
<1>4. \A i \in WaiterIds : i # 0 /\ ~Live(i)
  BY SMT DEF OneInv, OneWaiter, Reading, WaiterIds
<1>5. CASE DrainBuffer(r, n)
  <2> DEFINE k == Min2(n, sent - Len(delivered))
  <2>1. /\ buffer # <<>> /\ delivered' = delivered \o Take(buffer, n) /\ buffer' = Drop(buffer, n)
        /\ UNCHANGED <<waiting_reads, waiters, sent, eof>>
    BY <1>5 DEF DrainBuffer
  <2>2. OneThreads' /\ \A q \in Readers : ~Reading(q)'
    BY <1>5, OneLeaves DEF DrainBuffer
  <2>3. OneWaiter'
    BY <1>4, <2>1 DEF OneWaiter, Live
  <2>4. /\ k \in 0..(sent - Len(delivered)) /\ Take(buffer, n) = Span(Len(delivered), k)
        /\ Drop(buffer, n) = Span(Len(delivered) + k, sent - Len(delivered) - k)
    BY <1>0, <1>2, <1>3, SpanSplit
  <2>5. k # 0
    <3>1. sent - Len(delivered) # 0
      BY <1>0, <1>2, <2>1, SpanFacts
    <3> QED BY <1>0, <1>3, <3>1 DEF Min2
  <2> HIDE DEF k
  <2>6. Len(delivered') = Len(delivered) + k /\ InOrder'
    <3>1. \A i \in DOMAIN delivered : delivered[i] = i
      BY DEF OneInv, OneBytes, InOrder
    <3>2. k \in Nat
      BY SMT, <1>3, <2>4
    <3> QED BY <1>0, <2>1, <2>4, <3>1, <3>2, InOrderJoin DEF InOrder
  <2>7. Len(delivered) + k <= sent /\ Len(delivered) + k > Len(delivered)
        /\ sent - Len(delivered) - k = sent - (Len(delivered) + k)
    BY SMT, <1>0, <1>3, <2>4, <2>5
  <2>8. Follows(Len(delivered))'
    BY <1>2, <2>1, <2>4, <2>6, <2>7 DEF Follows
  <2>9. OverrunIsOneWrite'
    <3>1. Len(buffer') <= Len(buffer) /\ Len(buffer') \in Nat /\ Len(buffer) \in Nat
      <4>1. Len(delivered) + k \in Nat /\ sent - Len(delivered) - k \in Nat
        BY SMT, <1>0, <1>3, <2>4
      <4>2. /\ Len(buffer) = sent - Len(delivered) /\ Len(buffer') = sent - Len(delivered) - k
        <5>1. Len(Span(Len(delivered), sent - Len(delivered))) = sent - Len(delivered)
          BY <1>0, <1>3, SpanFacts
        <5>2. Len(Span(Len(delivered) + k, sent - Len(delivered) - k)) = sent - Len(delivered) - k
          BY <4>1, SpanFacts
        <5> QED BY <1>2, <2>1, <2>4, <5>1, <5>2
      <4> QED BY SMT, <1>3, <2>4, <4>1, <4>2
    <3>2. Lengths \subseteq Nat /\ MAX_PIPE_BUFFER_BYTES \in Nat
      BY PipeConstants
    <3> QED BY SMT, <3>1, <3>2 DEF OneInv, OneBytes, OverrunIsOneWrite
  <2>10. OneBytes'
    BY <1>1, <2>1, <2>2, <2>6, <2>8, <2>9 DEF OneBytes
  <2>11. Channel!Receive
    BY <1>1, <2>1, <2>6, <2>7 DEF Channel!Receive
  <2> QED BY <2>2, <2>3, <2>10, <2>11 DEF ChannelStep, Channel!Next
<1>6. CASE ReadEof(r)
  <2>1. /\ buffer = <<>> /\ closed_write /\ eof' = TRUE
        /\ UNCHANGED <<buffer, waiting_reads, sent, delivered>>
        /\ \A i \in WaiterIds : waiters'[i] = waiters[i]
    BY <1>1, <1>4, <1>6 DEF ReadEof, RemoveWaiter
  <2>2. OneThreads' /\ \A q \in Readers : ~Reading(q)'
    BY <1>6, OneLeaves DEF ReadEof
  <2>3. OneWaiter'
    BY <1>4, <2>1 DEF OneWaiter, Live
  <2>4. Follows(Len(delivered))'
    BY <1>2, <2>1 DEF Follows
  <2>5. OneBytes'
    BY <1>1, <2>1, <2>2, <2>4 DEF OneInv, OneBytes, InOrder, OverrunIsOneWrite
  <2>6. Channel!Eof
    BY <1>1, <1>3, <2>1 DEF Channel!Eof
  <2> QED BY <2>2, <2>3, <2>5, <2>6 DEF ChannelStep, Channel!Next
<1>7. CASE ReadWait(r, n, "forever")
  <2> DEFINE id == next_waiter_id
  <2>1. /\ id \in WaiterIds /\ buffer = <<>> /\ ~closed_write
        /\ req' = [req EXCEPT ![r] = [length |-> n, wait |-> "forever"]]
        /\ waiters' = [waiters EXCEPT ![id] = [length |-> n, result |-> None]]
        /\ waiting_reads' = Append(waiting_reads, id)
        /\ waiter_id' = [waiter_id EXCEPT ![r] = id]
        /\ NotifyAll(r, "blocked") /\ UNCHANGED <<buffer, sent, delivered, eof>>
    BY <1>1, <1>7 DEF ReadWait, history
  <2> HIDE DEF id
  <2>2. /\ waiter_id'[r] = id /\ id # 0 /\ \A q \in Readers \ {r} : waiter_id'[q] = waiter_id[q]
    BY <1>0, <1>4, <2>1
  <2>3. /\ waiters'[id] = [length |-> n, result |-> None]
        /\ \A i \in WaiterIds \ {id} : waiters'[i] = waiters[i]
    BY <1>0, <2>1
  <2>4. waiters'[id].length = n /\ waiters'[id].result = None /\ waiters'[id] # Absent
    BY SMT, <1>0, <2>3 DEF Absent
  <2>5. OneThreads'
    <3>1. /\ pc'[r] = "blocked"
          /\ \A u \in Threads \ {r} : pc'[u] = pc[u] \/ (pc[u] = "blocked" /\ pc'[u] = "ready")
      BY <1>0, <2>1, NotifyOthers DEF OneInv
    <3>2. /\ req'[r] = [length |-> n, wait |-> "forever"]
          /\ \A u \in Threads \ {r} : req'[u] = req[u]
      BY <1>0, <2>1
    <3>3. req'[r].wait = "forever" /\ req'[r].length \in Lengths
      BY SMT, <3>2
    <3> QED BY <1>0, <2>2, <3>1, <3>2, <3>3, ThreadStep DEF OneInv
  <2>6. OneWaiter'
    BY <1>4, <2>2, <2>3, <2>4 DEF OneWaiter, Live
  <2>7. Unanswered(r)'
    <3>1. waiting_reads' = <<id>>
      BY SMT, <1>1, <2>1
    <3> QED BY <1>1, <1>3, <2>1, <2>2, <2>4, <3>1 DEF Unanswered, Live
  <2>8. OneBytes'
    <3>1. \A q \in Readers : Reading(q)' <=> q = r
      BY <2>2 DEF Reading
    <3> QED BY <2>1, <2>7, <3>1 DEF OneInv, OneBytes, InOrder, OverrunIsOneWrite
  <2>9. ChannelStep
    BY <1>1, <2>1 DEF ChannelStep, Channel!vars
  <2> QED BY <2>5, <2>6, <2>8, <2>9
<1>8. ~TakeResult(r) /\ ~ReadBadFd(r) /\ ~ReadPastDeadline(r, "forever")
  BY <1>1, <1>2 DEF TakeResult, ReadBadFd, ReadPastDeadline
<1> QED BY <1>5, <1>6, <1>7, <1>8 DEF ReadPass

(* The reader under way wakes up.                                          *)
LEMMA OneResumes ==
  ASSUME OneInv, NEW r \in Readers, Reading(r), ReadPass(r, req[r].length, req[r].wait)
  PROVE  OneThreads' /\ OneWaiter' /\ OneBytes' /\ ChannelStep
<1> DEFINE n == req[r].length
<1>0. /\ r \in Threads /\ r \notin Writers /\ req[r].wait = "forever" /\ n \in Lengths
      /\ \A q \in Readers \ {r} : ~Reading(q)
      /\ pc \in [Threads -> Stages] /\ req \in [Threads -> Requests]
  BY PipeConstants DEF OneInv, OneThreads, TypeOK, Threads
<1>1. UNCHANGED <<closed_read, closed_write>>
  BY DEF ReadPass
<1>2. CASE waiters[waiter_id[r]].result # None
  <2>1. TakeResult(r)
    BY <1>2 DEF ReadPass, NoResult, Reading, DrainBuffer, ReadEof, ReadBadFd, ReadWait,
                ReadPastDeadline
  <2> QED BY <1>0, <1>1, <2>1, OneTakesResult
<1>3. CASE waiters[waiter_id[r]].result = None
  <2>1. Unanswered(r)
    BY <1>3, AnswersDiffer DEF OneInv, OneBytes, ToldEof, ToldData
  <2>2. buffer = <<>> /\ ~closed_write /\ PipeExists
    BY <2>1 DEF Unanswered, PipeExists
  <2>3. ReadWait(r, n, "forever")
    BY <1>0, <1>3, <2>2
       DEF ReadPass, TakeResult, DrainBuffer, ReadEof, ReadBadFd, ReadPastDeadline
  <2>4. /\ req' = [req EXCEPT ![r] = [length |-> n, wait |-> "forever"]] /\ NoNotify(r, "blocked")
        /\ UNCHANGED <<waiters, waiting_reads, waiter_id, buffer, sent, delivered, eof>>
    BY <2>3 DEF ReadWait, Reading, history
  <2>5. OneThreads'
    <3>1. pc'[r] = "blocked" /\ \A u \in Threads \ {r} : pc'[u] = pc[u]
      BY <1>0, <2>4 DEF NoNotify
    <3>2. /\ req'[r] = [length |-> n, wait |-> "forever"]
          /\ \A u \in Threads \ {r} : req'[u] = req[u]
      BY <1>0, <2>4
    <3>3. req'[r].wait = "forever" /\ req'[r].length \in Lengths /\ waiter_id'[r] # 0
      BY <1>0, <2>4, <3>2 DEF Reading
    <3> HIDE DEF n
    <3> QED BY <1>0, <2>4, <3>1, <3>2, <3>3, ThreadStep DEF OneInv
  <2> QED BY <1>1, <2>4, <2>5, OneQuiet
<1> QED BY <1>2, <1>3

------------------------------------------------------------------------------
(* A step after which every thread is where it was, or was woken.          *)
LEMMA OneWakes ==
  ASSUME OneThreads, UNCHANGED <<req, waiter_id>>,
         \A t \in Threads : pc'[t] = pc[t] \/ (pc[t] = "blocked" /\ pc'[t] = "ready")
  PROVE  OneThreads'
<1>1. \A t \in Threads : pc'[t] # "expired" \/ pc[t] = "expired"
  OBVIOUS
<1>2. \A t \in Threads : pc'[t] = "idle" <=> pc[t] = "idle"
  OBVIOUS
<1> QED BY <1>1, <1>2 DEF OneThreads, Reading, Threads

(* close of the read end: the buffer goes if the write end is closed too.  *)
LEMMA OneClosesRead ==
  ASSUME OneInv, CloseRead
  PROVE  OneWaiter' /\ OneBytes' /\ ChannelStep
<1>1. /\ closed_read' = TRUE /\ buffer' = IF closed_write THEN <<>> ELSE buffer
      /\ waiting_reads' = IF closed_write THEN <<>> ELSE waiting_reads
      /\ UNCHANGED <<closed_write, waiters, waiter_id, sent, delivered, eof>>
  BY DEF CloseRead, history
<1>2. closed_write \in BOOLEAN /\ closed_read \in BOOLEAN /\ buffer \in Seq(Bytes)
  BY DEF OneInv, TypeOK
<1>3. \A m : Follows(m) => Follows(m)'
  BY <1>1, <1>2 DEF Follows, PipeExists
<1>4. OneWaiter'
  BY <1>1 DEF OneInv, OneWaiter, Live
<1>5. ASSUME NEW r \in Readers, Reading(r)
      PROVE  Unanswered(r)' \/ ToldEof(r)' \/ ToldData(r)'
  <2>1. CASE Unanswered(r)
    BY <1>1, <2>1 DEF Unanswered, Live
  <2>2. CASE ToldEof(r)
    BY <1>1, <2>2 DEF ToldEof
  <2>3. CASE ToldData(r)
    <3>1. PICK k \in Nat \ {0} : /\ waiters[waiter_id[r]].result = Data(Span(Len(delivered), k))
                                 /\ waiting_reads = <<>> /\ Follows(Len(delivered) + k)
      BY <2>3 DEF ToldData
    <3>2. Follows(Len(delivered) + k)'
      BY <1>1, <1>3, <3>1
    <3> QED BY <1>1, <3>1, <3>2 DEF ToldData
  <2> QED BY <1>5, <2>1, <2>2, <2>3 DEF OneInv, OneBytes
<1>6. (\A r \in Readers : ~Reading(r)) => waiting_reads' = <<>> /\ Follows(Len(delivered))'
  BY <1>1, <1>3 DEF OneInv, OneBytes
<1>7. OverrunIsOneWrite'
  <2>1. Len(<<>>) = 0 /\ MAX_PIPE_BUFFER_BYTES \in Nat
    BY PipeConstants
  <2>2. buffer' = buffer \/ buffer' = <<>>
    BY <1>1
  <2> QED BY SMT, <2>1, <2>2 DEF OneInv, OneBytes, OverrunIsOneWrite
<1>8. OneBytes'
  BY <1>1, <1>5, <1>6, <1>7 DEF OneInv, OneBytes, InOrder, Reading
<1>9. ChannelStep
  BY <1>1 DEF ChannelStep, Channel!vars
<1> QED BY <1>4, <1>8, <1>9

(* close of the write end: a reader that still waits is told end of file.  *)
LEMMA OneClosesWrite ==
  ASSUME OneInv, CloseWrite
  PROVE  OneWaiter' /\ OneBytes' /\ ChannelStep
<1>1. /\ ~closed_write /\ closed_write' = TRUE /\ waiting_reads' = <<>>
      /\ buffer' = IF closed_read THEN <<>> ELSE buffer
      /\ UNCHANGED <<closed_read, waiter_id, sent, delivered, eof>>
  BY DEF CloseWrite, history
<1>2. /\ closed_read \in BOOLEAN /\ buffer \in Seq(Bytes) /\ waiting_reads \in Seq(WaiterIds)
      /\ waiters \in [WaiterIds -> PendingReads] /\ waiter_id \in [Readers -> 0..MaxWaiters]
  BY DEF OneInv, TypeOK
<1>3. \A m : Follows(m) => Follows(m)'
  BY <1>1, <1>2 DEF Follows, PipeExists
<1>4. ASSUME NEW i \in WaiterIds
      PROVE  /\ Live(i) /\ (\E k \in DOMAIN waiting_reads : waiting_reads[k] = i)
                   => waiters'[i].result = Eof /\ waiters'[i].length = waiters[i].length
             /\ ~(Live(i) /\ \E k \in DOMAIN waiting_reads : waiting_reads[k] = i)
                   => waiters'[i] = waiters[i]
  <2>1. waiters[i] \in PendingReads
    BY <1>2
  <2> QED BY <2>1 DEF CloseWrite, PendingReads
<1>5. OneWaiter'
  <2>1. ASSUME NEW i \in WaiterIds, Live(i)'
        PROVE  waiters'[i].length \in Lengths /\ \E r \in Readers : waiter_id[r] = i
    <3>1. Live(i) /\ waiters'[i].length = waiters[i].length
      BY <1>4, <2>1 DEF Live
    <3> QED BY <3>1 DEF OneInv, OneWaiter
  <2> QED BY <1>1, <2>1 DEF OneWaiter
<1>6. ASSUME NEW r \in Readers, Reading(r) PROVE ToldEof(r)' \/ ToldData(r)'
  <2>0. waiter_id[r] \in WaiterIds
    BY SMT, <1>2, <1>6 DEF Reading, WaiterIds
  <2>1. CASE Unanswered(r)
    <3>1. /\ Live(waiter_id[r]) /\ waiting_reads = <<waiter_id[r]>> /\ buffer = <<>>
          /\ sent = Len(delivered)
      BY <2>1 DEF Unanswered
    <3>2. \E k \in DOMAIN waiting_reads : waiting_reads[k] = waiter_id[r]
      <4>1. 1 \in DOMAIN waiting_reads /\ waiting_reads[1] = waiter_id[r]
        BY SMT, <3>1
      <4> QED BY <4>1
    <3>3. waiters'[waiter_id[r]].result = Eof
      BY <1>4, <2>0, <3>1, <3>2
    <3> QED BY <1>1, <3>1, <3>3 DEF ToldEof
  <2>2. CASE ToldEof(r)
    BY <1>1, <2>2 DEF ToldEof
  <2>3. CASE ToldData(r)
    <3>1. PICK k \in Nat \ {0} : /\ waiters[waiter_id[r]].result = Data(Span(Len(delivered), k))
                                 /\ waiting_reads = <<>> /\ Follows(Len(delivered) + k)
      BY <2>3 DEF ToldData
    <3>2. waiters'[waiter_id[r]] = waiters[waiter_id[r]]
      <4>1. DOMAIN waiting_reads = {}
        BY SMT, <3>1
      <4> QED BY <1>4, <2>0, <4>1
    <3>3. Follows(Len(delivered) + k)'
      BY <1>1, <1>3, <3>1
    <3> QED BY <1>1, <3>1, <3>2, <3>3 DEF ToldData
  <2> QED BY <1>6, <2>1, <2>2, <2>3 DEF OneInv, OneBytes
<1>7. (\A r \in Readers : ~Reading(r)) => Follows(Len(delivered))'
  BY <1>1, <1>3 DEF OneInv, OneBytes
<1>8. OverrunIsOneWrite'
  <2>1. Len(<<>>) = 0 /\ MAX_PIPE_BUFFER_BYTES \in Nat
    BY PipeConstants
  <2>2. buffer' = buffer \/ buffer' = <<>>
    BY <1>1
  <2> QED BY SMT, <2>1, <2>2 DEF OneInv, OneBytes, OverrunIsOneWrite
<1>9. OneBytes'
  BY <1>1, <1>6, <1>7, <1>8 DEF OneInv, OneBytes, InOrder, Reading
<1>10. Channel!Close
  BY <1>1 DEF Channel!Close
<1> QED BY <1>5, <1>9, <1>10 DEF ChannelStep, Channel!Next

(* Every step keeps the invariant and is a step of the channel, or none.   *)
LEMMA OneNext ==
  ASSUME Waits = {"forever"}, OneInv, [OneReaderNext]_vars
  PROVE  OneInv' /\ ChannelStep
<1> DEFINE Goal == OneThreads' /\ OneWaiter' /\ OneBytes' /\ ChannelStep
<1>0. TypeOK /\ OneThreads
  BY DEF OneInv
<1>1. TypeOK'
  <2>1. [Next]_vars
    BY DEF OneReaderNext, Next
  <2> QED BY <1>0, <2>1, TypeNext
<1>2. ASSUME NEW w \in Writers, WriteStart(w) PROVE Goal
  BY <1>2, OneWrite DEF WriteStart
<1>3. ASSUME NEW w \in Writers, WriteResume(w) PROVE Goal
  <2>1. req[w].length \in Lengths
    BY <1>0, <1>3 DEF OneThreads, WriteResume
  <2>2. CASE WritePass(w, req[w].length, FALSE)
    BY <2>1, <2>2, OneWrite
  <2>3. CASE ~WritePass(w, req[w].length, FALSE)
    <3>1. /\ NoNotify(w, "idle") /\ Leave(w)
          /\ UNCHANGED <<pipeVars, waiter_id, poll, history>>
      BY <1>3, <2>3 DEF WriteResume
    <3>2. w \in Threads /\ w \notin Readers
      BY PipeConstants DEF Threads
    <3>3. OneThreads'
      <4>1. pc'[w] = "idle" /\ \A u \in Threads \ {w} : pc'[u] = pc[u] /\ req'[u] = req[u]
        BY <1>0, <3>1, <3>2 DEF NoNotify, Leave, TypeOK
      <4> QED BY <1>0, <3>1, <3>2, <4>1, ThreadStep
    <3> QED BY <3>1, <3>3, OneQuiet DEF pipeVars, history
  <2> QED BY <2>2, <2>3
<1>4. ASSUME NEW r \in Readers, ReadStart(r), \A q \in Readers : pc[q] = "idle" PROVE Goal
  <2>1. \A q \in Readers : ~Reading(q)
    BY <1>0, <1>4 DEF OneThreads
  <2>2. ~closed_read /\ \E n \in Lengths : ReadPass(r, n, "forever")
    BY <1>4 DEF ReadStart
  <2> QED BY <2>1, <2>2, OneStarts
<1>5. ASSUME NEW r \in Readers, ReadResume(r) PROVE Goal
  <2>1. Reading(r)
    BY <1>0, <1>5 DEF OneThreads, ReadResume
  <2> QED BY <1>5, <2>1, OneResumes DEF ReadResume
<1>6. ASSUME NEW t \in Threads, SpuriousWakeup(t) PROVE Goal
  <2>1. UNCHANGED <<pipeVars, req, waiter_id, history>>
    BY <1>6 DEF SpuriousWakeup
  <2>2. \A u \in Threads : pc'[u] = pc[u] \/ (pc[u] = "blocked" /\ pc'[u] = "ready")
    BY <1>0, <1>6 DEF SpuriousWakeup, TypeOK
  <2> QED BY <1>0, <2>1, <2>2, OneWakes, OneQuiet DEF pipeVars, history
<1>7. ASSUME CloseRead \/ CloseWrite PROVE Goal
  <2>1. /\ \A u \in Threads : pc'[u] = pc[u] \/ (pc[u] = "blocked" /\ pc'[u] = "ready")
        /\ UNCHANGED <<req, waiter_id>>
    BY <1>7 DEF CloseRead, CloseWrite
  <2>2. OneThreads'
    BY <1>0, <2>1, OneWakes
  <2> QED BY <1>7, <2>2, OneClosesRead, OneClosesWrite
<1>8. ASSUME \/ \E p \in Pollers : PollSnapshot(p) \/ PollLook(p) \/ PollTimeout(p)
             \/ UNCHANGED vars
      PROVE  Goal
  <2>1. UNCHANGED <<pipeVars, pc, req, waiter_id, history>>
    BY <1>8 DEF PollSnapshot, PollLook, PollTimeout, vars
  <2>2. OneThreads'
    BY <1>0, <2>1, OneWakes
  <2>3. UNCHANGED <<buffer, closed_read, closed_write, waiting_reads, waiters, waiter_id, sent,
                    delivered, eof>>
    BY <2>1 DEF pipeVars, history
  <2> QED BY <2>2, <2>3, OneQuiet
<1> HIDE DEF Goal
<1>9. Goal
  BY <1>2, <1>3, <1>4, <1>5, <1>6, <1>7, <1>8 DEF OneReaderNext
<1> QED BY <1>1, <1>9 DEF OneInv, Goal

\* A new pipe is an empty channel.
LEMMA OneInit == Init => OneInv /\ Channel!Init
<1> SUFFICES ASSUME Init PROVE OneInv /\ Channel!Init
  OBVIOUS
<1> USE DEF Init
<1>1. TypeOK
  BY TypeInit
<1>2. \A r \in Readers : r \in Threads /\ ~Reading(r)
  BY DEF Reading, Threads
<1>3. OneThreads
  BY <1>2 DEF OneThreads, Threads, Reading
<1>4. OneWaiter
  BY DEF OneWaiter, Live
<1>5. OneBytes
  <2>1. Follows(0) /\ Len(delivered) = 0
    <3>1. Span(0, 0) = <<>>
      BY SpanFacts
    <3> QED BY SMT, <3>1 DEF Follows
  <2>2. InOrder /\ OverrunIsOneWrite
    BY SMT, PipeConstants DEF InOrder, OverrunIsOneWrite
  <2> QED BY <1>2, <2>1, <2>2 DEF OneBytes
<1>6. Channel!Init
  BY DEF Channel!Init
<1> QED BY <1>1, <1>3, <1>4, <1>5, <1>6 DEF OneInv

(* To one reader that sets no timeout, a pipe is a FIFO channel of bytes   *)
(* that loses none and reports end of file only when it is drained: read,  *)
(* write, the hand-off to a sleeping reader and close implement the steps  *)
(* of ByteChannel.                                                         *)
THEOREM OneReaderRefinesChannel ==
  ASSUME Waits = {"forever"}
  PROVE  OneReaderSpec => ChannelSpec
<1>1. Init => OneInv /\ Channel!Init
  BY OneInit
<1>2. OneInv /\ [OneReaderNext]_vars => OneInv' /\ [Channel!Next]_(Channel!vars)
  BY OneNext DEF ChannelStep
<1> QED BY <1>1, <1>2, PTL DEF OneReaderSpec, ChannelSpec, Channel!Spec

(* That reader gets the next bytes in order, and what the buffer holds     *)
(* beyond its capacity is less than one payload.                           *)
THEOREM OneReaderReadsInOrder ==
  ASSUME Waits = {"forever"}
  PROVE  OneReaderSpec => [](InOrder /\ OverrunIsOneWrite)
<1>1. Init => OneInv
  BY OneInit
<1>2. OneInv /\ [OneReaderNext]_vars => OneInv'
  BY OneNext
<1>3. OneInv => InOrder /\ OverrunIsOneWrite
  BY DEF OneInv, OneBytes
<1> QED BY <1>1, <1>2, <1>3, PTL DEF OneReaderSpec
==============================================================================
