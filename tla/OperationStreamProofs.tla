------------------------ MODULE OperationStreamProofs ------------------------
(***************************************************************************)
(* An open stream has no hole, for any number of devices, any page size,   *)
(* any high water mark and any number of operations.                       *)
(***************************************************************************)
EXTENDS OperationStream, TLAPS

\* What r has or will receive, and what no listener has been told.
Held(r) == got[r] \cup ToSet(socket[r].buffer)
Untold == unannounced \cup silent

\* Messages are operations of the journal, and the buffer of an open socket is
\* at most one message above the mark.
Buffered ==
  \A r \in Reader :
    /\ ToSet(socket[r].buffer) \subseteq 1..committed
    /\ socket[r].state = "open" => Len(socket[r].buffer) <= HighWater + 1

\* How far the history of an open socket has come: everything up to the cursor
\* is held; behind the page that was read, nothing was there but what came
\* since; and a page that is not full was the last.
Covered(r) ==
  LET s == socket[r] IN
  s.state = "open" =>
    /\ s.history # "idle"
    /\ s.history \in {"query", "page"} =>
         s.after <= committed /\ 1..s.after \subseteq Held(r)
    /\ s.history = "page" =>
         /\ s.after + Len(s.page) <= committed
         /\ \A i \in 1..Len(s.page) : s.page[i] = s.after + i
         /\ Len(s.page) # PageSize =>
              (s.after + Len(s.page) + 1)..committed \subseteq Held(r) \cup Untold
    /\ s.history = "sent" => 1..committed \subseteq Held(r) \cup Untold

StreamInv == TypeOK /\ RoomIsOpenSockets /\ Buffered /\ \A r \in Reader : Covered(r)

-----------------------------------------------------------------------------
LEMMA SetOfAppend ==
  ASSUME NEW S, NEW s \in Seq(S), NEW n \in S
  PROVE  ToSet(Append(s, n)) = ToSet(s) \cup {n}
<1>1. Len(Append(s, n)) = Len(s) + 1 /\ Len(s) \in Nat
  OBVIOUS
<1>2. \A i \in 1..Len(s) : Append(s, n)[i] = s[i]
  OBVIOUS
<1>3. Append(s, n)[Len(s) + 1] = n
  OBVIOUS
<1>4. DOMAIN Append(s, n) = 1..(Len(s) + 1) /\ DOMAIN s = 1..Len(s)
  OBVIOUS
<1>5. QED
  BY <1>1, <1>2, <1>3, <1>4 DEF ToSet

LEMMA SetOfTail ==
  ASSUME NEW S, NEW s \in Seq(S), s # <<>>
  PROVE  ToSet(s) = {Head(s)} \cup ToSet(Tail(s)) /\ Head(s) \in S /\ Tail(s) \in Seq(S)
<1>1. /\ DOMAIN s = 1..Len(s) /\ DOMAIN Tail(s) = 1..(Len(s) - 1)
      /\ Len(s) \in Nat /\ Len(s) > 0
  OBVIOUS
<1>2. \A i \in 1..(Len(s) - 1) : Tail(s)[i] = s[i + 1]
  OBVIOUS
<1>3. \A i \in 1..Len(s) : i = 1 \/ i - 1 \in 1..(Len(s) - 1)
  BY <1>1
<1>4. s[1] = Head(s)
  OBVIOUS
<1>5. ToSet(s) \subseteq {Head(s)} \cup ToSet(Tail(s))
  <2>1. SUFFICES ASSUME NEW i \in 1..Len(s)
                 PROVE  s[i] \in {Head(s)} \cup ToSet(Tail(s))
    BY <1>1 DEF ToSet
  <2>2. CASE i = 1
    BY <1>4, <2>2
  <2>3. CASE i - 1 \in 1..(Len(s) - 1)
    <3>1. s[i] = Tail(s)[i - 1]
      BY <1>1, <1>2, <2>3
    <3>2. QED
      BY <1>1, <2>3, <3>1 DEF ToSet
  <2>4. QED
    BY <1>3, <2>2, <2>3
<1>6. {Head(s)} \cup ToSet(Tail(s)) \subseteq ToSet(s)
  <2>1. \A i \in 1..(Len(s) - 1) : i + 1 \in 1..Len(s)
    BY <1>1
  <2>2. ToSet(Tail(s)) \subseteq ToSet(s)
    BY <1>1, <1>2, <2>1 DEF ToSet
  <2>3. Head(s) \in ToSet(s)
    BY <1>1, <1>4 DEF ToSet
  <2>4. QED
    BY <2>2, <2>3
<1>7. Head(s) \in S /\ Tail(s) \in Seq(S)
  OBVIOUS
<1>8. QED
  BY <1>5, <1>6, <1>7

LEMMA SetOfConcatenation ==
  ASSUME NEW S, NEW s \in Seq(S), NEW t \in Seq(S)
  PROVE  ToSet(s \o t) = ToSet(s) \cup ToSet(t)
<1>1. /\ DOMAIN (s \o t) = 1..(Len(s) + Len(t))
      /\ DOMAIN s = 1..Len(s) /\ DOMAIN t = 1..Len(t)
      /\ Len(s) \in Nat /\ Len(t) \in Nat
  OBVIOUS
<1>2. \A i \in 1..Len(s) : (s \o t)[i] = s[i]
  OBVIOUS
<1>3. \A i \in 1..Len(t) : (s \o t)[Len(s) + i] = t[i]
  OBVIOUS
<1>4. \A i \in 1..(Len(s) + Len(t)) : i \in 1..Len(s) \/ i - Len(s) \in 1..Len(t)
  BY <1>1
<1>5. \A i \in 1..Len(t) : Len(s) + i \in 1..(Len(s) + Len(t))
  BY <1>1
<1>6. ToSet(s \o t) \subseteq ToSet(s) \cup ToSet(t)
  <2>1. SUFFICES ASSUME NEW i \in 1..(Len(s) + Len(t))
                 PROVE  (s \o t)[i] \in ToSet(s) \cup ToSet(t)
    BY <1>1 DEF ToSet
  <2>2. CASE i \in 1..Len(s)
    BY <1>1, <1>2, <2>2 DEF ToSet
  <2>3. CASE i - Len(s) \in 1..Len(t)
    <3>1. Len(s) + (i - Len(s)) = i
      BY <1>1
    <3>2. (s \o t)[i] = t[i - Len(s)]
      BY <1>3, <2>3, <3>1
    <3>3. QED
      BY <1>1, <2>3, <3>2 DEF ToSet
  <2>4. QED
    BY <1>4, <2>2, <2>3
<1>7. ToSet(s) \subseteq ToSet(s \o t)
  <2>1. SUFFICES ASSUME NEW i \in 1..Len(s) PROVE s[i] \in ToSet(s \o t)
    BY <1>1 DEF ToSet
  <2>2. i \in 1..(Len(s) + Len(t))
    BY <1>1
  <2>3. (s \o t)[i] = s[i]
    BY <1>2
  <2>4. QED
    BY <1>1, <2>2, <2>3, Zenon DEF ToSet
<1>8. ToSet(t) \subseteq ToSet(s \o t)
  <2>1. SUFFICES ASSUME NEW i \in 1..Len(t) PROVE t[i] \in ToSet(s \o t)
    BY <1>1 DEF ToSet
  <2>2. QED
    BY <1>1, <1>3, <1>5, Zenon DEF ToSet
<1>9. QED
  BY <1>6, <1>7, <1>8

LEMMA SetOfPrefix ==
  ASSUME NEW S, NEW s \in Seq(S), NEW n \in Nat, n <= Len(s)
  PROVE  /\ SubSeq(s, 1, n) \in Seq(S) /\ Len(SubSeq(s, 1, n)) = n
         /\ ToSet(SubSeq(s, 1, n)) \subseteq ToSet(s)
<1>1. SubSeq(s, 1, n) \in Seq(S) /\ Len(SubSeq(s, 1, n)) = n
  OBVIOUS
<1>2. DOMAIN SubSeq(s, 1, n) = 1..n /\ DOMAIN s = 1..Len(s)
  BY <1>1
<1>3. \A i \in 1..n : SubSeq(s, 1, n)[i] = s[i]
  OBVIOUS
<1>4. QED
  BY <1>1, <1>2, <1>3 DEF ToSet

\* Sending appends or closes, and an open socket has all of it.
LEMMA SendAllKeeps ==
  ASSUME NEW s \in Socket, NEW messages \in Seq(1..committed), committed \in Nat,
         ToSet(s.buffer) \subseteq 1..committed,
         s.state = "open" => Len(s.buffer) <= HighWater + 1
  PROVE  LET t == SendAll(s, messages) IN
         /\ t \in Socket
         /\ t.history = s.history /\ t.after = s.after /\ t.page = s.page
         /\ t.state = "closed" <=> s.state = "closed"
         /\ t.state = "open" => s.state = "open" /\ Len(t.buffer) <= HighWater + 1
         /\ ToSet(s.buffer) \subseteq ToSet(t.buffer) /\ ToSet(t.buffer) \subseteq 1..committed
         /\ t.state = "open" => ToSet(messages) \subseteq ToSet(t.buffer)
<1> DEFINE t == SendAll(s, messages)
<1> DEFINE all == s.buffer \o messages
<1>1. s.buffer \in Seq(Nat) /\ messages \in Seq(Nat)
  BY DEF Socket
<1>2. all \in Seq(Nat) /\ ToSet(all) = ToSet(s.buffer) \cup ToSet(messages)
  BY <1>1, SetOfConcatenation
<1>3. ToSet(messages) \subseteq 1..committed
  BY DEF ToSet
<1>4. HighWater \in Nat
  BY BoundAssumption
<1>5. CASE s.state # "open"
  BY <1>5 DEF SendAll, Socket
<1>6. CASE s.state = "open" /\ Len(all) <= HighWater + 1
  <2>1. t = [s EXCEPT !.buffer = all]
    BY <1>6 DEF SendAll
  <2>2. t \in Socket /\ t.state = s.state /\ t.buffer = all
    BY <1>2, <2>1 DEF Socket
  <2>3. t.history = s.history /\ t.after = s.after /\ t.page = s.page
    BY <2>1 DEF Socket
  <2>4. QED
    BY <1>2, <1>3, <1>6, <2>2, <2>3
<1>7. CASE s.state = "open" /\ ~(Len(all) <= HighWater + 1)
  <2> DEFINE head == SubSeq(all, 1, HighWater + 1)
  <2>1. t = [s EXCEPT !.buffer = head, !.state = "closing"]
    BY <1>7 DEF SendAll
  <2>2. /\ HighWater + 1 \in Nat /\ HighWater + 1 <= Len(all)
        /\ Len(s.buffer) \in Nat /\ Len(s.buffer) <= HighWater + 1
    BY <1>1, <1>2, <1>4, <1>7
  <2>3. head \in Seq(Nat) /\ ToSet(head) \subseteq ToSet(all)
    BY <1>2, <2>2, SetOfPrefix
  <2>4. t \in Socket /\ t.state = "closing" /\ t.buffer = head
    BY <2>1, <2>3 DEF Socket
  <2>5. t.history = s.history /\ t.after = s.after /\ t.page = s.page
    BY <2>1 DEF Socket
  <2>6. ToSet(s.buffer) \subseteq ToSet(head)
    <3>1. /\ DOMAIN s.buffer = 1..Len(s.buffer) /\ DOMAIN head = 1..(HighWater + 1)
          /\ \A i \in 1..Len(s.buffer) : i \in 1..(HighWater + 1)
      BY <1>1, <1>2, <2>2
    <3>2. \A i \in 1..Len(s.buffer) : all[i] = s.buffer[i]
      BY <1>1
    <3>3. \A i \in 1..(HighWater + 1) : head[i] = all[i]
      BY <1>2, <2>2
    <3>4. QED
      BY <3>1, <3>2, <3>3 DEF ToSet
  <2>7. QED
    BY <1>2, <1>3, <1>7, <2>3, <2>4, <2>5, <2>6
<1>8. QED
  BY <1>5, <1>6, <1>7

\* One message is the sequence of one.
LEMMA SendIsSendAll ==
  ASSUME NEW s \in Socket, NEW n \in Nat,
         s.state = "open" => Len(s.buffer) <= HighWater + 1
  PROVE  Send(s, n) = SendAll(s, <<n>>)
<1> DEFINE all == s.buffer \o <<n>>
<1>1. s.buffer \in Seq(Nat) /\ HighWater \in Nat /\ Len(s.buffer) \in Nat
  BY BoundAssumption DEF Socket
<1>2. all = Append(s.buffer, n) /\ Len(all) = Len(s.buffer) + 1
  BY <1>1
<1>3. CASE s.state # "open"
  BY <1>3 DEF Send, SendAll
<1>4. CASE s.state = "open" /\ Len(s.buffer) <= HighWater
  <2>1. ~(Len(s.buffer) > HighWater) /\ Len(all) <= HighWater + 1
    BY <1>1, <1>2, <1>4
  <2>2. SendAll(s, <<n>>) = [s EXCEPT !.buffer = all]
    BY <1>4, <2>1 DEF SendAll
  <2>3. Send(s, n) = [s EXCEPT !.buffer = Append(s.buffer, n)]
    BY <1>4, <2>1 DEF Send
  <2>4. QED
    BY <1>2, <2>2, <2>3
<1>5. CASE s.state = "open" /\ Len(s.buffer) > HighWater
  <2>1. Len(s.buffer) = HighWater + 1 /\ ~(Len(all) <= HighWater + 1)
    BY <1>1, <1>2, <1>5
  <2>2. SubSeq(all, 1, Len(s.buffer)) = s.buffer
    BY <1>1
  <2>3. [s EXCEPT !.buffer = s.buffer, !.state = "closing"] = [s EXCEPT !.state = "closing"]
    BY DEF Socket
  <2>4. SendAll(s, <<n>>) = [s EXCEPT !.buffer = s.buffer, !.state = "closing"]
    BY <1>5, <2>1, <2>2 DEF SendAll
  <2>5. Send(s, n) = [s EXCEPT !.state = "closing"]
    BY <1>5 DEF Send
  <2>6. QED
    BY <2>3, <2>4, <2>5
<1>6. QED
  BY <1>1, <1>3, <1>4, <1>5

LEMMA SmallerOfTwo ==
  ASSUME NEW m \in Nat, NEW n \in Nat
  PROVE  Min({m, n}) \in {m, n} /\ Min({m, n}) <= m /\ Min({m, n}) <= n
  BY DEF Min

-----------------------------------------------------------------------------
LEMMA Initially == Init => StreamInv
<1> SUFFICES ASSUME Init PROVE StreamInv
  OBVIOUS
<1>1. Closed \in Socket
  BY DEF Closed, Socket
<1>2. TypeOK
  <2>1. MaxOperations \in Nat /\ MaxFaults \in Nat
    BY BoundAssumption
  <2>2. QED
    BY <1>1, <2>1 DEF Init, TypeOK
<1>3. \A r \in Reader : socket[r].state = "closed" /\ socket[r].buffer = <<>>
  BY DEF Init, Closed
<1>4. ToSet(<<>>) = {}
  BY DEF ToSet
<1>5. RoomIsOpenSockets
  BY <1>3 DEF Init, RoomIsOpenSockets
<1>6. Buffered /\ \A r \in Reader : Covered(r)
  BY <1>3, <1>4 DEF Buffered, Covered
<1>7. QED
  BY <1>2, <1>5, <1>6 DEF StreamInv

\* A socket keeps its cover while its history does not move: what it held it
\* holds, and what is committed or told meanwhile it holds or is untold.
LEMMA CoverStays ==
  ASSUME TypeOK, NEW r \in Reader, Covered(r),
         committed' \in Nat, committed <= committed',
         socket'[r].state = "open" => socket[r].state = "open",
         socket'[r].history = socket[r].history,
         socket'[r].after = socket[r].after, socket'[r].page = socket[r].page,
         socket'[r].state = "open" => Held(r) \subseteq Held(r)',
         socket'[r].state = "open" => Untold \subseteq Held(r)' \cup Untold',
         (committed + 1)..committed' \subseteq Untold'
  PROVE  Covered(r)'
<1> SUFFICES ASSUME socket'[r].state = "open" PROVE Covered(r)'
  BY DEF Covered
<1> DEFINE s == socket[r]
<1>1. s \in Socket /\ committed \in Nat
  BY DEF TypeOK
<1>2. s.after \in Nat /\ Len(s.page) \in Nat
  BY <1>1 DEF Socket
<1>3. \A n \in 1..committed' : n \in 1..committed \/ n \in (committed + 1)..committed'
  BY <1>1
<1>4. \A n \in 1..committed' : n \in 1..committed \/ n \in Untold'
  BY <1>3
<1>5. s.history # "idle"
  BY DEF Covered
<1>6. s.history \in {"query", "page"} => s.after <= committed' /\ 1..s.after \subseteq Held(r)'
  BY <1>1, <1>2 DEF Covered
<1>7. s.history = "page" =>
        /\ s.after + Len(s.page) <= committed'
        /\ \A i \in 1..Len(s.page) : s.page[i] = s.after + i
        /\ Len(s.page) # PageSize =>
              (s.after + Len(s.page) + 1)..committed' \subseteq Held(r)' \cup Untold'
  <2> SUFFICES ASSUME s.history = "page"
               PROVE  /\ s.after + Len(s.page) <= committed'
                      /\ \A i \in 1..Len(s.page) : s.page[i] = s.after + i
                      /\ Len(s.page) # PageSize =>
                           \A n \in (s.after + Len(s.page) + 1)..committed' :
                             n \in Held(r)' \cup Untold'
    OBVIOUS
  <2>1. s.after + Len(s.page) <= committed'
    BY <1>1, <1>2 DEF Covered
  <2>2. \A i \in 1..Len(s.page) : s.page[i] = s.after + i
    BY DEF Covered
  <2>3. ASSUME Len(s.page) # PageSize, NEW n \in (s.after + Len(s.page) + 1)..committed'
        PROVE  n \in Held(r)' \cup Untold'
    <3>1. n \in 1..committed'
      BY <1>2
    <3>2. CASE n \in 1..committed
      <4>1. n \in (s.after + Len(s.page) + 1)..committed
        BY <1>1, <1>2, <2>3, <3>2
      <4>2. n \in Held(r) \cup Untold
        BY <2>3, <4>1 DEF Covered
      <4>3. QED
        BY <4>2
    <3>3. QED
      BY <1>4, <3>1, <3>2
  <2>4. QED
    BY <2>1, <2>2, <2>3
<1>8. s.history = "sent" => 1..committed' \subseteq Held(r)' \cup Untold'
  <2>1. s.history = "sent" => 1..committed \subseteq Held(r) \cup Untold
    BY DEF Covered
  <2>2. QED
    BY <1>4, <2>1
<1>9. QED
  BY <1>5, <1>6, <1>7, <1>8 DEF Covered
\* A step that changes one socket and what its peer holds.
LEMMA OneSocket ==
  ASSUME StreamInv, NEW r \in Reader, NEW t \in Socket, NEW h \in SUBSET (1..committed),
         socket' = [socket EXCEPT ![r] = t], got' = [got EXCEPT ![r] = h],
         UNCHANGED journal, faults' \in 0..MaxFaults,
         listeners' = IF t.state = "closed" THEN listeners \ {r} ELSE listeners \cup {r},
         ToSet(t.buffer) \subseteq 1..committed,
         t.state = "open" => Len(t.buffer) <= HighWater + 1,
         Covered(r)'
  PROVE  StreamInv'
<1> USE DEF StreamInv
<1>1. socket'[r] = t /\ \A q \in Reader \ {r} : socket'[q] = socket[q] /\ got'[q] = got[q]
  BY DEF TypeOK
<1>2. committed' = committed /\ unannounced' = unannounced /\ silent' = silent
  BY DEF journal
<1>3. TypeOK'
  <2>1. socket' \in [Reader -> Socket] /\ got' \in [Reader -> SUBSET (1..committed)]
    BY DEF TypeOK
  <2>2. listeners' \subseteq Reader
    BY DEF TypeOK
  <2>3. QED
    BY <1>2, <2>1, <2>2 DEF TypeOK
<1>4. RoomIsOpenSockets'
  <2>1. \A q \in Reader : q \in listeners' <=> socket'[q].state # "closed"
    BY <1>1 DEF RoomIsOpenSockets
  <2>2. QED
    BY <1>3, <2>1 DEF RoomIsOpenSockets, TypeOK
<1>5. Buffered'
  BY <1>1, <1>2 DEF Buffered
<1>6. ASSUME NEW q \in Reader PROVE Covered(q)'
  <2>1. CASE q = r
    BY <2>1
  <2>2. CASE q # r
    BY <1>1, <1>2, <2>2 DEF Covered, Held, Untold
  <2>3. QED
    BY <2>1, <2>2
<1>7. QED
  BY <1>3, <1>4, <1>5, <1>6

LEMMA CommitStep == StreamInv /\ (Commit \/ CommitUnknown) => StreamInv'
<1> SUFFICES ASSUME StreamInv, Commit \/ CommitUnknown PROVE StreamInv'
  OBVIOUS
<1> USE DEF StreamInv
<1>1. /\ committed' = committed + 1 /\ committed < MaxOperations
      /\ UNCHANGED <<listeners, socket, got>>
      /\ faults' = faults \/ (faults' = faults + 1 /\ faults < MaxFaults)
      /\ Untold' = Untold \cup {committed + 1}
      /\ unannounced' \subseteq unannounced \cup {committed + 1}
      /\ silent' \subseteq silent \cup {committed + 1}
  BY DEF Commit, CommitUnknown, Fault, Untold
<1>2. committed \in Nat /\ committed' \in Nat /\ MaxOperations \in Nat /\ MaxFaults \in Nat
  BY <1>1, BoundAssumption DEF TypeOK
<1>3. 1..committed \subseteq 1..committed' /\ committed + 1 \in 1..committed'
  BY <1>1, <1>2
<1>4. TypeOK'
  <2>1. committed' \in 0..MaxOperations /\ faults' \in 0..MaxFaults
    BY <1>1, <1>2 DEF TypeOK
  <2>2. unannounced' \subseteq 1..committed' /\ silent' \subseteq 1..committed'
    BY <1>1, <1>3 DEF TypeOK
  <2>3. got' \in [Reader -> SUBSET (1..committed')]
    BY <1>1, <1>3 DEF TypeOK
  <2>4. QED
    BY <1>1, <2>1, <2>2, <2>3 DEF TypeOK
<1>5. RoomIsOpenSockets' /\ Buffered'
  BY <1>1, <1>3 DEF RoomIsOpenSockets, Buffered
<1>6. ASSUME NEW r \in Reader PROVE Covered(r)'
  <2>1. Held(r)' = Held(r)
    BY <1>1 DEF Held
  <2>2. (committed + 1)..committed' \subseteq Untold'
    BY <1>1, <1>2
  <2>3. Untold \subseteq Untold' /\ committed <= committed'
    BY <1>1, <1>2
  <2>4. QED
    BY <1>1, <1>2, <2>1, <2>2, <2>3, CoverStays
<1>7. QED
  BY <1>4, <1>5, <1>6

\* An operation that is told to a socket is sent or closes it.
LEMMA AnnounceStep ==
  ASSUME StreamInv, NEW n \in unannounced, Announce(n) PROVE StreamInv'
<1> USE DEF StreamInv
<1>1. /\ unannounced' = unannounced \ {n} /\ n \in 1..committed /\ n \in Nat
      /\ UNCHANGED <<committed, silent, listeners, got, faults>>
      /\ socket' = [r \in Reader |-> IF r \in listeners THEN Send(socket[r], n) ELSE socket[r]]
      /\ committed \in Nat
  BY DEF Announce, TypeOK
<1> DEFINE Sent(r) == SendAll(socket[r], <<n>>)
<1>2. ASSUME NEW r \in Reader
      PROVE  /\ Sent(r) \in Socket
             /\ Sent(r).history = socket[r].history
             /\ Sent(r).after = socket[r].after /\ Sent(r).page = socket[r].page
             /\ Sent(r).state = "closed" <=> socket[r].state = "closed"
             /\ Sent(r).state = "open" => /\ socket[r].state = "open"
                                          /\ Len(Sent(r).buffer) <= HighWater + 1
             /\ ToSet(socket[r].buffer) \subseteq ToSet(Sent(r).buffer)
             /\ ToSet(Sent(r).buffer) \subseteq 1..committed
             /\ Sent(r).state = "open" => n \in ToSet(Sent(r).buffer)
             /\ r \in listeners => socket'[r] = Sent(r)
             /\ r \notin listeners => socket'[r] = socket[r]
  <2>1. /\ socket[r] \in Socket /\ ToSet(socket[r].buffer) \subseteq 1..committed
        /\ socket[r].state = "open" => Len(socket[r].buffer) <= HighWater + 1
    BY DEF TypeOK, Buffered
  <2>2. <<n>> \in Seq(1..committed) /\ n \in ToSet(<<n>>)
    BY <1>1 DEF ToSet
  <2>3. Send(socket[r], n) = Sent(r)
    BY <1>1, <2>1, SendIsSendAll
  <2> HIDE DEF Sent
  <2>4. r \in listeners => socket'[r] = Sent(r)
    BY <1>1, <2>3
  <2>5. r \notin listeners => socket'[r] = socket[r]
    BY <1>1
  <2>6. /\ Sent(r) \in Socket
        /\ Sent(r).history = socket[r].history
        /\ Sent(r).after = socket[r].after /\ Sent(r).page = socket[r].page
        /\ Sent(r).state = "closed" <=> socket[r].state = "closed"
        /\ Sent(r).state = "open" => /\ socket[r].state = "open"
                                     /\ Len(Sent(r).buffer) <= HighWater + 1
        /\ ToSet(socket[r].buffer) \subseteq ToSet(Sent(r).buffer)
        /\ ToSet(Sent(r).buffer) \subseteq 1..committed
        /\ Sent(r).state = "open" => ToSet(<<n>>) \subseteq ToSet(Sent(r).buffer)
    BY <1>1, <2>1, <2>2, SendAllKeeps DEF Sent
  <2>7. QED
    BY <2>2, <2>4, <2>5, <2>6
<1> HIDE DEF Sent
<1>3. TypeOK'
  <2>1. \A r \in Reader : socket'[r] \in Socket
    BY <1>2 DEF TypeOK
  <2>2. socket' \in [Reader -> Socket]
    BY <1>1, <2>1
  <2>3. QED
    BY <1>1, <2>2 DEF TypeOK
<1>4. \A r \in Reader : socket'[r].state = "closed" <=> socket[r].state = "closed"
  BY <1>2
<1>5. RoomIsOpenSockets'
  BY <1>1, <1>4 DEF RoomIsOpenSockets
<1>6. Buffered'
  BY <1>1, <1>2 DEF Buffered
<1>7. ASSUME NEW r \in Reader PROVE Covered(r)'
  <2>1. r \in listeners \/ socket[r].state = "closed"
    BY DEF RoomIsOpenSockets
  <2>2. CASE socket[r].state = "closed"
    BY <1>4, <2>2 DEF Covered
  <2>3. CASE r \in listeners
    <3>1. /\ socket'[r].history = socket[r].history
          /\ socket'[r].after = socket[r].after /\ socket'[r].page = socket[r].page
      BY <1>2, <2>3
    <3>2. Held(r) \subseteq Held(r)'
      BY <1>1, <1>2, <2>3 DEF Held
    <3>3. socket'[r].state = "open" => Untold \subseteq Held(r)' \cup Untold'
      BY <1>1, <1>2, <2>3 DEF Held, Untold
    <3>4. (committed + 1)..committed' \subseteq Untold' /\ committed <= committed'
      BY <1>1
    <3>5. socket'[r].state = "open" => socket[r].state = "open"
      BY <1>2, <2>3
    <3>6. QED
      BY <1>1, <3>1, <3>2, <3>3, <3>4, <3>5, CoverStays
  <2>4. QED
    BY <2>1, <2>2, <2>3
<1>8. QED
  BY <1>3, <1>5, <1>6, <1>7
-----------------------------------------------------------------------------
\* #accept: the cursor is where the peer has fetched the state.
LEMMA AcceptStep ==
  ASSUME StreamInv, NEW r \in Reader, Accept(r) PROVE StreamInv'
<1> USE DEF StreamInv
<1>1. PICK after \in 0..committed :
        got' = [got EXCEPT ![r] = 1..after] /\ socket' = [socket EXCEPT ![r] = Opened(after)]
  BY DEF Accept
<1> DEFINE t == Opened(after)
<1>2. /\ t \in Socket /\ t.state = "open" /\ t.history = "query" /\ t.after = after
      /\ t.buffer = <<>>
  BY DEF Opened, Socket
<1> HIDE DEF t
<1>3. UNCHANGED journal /\ faults' = faults /\ listeners' = listeners \cup {r}
  BY DEF Accept
<1>4. committed \in Nat /\ HighWater \in Nat /\ ToSet(<<>>) = {} /\ committed' = committed
  BY <1>3, BoundAssumption DEF TypeOK, ToSet, journal
<1>5. 1..after \in SUBSET (1..committed) /\ after <= committed
  BY <1>4
<1>6. socket' = [socket EXCEPT ![r] = t]
  BY <1>1 DEF t
<1>7. Covered(r)'
  <2>1. socket'[r] = t /\ got'[r] = 1..after
    BY <1>1, <1>6 DEF TypeOK
  <2>2. QED
    BY <1>2, <1>4, <1>5, <2>1 DEF Covered, Held
<1>8. ToSet(t.buffer) \subseteq 1..committed /\ Len(t.buffer) <= HighWater + 1
  BY <1>2, <1>4
<1>9. faults' \in 0..MaxFaults
  BY <1>3 DEF TypeOK
<1>10. QED
  BY <1>1, <1>2, <1>3, <1>5, <1>6, <1>7, <1>8, <1>9, OneSocket

\* What the page holds is what the journal holds behind the cursor.
LEMMA QueryPageStep ==
  ASSUME StreamInv, NEW r \in Reader, QueryPage(r) PROVE StreamInv'
<1> USE DEF StreamInv
<1> DEFINE s == socket[r]
<1> DEFINE n == Min({PageSize, committed - s.after})
<1> DEFINE found == [i \in 1..n |-> s.after + i]
<1> DEFINE t == [s EXCEPT !.history = "page", !.page = found]
<1>1. /\ s.history = "query" /\ s.state = "open" /\ socket' = [socket EXCEPT ![r] = t]
      /\ UNCHANGED <<journal, listeners, got, faults>>
  BY DEF QueryPage
<1>2. /\ s \in Socket /\ s.after \in Nat /\ committed \in Nat /\ PageSize \in Nat
      /\ s.after <= committed /\ 1..s.after \subseteq Held(r)
  BY <1>1, PageAssumption DEF TypeOK, Covered, Socket
<1>3. /\ n \in Nat /\ s.after + n <= committed
      /\ n # PageSize => s.after + n = committed
  <2>1. committed - s.after \in Nat
    BY <1>2
  <2>2. n \in {PageSize, committed - s.after} /\ n <= committed - s.after
    BY <1>2, <2>1, SmallerOfTwo
  <2> HIDE DEF n
  <2>3. QED
    BY <1>2, <2>1, <2>2
<1> HIDE DEF n
<1>4. found \in Seq(Nat) /\ Len(found) = n /\ \A i \in 1..n : found[i] = s.after + i
  BY <1>2, <1>3
<1> HIDE DEF found
<1>5. /\ t \in Socket /\ t.state = "open" /\ t.history = "page" /\ t.after = s.after
      /\ t.page = found /\ t.buffer = s.buffer
  BY <1>1, <1>2, <1>4 DEF Socket
<1> HIDE DEF t
<1>6. socket'[r] = t /\ got'[r] = got[r] /\ committed' = committed
  BY <1>1 DEF TypeOK, journal
<1>7. Covered(r)'
  <2>1. Held(r)' = Held(r)
    BY <1>5, <1>6 DEF Held
  <2>2. n # PageSize => (s.after + n + 1)..committed = {}
    BY <1>2, <1>3
  <2>3. QED
    BY <1>2, <1>3, <1>4, <1>5, <1>6, <2>1, <2>2 DEF Covered
<1>8. ToSet(t.buffer) \subseteq 1..committed /\ Len(t.buffer) <= HighWater + 1
  BY <1>1, <1>5 DEF Buffered
<1>9. got' = [got EXCEPT ![r] = got[r]] /\ got[r] \in SUBSET (1..committed)
  BY <1>1 DEF TypeOK
<1>10. listeners' = listeners \cup {r} /\ faults' \in 0..MaxFaults
  BY <1>1 DEF RoomIsOpenSockets, TypeOK
<1>11. UNCHANGED journal
  BY <1>1
<1>12. QED
  BY <1>1, <1>5, <1>7, <1>8, <1>9, <1>10, <1>11, OneSocket
\* The page is sent, or the socket closes on the way.
LEMMA SendPageStep ==
  ASSUME StreamInv, NEW r \in Reader, SendPage(r) PROVE StreamInv'
<1> USE DEF StreamInv
<1> DEFINE s == socket[r]
<1> DEFINE q == SendAll(s, s.page)
<1> DEFINE full == Len(s.page) = PageSize
<1> DEFINE cursor == IF full THEN Last(s.page) ELSE q.after
<1> DEFINE phase == IF full /\ q.state = "open" THEN "query" ELSE "sent"
<1> DEFINE t == [q EXCEPT !.page = <<>>, !.after = cursor, !.history = phase]
<1>1. /\ s \in Socket /\ s.after \in Nat /\ s.page \in Seq(Nat) /\ Len(s.page) \in Nat
      /\ committed \in Nat /\ PageSize \in Nat \ {0}
      /\ ToSet(s.buffer) \subseteq 1..committed
      /\ s.state = "open" => Len(s.buffer) <= HighWater + 1
  BY PageAssumption DEF TypeOK, Socket, Buffered
<1>2. /\ q \in Socket
      /\ q.history = s.history /\ q.after = s.after /\ q.page = s.page
      /\ q.state = "closed" <=> s.state = "closed"
      /\ q.state = "open" => s.state = "open" /\ Len(q.buffer) <= HighWater + 1
      /\ ToSet(s.buffer) \subseteq ToSet(q.buffer) /\ ToSet(q.buffer) \subseteq 1..committed
      /\ q.state = "open" => ToSet(s.page) \subseteq ToSet(q.buffer)
  <2>1. CASE s.state # "open"
    <3>1. q = s
      BY <2>1 DEF SendAll
    <3>2. QED
      BY <1>1, <2>1, <3>1
  <2>2. CASE s.state = "open"
    <3>1. \A i \in 1..Len(s.page) : s.page[i] \in 1..committed
      <4>1. /\ \A i \in 1..Len(s.page) : s.page[i] = s.after + i
            /\ s.after + Len(s.page) <= committed
        BY <2>2 DEF SendPage, Covered
      <4>2. \A a, n, c \in Nat : a + n <= c => \A i \in 1..n : a + i \in 1..c
        OBVIOUS
      <4>3. QED
        BY <1>1, <4>1, <4>2, Zenon
    <3>2. s.page \in Seq(1..committed)
      BY <1>1, <3>1
    <3> HIDE DEF s
    <3>3. QED
      BY <1>1, <3>2, SendAllKeeps
  <2>3. QED
    BY <2>1, <2>2
<1>3. socket' = [socket EXCEPT ![r] = t] /\ UNCHANGED <<journal, listeners, got, faults>>
  BY <1>2 DEF SendPage
<1> HIDE DEF q
<1>4. full => Last(s.page) = s.page[Len(s.page)] /\ Last(s.page) \in Nat /\ Len(s.page) \in 1..Len(s.page)
  BY <1>1 DEF Last
<1>5. /\ t \in Socket /\ t.state = q.state /\ t.buffer = q.buffer
      /\ t.after = cursor /\ t.history = phase
  <2>1. cursor \in Nat /\ phase \in {"query", "sent"} /\ <<>> \in Seq(Nat)
    BY <1>1, <1>2, <1>4
  <2> HIDE DEF cursor, phase
  <2>2. QED
    BY <1>2, <2>1 DEF Socket
<1> HIDE DEF t
<1>6. socket'[r] = t /\ got'[r] = got[r] /\ committed' = committed /\ Untold' = Untold
  BY <1>1, <1>3 DEF TypeOK, journal, Untold
<1>7. Covered(r)'
  <2>1. SUFFICES ASSUME t.state = "open" PROVE Covered(r)'
    BY <1>6 DEF Covered
  <2>2. q.state = "open" /\ s.state = "open" /\ s.history = "page"
    BY <1>2, <1>5, <2>1 DEF SendPage
  <2>3. /\ s.after + Len(s.page) <= committed /\ 1..s.after \subseteq Held(r)
        /\ \A i \in 1..Len(s.page) : s.page[i] = s.after + i
        /\ ~full => (s.after + Len(s.page) + 1)..committed \subseteq Held(r) \cup Untold
    BY <2>2 DEF Covered
  <2>4. Held(r) \subseteq Held(r)' /\ ToSet(s.page) \subseteq Held(r)'
    BY <1>2, <1>5, <1>6, <2>2 DEF Held
  <2>5. 1..(s.after + Len(s.page)) \subseteq Held(r)'
    <3>1. ASSUME NEW i \in 1..(s.after + Len(s.page)), i \notin 1..s.after
          PROVE  i \in ToSet(s.page)
      <4>1. i - s.after \in 1..Len(s.page) /\ s.after + (i - s.after) = i
        BY <1>1, <3>1
      <4>2. s.page[i - s.after] = i
        BY <2>3, <4>1
      <4>3. DOMAIN s.page = 1..Len(s.page)
        BY <1>1
      <4>4. QED
        BY <4>1, <4>2, <4>3 DEF ToSet
    <3>2. QED
      BY <2>3, <2>4, <3>1
  <2>6. CASE full
    <3>1. Last(s.page) = s.after + Len(s.page)
      BY <1>4, <2>3, <2>6
    <3>2. t.history = "query" /\ t.after = s.after + Len(s.page)
      BY <1>5, <2>2, <2>6, <3>1
    <3>3. QED
      BY <1>6, <2>3, <2>5, <3>2 DEF Covered
  <2>7. CASE ~full
    <3>1. t.history = "sent"
      BY <1>5, <2>7
    <3>2. ASSUME NEW n \in 1..committed PROVE n \in Held(r)' \cup Untold'
      <4>1. n \in 1..(s.after + Len(s.page)) \/ n \in (s.after + Len(s.page) + 1)..committed
        BY <1>1
      <4>2. QED
        BY <1>6, <2>3, <2>4, <2>5, <2>7, <4>1
    <3>3. QED
      BY <1>6, <3>1, <3>2 DEF Covered
  <2>8. QED
    BY <2>6, <2>7
<1>8. /\ ToSet(t.buffer) \subseteq 1..committed
      /\ t.state = "open" => Len(t.buffer) <= HighWater + 1
  BY <1>2, <1>5
<1>9. got' = [got EXCEPT ![r] = got[r]] /\ got[r] \in SUBSET (1..committed)
  BY <1>3 DEF TypeOK
<1>10. faults' \in 0..MaxFaults /\ UNCHANGED journal
  BY <1>3 DEF TypeOK
<1>11. listeners' = IF t.state = "closed" THEN listeners \ {r} ELSE listeners \cup {r}
  BY <1>2, <1>3, <1>5 DEF RoomIsOpenSockets
<1>12. QED
  BY <1>3, <1>5, <1>7, <1>8, <1>9, <1>10, <1>11, OneSocket

\* The peer takes a message out of the buffer, and holds it.
LEMMA DeliverStep ==
  ASSUME StreamInv, NEW r \in Reader, Deliver(r) PROVE StreamInv'
<1> USE DEF StreamInv
<1> DEFINE s == socket[r]
<1> DEFINE t == [s EXCEPT !.buffer = Tail(@)]
<1> DEFINE h == got[r] \cup {Head(s.buffer)}
<1>1. /\ s \in Socket /\ s.buffer \in Seq(Nat) /\ s.buffer # <<>> /\ s.state # "closed"
      /\ socket' = [socket EXCEPT ![r] = t] /\ got' = [got EXCEPT ![r] = h]
      /\ UNCHANGED <<journal, listeners, faults>>
      /\ committed \in Nat /\ HighWater \in Nat
  BY BoundAssumption DEF Deliver, TypeOK, Socket
<1>2. /\ ToSet(s.buffer) = {Head(s.buffer)} \cup ToSet(Tail(s.buffer))
      /\ Tail(s.buffer) \in Seq(Nat)
  BY <1>1, SetOfTail
<1>3. Len(Tail(s.buffer)) <= Len(s.buffer) /\ Len(Tail(s.buffer)) \in Nat /\ Len(s.buffer) \in Nat
  BY <1>1
<1>4. /\ t \in Socket /\ t.state = s.state /\ t.history = s.history /\ t.after = s.after
      /\ t.page = s.page /\ t.buffer = Tail(s.buffer)
  BY <1>1, <1>2 DEF Socket
<1>5. ToSet(s.buffer) \subseteq 1..committed /\ (s.state = "open" => Len(s.buffer) <= HighWater + 1)
  BY DEF Buffered
<1>6. h \in SUBSET (1..committed)
  BY <1>2, <1>5 DEF TypeOK
<1>7. /\ ToSet(t.buffer) \subseteq 1..committed
      /\ t.state = "open" => Len(t.buffer) <= HighWater + 1
  BY <1>1, <1>2, <1>3, <1>4, <1>5
<1> HIDE DEF t
<1>8. socket'[r] = t /\ got'[r] = h
  BY <1>1 DEF TypeOK
<1>9. Covered(r)'
  <2>1. Held(r) \subseteq Held(r)'
    BY <1>2, <1>4, <1>8 DEF Held
  <2>2. committed' = committed /\ Untold' = Untold
    BY <1>1 DEF journal, Untold
  <2>3. (committed + 1)..committed' = {}
    BY <1>1, <2>2
  <2>4. QED
    BY <1>1, <1>4, <1>8, <2>1, <2>2, <2>3, CoverStays
<1>10. listeners' = listeners \cup {r} /\ t.state # "closed" /\ faults' \in 0..MaxFaults
  BY <1>1, <1>4 DEF RoomIsOpenSockets, TypeOK
<1>11. QED
  BY <1>1, <1>4, <1>6, <1>7, <1>9, <1>10, OneSocket
\* A pong, a heartbeat that is not the last, a peer that goes, a query that
\* fails: nothing is sent, and an open socket has its history as it was.
LEMMA QuietStep ==
  ASSUME StreamInv, NEW r \in Reader, NEW t \in Socket,
         socket' = [socket EXCEPT ![r] = t], UNCHANGED <<journal, listeners, got>>,
         faults' \in 0..MaxFaults,
         t.buffer = socket[r].buffer,
         t.state = "closed" <=> socket[r].state = "closed",
         t.state = "open" =>
           /\ socket[r].state = "open" /\ t.history = socket[r].history
           /\ t.after = socket[r].after /\ t.page = socket[r].page
  PROVE  StreamInv'
<1> USE DEF StreamInv
<1>1. socket'[r] = t /\ got'[r] = got[r] /\ committed' = committed /\ Untold' = Untold
  BY DEF TypeOK, journal, Untold
<1>2. Held(r)' = Held(r)
  BY <1>1 DEF Held
<1>3. Covered(r)'
  BY <1>1, <1>2 DEF Covered
<1>4. /\ ToSet(t.buffer) \subseteq 1..committed
      /\ t.state = "open" => Len(t.buffer) <= HighWater + 1
  BY DEF Buffered
<1>5. got' = [got EXCEPT ![r] = got[r]] /\ got[r] \in SUBSET (1..committed)
  BY DEF TypeOK
<1>6. listeners' = IF t.state = "closed" THEN listeners \ {r} ELSE listeners \cup {r}
  BY DEF RoomIsOpenSockets
<1>7. QED
  BY <1>3, <1>4, <1>5, <1>6, OneSocket

LEMMA QuietSteps ==
  ASSUME StreamInv, NEW r \in Reader,
         \/ HistoryFails(r) \/ Pong(r) \/ LosePeer(r)
         \/ (Heartbeat(r) /\ socket[r].alive)
  PROVE  StreamInv'
<1>1. socket[r] \in Socket /\ faults \in 0..MaxFaults /\ MaxFaults \in Nat
  BY BoundAssumption DEF StreamInv, TypeOK
<1>2. CASE HistoryFails(r)
  <2> DEFINE t == [socket[r] EXCEPT !.history = "sent", !.state = "closing"]
  <2>1. t \in Socket /\ t.buffer = socket[r].buffer /\ t.state = "closing"
    BY <1>1 DEF Socket
  <2>2. /\ socket' = [socket EXCEPT ![r] = t] /\ socket[r].state = "open"
        /\ UNCHANGED <<journal, listeners, got>> /\ faults' \in 0..MaxFaults
    BY <1>1, <1>2 DEF HistoryFails, Fault
  <2> HIDE DEF t
  <2>3. QED
    BY <2>1, <2>2, QuietStep
<1>3. CASE Pong(r)
  <2> DEFINE t == [socket[r] EXCEPT !.alive = TRUE]
  <2>1. /\ t \in Socket /\ t.buffer = socket[r].buffer /\ t.state = socket[r].state
        /\ t.history = socket[r].history /\ t.after = socket[r].after /\ t.page = socket[r].page
    BY <1>1 DEF Socket
  <2>2. /\ socket' = [socket EXCEPT ![r] = t]
        /\ UNCHANGED <<journal, listeners, got>> /\ faults' \in 0..MaxFaults
    BY <1>1, <1>3 DEF Pong
  <2> HIDE DEF t
  <2>3. QED
    BY <2>1, <2>2, QuietStep
<1>4. CASE LosePeer(r)
  <2> DEFINE t == [socket[r] EXCEPT !.peer = FALSE]
  <2>1. /\ t \in Socket /\ t.buffer = socket[r].buffer /\ t.state = socket[r].state
        /\ t.history = socket[r].history /\ t.after = socket[r].after /\ t.page = socket[r].page
    BY <1>1 DEF Socket
  <2>2. /\ socket' = [socket EXCEPT ![r] = t]
        /\ UNCHANGED <<journal, listeners, got>> /\ faults' \in 0..MaxFaults
    BY <1>1, <1>4 DEF LosePeer, Fault
  <2> HIDE DEF t
  <2>3. QED
    BY <2>1, <2>2, QuietStep
<1>5. CASE Heartbeat(r) /\ socket[r].alive
  <2> DEFINE t == [socket[r] EXCEPT !.alive = FALSE]
  <2>1. /\ t \in Socket /\ t.buffer = socket[r].buffer /\ t.state = socket[r].state
        /\ t.history = socket[r].history /\ t.after = socket[r].after /\ t.page = socket[r].page
    BY <1>1 DEF Socket
  <2>2. /\ socket' = [socket EXCEPT ![r] = t]
        /\ UNCHANGED <<journal, listeners, got>> /\ faults' \in 0..MaxFaults
    BY <1>1, <1>5 DEF Heartbeat
  <2> HIDE DEF t
  <2>3. QED
    BY <2>1, <2>2, QuietStep
<1>6. QED
  BY <1>2, <1>3, <1>4, <1>5

\* A socket that closes leaves the room.
LEMMA CloseStep ==
  ASSUME StreamInv, NEW r \in Reader,
         CloseEnds(r) \/ (Heartbeat(r) /\ ~socket[r].alive)
  PROVE  StreamInv'
<1> USE DEF StreamInv
<1>1. Closes(r) /\ faults' = faults
  BY DEF CloseEnds, Heartbeat
<1>2. /\ Closed \in Socket /\ Closed.state = "closed" /\ ToSet(Closed.buffer) = {}
      /\ {} \in SUBSET (1..committed)
  BY DEF Closed, Socket, ToSet
<1>3. /\ socket' = [socket EXCEPT ![r] = Closed] /\ got' = [got EXCEPT ![r] = {}]
      /\ listeners' = listeners \ {r} /\ UNCHANGED journal /\ faults' \in 0..MaxFaults
  BY <1>1 DEF Closes, TypeOK
<1>4. socket'[r] = Closed
  BY <1>3 DEF TypeOK
<1>5. Covered(r)'
  BY <1>2, <1>4 DEF Covered
<1>6. QED
  BY <1>2, <1>3, <1>5, OneSocket

LEMMA StopStep == StreamInv /\ Stop => StreamInv'
<1> SUFFICES ASSUME StreamInv, Stop PROVE StreamInv'
  OBVIOUS
<1> USE DEF StreamInv
<1>1. /\ Closed \in Socket /\ Closed.state = "closed" /\ ToSet(Closed.buffer) = {}
  BY DEF Closed, Socket, ToSet
<1>2. /\ socket' = [q \in Reader |-> Closed] /\ got' = [q \in Reader |-> {}]
      /\ listeners' = {} /\ committed' = committed /\ unannounced' = {}
      /\ silent' = silent \cup unannounced
  BY DEF Stop
<1>3. faults' \in 0..MaxFaults
  BY BoundAssumption DEF Stop, Fault, TypeOK
<1>4. TypeOK'
  BY <1>1, <1>2, <1>3 DEF TypeOK
<1>5. \A q \in Reader : socket'[q] = Closed
  BY <1>2
<1>6. RoomIsOpenSockets' /\ Buffered'
  BY <1>1, <1>2, <1>5 DEF RoomIsOpenSockets, Buffered
<1>7. \A q \in Reader : Covered(q)'
  BY <1>1, <1>5 DEF Covered
<1>8. QED
  BY <1>4, <1>6, <1>7

-----------------------------------------------------------------------------
LEMMA Inductive == StreamInv /\ [Next]_vars => StreamInv'
<1> SUFFICES ASSUME StreamInv, [Next]_vars PROVE StreamInv'
  OBVIOUS
<1>1. CASE Commit \/ CommitUnknown
  BY <1>1, CommitStep
<1>2. CASE Stop
  BY <1>2, StopStep
<1>3. CASE \E n \in unannounced : Announce(n)
  BY <1>3, AnnounceStep
<1>4. ASSUME NEW r \in Reader, Accept(r) PROVE StreamInv'
  BY <1>4, AcceptStep
<1>5. ASSUME NEW r \in Reader, Serve(r) PROVE StreamInv'
  BY <1>5, QueryPageStep, SendPageStep DEF Serve
<1>6. ASSUME NEW r \in Reader, HistoryFails(r) \/ Pong(r) \/ LosePeer(r) PROVE StreamInv'
  BY <1>6, QuietSteps
<1>7. ASSUME NEW r \in Reader, Deliver(r) PROVE StreamInv'
  BY <1>7, DeliverStep
<1>8. ASSUME NEW r \in Reader, Heartbeat(r) PROVE StreamInv'
  BY <1>8, QuietSteps, CloseStep
<1>9. ASSUME NEW r \in Reader, CloseEnds(r) PROVE StreamInv'
  <2>1. CloseEnds(r) \/ (Heartbeat(r) /\ ~socket[r].alive)
    BY <1>9
  <2>2. QED
    BY <2>1, CloseStep
<1>10. CASE UNCHANGED vars
  <2>1. StreamInv' = StreamInv
    BY <1>10 DEF vars, journal, StreamInv, TypeOK, RoomIsOpenSockets, Buffered, Covered, Held, Untold
  <2>2. QED
    BY <2>1
<1>11. QED
  BY <1>1, <1>2, <1>3, <1>4, <1>5, <1>6, <1>7, <1>8, <1>9, <1>10 DEF Next

LEMMA CoveredIsWhole == StreamInv => NoHole
  BY DEF StreamInv, NoHole, Covered, Held, Untold

LEMMA Always == Spec => []StreamInv
<1>1. Init => StreamInv
  BY Initially
<1>2. StreamInv /\ [Next]_vars => StreamInv'
  BY Inductive
<1>3. QED
  BY <1>1, <1>2, PTL DEF Spec

\* Once its history has been sent, an open stream has or will receive every
\* operation but those no listener has been told of: sendHistory and the
\* listener of #accept together, whatever the size of a page, the mark of back
\* pressure and the order of broadcasts.
THEOREM Seamless == Spec => []NoHole
  BY Always, CoveredIsWhole, PTL

\* The listeners of a workspace are those of its open sockets, whichever
\* sockets close when (subscribe of SyncGateway and "close" of #accept).
THEOREM RoomIsExact == Spec => []RoomIsOpenSockets
<1>1. StreamInv => RoomIsOpenSockets
  BY DEF StreamInv
<1>2. QED
  BY <1>1, Always, PTL
=============================================================================
