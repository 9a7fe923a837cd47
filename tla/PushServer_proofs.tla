-------------------------- MODULE PushServer_proofs --------------------------
(* What is proved about the WebSocket side, for any number of clients and      *)
(* tickets, any dataset and any chaos settings: that the state is typed, that a *)
(* client that is promised everything is up to date once nothing is under way,  *)
(* and that the frames reach a client in their order.                           *)
EXTENDS PushServer, WellFoundedInduction, FiniteSetTheorems, SequenceTheorems, TLAPS

(********************************* Messages *********************************)

Frames   == Nat \X Nat
Statuses == Sessions \union {IdleSession}

Messages == [field : {"frame"}, value : Frames] \union [field : {"status"}, value : Statuses]
            \union [field : {"task"}, value : TASK_STATUSES] \union [field : {"pose"}, value : Int]
Entries == [message : Messages, delay : Nat]
Views == [frame : Frames, status : Statuses \union {Session(Unseen, Null)},
          task : TASK_STATUSES \union {Unseen}, pose : Int]
Fields == {"frame", "status", "task", "pose"}

\* What is under way to a client and what it has seen.
Pipes == [line : Seq(Entries), view : Views]
Pipe(s) == [line |-> line[s], view |-> view[s]]

\* A message changes what it is about, and nothing else.
LEMMA SeenTyped ==
    ASSUME NEW v \in Views, NEW m \in Messages
    PROVE  /\ Seen(v, m) \in Views
           /\ m.field \in Fields /\ Seen(v, m)[m.field] = m.value
           /\ \A f \in Fields : f # m.field => Seen(v, m)[f] = v[f]
<1>1. /\ Seen(v, m) = [v EXCEPT ![m.field] = m.value]
      /\ DOMAIN v = Fields
  BY DEF Seen, Views, Fields
<1>2. m.field \in Fields
  BY DEF Messages, Fields
<1>3. Seen(v, m) \in Views
  <2>1. CASE m \in [field : {"frame"}, value : Frames]
    BY <1>1, <2>1 DEF Views
  <2>2. CASE m \in [field : {"status"}, value : Statuses]
    BY <1>1, <2>2 DEF Views
  <2>3. CASE m \in [field : {"task"}, value : TASK_STATUSES]
    BY <1>1, <2>3 DEF Views
  <2>4. CASE m \in [field : {"pose"}, value : Int]
    BY <1>1, <2>4 DEF Views
  <2>. QED BY <2>1, <2>2, <2>3, <2>4 DEF Messages
<1>4. Seen(v, m)[m.field] = m.value /\ \A f \in Fields : f # m.field => Seen(v, m)[f] = v[f]
  BY <1>1, <1>2
<1>. QED BY <1>2, <1>3, <1>4

(************************** One message to a client *************************)

\* The message is handed over while nothing is under way, or comes last in the line.
Adds(p, q, m) ==
    \/ p.line = <<>> /\ q.line = <<>> /\ q.view = Seen(p.view, m)
    \/ /\ q.view = p.view
       /\ \E e \in Entries : e.message = m /\ q.line = Append(p.line, e)

\* All that is under way has one of the delays D, and none is zero.
Flows(p, D) == \A i \in 1..Len(p.line) : p.line[i].delay \in D \ {0}

\* While there is only one delay, a message that is not lost comes last.
Passes(p, q, m, fate, D) ==
    /\ q \in Pipes /\ Flows(q, D)
    /\ IF fate = Dropped THEN q = p ELSE Adds(p, q, m)

\* One message while there is only one delay: lost, handed over, or last in the line.
LEMMA SendOne ==
    ASSUME NEW D \in SUBSET Nat, \A d, e \in D : d = e,
           NEW p \in Pipes, Flows(p, D), NEW m \in Messages, NEW fate \in D \union {Dropped},
           NEW q, q = chaosSend(p, m, fate)
    PROVE  Passes(p, q, m, fate, D)
<1>1. p.line \in Seq(Entries) /\ p.view \in Views /\ Len(p.line) \in Nat
  <2>1. p.line \in Seq(Entries) /\ p.view \in Views
    BY DEF Pipes
  <2>. QED BY <2>1, LenProperties
<1>2. CASE fate = Dropped
  <2>1. q = p
    BY <1>2 DEF chaosSend, Dropped
  <2>. QED BY <1>2, <2>1 DEF Passes
<1>3. CASE fate = 0
  <2>1. q = [p EXCEPT !.view = Seen(p.view, m)]
    BY <1>3 DEF chaosSend, Dropped
  <2>2. Seen(p.view, m) \in Views
    BY <1>1, SeenTyped
  <2>3. q \in Pipes /\ q.view = Seen(p.view, m) /\ q.line = p.line
    BY <2>1, <2>2 DEF Pipes
  <2>4. \A d \in D : d = 0
    <3>1. fate # Dropped
      BY <1>3 DEF Dropped
    <3>2. 0 \in D
      BY <1>3, <3>1
    <3>. QED BY <3>2
  <2>5. \A i \in 1..Len(p.line) : FALSE
    BY <2>4 DEF Flows
  <2>6. p.line = <<>>
    BY <1>1, <2>5, EmptySeq
  <2>. QED BY <1>3, <2>3, <2>6 DEF Adds, Flows, Dropped, Passes
<1>4. CASE fate # Dropped /\ fate # 0
  <2>. DEFINE e == [message |-> m, delay |-> fate]
  <2>1. q = [p EXCEPT !.line = Append(p.line, e)]
    BY <1>4 DEF chaosSend
  <2>2. e \in Entries /\ e.message = m /\ e.delay = fate /\ fate \in D \ {0}
    BY <1>4 DEF Entries
  <2>. HIDE DEF e
  <2>3. /\ Append(p.line, e) \in Seq(Entries) /\ Len(Append(p.line, e)) = Len(p.line) + 1
        /\ \A i \in 1..Len(p.line) : Append(p.line, e)[i] = p.line[i]
        /\ Append(p.line, e)[Len(p.line) + 1] = e
    BY <1>1, <2>2, AppendProperties
  <2>4. q \in Pipes /\ q.view = p.view /\ q.line = Append(p.line, e)
    BY <2>1, <2>3 DEF Pipes
  <2>5. \A i \in 1..Len(q.line) : i \in 1..Len(p.line) \/ i = Len(p.line) + 1
    BY <1>1, <2>3, <2>4
  <2>6. Flows(q, D)
    BY <2>2, <2>3, <2>4, <2>5 DEF Flows
  <2>. QED BY <1>4, <2>2, <2>4, <2>6 DEF Adds, Passes
<1>. QED BY <1>2, <1>3, <1>4

\* The last value of a field that the client will have, when nothing more is sent.
Ends(p, f, v) ==
    \/ \E k \in 1..Len(p.line) :
         /\ p.line[k].message.field = f /\ p.line[k].message.value = v
         /\ \A j \in 1..Len(p.line) : j > k => p.line[j].message.field # f
    \/ p.view[f] = v /\ \A k \in 1..Len(p.line) : p.line[k].message.field # f

\* The message that comes last decides about its field, and about no other.
LEMMA AddsEnds ==
    ASSUME NEW p \in Pipes, NEW q, NEW m \in Messages, Adds(p, q, m), NEW f \in Fields
    PROVE  /\ m.field = f => Ends(q, f, m.value)
           /\ \A v : m.field # f /\ Ends(p, f, v) => Ends(q, f, v)
<1>1. p.line \in Seq(Entries) /\ p.view \in Views /\ Len(p.line) \in Nat
  <2>1. p.line \in Seq(Entries) /\ p.view \in Views
    BY DEF Pipes
  <2>. QED BY <2>1, LenProperties
<1>2. CASE p.line = <<>> /\ q.line = <<>> /\ q.view = Seen(p.view, m)
  <2>1. \A i \in 1..Len(p.line) : FALSE
    BY <1>2
  <2>2. \A i \in 1..Len(q.line) : FALSE
    BY <1>2
  <2>3. /\ Seen(p.view, m)[m.field] = m.value
        /\ m.field # f => Seen(p.view, m)[f] = p.view[f]
    BY <1>1, SeenTyped
  <2>. QED BY <1>2, <2>1, <2>2, <2>3 DEF Ends
<1>3. CASE q.view = p.view /\ \E e \in Entries : e.message = m /\ q.line = Append(p.line, e)
  <2>1. PICK e \in Entries : e.message = m /\ q.line = Append(p.line, e)
    BY <1>3
  <2>2. PICK n \in Nat : n = Len(p.line)
    BY <1>1
  <2>3. /\ Len(q.line) = n + 1 /\ q.line[n + 1] = e
        /\ \A i \in 1..n : q.line[i] = p.line[i]
    BY <1>1, <2>1, <2>2, AppendProperties
  <2>4. /\ \A i \in 1..n : i \in 1..(n + 1) /\ n + 1 > i
        /\ \A i \in 1..(n + 1) : i \in 1..n \/ i = n + 1
        /\ n + 1 \in 1..(n + 1) /\ \A i \in 1..(n + 1) : ~(i > n + 1)
    OBVIOUS
  <2>5. m.field = f => Ends(q, f, m.value)
    BY <2>1, <2>3, <2>4 DEF Ends
  <2>6. ASSUME NEW v, m.field # f, Ends(p, f, v)
        PROVE  Ends(q, f, v)
    <3>1. CASE \E k \in 1..n : /\ p.line[k].message.field = f /\ p.line[k].message.value = v
                               /\ \A j \in 1..n : j > k => p.line[j].message.field # f
      <4>1. PICK k \in 1..n : /\ p.line[k].message.field = f /\ p.line[k].message.value = v
                              /\ \A j \in 1..n : j > k => p.line[j].message.field # f
        BY <3>1
      <4>2. \A j \in 1..(n + 1) : j > k => q.line[j].message.field # f
        BY <2>1, <2>3, <2>4, <2>6, <4>1
      <4>. QED BY <2>3, <2>4, <4>1, <4>2 DEF Ends
    <3>2. CASE p.view[f] = v /\ \A k \in 1..n : p.line[k].message.field # f
      <4>1. \A k \in 1..(n + 1) : q.line[k].message.field # f
        BY <2>1, <2>3, <2>4, <2>6, <3>2
      <4>. QED BY <1>3, <2>3, <3>2, <4>1 DEF Ends
    <3>. QED BY <2>2, <2>6, <3>1, <3>2 DEF Ends
  <2>. QED BY <2>5, <2>6
<1>. QED BY <1>2, <1>3 DEF Adds

\* The order of frames: by their dataset, then by their number.
Before(a, b) == a[1] < b[1] \/ (a[1] = b[1] /\ a[2] < b[2])
UpTo(a, b) == a = b \/ Before(a, b)

\* What is under way are frames in their order, above what the client has seen and none
\* above the top.
Ordered(p, top) ==
    /\ UpTo(p.view.frame, top)
    /\ \A i \in 1..Len(p.line) : p.line[i].message.field = "frame" =>
         /\ Before(p.view.frame, p.line[i].message.value)
         /\ UpTo(p.line[i].message.value, top)
         /\ \A j \in 1..Len(p.line) : i < j /\ p.line[j].message.field = "frame" =>
              Before(p.line[i].message.value, p.line[j].message.value)

\* The order of frames is transitive.
LEMMA Orders ==
    ASSUME NEW a \in Frames, NEW b \in Frames, NEW c \in Frames
    PROVE  /\ Before(a, b) /\ Before(b, c) => Before(a, c)
           /\ UpTo(a, b) /\ Before(b, c) => Before(a, c)
           /\ UpTo(a, b) /\ UpTo(b, c) => UpTo(a, c)
<1>1. /\ a[1] \in Nat /\ a[2] \in Nat /\ b[1] \in Nat /\ b[2] \in Nat
      /\ c[1] \in Nat /\ c[2] \in Nat
  BY DEF Frames
<1>2. Before(a, b) /\ Before(b, c) => Before(a, c)
  BY <1>1 DEF Before
<1>3. UpTo(a, b) /\ Before(b, c) => Before(a, c)
  BY <1>2 DEF UpTo
<1>4. UpTo(a, b) /\ UpTo(b, c) => UpTo(a, c)
  BY <1>2 DEF UpTo
<1>. QED BY <1>2, <1>3, <1>4

\* A message that comes last keeps the order, if a frame is above the top; and what the
\* client sees goes up.
LEMMA AddsOrdered ==
    ASSUME NEW p \in Pipes, NEW q \in Pipes, NEW m \in Messages, Adds(p, q, m),
           NEW top \in Frames, Ordered(p, top),
           m.field = "frame" => Before(top, m.value)
    PROVE  /\ Ordered(q, IF m.field = "frame" THEN m.value ELSE top)
           /\ UpTo(p.view.frame, q.view.frame)
<1>1. p.line \in Seq(Entries) /\ p.view \in Views /\ p.view.frame \in Frames /\ Len(p.line) \in Nat
  <2>1. p.line \in Seq(Entries) /\ p.view \in Views
    BY DEF Pipes
  <2>. QED BY <2>1, LenProperties DEF Views
<1>2. m.field = "frame" => m.value \in Frames
  BY DEF Messages
<1>3. \A i \in 1..Len(p.line) : p.line[i].message.field = "frame" => p.line[i].message.value \in Frames
  <2>1. \A i \in 1..Len(p.line) : p.line[i].message \in Messages
    <3>1. \A i \in 1..Len(p.line) : p.line[i] \in Entries
      BY <1>1, ElementOfSeq
    <3>. QED BY <3>1 DEF Entries
  <2>. QED BY <2>1 DEF Messages
<1>4. /\ UpTo(p.view.frame, top)
      /\ \A i \in 1..Len(p.line) : p.line[i].message.field = "frame" =>
           /\ Before(p.view.frame, p.line[i].message.value)
           /\ UpTo(p.line[i].message.value, top)
           /\ \A j \in 1..Len(p.line) : i < j /\ p.line[j].message.field = "frame" =>
                Before(p.line[i].message.value, p.line[j].message.value)
  BY DEF Ordered
<1>5. m.field = "frame" =>
        /\ Before(p.view.frame, m.value) /\ UpTo(p.view.frame, m.value)
        /\ \A i \in 1..Len(p.line) : p.line[i].message.field = "frame" =>
             Before(p.line[i].message.value, m.value) /\ UpTo(p.line[i].message.value, m.value)
  BY <1>1, <1>2, <1>3, <1>4, Orders DEF UpTo
<1>6. CASE p.line = <<>> /\ q.line = <<>> /\ q.view = Seen(p.view, m)
  <2>1. \A i \in 1..Len(q.line) : FALSE
    BY <1>6
  <2>2. q.view.frame = IF m.field = "frame" THEN m.value ELSE p.view.frame
    <3>1. /\ Seen(p.view, m)[m.field] = m.value
          /\ "frame" # m.field => Seen(p.view, m)["frame"] = p.view["frame"]
      BY <1>1, SeenTyped DEF Fields
    <3>. QED BY <1>6, <3>1
  <2>3. UpTo(m.value, m.value) /\ UpTo(p.view.frame, p.view.frame)
    BY DEF UpTo
  <2>4. UpTo(p.view.frame, q.view.frame)
    BY <1>5, <2>2, <2>3
  <2>5. UpTo(q.view.frame, IF m.field = "frame" THEN m.value ELSE top)
    BY <1>4, <2>2, <2>3
  <2>. QED BY <2>1, <2>4, <2>5 DEF Ordered
<1>7. CASE q.view = p.view /\ \E e \in Entries : e.message = m /\ q.line = Append(p.line, e)
  <2>1. PICK e \in Entries : e.message = m /\ q.line = Append(p.line, e)
    BY <1>7
  <2>2. PICK n \in Nat : n = Len(p.line)
    BY <1>1
  <2>3. /\ Len(q.line) = n + 1 /\ q.line[n + 1] = e
        /\ \A i \in 1..n : q.line[i] = p.line[i]
    BY <1>1, <2>1, <2>2, AppendProperties
  <2>. DEFINE new == IF m.field = "frame" THEN m.value ELSE top
  <2>4. ASSUME NEW i \in 1..(n + 1), q.line[i].message.field = "frame"
        PROVE  /\ Before(q.view.frame, q.line[i].message.value)
               /\ UpTo(q.line[i].message.value, new)
               /\ \A j \in 1..(n + 1) : i < j /\ q.line[j].message.field = "frame" =>
                    Before(q.line[i].message.value, q.line[j].message.value)
    <3>1. CASE i = n + 1
      <4>1. m.field = "frame" /\ q.line[i].message.value = m.value
        BY <2>1, <2>3, <2>4, <3>1
      <4>2. \A j \in 1..(n + 1) : ~(i < j)
        BY <3>1
      <4>. QED BY <1>5, <1>7, <4>1, <4>2 DEF UpTo
    <3>2. CASE i # n + 1
      <4>1. i \in 1..n /\ q.line[i] = p.line[i]
        BY <2>3, <3>2
      <4>2. Before(q.view.frame, q.line[i].message.value)
        BY <1>4, <1>7, <2>2, <2>4, <4>1
      <4>3. UpTo(q.line[i].message.value, new)
        BY <1>4, <1>5, <2>2, <2>4, <4>1
      <4>4. ASSUME NEW j \in 1..(n + 1), i < j, q.line[j].message.field = "frame"
            PROVE  Before(q.line[i].message.value, q.line[j].message.value)
        <5>1. CASE j = n + 1
          BY <1>5, <2>1, <2>2, <2>3, <2>4, <4>1, <4>4, <5>1
        <5>2. CASE j # n + 1
          <6>1. j \in 1..n /\ q.line[j] = p.line[j]
            BY <2>3, <5>2
          <6>. QED BY <1>4, <2>2, <2>4, <4>1, <4>4, <6>1
        <5>. QED BY <5>1, <5>2
      <4>. QED BY <4>2, <4>3, <4>4
    <3>. QED BY <3>1, <3>2
  <2>5. UpTo(q.view.frame, new)
    BY <1>4, <1>5, <1>7
  <2>6. UpTo(p.view.frame, q.view.frame)
    BY <1>7 DEF UpTo
  <2>7. Ordered(q, new)
    BY <2>3, <2>4, <2>5 DEF Ordered
  <2>. QED BY <2>6, <2>7
<1>. QED BY <1>6, <1>7 DEF Adds

\* The top may be raised.
LEMMA RaisedTop ==
    ASSUME NEW p \in Pipes, NEW top \in Frames, Ordered(p, top),
           NEW higher \in Frames, UpTo(top, higher)
    PROVE  Ordered(p, higher)
<1>1. p.view.frame \in Frames
  BY DEF Pipes, Views
<1>2. \A i \in 1..Len(p.line) : p.line[i].message.field = "frame" => p.line[i].message.value \in Frames
  <2>1. \A i \in 1..Len(p.line) : p.line[i].message \in Messages
    <3>1. \A i \in 1..Len(p.line) : p.line[i] \in Entries
      BY ElementOfSeq DEF Pipes
    <3>. QED BY <3>1 DEF Entries
  <2>. QED BY <2>1 DEF Messages
<1>. QED BY <1>1, <1>2, Orders DEF Ordered

(************************ Several messages to a client **********************)

\* Induction over the natural numbers, for a set.
LEMMA Induct ==
    ASSUME NEW S, 0 \in S, \A n \in Nat : n \in S => n + 1 \in S
    PROVE  \A n \in Nat : n \in S
<1>. DEFINE Out == Nat \ S
            R == OpToRel(<, Nat)
<1>1. SUFFICES ASSUME Out # {} PROVE FALSE
  OBVIOUS
<1>2. \A k, m \in Nat : k < m => <<k, m>> \in R
  BY DEF OpToRel
<1>3. IsWellFoundedOn(R, Nat)
  BY NatLessThanWellFounded
<1>. HIDE DEF R
<1>4. PICK m \in Out : \A k \in Out : <<k, m>> \notin R
  BY <1>1, <1>3, WFMin
<1>5. m - 1 \in Nat /\ m - 1 < m /\ (m - 1) + 1 = m
  OBVIOUS
<1>6. m - 1 \in Out
  BY <1>5
<1>. QED BY <1>2, <1>4, <1>5, <1>6

\* Messages are sent one after the other: what SendingRun names exists.
After(p, messages, fates, n) ==
    IF n \in DOMAIN fates THEN chaosSend(p, messages[n], fates[n]) ELSE p
IsRun(f, p, messages, fates, n) ==
    f = [i \in 0..n |-> IF i = 0 THEN p ELSE After(f[i - 1], messages, fates, i)]

\* A run exists, by induction over the messages.
LEMMA RunExists ==
    ASSUME NEW p, NEW messages, NEW fates, NEW n \in Nat
    PROVE  \E f : IsRun(f, p, messages, fates, n)
<1>. DEFINE Good == { k \in Nat : \E f : IsRun(f, p, messages, fates, k) }
<1>1. 0 \in Good
  <2>. DEFINE f == [i \in 0..0 |-> p]
  <2>1. IsRun(f, p, messages, fates, 0)
    BY DEF IsRun
  <2>. QED BY <2>1
<1>2. ASSUME NEW k \in Nat, k \in Good
      PROVE  k + 1 \in Good
  <2>1. PICK f : IsRun(f, p, messages, fates, k)
    BY <1>2
  <2>. DEFINE g == [i \in 0..(k + 1) |->
                      IF i = k + 1 THEN After(f[k], messages, fates, k + 1) ELSE f[i]]
  <2>2. \A i \in 0..k : f[i] = IF i = 0 THEN p ELSE After(f[i - 1], messages, fates, i)
    BY <2>1 DEF IsRun
  <2>3. ASSUME NEW i \in 0..(k + 1)
        PROVE  g[i] = IF i = 0 THEN p ELSE After(g[i - 1], messages, fates, i)
    <3>1. CASE i = k + 1
      BY <3>1
    <3>2. CASE i # k + 1
      BY <3>2, <2>2
    <3>. QED BY <3>1, <3>2
  <2>4. IsRun(g, p, messages, fates, k + 1)
    BY <2>3 DEF IsRun
  <2>. QED BY <2>4
<1>. HIDE DEF Good
<1>3. n \in Good
  BY <1>1, <1>2, Induct
<1>. QED BY <1>3 DEF Good

\* SendingRun starts with the pipe, goes on message by message and ends with sendAll.
LEMMA RunSteps ==
    ASSUME NEW p, NEW messages, NEW fates, Len(messages) \in Nat
    PROVE  LET run == SendingRun(p, messages, fates)
           IN  /\ run[0] = p /\ run[Len(messages)] = sendAll(p, messages, fates)
               /\ \A n \in 1..Len(messages) : run[n] = After(run[n - 1], messages, fates, n)
<1>1. SendingRun(p, messages, fates) = CHOOSE f : IsRun(f, p, messages, fates, Len(messages))
  BY Zenon DEF SendingRun, IsRun, After
<1>2. IsRun(SendingRun(p, messages, fates), p, messages, fates, Len(messages))
  BY <1>1, RunExists
<1>. QED BY <1>2 DEF IsRun, sendAll

\* How a line grows with the messages of a sequence, of which those in looked are followed:
\* one by one, without gaps unless messages are lost.
Grows(run, messages, looked, D, lossless) ==
    \A n \in 0..Len(messages) :
      /\ run[n] \in Pipes /\ Flows(run[n], D)
      /\ n # 0 => /\ n \notin looked => run[n] = run[n - 1]
                  /\ n \in looked => \/ run[n] = run[n - 1] /\ ~lossless
                                     \/ Adds(run[n - 1], run[n], messages[n])

\* While there is only one delay, a line grows with every message that is followed.
LEMMA RunGrows ==
    ASSUME NEW D \in SUBSET Nat, \A d, e \in D : d = e,
           NEW p \in Pipes, Flows(p, D), NEW messages \in Seq(Messages),
           NEW looked \in SUBSET (1..Len(messages)),
           NEW lossless \in BOOLEAN,
           NEW fates \in [looked -> D \union (IF lossless THEN {} ELSE {Dropped})]
    PROVE  Grows(SendingRun(p, messages, fates), messages, looked, D, lossless)
<1>. DEFINE run == SendingRun(p, messages, fates)
            N == Len(messages)
            S == { n \in Nat : n <= N => run[n] \in Pipes /\ Flows(run[n], D) }
<1>1. N \in Nat
  BY LenProperties
<1>2. run[0] = p /\ \A n \in 1..N : run[n] = After(run[n - 1], messages, fates, n)
  BY <1>1, RunSteps
<1>3. DOMAIN fates = looked
  OBVIOUS
<1>. HIDE DEF run
<1>4. ASSUME NEW n \in Nat, n + 1 <= N, run[n] \in Pipes, Flows(run[n], D)
      PROVE  /\ run[n + 1] \in Pipes /\ Flows(run[n + 1], D)
             /\ n + 1 \notin looked => run[n + 1] = run[n]
             /\ n + 1 \in looked => \/ run[n + 1] = run[n] /\ ~lossless
                                    \/ Adds(run[n], run[n + 1], messages[n + 1])
  <2>1. n + 1 \in 1..N /\ (n + 1) - 1 = n
    BY <1>1, <1>4
  <2>2. run[n + 1] = After(run[n], messages, fates, n + 1)
    BY <1>2, <2>1
  <2>3. messages[n + 1] \in Messages
    BY <2>1, ElementOfSeq
  <2>4. CASE n + 1 \notin looked
    <3>1. run[n + 1] = run[n]
      BY <1>3, <2>2, <2>4 DEF After
    <3>. QED BY <1>4, <2>4, <3>1
  <2>5. CASE n + 1 \in looked
    <3>. DEFINE fate == fates[n + 1]
    <3>1. run[n + 1] = chaosSend(run[n], messages[n + 1], fate)
      BY <1>3, <2>2, <2>5 DEF After
    <3>2. fate \in D \union {Dropped} /\ (lossless => fate \in D)
      BY <2>5
    <3>3. lossless => fate # Dropped
      BY <3>2 DEF Dropped
    <3>. HIDE DEF fate
    <3>4. /\ run[n + 1] \in Pipes /\ Flows(run[n + 1], D)
          /\ IF fate = Dropped THEN run[n + 1] = run[n] ELSE Adds(run[n], run[n + 1], messages[n + 1])
      <4>1. Passes(run[n], run[n + 1], messages[n + 1], fate, D)
        BY <1>4, <2>3, <3>1, <3>2, SendOne
      <4>. QED BY <4>1 DEF Passes
    <3>. QED BY <2>5, <3>3, <3>4
  <2>. QED BY <2>4, <2>5
<1>5. 0 \in S
  BY <1>2
<1>6. ASSUME NEW n \in Nat, n \in S
      PROVE  n + 1 \in S
  BY <1>1, <1>4, <1>6
<1>. HIDE DEF S
<1>7. \A n \in Nat : n \in S
  BY <1>5, <1>6, Induct
<1>8. \A n \in 0..N : run[n] \in Pipes /\ Flows(run[n], D)
  BY <1>1, <1>7 DEF S
<1>9. ASSUME NEW n \in 0..N, n # 0
      PROVE  /\ n \notin looked => run[n] = run[n - 1]
             /\ n \in looked => \/ run[n] = run[n - 1] /\ ~lossless
                                \/ Adds(run[n - 1], run[n], messages[n])
  <2>1. n - 1 \in Nat /\ (n - 1) + 1 = n /\ n - 1 \in 0..N /\ n <= N
    BY <1>1, <1>9
  <2>2. run[n - 1] \in Pipes /\ Flows(run[n - 1], D)
    BY <1>8, <2>1
  <2>3. /\ (n - 1) + 1 \notin looked => run[(n - 1) + 1] = run[n - 1]
        /\ (n - 1) + 1 \in looked => \/ run[(n - 1) + 1] = run[n - 1] /\ ~lossless
                                     \/ Adds(run[n - 1], run[(n - 1) + 1], messages[(n - 1) + 1])
    BY <1>4, <2>1, <2>2
  <2>. QED BY <2>1, <2>3
<1>10. Grows(run, messages, looked, D, lossless)
  BY <1>8, <1>9 DEF Grows
<1>. QED BY <1>10 DEF run

\* When nothing is lost, the last value of a field is that of its messages, which are
\* all alike; a field without a message keeps the value it had.
Holds(n, messages, looked, f) == \E k \in looked : k <= n /\ messages[k].field = f

EndsSoFar(run, messages, looked, f, v, n) ==
    IF Holds(n, messages, looked, f) THEN Ends(run[n], f, v)
    ELSE \A w : Ends(run[0], f, w) => Ends(run[n], f, w)

\* By induction over the messages.
LEMMA GrowsEnds ==
    ASSUME NEW messages \in Seq(Messages), NEW looked \in SUBSET (1..Len(messages)),
           NEW run, NEW D, Grows(run, messages, looked, D, TRUE),
           NEW f \in Fields, NEW v,
           \A k \in looked : messages[k].field = f => messages[k].value = v
    PROVE  EndsSoFar(run, messages, looked, f, v, Len(messages))
<1>. DEFINE S == { n \in Nat : n <= Len(messages) => EndsSoFar(run, messages, looked, f, v, n) }
<1>1. PICK N \in Nat : N = Len(messages)
  BY LenProperties
<1>2. 0 \in S
  <2>1. ~Holds(0, messages, looked, f)
    <3>1. \A k \in looked : ~(k <= 0)
      BY <1>1
    <3>. QED BY <3>1 DEF Holds
  <2>. QED BY <2>1 DEF EndsSoFar
<1>3. ASSUME NEW n \in Nat, n \in S
      PROVE  n + 1 \in S
  <2>. SUFFICES ASSUME n + 1 <= N
                PROVE  EndsSoFar(run, messages, looked, f, v, n + 1)
    BY <1>1
  <2>1. /\ n + 1 \in 0..N /\ n + 1 # 0 /\ (n + 1) - 1 = n /\ n \in 0..N /\ n <= N
        /\ n + 1 \in 1..N
    OBVIOUS
  <2>2. EndsSoFar(run, messages, looked, f, v, n)
    BY <1>1, <1>3, <2>1
  <2>3. /\ run[n] \in Pipes
        /\ n + 1 \notin looked => run[n + 1] = run[n]
        /\ n + 1 \in looked => Adds(run[n], run[n + 1], messages[n + 1])
    BY <1>1, <2>1 DEF Grows
  <2>4. messages[n + 1] \in Messages
    BY <1>1, <2>1, ElementOfSeq
  <2>5. \A k \in looked : k \in Nat /\ (k <= n + 1 <=> k <= n \/ k = n + 1)
    BY <1>1
  <2>6. CASE n + 1 \notin looked
    <3>1. Holds(n + 1, messages, looked, f) <=> Holds(n, messages, looked, f)
      BY <2>5, <2>6 DEF Holds
    <3>. QED BY <2>2, <2>3, <2>6, <3>1 DEF EndsSoFar
  <2>7. CASE n + 1 \in looked /\ messages[n + 1].field = f
    <3>1. Holds(n + 1, messages, looked, f)
      BY <2>5, <2>7 DEF Holds
    <3>2. Ends(run[n + 1], f, messages[n + 1].value)
      BY <2>3, <2>4, <2>7, AddsEnds
    <3>. QED BY <2>7, <3>1, <3>2 DEF EndsSoFar
  <2>8. CASE n + 1 \in looked /\ messages[n + 1].field # f
    <3>1. Holds(n + 1, messages, looked, f) <=> Holds(n, messages, looked, f)
      BY <2>5, <2>8 DEF Holds
    <3>2. \A w : Ends(run[n], f, w) => Ends(run[n + 1], f, w)
      BY <2>3, <2>4, <2>8, AddsEnds
    <3>. QED BY <2>2, <3>1, <3>2 DEF EndsSoFar
  <2>. QED BY <2>6, <2>7, <2>8
<1>. HIDE DEF S
<1>4. \A n \in Nat : n \in S
  BY <1>2, <1>3, Induct
<1>. QED BY <1>1, <1>4 DEF S

\* The frames stay in their order if at most one is sent, and it is above the top.
TopSoFar(messages, looked, old, new, n) ==
    IF Holds(n, messages, looked, "frame") THEN new ELSE old

OrderedSoFar(run, messages, looked, old, new, n) ==
    /\ Ordered(run[n], TopSoFar(messages, looked, old, new, n))
    /\ UpTo(run[0].view.frame, run[n].view.frame)

\* By induction over the messages: the top is the old one, then the new one.
LEMMA GrowsOrdered ==
    ASSUME NEW messages \in Seq(Messages), NEW looked \in SUBSET (1..Len(messages)),
           NEW run, NEW D, NEW lossless, Grows(run, messages, looked, D, lossless),
           NEW old \in Frames, NEW new \in Frames, Ordered(run[0], old),
           \A k \in looked : messages[k].field = "frame" => messages[k].value = new /\ Before(old, new),
           \A k, l \in looked : messages[k].field = "frame" /\ messages[l].field = "frame" => k = l
    PROVE  OrderedSoFar(run, messages, looked, old, new, Len(messages))
<1>. DEFINE S == { n \in Nat : n <= Len(messages) => OrderedSoFar(run, messages, looked, old, new, n) }
            top(n) == TopSoFar(messages, looked, old, new, n)
<1>1. PICK N \in Nat : N = Len(messages)
  BY LenProperties
<1>2. 0 \in S
  <2>1. ~Holds(0, messages, looked, "frame")
    <3>1. \A k \in looked : ~(k <= 0)
      BY <1>1
    <3>. QED BY <3>1 DEF Holds
  <2>. QED BY <2>1 DEF OrderedSoFar, TopSoFar, UpTo
<1>3. ASSUME NEW n \in Nat, n \in S
      PROVE  n + 1 \in S
  <2>. SUFFICES ASSUME n + 1 <= N
                PROVE  OrderedSoFar(run, messages, looked, old, new, n + 1)
    BY <1>1
  <2>1. /\ n + 1 \in 0..N /\ n + 1 # 0 /\ (n + 1) - 1 = n /\ n \in 0..N /\ n <= N
        /\ n + 1 \in 1..N /\ 0 \in 0..N
    OBVIOUS
  <2>2. Ordered(run[n], top(n)) /\ UpTo(run[0].view.frame, run[n].view.frame)
    BY <1>1, <1>3, <2>1 DEF OrderedSoFar
  <2>3. /\ run[n] \in Pipes /\ run[n + 1] \in Pipes /\ run[0] \in Pipes
        /\ n + 1 \notin looked => run[n + 1] = run[n]
        /\ n + 1 \in looked => run[n + 1] = run[n] \/ Adds(run[n], run[n + 1], messages[n + 1])
    BY <1>1, <2>1 DEF Grows
  <2>4. messages[n + 1] \in Messages
    BY <1>1, <2>1, ElementOfSeq
  <2>5. \A k \in looked : k \in Nat /\ (k <= n + 1 <=> k <= n \/ k = n + 1) /\ (k = n + 1 => ~(k <= n))
    BY <1>1
  <2>6. top(n) \in Frames /\ top(n + 1) \in Frames
    BY DEF TopSoFar
  <2>7. CASE run[n + 1] = run[n]
    <3>1. UpTo(top(n), top(n + 1))
      BY <2>5 DEF TopSoFar, Holds, UpTo
    <3>2. Ordered(run[n], top(n + 1))
      BY <2>2, <2>3, <2>6, <3>1, RaisedTop
    <3>. QED BY <2>2, <2>7, <3>2 DEF OrderedSoFar
  <2>8. CASE n + 1 \in looked /\ Adds(run[n], run[n + 1], messages[n + 1])
    <3>. DEFINE m == messages[n + 1]
    <3>0. SUFFICES /\ m.field = "frame" => Before(top(n), m.value)
                   /\ top(n + 1) = IF m.field = "frame" THEN m.value ELSE top(n)
      <4>. HIDE DEF top, m
      <4>. SUFFICES ASSUME m.field = "frame" => Before(top(n), m.value),
                           top(n + 1) = IF m.field = "frame" THEN m.value ELSE top(n)
                    PROVE  OrderedSoFar(run, messages, looked, old, new, n + 1)
        OBVIOUS
      <4>1. m \in Messages /\ Adds(run[n], run[n + 1], m)
        BY <2>4, <2>8 DEF m
      <4>2. /\ Ordered(run[n + 1], IF m.field = "frame" THEN m.value ELSE top(n))
            /\ UpTo(run[n].view.frame, run[n + 1].view.frame)
        BY <2>2, <2>3, <2>6, <4>1, AddsOrdered
      <4>3. Ordered(run[n + 1], top(n + 1))
        BY <4>2
      <4>4. \A i \in {0, n, n + 1} : run[i].view.frame \in Frames
        BY <2>3 DEF Pipes, Views
      <4>5. UpTo(run[0].view.frame, run[n + 1].view.frame)
        BY <2>2, <4>2, <4>4, Orders
      <4>. QED BY <4>3, <4>5 DEF OrderedSoFar, top
    <3>1. CASE m.field = "frame"
      <4>1. ~Holds(n, messages, looked, "frame")
        BY <2>5, <2>8, <3>1 DEF Holds
      <4>2. Holds(n + 1, messages, looked, "frame")
        BY <2>5, <2>8, <3>1 DEF Holds
      <4>3. top(n) = old /\ top(n + 1) = new /\ m.value = new /\ Before(old, new)
        BY <2>8, <3>1, <4>1, <4>2 DEF TopSoFar
      <4>. QED BY <3>1, <4>3
    <3>2. CASE m.field # "frame"
      <4>1. top(n + 1) = top(n)
        BY <2>5, <2>8, <3>2 DEF TopSoFar, Holds
      <4>. QED BY <3>2, <4>1
    <3>. QED BY <3>1, <3>2
  <2>. QED BY <2>3, <2>7, <2>8
<1>. HIDE DEF S
<1>4. \A n \in Nat : n \in S
  BY <1>2, <1>3, Induct
<1>. QED BY <1>1, <1>4 DEF S

(************************** The settings and timers *************************)

\* The delays are numbers; if the settings promise anything, there is only one.
LEMMA DelaysTyped ==
    ASSUME chaos \in Configs
    PROVE  delays \in SUBSET Nat
<1>1. /\ chaos.latency \in Nat /\ chaos.reorderWindow \in Nat
      /\ chaos.wsDelays \in SUBSET Nat
  BY PushAssumption DEF PushAssumption
<1>2. (IF chaos.reorderWindow > 0 THEN chaos.reorderWindow - 1 ELSE 0) \in Nat
  BY <1>1
<1>3. ASSUME NEW jitter \in 0..(IF chaos.reorderWindow > 0 THEN chaos.reorderWindow - 1 ELSE 0),
             NEW wsDelay \in chaos.wsDelays
      PROVE  chaos.latency + jitter + wsDelay \in Nat
  BY <1>1, <1>2
<1>. QED BY <1>3 DEF delays

\* Without a reorder window and with one realism delay, everything takes equally long.
LEMMA OneDelay ==
    ASSUME chaos \in Configs, Promise(chaos) # "nothing"
    PROVE  \A d, e \in delays : d = e
<1>1. /\ chaos.latency \in Nat /\ chaos.reorderWindow \in Nat
      /\ chaos.wsDelays \in SUBSET Nat /\ IsFiniteSet(chaos.wsDelays)
  BY PushAssumption DEF PushAssumption
<1>2. ~(chaos.reorderWindow > 0) /\ ~(Cardinality(chaos.wsDelays) > 1)
  BY DEF Promise
<1>3. ASSUME NEW a \in chaos.wsDelays, NEW b \in chaos.wsDelays, a # b
      PROVE  FALSE
  <2>1. /\ IsFiniteSet(chaos.wsDelays \ {a}) /\ b \in chaos.wsDelays \ {a}
        /\ Cardinality(chaos.wsDelays \ {a}) = Cardinality(chaos.wsDelays) - 1
    BY <1>1, <1>3, FS_RemoveElement
  <2>2. Cardinality(chaos.wsDelays \ {a}) \in Nat /\ Cardinality(chaos.wsDelays \ {a}) # 0
    BY <2>1, FS_EmptySet, FS_CardinalityType
  <2>3. Cardinality(chaos.wsDelays) \in Nat
    BY <1>1, FS_CardinalityType
  <2>. QED BY <1>2, <2>1, <2>2, <2>3
<1>4. \A d \in delays : \E wsDelay \in chaos.wsDelays : d = chaos.latency + 0 + wsDelay
  <2>1. 0..(IF chaos.reorderWindow > 0 THEN chaos.reorderWindow - 1 ELSE 0) = {0}
    BY <1>2
  <2>. QED BY <2>1 DEF delays
<1>. QED BY <1>3, <1>4

\* Taking the first message off a line.
LEMMA FirstRemoved ==
    ASSUME NEW S, NEW s \in Seq(S), NEW n \in Nat, Len(s) = n + 1
    PROVE  /\ RemoveAt(s, 1) \in Seq(S) /\ Len(RemoveAt(s, 1)) = n
           /\ \A k \in 1..n : RemoveAt(s, 1)[k] = s[k + 1]
<1>. DEFINE left == SubSeq(s, 1, 1 - 1)
            right == SubSeq(s, 1 + 1, Len(s))
<1>1. \A i \in 1..(n + 1) : s[i] \in S
  BY ElementOfSeq
<1>2. left \in Seq(S) /\ Len(left) = 0
  <2>1. \A i \in 1..(1 - 1) : s[i] \in S
    OBVIOUS
  <2>. QED BY <2>1, SubSeqProperties
<1>3. /\ right \in Seq(S) /\ Len(right) = n
      /\ \A k \in 1..n : right[k] = s[k + 1]
  <2>1. \A i \in 2..(n + 1) : s[i] \in S
    BY <1>1
  <2>2. /\ SubSeq(s, 2, n + 1) \in Seq(S)
        /\ Len(SubSeq(s, 2, n + 1)) = IF 2 <= n + 1 THEN (n + 1) - 2 + 1 ELSE 0
        /\ \A k \in 1..((n + 1) - 2 + 1) : SubSeq(s, 2, n + 1)[k] = s[2 + k - 1]
    BY <2>1, SubSeqProperties
  <2>3. right = SubSeq(s, 2, n + 1)
    OBVIOUS
  <2>4. (IF 2 <= n + 1 THEN (n + 1) - 2 + 1 ELSE 0) = n /\ (n + 1) - 2 + 1 = n
    OBVIOUS
  <2>5. \A k \in 1..n : 2 + k - 1 = k + 1
    OBVIOUS
  <2>. HIDE DEF right
  <2>. QED BY <2>2, <2>3, <2>4, <2>5
<1>4. RemoveAt(s, 1) = left \o right
  BY DEF RemoveAt
<1>. HIDE DEF left, right
<1>5. /\ left \o right \in Seq(S) /\ Len(left \o right) = 0 + n
      /\ \A i \in 1..(0 + n) : (left \o right)[i] = IF i <= 0 THEN left[i] ELSE right[i - 0]
  BY <1>2, <1>3, ConcatProperties
<1>6. ASSUME NEW k \in 1..n
      PROVE  (left \o right)[k] = s[k + 1]
  <2>1. k \in 1..(0 + n) /\ ~(k <= 0) /\ k - 0 = k
    OBVIOUS
  <2>2. (left \o right)[k] = right[k]
    BY <1>5, <2>1
  <2>. QED BY <1>3, <2>2
<1>7. 0 + n = n
  OBVIOUS
<1>8. left \o right \in Seq(S) /\ Len(left \o right) = n
  BY <1>2, <1>3, <1>5, <1>7
<1>. QED BY <1>4, <1>6, <1>8

\* The first message under way arrives.
Arrives(p, q) ==
    /\ p.line # <<>>
    /\ q.line = RemoveAt(p.line, 1) /\ q.view = Seen(p.view, p.line[1].message)

Arrived(p, q) ==
    /\ q \in Pipes /\ Len(q.line) <= Len(p.line)
    /\ \A D : Flows(p, D) => Flows(q, D)
    /\ \A f \in Fields : \A v : Ends(p, f, v) => Ends(q, f, v)
    /\ \A top : Ordered(p, top) =>
         Ordered(q, top) /\ UpTo(p.view.frame, q.view.frame)

\* The rest of the line stays as it is, and what was last in it still is.
LEMMA FirstArrives ==
    ASSUME NEW p \in Pipes, NEW q, q = [line |-> q.line, view |-> q.view], Arrives(p, q)
    PROVE  Arrived(p, q)
<1>1. p.line \in Seq(Entries) /\ p.view \in Views /\ p.line # <<>>
  BY DEF Pipes, Arrives
<1>2. PICK n \in Nat : Len(p.line) = n + 1
  <2>1. Len(p.line) \in Nat /\ Len(p.line) # 0
    BY <1>1, LenProperties, EmptySeq
  <2>2. Len(p.line) - 1 \in Nat /\ Len(p.line) = (Len(p.line) - 1) + 1
    BY <2>1
  <2>. QED BY <2>2
<1>3. /\ q.line \in Seq(Entries) /\ Len(q.line) = n
      /\ \A k \in 1..n : q.line[k] = p.line[k + 1]
  BY <1>1, <1>2, FirstRemoved DEF Arrives
<1>. DEFINE m == p.line[1].message
<1>4. /\ 1 \in 1..(n + 1) /\ \A k \in 1..n : k + 1 \in 1..(n + 1) /\ k + 1 # 1 /\ k + 1 > 1 /\ 1 < k + 1
      /\ \A k \in 1..(n + 1) : k # 1 => k - 1 \in 1..n /\ (k - 1) + 1 = k
      /\ \A k, j \in 1..n : (j > k <=> j + 1 > k + 1) /\ (k < j <=> k + 1 < j + 1)
  OBVIOUS
<1>5. m \in Messages
  <2>1. p.line[1] \in Entries
    BY <1>1, <1>2, <1>4, ElementOfSeq
  <2>. QED BY <2>1 DEF Entries
<1>6. /\ q.view \in Views /\ m.field \in Fields /\ q.view[m.field] = m.value
      /\ \A f \in Fields : f # m.field => q.view[f] = p.view[f]
  <2>1. q.view = Seen(p.view, m)
    BY DEF Arrives
  <2>. HIDE DEF m
  <2>. QED BY <1>1, <1>5, <2>1, SeenTyped
<1>. HIDE DEF m
<1>7. q \in Pipes /\ Len(q.line) <= Len(p.line)
  BY <1>2, <1>3, <1>6 DEF Pipes
<1>8. ASSUME NEW D, Flows(p, D)
      PROVE  Flows(q, D)
  BY <1>2, <1>3, <1>4, <1>8 DEF Flows
<1>9. ASSUME NEW f \in Fields, NEW v, Ends(p, f, v)
      PROVE  Ends(q, f, v)
  <2>1. CASE \E k \in 1..(n + 1) : /\ p.line[k].message.field = f /\ p.line[k].message.value = v
                                   /\ \A j \in 1..(n + 1) : j > k => p.line[j].message.field # f
    <3>1. PICK k \in 1..(n + 1) : /\ p.line[k].message.field = f /\ p.line[k].message.value = v
                                  /\ \A j \in 1..(n + 1) : j > k => p.line[j].message.field # f
      BY <2>1
    <3>2. CASE k = 1
      <4>1. ASSUME NEW j \in 1..n PROVE q.line[j].message.field # f
        <5>1. j + 1 \in 1..(n + 1) /\ j + 1 > k /\ q.line[j] = p.line[j + 1]
          BY <1>3, <1>4, <3>2
        <5>. QED BY <3>1, <5>1
      <4>2. q.view[f] = v
        BY <1>6, <3>1, <3>2 DEF m
      <4>. QED BY <1>3, <4>1, <4>2 DEF Ends
    <3>3. CASE k # 1
      <4>1. k - 1 \in 1..n /\ q.line[k - 1] = p.line[k]
        BY <1>3, <1>4, <3>3
      <4>2. \A j \in 1..n : j > k - 1 => q.line[j].message.field # f
        <5>. SUFFICES ASSUME NEW j \in 1..n, j > k - 1
                      PROVE  q.line[j].message.field # f
          OBVIOUS
        <5>1. j + 1 \in 1..(n + 1) /\ j + 1 > k /\ q.line[j] = p.line[j + 1]
          BY <1>3, <1>4
        <5>. QED BY <3>1, <5>1
      <4>. QED BY <1>3, <3>1, <4>1, <4>2 DEF Ends
    <3>. QED BY <3>2, <3>3
  <2>2. CASE p.view[f] = v /\ \A k \in 1..(n + 1) : p.line[k].message.field # f
    <3>1. m.field # f
      BY <1>4, <2>2 DEF m
    <3>2. ASSUME NEW j \in 1..n PROVE q.line[j].message.field # f
      <4>1. j + 1 \in 1..(n + 1) /\ q.line[j] = p.line[j + 1]
        BY <1>3, <1>4
      <4>. QED BY <2>2, <4>1
    <3>. QED BY <1>3, <1>6, <2>2, <3>1, <3>2 DEF Ends
  <2>. QED BY <1>2, <1>9, <2>1, <2>2 DEF Ends
<1>10. ASSUME NEW top, Ordered(p, top)
       PROVE  Ordered(q, top) /\ UpTo(p.view.frame, q.view.frame)
  <2>1. /\ UpTo(p.view.frame, top)
        /\ \A i \in 1..(n + 1) : p.line[i].message.field = "frame" =>
             /\ Before(p.view.frame, p.line[i].message.value)
             /\ UpTo(p.line[i].message.value, top)
             /\ \A j \in 1..(n + 1) : i < j /\ p.line[j].message.field = "frame" =>
                  Before(p.line[i].message.value, p.line[j].message.value)
    BY <1>2, <1>10 DEF Ordered
  <2>2. q.view.frame = IF m.field = "frame" THEN m.value ELSE p.view.frame
    BY <1>6 DEF Fields
  <2>3. UpTo(q.view.frame, top) /\ UpTo(p.view.frame, q.view.frame)
    BY <1>4, <2>1, <2>2 DEF UpTo, m
  <2>4. \A i \in 1..n : q.line[i].message.field = "frame" =>
             Before(q.view.frame, q.line[i].message.value)
    BY <1>3, <1>4, <2>1, <2>2 DEF m
  <2>5. \A i \in 1..n : q.line[i].message.field = "frame" =>
             UpTo(q.line[i].message.value, top)
    BY <1>3, <1>4, <2>1
  <2>6. ASSUME NEW i \in 1..n, NEW j \in 1..n, q.line[i].message.field = "frame",
               i < j, q.line[j].message.field = "frame"
        PROVE  Before(q.line[i].message.value, q.line[j].message.value)
    <3>1. /\ i + 1 \in 1..(n + 1) /\ j + 1 \in 1..(n + 1) /\ i + 1 < j + 1
          /\ q.line[i] = p.line[i + 1] /\ q.line[j] = p.line[j + 1]
      BY <1>3, <1>4, <2>6
    <3>. QED BY <2>1, <2>6, <3>1
  <2>. QED BY <1>3, <2>3, <2>4, <2>5, <2>6 DEF Ordered
<1>. QED BY <1>7, <1>8, <1>9, <1>10 DEF Arrived

(******************************* The invariant ******************************)

Streams == [epoch : Nat, patchIndex : Nat, frameId : 0..MaxFrames,
            current : {NoPatch} \union 0..(Patches - 1)]
Top == << stream.epoch, stream.frameId >>

PushTypes ==
    /\ robot \in [session : Statuses, task : TaskStatus]
    /\ stream \in Streams
    /\ chaos \in Configs
    /\ tickets \in [Tickets -> {"unissued", "issued", "gone"}]
    /\ sockets \in [Sockets -> {"open", "closed"}]
    /\ subscribed \in [Sockets -> BOOLEAN]
    /\ promised \in [Sockets -> {"nothing", "order", "everything"}]
    /\ untold \in SUBSET Sockets
    /\ closed \in BOOLEAN
    /\ line \in [Sockets -> Seq(Entries)]
    /\ view \in [Sockets -> Views]
    /\ \A s \in Sockets : Len(line[s]) <= MaxLine

\* What a client is promised is what the settings allow; to a client that is promised nothing
\* nothing is under way, and to all others everything takes equally long.
PushFlows ==
    /\ \A s \in Sockets :
         /\ promised[s] \in {"nothing", Promise(chaos)}
         /\ sockets[s] = "closed" \/ promised[s] = "nothing" =>
              line[s] = <<>> /\ view[s] = NothingSeen
         /\ Flows(Pipe(s), delays)
    /\ closed => \A s \in Sockets : sockets[s] = "closed"

\* What is under way keeps the frames in their order, up to the last one that was made.
PushOrder == \A s \in Sockets : Ordered(Pipe(s), Top)

\* Once everything under way has arrived, a client will know the status of the record, or
\* that there is none that runs.
Knows(p, task) ==
    \/ task = Null
    \/ Ends(p, "task", task)
    \/ Ends(p, "task", Unseen) /\ task \notin {"ON_THE_WAY", "PAUSE"}

\* It will know where the session stands, and of the record what it was told.
Current(s) ==
    /\ Ends(Pipe(s), "status", robot.session)
    /\ s \notin untold => Knows(Pipe(s), robot.task)

PushCurrent ==
    watched = {"status", "task"} =>
        \A s \in Sockets : sockets[s] = "open" /\ promised[s] = "everything" => Current(s)

PushInv == PushTypes /\ PushFlows /\ PushOrder /\ PushCurrent

\* What a step shows a client of the frames only goes up, while it is connected.
PushRises ==
    \A s \in Sockets : sockets'[s] = "open" /\ promised'[s] # "nothing" =>
        UpTo(view[s].frame, view'[s].frame)

(********************************** Sending *********************************)

Looked(messages) == { i \in DOMAIN messages : messages[i].field \in watched }

\* What Send does to a client: nothing, or its line grows.
Sent(s, receivers, messages) ==
    IF s \in receivers /\ sockets'[s] = "open" /\ promised'[s] \in Worth
    THEN \E run : /\ run[0] = Pipe(s) /\ run[Len(messages)] = Pipe(s)'
                  /\ Grows(run, messages, Looked(messages), delays, promised'[s] = "everything")
    ELSE Pipe(s)' = Pipe(s)

\* A pipe is what is under way and what is seen.
LEMMA PipesTyped ==
    ASSUME line \in [Sockets -> Seq(Entries)], view \in [Sockets -> Views]
    PROVE  \A s \in Sockets : Pipe(s) \in Pipes
BY DEF Pipe, Pipes

\* Send makes the lines grow with the messages, whatever their fates are.
LEMMA SendMoves ==
    ASSUME PushTypes, PushFlows,
           NEW receivers \in SUBSET Sockets, NEW messages \in Seq(Messages),
           \A s \in Sockets : promised'[s] \in {"nothing", Promise(chaos)},
           Send(receivers, messages)
    PROVE  /\ line' \in [Sockets -> Seq(Entries)] /\ view' \in [Sockets -> Views]
           /\ \A s \in Sockets : Len(line'[s]) <= MaxLine
           /\ \A s \in Sockets : Sent(s, receivers, messages)
<1>. DEFINE open == { s \in receivers : sockets'[s] = "open" /\ promised'[s] \in Worth }
            looked == Looked(messages)
<1>1. PICK fates \in [open -> [looked -> Fates]] :
        LET sent == [s \in open |-> sendAll(Pipe(s), messages, fates[s])]
        IN  /\ \A s \in open : Len(sent[s].line) <= MaxLine
            /\ line' = [s \in Sockets |-> IF s \in open THEN sent[s].line ELSE line[s]]
            /\ view' = [s \in Sockets |-> IF s \in open THEN sent[s].view ELSE view[s]]
  BY DEF Send, Pipe, Looked
<1>2. /\ line \in [Sockets -> Seq(Entries)] /\ view \in [Sockets -> Views] /\ chaos \in Configs
      /\ \A s \in Sockets : Len(line[s]) <= MaxLine
  BY DEF PushTypes
<1>3. \A s \in Sockets : Pipe(s) \in Pipes /\ Flows(Pipe(s), delays)
  BY <1>2, PipesTyped DEF PushFlows
<1>4. looked \in SUBSET (1..Len(messages)) /\ Len(messages) \in Nat
  <2>1. DOMAIN messages = 1..Len(messages)
    BY LenProperties
  <2>. QED BY <2>1, LenProperties DEF Looked
<1>5. delays \in SUBSET Nat
  BY <1>2, DelaysTyped
<1>. HIDE DEF looked
<1>6. ASSUME NEW s \in open
      PROVE  /\ Sent(s, receivers, messages)
             /\ line'[s] \in Seq(Entries) /\ view'[s] \in Views /\ Len(line'[s]) <= MaxLine
  <2>. DEFINE run == SendingRun(Pipe(s), messages, fates[s])
              q == sendAll(Pipe(s), messages, fates[s])
              lossless == promised'[s] = "everything"
  <2>1. s \in Sockets /\ promised'[s] = Promise(chaos) /\ Promise(chaos) # "nothing"
    BY DEF Worth
  <2>2. \A d, e \in delays : d = e
    BY <1>2, <2>1, OneDelay
  <2>3. fates[s] \in [looked -> delays \union (IF lossless THEN {} ELSE {Dropped})]
    <3>1. lossless => ~chaos.drops
      BY <2>1 DEF Promise
    <3>2. Fates \subseteq delays \union (IF lossless THEN {} ELSE {Dropped})
      BY <3>1 DEF Fates
    <3>. QED BY <3>2, <1>1
  <2>4. Grows(run, messages, looked, delays, lossless)
    <3>1. Pipe(s) \in Pipes /\ Flows(Pipe(s), delays) /\ lossless \in BOOLEAN
      BY <1>3, <2>1
    <3>. HIDE DEF lossless
    <3>. QED BY <1>4, <1>5, <2>2, <2>3, <3>1, RunGrows
  <2>5. run[0] = Pipe(s) /\ run[Len(messages)] = q
    BY <1>4, RunSteps
  <2>6. q \in Pipes
    <3>1. Len(messages) \in 0..Len(messages)
      BY <1>4
    <3>. HIDE DEF run, q, lossless
    <3>. QED BY <2>4, <2>5, <3>1 DEF Grows
  <2>7. line'[s] = q.line /\ view'[s] = q.view /\ Len(q.line) <= MaxLine
    <3>. HIDE DEF run
    <3>. QED BY <1>1, <2>1
  <2>. HIDE DEF q, run, lossless
  <2>8. Pipe(s)' = q
    <3>1. Pipe(s)' = [line |-> line'[s], view |-> view'[s]]
      BY DEF Pipe
    <3>2. q = [line |-> q.line, view |-> q.view]
      BY <2>6 DEF Pipes
    <3>. QED BY <2>7, <3>1, <3>2
  <2>9. Grows(run, messages, Looked(messages), delays, promised'[s] = "everything")
    BY <2>4 DEF looked, lossless
  <2>10. Sent(s, receivers, messages)
    BY <2>5, <2>8, <2>9 DEF Sent
  <2>. QED BY <2>6, <2>7, <2>10 DEF Pipes
<1>7. ASSUME NEW s \in Sockets, s \notin open
      PROVE  Sent(s, receivers, messages) /\ line'[s] = line[s] /\ view'[s] = view[s]
  <2>1. line'[s] = line[s] /\ view'[s] = view[s]
    BY <1>1, <1>7
  <2>2. Pipe(s)' = Pipe(s)
    BY <2>1 DEF Pipe
  <2>. QED BY <1>7, <2>1, <2>2 DEF Sent
<1>8. DOMAIN line' = Sockets /\ DOMAIN view' = Sockets
      /\ line' = [s \in Sockets |-> line'[s]] /\ view' = [s \in Sockets |-> view'[s]]
  BY <1>1
<1>9. \A s \in Sockets : line'[s] \in Seq(Entries) /\ view'[s] \in Views /\ Len(line'[s]) <= MaxLine
  BY <1>2, <1>6, <1>7
<1>. QED BY <1>6, <1>7, <1>8, <1>9

\* What Send does to the lines keeps their flow and the order of the frames, if there is one
\* frame at most, newer than all before.
LEMMA SendKeeps ==
    ASSUME PushTypes, PushFlows, PushOrder,
           NEW receivers \in SUBSET Sockets, NEW messages \in Seq(Messages),
           \A s \in Sockets : Sent(s, receivers, messages),
           chaos' = chaos, stream' \in Streams, UpTo(Top, Top'),
           \A k \in Looked(messages) : messages[k].field = "frame" =>
             messages[k].value = Top' /\ Before(Top, Top'),
           \A k, l \in Looked(messages) :
             messages[k].field = "frame" /\ messages[l].field = "frame" => k = l,
           \A s \in Sockets : promised'[s] \in {"nothing", Promise(chaos)},
           \A s \in Sockets : sockets'[s] = "closed" \/ promised'[s] = "nothing" =>
             line[s] = <<>> /\ view[s] = NothingSeen,
           closed' => \A s \in Sockets : sockets'[s] = "closed"
    PROVE  PushFlows' /\ PushOrder' /\ PushRises
<1>1. delays' = delays /\ Promise(chaos)' = Promise(chaos)
  BY DEF delays, Promise
<1>2. Top \in Frames /\ Top' \in Frames
  <2>1. stream \in Streams
    BY DEF PushTypes
  <2>. QED BY <2>1 DEF Streams, Top, Frames
<1>3. Looked(messages) \in SUBSET (1..Len(messages)) /\ Len(messages) \in Nat
  <2>1. DOMAIN messages = 1..Len(messages)
    BY LenProperties
  <2>. QED BY <2>1, LenProperties DEF Looked
<1>4. \A s \in Sockets : Pipe(s) \in Pipes /\ Flows(Pipe(s), delays) /\ Ordered(Pipe(s), Top)
  BY PipesTyped DEF PushTypes, PushFlows, PushOrder
<1>5. ASSUME NEW s \in Sockets
      PROVE  /\ Flows(Pipe(s)', delays) /\ Ordered(Pipe(s)', Top')
             /\ UpTo(Pipe(s).view.frame, Pipe(s)'.view.frame)
             /\ sockets'[s] = "closed" \/ promised'[s] = "nothing" => Pipe(s)' = Pipe(s)
  <2>1. CASE s \in receivers /\ sockets'[s] = "open" /\ promised'[s] \in Worth
    <3>1. PICK run :
            /\ run[0] = Pipe(s) /\ run[Len(messages)] = Pipe(s)'
            /\ Grows(run, messages, Looked(messages), delays, promised'[s] = "everything")
      BY <2>1 DEF Sent
    <3>2. OrderedSoFar(run, messages, Looked(messages), Top, Top', Len(messages))
      <4>. DEFINE lossless == promised'[s] = "everything"
                  looked == Looked(messages)
                  new == Top'
      <4>1. Grows(run, messages, looked, delays, lossless) /\ Ordered(run[0], Top)
        BY <1>4, <3>1
      <4>2. looked \in SUBSET (1..Len(messages)) /\ new \in Frames
        BY <1>2, <1>3
      <4>3. /\ \A k \in looked : messages[k].field = "frame" => messages[k].value = new /\ Before(Top, new)
            /\ \A k, l \in looked : messages[k].field = "frame" /\ messages[l].field = "frame" => k = l
        OBVIOUS
      <4>. HIDE DEF lossless, looked, new
      <4>4. OrderedSoFar(run, messages, looked, Top, new, Len(messages))
        BY <1>2, <4>1, <4>2, <4>3, GrowsOrdered
      <4>. QED BY <4>4 DEF looked, new
    <3>3. /\ Ordered(Pipe(s)', TopSoFar(messages, Looked(messages), Top, Top', Len(messages)))
          /\ UpTo(Pipe(s).view.frame, Pipe(s)'.view.frame)
      BY <3>1, <3>2 DEF OrderedSoFar
    <3>4. Pipe(s)' \in Pipes /\ Flows(Pipe(s)', delays)
      <4>1. Len(messages) \in 0..Len(messages)
        BY <1>3
      <4>. QED BY <3>1, <4>1 DEF Grows
    <3>5. Ordered(Pipe(s)', Top')
      <4>1. TopSoFar(messages, Looked(messages), Top, Top', Len(messages)) \in {Top, Top'}
        BY DEF TopSoFar
      <4>2. Ordered(Pipe(s)', Top) \/ Ordered(Pipe(s)', Top')
        BY <3>3, <4>1
      <4>. QED BY <1>2, <3>4, <4>2, RaisedTop
    <3>6. ~(sockets'[s] = "closed" \/ promised'[s] = "nothing")
      BY <2>1 DEF Worth
    <3>. QED BY <3>3, <3>4, <3>5, <3>6
  <2>2. CASE ~(s \in receivers /\ sockets'[s] = "open" /\ promised'[s] \in Worth)
    <3>1. Pipe(s)' = Pipe(s)
      BY <2>2 DEF Sent
    <3>2. Ordered(Pipe(s), Top')
      BY <1>2, <1>4, RaisedTop
    <3>. QED BY <1>4, <3>1, <3>2 DEF UpTo
  <2>. QED BY <2>1, <2>2
<1>6. PushFlows'
  <2>1. ASSUME NEW s \in Sockets, sockets'[s] = "closed" \/ promised'[s] = "nothing"
        PROVE  line'[s] = <<>> /\ view'[s] = NothingSeen
    <3>1. line'[s] = line[s] /\ view'[s] = view[s]
      BY <1>5, <2>1 DEF Pipe
    <3>. QED BY <2>1, <3>1
  <2>. QED BY <1>1, <1>5, <2>1 DEF PushFlows
<1>7. PushOrder'
  BY <1>5 DEF PushOrder
<1>8. PushRises
  BY <1>5 DEF PushRises, Pipe
<1>. QED BY <1>6, <1>7, <1>8

\* A client that gets everything is told what the messages say, or keeps what it had.
Told(s, messages, f, v) ==
    IF \E k \in Looked(messages) : messages[k].field = f THEN Ends(Pipe(s)', f, v)
    ELSE \A w : Ends(Pipe(s), f, w) => Ends(Pipe(s)', f, w)

Answers(s, receivers, messages, f, v) ==
    IF s \in receivers THEN Told(s, messages, f, v) ELSE Pipe(s)' = Pipe(s)

\* Every client that is followed and gets everything is told so.
LEMMA SendTells ==
    ASSUME NEW receivers \in SUBSET Sockets, NEW messages \in Seq(Messages),
           NEW s \in Sockets, Sent(s, receivers, messages),
           sockets'[s] = "open", promised'[s] = "everything", NEW f \in Fields, NEW v,
           \A k \in Looked(messages) : messages[k].field = f => messages[k].value = v
    PROVE  Answers(s, receivers, messages, f, v)
<1>1. CASE s \notin receivers
  BY <1>1 DEF Sent, Answers
<1>2. CASE s \in receivers
  <2>1. PICK run : /\ run[0] = Pipe(s) /\ run[Len(messages)] = Pipe(s)'
                   /\ Grows(run, messages, Looked(messages), delays, promised'[s] = "everything")
    BY <1>2 DEF Sent, Worth
  <2>2. Grows(run, messages, Looked(messages), delays, TRUE)
    BY <2>1 DEF Grows
  <2>3. /\ Looked(messages) \in SUBSET (1..Len(messages))
        /\ \A k \in Looked(messages) : k <= Len(messages)
    <3>1. DOMAIN messages = 1..Len(messages) /\ Len(messages) \in Nat
      BY LenProperties
    <3>. QED BY <3>1 DEF Looked
  <2>4. EndsSoFar(run, messages, Looked(messages), f, v, Len(messages))
    BY <2>2, <2>3, GrowsEnds
  <2>5. Holds(Len(messages), messages, Looked(messages), f)
          <=> \E k \in Looked(messages) : messages[k].field = f
    BY <2>3 DEF Holds
  <2>. QED BY <1>2, <2>1, <2>4, <2>5 DEF EndsSoFar, Told, Answers
<1>. QED BY <1>1, <1>2

(********************************* Messages *********************************)

\* Messages that tell where the robot stands.
Reports(messages, r, top) ==
    /\ messages \in Seq(Messages)
    /\ \A k \in DOMAIN messages :
         /\ messages[k].field = "status" => messages[k].value = r.session
         /\ messages[k].field = "task"   => messages[k].value = r.task
         /\ messages[k].field = "frame"  => messages[k].value = top
    /\ \A k, l \in DOMAIN messages :
         messages[k].field = "frame" /\ messages[l].field = "frame" => k = l
    /\ \E k \in DOMAIN messages : messages[k].field = "status"

Speaks(messages, f) == \E k \in DOMAIN messages : messages[k].field = f

Robots == [session : Statuses, task : TaskStatus]

\* One message, or two.
LEMMA OneOrTwo ==
    ASSUME NEW a \in Messages, NEW b \in Messages
    PROVE  /\ <<a>> \o <<>> = <<a>> /\ <<a>> \o <<b>> = <<a, b>>
           /\ <<a, b>> \o <<>> = <<a, b>>
           /\ <<a>> \in Seq(Messages) /\ DOMAIN <<a>> = {1} /\ <<a>>[1] = a
           /\ <<a, b>> \in Seq(Messages) /\ DOMAIN <<a, b>> = {1, 2}
           /\ <<a, b>>[1] = a /\ <<a, b>>[2] = b
<1>1. /\ <<a>> \in Seq(Messages) /\ Len(<<a>>) = 1 /\ <<a>>[1] = a /\ DOMAIN <<a>> = {1}
      /\ <<b>> \in Seq(Messages) /\ Len(<<b>>) = 1 /\ <<b>>[1] = b
  OBVIOUS
<1>2. /\ <<a, b>> \in Seq(Messages) /\ Len(<<a, b>>) = 2
      /\ <<a, b>>[1] = a /\ <<a, b>>[2] = b
  OBVIOUS
<1>3. DOMAIN <<a, b>> = {1, 2}
  OBVIOUS
<1>4. <<a>> \o <<b>> = <<a, b>>
  <2>. DEFINE s == <<a>>
              t == <<b>>
              u == <<a, b>>
  <2>1. s \in Seq(Messages) /\ Len(s) = 1 /\ t \in Seq(Messages) /\ Len(t) = 1
        /\ u \in Seq(Messages) /\ Len(u) = 2
    BY <1>1, <1>2
  <2>2. s[1] = a /\ t[1] = b /\ u[1] = a /\ u[2] = b
    BY <1>1, <1>2
  <2>. HIDE DEF s, t, u
  <2>3. /\ s \o t \in Seq(Messages) /\ Len(s \o t) = 2
        /\ \A i \in 1..2 : (s \o t)[i] = IF i <= 1 THEN s[i] ELSE t[i - 1]
    <3>1. /\ s \o t \in Seq(Messages) /\ Len(s \o t) = Len(s) + Len(t)
          /\ \A i \in 1..Len(s) + Len(t) :
               (s \o t)[i] = IF i <= Len(s) THEN s[i] ELSE t[i - Len(s)]
      BY <2>1, ConcatProperties
    <3>2. Len(s) + Len(t) = 2
      BY <2>1
    <3>. QED BY <2>1, <3>1, <3>2
  <2>4. \A i \in 1..2 : i = 1 \/ i = 2
    OBVIOUS
  <2>5. \A i \in 1..2 : (s \o t)[i] = u[i]
    BY <2>2, <2>3, <2>4
  <2>6. s \o t = u
    BY <2>1, <2>3, <2>5, SeqEqual
  <2>. QED BY <2>6 DEF s, t, u
<1>5. <<a>> \o <<>> = <<a>> /\ <<a, b>> \o <<>> = <<a, b>>
  BY <1>1, <1>2, ConcatEmptySeq
<1>. QED BY <1>1, <1>2, <1>3, <1>4, <1>5

\* A change is reported by the status, and by the task if there is one.
LEMMA ChangeReported ==
    ASSUME NEW r \in Robots, NEW top
    PROVE  /\ Reports(changedPushes(r), r, top) /\ ~Speaks(changedPushes(r), "frame")
           /\ r.task # Null => Speaks(changedPushes(r), "task")
<1>1. /\ notifyRatelStatus(r) \in Messages
      /\ notifyRatelStatus(r).field = "status" /\ notifyRatelStatus(r).value = r.session
  BY DEF notifyRatelStatus, Message, Messages, Robots
<1>2. CASE r.task = Null
  <2>1. changedPushes(r) = << notifyRatelStatus(r) >>
    BY <1>1, <1>2, OneOrTwo DEF changedPushes
  <2>. QED BY <1>1, <1>2, <2>1, OneOrTwo DEF Reports, Speaks
<1>3. CASE r.task # Null
  <2>1. /\ mappingTaskStatus(r) \in Messages
        /\ mappingTaskStatus(r).field = "task" /\ mappingTaskStatus(r).value = r.task
    BY <1>3 DEF mappingTaskStatus, Message, Messages, Robots, TaskStatus
  <2>2. changedPushes(r) = << notifyRatelStatus(r), mappingTaskStatus(r) >>
    BY <1>1, <1>3, <2>1, OneOrTwo DEF changedPushes
  <2>. HIDE DEF notifyRatelStatus, mappingTaskStatus
  <2>. QED BY <1>1, <2>1, <2>2, OneOrTwo DEF Reports, Speaks
<1>. QED BY <1>2, <1>3

\* A frame that comes after them.
LEMMA FrameAppended ==
    ASSUME NEW r \in Robots, NEW st \in Streams
    PROVE  LET messages == Append(changedPushes(r), mapFrame(st))
           IN  /\ Reports(messages, r, << st.epoch, st.frameId >>)
               /\ r.task # Null => Speaks(messages, "task")
<1>. DEFINE top == << st.epoch, st.frameId >>
            news == changedPushes(r)
            frame == mapFrame(st)
            messages == Append(news, frame)
<1>1. /\ frame \in Messages /\ frame.field = "frame" /\ frame.value = top
  BY DEF mapFrame, Message, Messages, Streams, Frames
<1>2. Reports(news, r, top) /\ ~Speaks(news, "frame") /\ (r.task # Null => Speaks(news, "task"))
  BY ChangeReported
<1>3. PICK n \in Nat : n = Len(news) /\ news \in Seq(Messages) /\ DOMAIN news = 1..n
  BY <1>2, LenProperties DEF Reports
<1>. HIDE DEF news, frame, top
<1>4. /\ messages \in Seq(Messages) /\ Len(messages) = n + 1 /\ messages[n + 1] = frame
      /\ \A i \in 1..n : messages[i] = news[i]
  BY <1>1, <1>3, AppendProperties
<1>. HIDE DEF messages
<1>5. DOMAIN messages = 1..(n + 1)
  BY <1>4, LenProperties
<1>6. /\ \A k \in 1..(n + 1) : k \in 1..n \/ k = n + 1
      /\ \A k \in 1..n : k \in 1..(n + 1)
      /\ n + 1 \in 1..(n + 1)
  OBVIOUS
<1>7. \A k \in 1..n : /\ news[k].field = "status" => news[k].value = r.session
                      /\ news[k].field = "task"   => news[k].value = r.task
                      /\ news[k].field # "frame"
  BY <1>2, <1>3 DEF Reports, Speaks
<1>8. \A k \in 1..(n + 1) :
         /\ messages[k].field = "status" => messages[k].value = r.session
         /\ messages[k].field = "task"   => messages[k].value = r.task
         /\ messages[k].field = "frame"  => messages[k].value = top /\ k = n + 1
  BY <1>1, <1>4, <1>6, <1>7
<1>9. \A f : Speaks(news, f) => Speaks(messages, f)
  BY <1>3, <1>4, <1>5, <1>6 DEF Speaks
<1>10. Speaks(messages, "status")
  BY <1>2, <1>9 DEF Reports, Speaks
<1>11. Reports(messages, r, top)
  BY <1>4, <1>5, <1>8, <1>10 DEF Reports, Speaks
<1>. QED BY <1>2, <1>9, <1>11 DEF messages, news, frame, top

\* What a new client is sent.
LEMMA GreetingReported ==
    ASSUME NEW r \in Robots, NEW st \in Streams
    PROVE  /\ Reports(greeting(r, st), r, << st.epoch, st.frameId >>)
           /\ Speaks(greeting(r, st), "task") <=> r.task \in {"ON_THE_WAY", "PAUSE"}
<1>. DEFINE top == << st.epoch, st.frameId >>
            frame == mapFrame(st)
            status == notifyRatelStatus(r)
            task == mappingTaskStatus(r)
<1>1. /\ frame \in Messages /\ frame.field = "frame" /\ frame.value = top
  BY DEF mapFrame, Message, Messages, Streams, Frames
<1>2. /\ status \in Messages /\ status.field = "status" /\ status.value = r.session
  BY DEF notifyRatelStatus, Message, Messages, Robots
<1>3. greeting(r, st) = << frame, status >> \o
        (IF r.task \in {"ON_THE_WAY", "PAUSE"} THEN << task >> ELSE << >>)
  BY DEF greeting
<1>4. /\ task.field = "task" /\ task.value = r.task
      /\ r.task \in {"ON_THE_WAY", "PAUSE"} => task \in Messages
  BY DEF mappingTaskStatus, Message, Messages, TASK_STATUSES
<1>. HIDE DEF frame, status, task, top
<1>5. CASE r.task \notin {"ON_THE_WAY", "PAUSE"}
  <2>1. greeting(r, st) = << frame, status >>
    BY <1>1, <1>2, <1>3, <1>5, OneOrTwo
  <2>2. Reports(greeting(r, st), r, top) /\ ~Speaks(greeting(r, st), "task")
    BY <1>1, <1>2, <2>1, OneOrTwo DEF Reports, Speaks
  <2>. QED BY <1>5, <2>2 DEF top
<1>6. CASE r.task \in {"ON_THE_WAY", "PAUSE"}
  <2>. DEFINE both == << frame, status >>
  <2>1. task \in Messages
    BY <1>4, <1>6
  <2>2. /\ both \in Seq(Messages) /\ Len(both) = 2 /\ both[1] = frame /\ both[2] = status
        /\ <<task>> \in Seq(Messages)
    BY <1>1, <1>2, <2>1
  <2>. HIDE DEF both
  <2>3. greeting(r, st) = Append(both, task)
    <3>1. both \o <<task>> = Append(both, task)
      BY <2>1, <2>2, AppendIsConcat
    <3>. QED BY <1>3, <1>6, <3>1 DEF both
  <2>4. /\ Append(both, task) \in Seq(Messages) /\ Len(Append(both, task)) = 3
        /\ Append(both, task)[1] = frame /\ Append(both, task)[2] = status
        /\ Append(both, task)[3] = task
    <3>1. /\ Append(both, task) \in Seq(Messages) /\ Len(Append(both, task)) = Len(both) + 1
          /\ \A i \in 1..Len(both) : Append(both, task)[i] = both[i]
          /\ Append(both, task)[Len(both) + 1] = task
      <4>1. both \in Seq(Messages)
        BY <2>2
      <4>. QED BY <2>1, <4>1, AppendProperties
    <3>2. 1 \in 1..Len(both) /\ 2 \in 1..Len(both) /\ Len(both) + 1 = 3
      BY <2>2
    <3>. QED BY <2>2, <3>1, <3>2
  <2>. DEFINE messages == greeting(r, st)
  <2>5. /\ messages \in Seq(Messages) /\ messages[1] = frame /\ messages[2] = status
        /\ messages[3] = task /\ Len(messages) = 3
    BY <2>3, <2>4
  <2>. HIDE DEF messages
  <2>6. DOMAIN messages = {1, 2, 3}
    <3>1. DOMAIN messages = 1..3
      BY <2>5, LenProperties
    <3>. QED BY <3>1
  <2>7. Reports(messages, r, top) /\ Speaks(messages, "task")
    BY <1>1, <1>2, <1>4, <2>5, <2>6 DEF Reports, Speaks
  <2>. QED BY <1>6, <2>7 DEF top, messages
<1>. QED BY <1>5, <1>6

\* The stream goes on, if it is followed.
LEMMA StreamGoesOn ==
    ASSUME stream \in Streams, stream.frameId < MaxFrames,
           NEW st \in {nextFrame(stream), fullFrame(stream)}, stream' = Followed(st)
    PROVE  /\ stream' \in Streams /\ UpTo(Top, Top')
           /\ "frame" \in watched => Before(Top, Top')
<1>1. /\ stream.patchIndex \in Nat /\ stream.epoch \in Nat /\ stream.frameId \in 0..MaxFrames
      /\ MaxFrames \in Nat /\ Patches \in Nat \ {0}
  BY PushAssumption DEF PushAssumption, Streams
<1>2. stream.frameId + 1 \in 0..MaxFrames /\ stream.patchIndex + 1 \in Nat
  BY <1>1
<1>3. stream.patchIndex % Patches \in 0..(Patches - 1) /\ 0 \in 0..(Patches - 1)
  BY <1>1
<1>4. nextFrame(stream) = [stream EXCEPT !.patchIndex = stream.patchIndex + 1,
        !.current = stream.patchIndex % Patches, !.frameId = stream.frameId + 1]
  BY DEF nextFrame
<1>5. fullFrame(stream) = [stream EXCEPT !.current = 0, !.frameId = stream.frameId + 1]
  BY DEF fullFrame
<1>6. st \in Streams /\ st.epoch = stream.epoch /\ st.frameId = stream.frameId + 1
  <2>1. CASE st = nextFrame(stream)
    <3>. DEFINE patch == stream.patchIndex + 1
                current == stream.patchIndex % Patches
                frame == stream.frameId + 1
    <3>1. patch \in Nat /\ current \in {NoPatch} \union 0..(Patches - 1) /\ frame \in 0..MaxFrames
      BY <1>2, <1>3
    <3>2. st = [stream EXCEPT !.patchIndex = patch, !.current = current, !.frameId = frame]
      BY <1>4, <2>1
    <3>. HIDE DEF patch, current
    <3>. QED BY <3>1, <3>2 DEF Streams
  <2>2. CASE st = fullFrame(stream)
    BY <1>2, <1>3, <1>5, <2>2 DEF Streams
  <2>. QED BY <2>1, <2>2
<1>7. Before(<< stream.epoch, stream.frameId >>, << st.epoch, st.frameId >>)
  BY <1>1, <1>6 DEF Before
<1>8. CASE watched = {"status", "task"}
  <2>1. stream' = stream /\ "frame" \notin watched
    BY <1>8 DEF Followed
  <2>. QED BY <2>1 DEF Top, UpTo
<1>9. CASE watched # {"status", "task"}
  <2>1. stream' = st
    BY <1>9 DEF Followed
  <2>. QED BY <1>6, <1>7, <2>1 DEF Top, UpTo
<1>. QED BY <1>8, <1>9

\* A client that is told where the session stands, and of the record what it did not know,
\* is current.
LEMMA ToldCurrent ==
    ASSUME watched = {"status", "task"}, NEW messages, NEW top,
           Reports(messages, robot', top), NEW receivers \in SUBSET Sockets,
           NEW s \in receivers, Sent(s, receivers, messages),
           sockets'[s] = "open", promised'[s] = "everything",
           \/ Speaks(messages, "task")
           \/ s \in untold'
           \/ Knows(Pipe(s), robot'.task)
    PROVE  Current(s)'
<1>1. /\ messages \in Seq(Messages) /\ Looked(messages) \subseteq DOMAIN messages
      /\ \A k \in DOMAIN messages : messages[k].field \in {"status", "task"} => k \in Looked(messages)
  BY DEF Reports, Looked
<1>2. /\ \A k \in Looked(messages) : messages[k].field = "status" => messages[k].value = robot'.session
      /\ \A k \in Looked(messages) : messages[k].field = "task" => messages[k].value = robot'.task
      /\ \E k \in Looked(messages) : messages[k].field = "status"
      /\ Speaks(messages, "task") => \E k \in Looked(messages) : messages[k].field = "task"
  BY <1>1 DEF Reports, Speaks
<1>3. "status" \in Fields /\ "task" \in Fields
  BY DEF Fields
<1>4. /\ Answers(s, receivers, messages, "status", robot'.session)
      /\ Answers(s, receivers, messages, "task", robot'.task)
  BY <1>1, <1>2, <1>3, SendTells
<1>5. Ends(Pipe(s)', "status", robot'.session)
  BY <1>2, <1>4 DEF Answers, Told
<1>6. s \notin untold' => Knows(Pipe(s)', robot'.task)
  BY <1>2, <1>4 DEF Answers, Told, Knows
<1>. QED BY <1>5, <1>6 DEF Current

\* A record that stays as it is, and is not news to more clients.
Settled(s) == robot' = robot /\ s \notin untold

\* A client that is told nothing is still current, if there is nothing it should be told.
LEMMA StillCurrent ==
    ASSUME NEW s \in Sockets, Current(s), robot'.session = robot.session,
           s \notin untold' => Settled(s),
           \A f \in {"status", "task"} : \A v : Ends(Pipe(s), f, v) => Ends(Pipe(s)', f, v)
    PROVE  Current(s)'
<1>1. Ends(Pipe(s)', "status", robot'.session)
  BY DEF Current
<1>2. s \notin untold' => Knows(Pipe(s)', robot'.task)
  BY DEF Current, Knows, Settled
<1>. QED BY <1>1, <1>2 DEF Current

(*********************************** Steps **********************************)

\* A step that tells clients nothing, and alters at most the record, with nobody told.
LEMMA QuietStep ==
    ASSUME PushInv, UNCHANGED << chaos, sockets, line, view, closed, promised, watched >>,
           robot' \in Robots, robot'.session = robot.session, untold' \in SUBSET Sockets,
           \A s \in Sockets : s \notin untold' => Settled(s),
           tickets' \in [Tickets -> {"unissued", "issued", "gone"}],
           subscribed' \in [Sockets -> BOOLEAN], stream' \in Streams, UpTo(Top, Top')
    PROVE  PushInv' /\ PushRises
<1>1. PushTypes'
  BY DEF PushInv, PushTypes, Robots
<1>2. \A s \in Sockets : Pipe(s)' = Pipe(s)
  BY DEF Pipe
<1>3. delays' = delays /\ Promise(chaos)' = Promise(chaos)
  BY DEF delays, Promise
<1>4. PushFlows'
  BY <1>2, <1>3 DEF PushInv, PushFlows
<1>5. Top \in Frames /\ Top' \in Frames
  BY DEF PushInv, PushTypes, Streams, Top, Frames
<1>6. ASSUME NEW s \in Sockets PROVE Ordered(Pipe(s)', Top')
  <2>1. Pipe(s) \in Pipes /\ Ordered(Pipe(s), Top)
    BY PipesTyped DEF PushInv, PushTypes, PushOrder
  <2>. QED BY <1>2, <1>5, <2>1, RaisedTop
<1>7. PushCurrent'
  <2>1. \A s \in Sockets : Current(s) => Current(s)'
    BY <1>2, StillCurrent
  <2>. QED BY <2>1 DEF PushInv, PushCurrent
<1>8. PushRises
  BY DEF PushRises, UpTo
<1>. QED BY <1>1, <1>4, <1>6, <1>7, <1>8 DEF PushInv, PushOrder

\* Clients are sent frames or poses.
LEMMA DataStep ==
    ASSUME PushInv, NEW receivers \in SUBSET Sockets, NEW messages \in Seq(Messages),
           Send(receivers, messages),
           UNCHANGED << robot, chaos, tickets, sockets, subscribed, closed, promised, untold, watched >>,
           stream' \in Streams, UpTo(Top, Top'),
           \A k \in DOMAIN messages :
             \/ messages[k].field = "pose"
             \/ /\ messages[k].field = "frame" /\ messages[k].value = Top'
                /\ "frame" \in watched => Before(Top, Top'),
           \A k, l \in DOMAIN messages : k = l
    PROVE  PushInv' /\ PushRises
<1>. USE DEF PushInv
<1>1. \A s \in Sockets : promised'[s] \in {"nothing", Promise(chaos)}
  BY DEF PushFlows
<1>2. /\ line' \in [Sockets -> Seq(Entries)] /\ view' \in [Sockets -> Views]
      /\ \A s \in Sockets : Len(line'[s]) <= MaxLine
      /\ \A s \in Sockets : Sent(s, receivers, messages)
  BY <1>1, SendMoves
<1>3. PushTypes'
  BY <1>2 DEF PushTypes
<1>4. \A k \in Looked(messages) : k \in DOMAIN messages /\ messages[k].field \in watched
  BY DEF Looked
<1>5. PushFlows' /\ PushOrder' /\ PushRises
  <2>1. \A k \in Looked(messages) : messages[k].field = "frame" =>
          messages[k].value = Top' /\ Before(Top, Top')
    BY <1>4
  <2>2. \A k, l \in Looked(messages) :
          messages[k].field = "frame" /\ messages[l].field = "frame" => k = l
    BY <1>4
  <2>3. /\ \A s \in Sockets : sockets'[s] = "closed" \/ promised'[s] = "nothing" =>
             line[s] = <<>> /\ view[s] = NothingSeen
        /\ closed' => \A s \in Sockets : sockets'[s] = "closed"
    BY DEF PushFlows
  <2>. QED BY <1>1, <1>2, <2>1, <2>2, <2>3, SendKeeps
<1>6. PushCurrent'
  <2>. SUFFICES ASSUME watched = {"status", "task"}, NEW s \in Sockets,
                       sockets[s] = "open", promised[s] = "everything"
                PROVE  Current(s)'
    BY DEF PushCurrent
  <2>1. Current(s)
    BY DEF PushCurrent
  <2>2. \A k \in Looked(messages) : FALSE
    BY <1>4
  <2>3. ASSUME NEW f \in {"status", "task"}, NEW v, Ends(Pipe(s), f, v)
        PROVE  Ends(Pipe(s)', f, v)
    <3>1. Answers(s, receivers, messages, f, v)
      <4>1. f \in Fields /\ sockets'[s] = "open" /\ promised'[s] = "everything"
        BY DEF Fields
      <4>2. \A k \in Looked(messages) : messages[k].field = f => messages[k].value = v
        BY <2>2
      <4>3. Sent(s, receivers, messages)
        BY <1>2
      <4>. HIDE DEF PushInv
      <4>. QED BY <4>1, <4>2, <4>3, SendTells
    <3>. QED BY <2>2, <2>3, <3>1 DEF Answers, Told
  <2>4. robot'.session = robot.session /\ (s \notin untold' => Settled(s))
    BY DEF Settled
  <2>. QED BY <2>1, <2>3, <2>4, StillCurrent
<1>. QED BY <1>3, <1>5, <1>6

\* Everybody is told where the robot stands now, of the record if it is news.
LEMMA NewsStep ==
    ASSUME PushInv, NEW messages, Broadcast(messages),
           UNCHANGED << chaos, tickets, sockets, subscribed, closed, promised, watched >>,
           robot' \in Robots, untold' \in SUBSET Sockets, stream' \in Streams, UpTo(Top, Top'),
           Reports(messages, robot', Top'),
           Speaks(messages, "frame") /\ "frame" \in watched => Before(Top, Top'),
           \/ robot'.task = Null
           \/ Speaks(messages, "task")
           \/ robot' = robot /\ untold' = untold
    PROVE  PushInv' /\ PushRises
<1>. USE DEF PushInv
<1>1. /\ \A s \in Sockets : promised'[s] \in {"nothing", Promise(chaos)}
      /\ messages \in Seq(Messages)
  BY DEF PushFlows, Reports
<1>2. /\ line' \in [Sockets -> Seq(Entries)] /\ view' \in [Sockets -> Views]
      /\ \A s \in Sockets : Len(line'[s]) <= MaxLine
      /\ \A s \in Sockets : Sent(s, Sockets, messages)
  BY <1>1, SendMoves DEF Broadcast
<1>3. PushTypes'
  BY <1>2 DEF PushTypes, Robots
<1>4. PushFlows' /\ PushOrder' /\ PushRises
  <2>1. \A k \in Looked(messages) : messages[k].field = "frame" =>
          messages[k].value = Top' /\ Before(Top, Top')
    BY DEF Looked, Reports, Speaks
  <2>2. \A k, l \in Looked(messages) :
          messages[k].field = "frame" /\ messages[l].field = "frame" => k = l
    BY DEF Looked, Reports
  <2>3. /\ \A s \in Sockets : sockets'[s] = "closed" \/ promised'[s] = "nothing" =>
             line[s] = <<>> /\ view[s] = NothingSeen
        /\ closed' => \A s \in Sockets : sockets'[s] = "closed"
    BY DEF PushFlows
  <2>. QED BY <1>1, <1>2, <2>1, <2>2, <2>3, SendKeeps
<1>5. PushCurrent'
  <2>. SUFFICES ASSUME watched = {"status", "task"}, NEW s \in Sockets,
                       sockets'[s] = "open", promised'[s] = "everything"
                PROVE  Current(s)'
    BY DEF PushCurrent
  <2>1. \/ Speaks(messages, "task")
        \/ s \in untold'
        \/ Knows(Pipe(s), robot'.task)
    BY DEF PushCurrent, Current, Knows
  <2>2. Reports(messages, robot', Top')
    OBVIOUS
  <2>. DEFINE top == Top'
  <2>3. Reports(messages, robot', top) /\ Sent(s, Sockets, messages) /\ Sockets \in SUBSET Sockets
    BY <1>2, <2>2
  <2>. HIDE DEF top
  <2>. QED BY <2>1, <2>3, ToldCurrent
<1>. QED BY <1>3, <1>4, <1>5

\* The robot's event `changed'.
LEMMA ChangedStep ==
    ASSUME PushInv, robot' \in Robots, untold' \in SUBSET Sockets, OnChanged,
           UNCHANGED << chaos, tickets, sockets, subscribed, closed, promised, watched >>
    PROVE  PushInv' /\ PushRises
<1>. USE DEF PushInv
<1>1. stream \in Streams
  BY DEF PushTypes
<1>2. CASE closed
  <2>1. UNCHANGED << line, view, stream >>
    BY <1>2 DEF OnChanged, Silent
  <2>2. PushTypes'
    BY <2>1 DEF PushTypes, Robots
  <2>3. /\ \A s \in Sockets : Pipe(s)' = Pipe(s)
        /\ delays' = delays /\ Promise(chaos)' = Promise(chaos) /\ Top' = Top
    BY <2>1 DEF Pipe, delays, Promise, Top
  <2>4. PushFlows' /\ PushOrder'
    BY <2>1, <2>3 DEF PushFlows, PushOrder
  <2>5. PushCurrent'
    <3>1. \A s \in Sockets : sockets'[s] # "open"
      BY <1>2 DEF PushFlows
    <3>. QED BY <3>1 DEF PushCurrent
  <2>6. PushRises
    BY <2>1 DEF PushRises, UpTo
  <2>. QED BY <2>2, <2>4, <2>5, <2>6
<1>3. CASE ~closed /\ shouldStreamMap' /\ stream.frameId < MaxFrames
  <2>. DEFINE messages == Append(changedPushes(robot'), mapFrame(stream'))
  <2>1. stream' = Followed(nextFrame(stream)) /\ Broadcast(messages)
    BY <1>3 DEF OnChanged
  <2>2. /\ stream' \in Streams /\ UpTo(Top, Top')
        /\ "frame" \in watched => Before(Top, Top')
    BY <1>1, <1>3, <2>1, StreamGoesOn
  <2>3. /\ Reports(messages, robot', Top')
        /\ robot'.task # Null => Speaks(messages, "task")
    BY <2>2, FrameAppended DEF Top
  <2>. HIDE DEF messages
  <2>. QED BY <2>1, <2>2, <2>3, NewsStep
<1>4. CASE ~closed /\ ~(shouldStreamMap' /\ stream.frameId < MaxFrames)
  <2>. DEFINE messages == changedPushes(robot')
  <2>1. stream' = stream /\ Broadcast(messages)
    BY <1>4 DEF OnChanged
  <2>2. stream' \in Streams /\ UpTo(Top, Top')
    BY <1>1, <2>1 DEF Top, UpTo
  <2>3. /\ Reports(messages, robot', Top') /\ ~Speaks(messages, "frame")
        /\ robot'.task # Null => Speaks(messages, "task")
    BY ChangeReported
  <2>. HIDE DEF messages
  <2>. QED BY <2>1, <2>2, <2>3, NewsStep
<1>. QED BY <1>2, <1>3, <1>4

\* A client that knows nothing: whatever comes is newer.
LEMMA NothingUnderWay ==
    ASSUME stream \in Streams, NEW p, p = [line |-> <<>>, view |-> NothingSeen], NEW D
    PROVE  Flows(p, D) /\ Ordered(p, Top) /\ Ends(p, "task", Unseen)
<1>1. p.line = <<>> /\ p.view = NothingSeen
  OBVIOUS
<1>2. \A i \in 1..Len(p.line) : FALSE
  BY <1>1
<1>3. p.view.frame = << 0, 0 >> /\ p.view["task"] = Unseen
  BY <1>1 DEF NothingSeen
<1>4. stream.epoch \in Nat /\ stream.frameId \in Nat
  BY PushAssumption DEF PushAssumption, Streams
<1>5. UpTo(<< 0, 0 >>, Top)
  BY <1>4 DEF UpTo, Before, Top
<1>. QED BY <1>2, <1>3, <1>5 DEF Flows, Ordered, Ends

\* NothingSeen is a view.
LEMMA NothingTyped == <<>> \in Seq(Entries) /\ NothingSeen \in Views /\ Len(<<>>) = 0
<1>1. << 0, 0 >> \in Frames /\ NoPatch \in Int
  BY DEF Frames, NoPatch
<1>. QED BY <1>1 DEF NothingSeen, Views

\* A client connects.
LEMMA UpgradeStep ==
    ASSUME PushInv, NEW s \in Sockets, NEW t \in Tickets, Upgrade(s, t)
    PROVE  PushInv' /\ PushRises
<1>. USE DEF PushInv
<1>. DEFINE messages == greeting(robot, stream')
<1>1. /\ sockets[s] = "closed" /\ ~closed /\ tickets' = [tickets EXCEPT ![t] = "gone"]
      /\ stream.frameId < MaxFrames /\ stream' = Followed(fullFrame(stream))
      /\ sockets' = [sockets EXCEPT ![s] = "open"]
      /\ subscribed' = [subscribed EXCEPT ![s] = TRUE]
      /\ promised' = [promised EXCEPT ![s] = Promise(chaos)]
      /\ untold' = untold \ {s}
      /\ UNCHANGED << robot, chaos, closed, watched >>
      /\ Send({s}, messages)
  BY DEF Upgrade, verifyTicket
<1>2. /\ robot \in Robots /\ stream \in Streams /\ chaos \in Configs
      /\ tickets \in [Tickets -> {"unissued", "issued", "gone"}]
      /\ sockets \in [Sockets -> {"open", "closed"}] /\ subscribed \in [Sockets -> BOOLEAN]
      /\ promised \in [Sockets -> {"nothing", "order", "everything"}] /\ closed \in BOOLEAN
      /\ untold \in SUBSET Sockets
  BY DEF PushTypes, Robots
<1>3. /\ stream' \in Streams /\ UpTo(Top, Top')
      /\ "frame" \in watched => Before(Top, Top')
  BY <1>1, <1>2, StreamGoesOn
<1>4. /\ Reports(messages, robot, Top')
      /\ Speaks(messages, "task") <=> robot.task \in {"ON_THE_WAY", "PAUSE"}
  BY <1>2, <1>3, GreetingReported DEF Top
<1>. HIDE DEF messages
<1>5. /\ sockets' \in [Sockets -> {"open", "closed"}] /\ subscribed' \in [Sockets -> BOOLEAN]
      /\ tickets' \in [Tickets -> {"unissued", "issued", "gone"}]
      /\ promised' \in [Sockets -> {"nothing", "order", "everything"}]
  BY <1>1, <1>2 DEF Promise
<1>6. /\ sockets'[s] = "open" /\ promised'[s] = Promise(chaos)
      /\ \A x \in Sockets : x # s => sockets'[x] = sockets[x] /\ promised'[x] = promised[x]
  BY <1>1, <1>2
<1>7. \A x \in Sockets : promised'[x] \in {"nothing", Promise(chaos)}
  BY <1>6 DEF PushFlows
<1>8. messages \in Seq(Messages) /\ {s} \in SUBSET Sockets
  BY <1>4 DEF Reports
<1>9. /\ line' \in [Sockets -> Seq(Entries)] /\ view' \in [Sockets -> Views]
      /\ \A x \in Sockets : Len(line'[x]) <= MaxLine
      /\ \A x \in Sockets : Sent(x, {s}, messages)
  BY <1>1, <1>7, <1>8, SendMoves
<1>10. PushTypes'
  BY <1>1, <1>2, <1>3, <1>5, <1>9 DEF PushTypes, Robots
<1>11. line[s] = <<>> /\ view[s] = NothingSeen
  BY <1>1 DEF PushFlows
<1>12. PushFlows' /\ PushOrder' /\ PushRises
  <2>1. \A k \in Looked(messages) : messages[k].field = "frame" =>
          messages[k].value = Top' /\ Before(Top, Top')
    BY <1>3, <1>4 DEF Looked, Reports
  <2>2. \A k, l \in Looked(messages) :
          messages[k].field = "frame" /\ messages[l].field = "frame" => k = l
    BY <1>4 DEF Looked, Reports
  <2>3. /\ \A x \in Sockets : sockets'[x] = "closed" \/ promised'[x] = "nothing" =>
             line[x] = <<>> /\ view[x] = NothingSeen
        /\ closed' => \A x \in Sockets : sockets'[x] = "closed"
    BY <1>1, <1>6, <1>11 DEF PushFlows
  <2>4. chaos' = chaos
    BY <1>1
  <2>. QED BY <1>3, <1>7, <1>8, <1>9, <2>1, <2>2, <2>3, <2>4, SendKeeps
<1>13. PushCurrent'
  <2>. SUFFICES ASSUME watched = {"status", "task"}, NEW x \in Sockets,
                       sockets'[x] = "open", promised'[x] = "everything"
                PROVE  Current(x)'
    BY <1>1 DEF PushCurrent
  <2>1. CASE x = s
    <3>1. Ends(Pipe(s), "task", Unseen)
      BY <1>2, <1>11, NothingUnderWay DEF Pipe
    <3>. DEFINE top == Top'
                receivers == {s}
    <3>2. /\ Reports(messages, robot', top) /\ receivers \in SUBSET Sockets
          /\ x \in receivers /\ Sent(x, receivers, messages)
      BY <1>1, <1>4, <1>9, <2>1
    <3>3. Speaks(messages, "task") \/ Knows(Pipe(x), robot'.task)
      BY <1>1, <1>4, <2>1, <3>1 DEF Knows
    <3>. HIDE DEF top, receivers
    <3>. QED BY <3>2, <3>3, ToldCurrent
  <2>2. CASE x # s
    <3>1. Current(x)
      BY <1>6, <2>2 DEF PushCurrent
    <3>2. Pipe(x)' = Pipe(x)
      BY <1>9, <2>2 DEF Sent
    <3>3. robot'.session = robot.session /\ (x \notin untold' => Settled(x))
      BY <1>1, <2>2 DEF Settled
    <3>. QED BY <3>1, <3>2, <3>3, StillCurrent
  <2>. QED BY <2>1, <2>2
<1>. QED BY <1>10, <1>12, <1>13

\* Clients go.
LEMMA ForgetStep ==
    ASSUME PushInv, NEW gone \in SUBSET Sockets, Forget(gone), closed' \in BOOLEAN,
           closed' => closed \/ gone = Sockets
    PROVE  PushInv' /\ PushRises
<1>. USE DEF PushInv
<1>1. /\ sockets' = [s \in Sockets |-> IF s \in gone THEN "closed" ELSE sockets[s]]
      /\ subscribed' = [s \in Sockets |-> s \notin gone /\ subscribed[s]]
      /\ line' = [s \in Sockets |-> IF s \in gone THEN << >> ELSE line[s]]
      /\ view' = [s \in Sockets |-> IF s \in gone THEN NothingSeen ELSE view[s]]
      /\ UNCHANGED << robot, stream, chaos, tickets, promised, untold, watched >>
  BY DEF Forget, history
<1>2. PushTypes'
  <2>1. subscribed' \in [Sockets -> BOOLEAN]
    BY <1>1
  <2>2. \A s \in Sockets : Len(line'[s]) <= MaxLine
    BY <1>1, NothingTyped, PushAssumption DEF PushTypes, PushAssumption
  <2>3. /\ sockets' \in [Sockets -> {"open", "closed"}]
        /\ line' \in [Sockets -> Seq(Entries)] /\ view' \in [Sockets -> Views]
    BY <1>1, NothingTyped DEF PushTypes
  <2>. QED BY <1>1, <2>1, <2>2, <2>3 DEF PushTypes
<1>3. \A s \in Sockets : IF s \in gone THEN Pipe(s)' = [line |-> <<>>, view |-> NothingSeen]
                         ELSE Pipe(s)' = Pipe(s)
  BY <1>1 DEF Pipe
<1>4. delays' = delays /\ Promise(chaos)' = Promise(chaos) /\ Top' = Top
  BY <1>1 DEF delays, Promise, Top
<1>5. ASSUME NEW s \in Sockets
      PROVE  Flows(Pipe(s)', delays) /\ Ordered(Pipe(s)', Top)
  <2>1. stream \in Streams /\ Flows(Pipe(s), delays) /\ Ordered(Pipe(s), Top)
    BY DEF PushTypes, PushFlows, PushOrder
  <2>. QED BY <1>3, <2>1, NothingUnderWay
<1>6. PushFlows'
  <2>1. ASSUME NEW s \in Sockets
        PROVE  /\ promised'[s] \in {"nothing", Promise(chaos)}
               /\ sockets'[s] = "closed" \/ promised'[s] = "nothing" =>
                    line'[s] = <<>> /\ view'[s] = NothingSeen
    BY <1>1 DEF PushFlows
  <2>2. closed' => \A s \in Sockets : sockets'[s] = "closed"
    BY <1>1 DEF PushFlows
  <2>. QED BY <1>4, <1>5, <2>1, <2>2 DEF PushFlows
<1>7. PushOrder'
  BY <1>4, <1>5 DEF PushOrder
<1>8. PushCurrent'
  <2>. SUFFICES ASSUME watched = {"status", "task"}, NEW s \in Sockets,
                       sockets'[s] = "open", promised'[s] = "everything"
                PROVE  Current(s)'
    BY <1>1 DEF PushCurrent
  <2>1. s \notin gone /\ sockets[s] = "open" /\ promised[s] = "everything"
    BY <1>1
  <2>2. Current(s) /\ Pipe(s)' = Pipe(s)
    BY <1>3, <2>1 DEF PushCurrent
  <2>3. robot'.session = robot.session /\ (s \notin untold' => Settled(s))
    BY <1>1 DEF Settled
  <2>. QED BY <2>2, <2>3, StillCurrent
<1>9. PushRises
  BY <1>1 DEF PushRises, UpTo
<1>. QED BY <1>2, <1>6, <1>7, <1>8, <1>9

\* The settings change: nothing is promised any more to those that are connected.
LEMMA UpdateChaosStep ==
    ASSUME PushInv, NEW config \in Configs, UpdateChaos(config)
    PROVE  PushInv' /\ PushRises
<1>. USE DEF PushInv
<1>1. /\ chaos' = config
      /\ promised' = [s \in Sockets |-> "nothing"]
      /\ line' = [s \in Sockets |-> << >>] /\ view' = [s \in Sockets |-> NothingSeen]
      /\ UNCHANGED << robot, stream, tickets, sockets, subscribed, untold, closed, watched >>
  BY DEF UpdateChaos
<1>2. PushTypes'
  BY <1>1, NothingTyped, PushAssumption DEF PushTypes, PushAssumption
<1>3. \A s \in Sockets : Pipe(s)' = [line |-> <<>>, view |-> NothingSeen]
  BY <1>1 DEF Pipe
<1>4. Top' = Top /\ stream \in Streams
  BY <1>1 DEF Top, PushTypes
<1>5. \A s \in Sockets : Flows(Pipe(s)', delays') /\ Ordered(Pipe(s)', Top')
  <2>. DEFINE D == delays'
  <2>. HIDE DEF D
  <2>1. \A s \in Sockets : Flows(Pipe(s)', D) /\ Ordered(Pipe(s)', Top)
    BY <1>3, <1>4, NothingUnderWay
  <2>. QED BY <1>4, <2>1 DEF D
<1>6. PushFlows'
  BY <1>1, <1>5 DEF PushFlows
<1>7. PushOrder'
  BY <1>5 DEF PushOrder
<1>8. PushCurrent' /\ PushRises
  BY <1>1 DEF PushCurrent, PushRises
<1>. QED BY <1>2, <1>6, <1>7, <1>8

\* A timer fires: everything takes equally long, so it is that of the first message.
LEMMA DeliverStep ==
    ASSUME PushInv, NEW s \in Sockets, Deliver(s)
    PROVE  PushInv' /\ PushRises
<1>. USE DEF PushInv
<1>1. PICK i \in DOMAIN line[s] :
        /\ \A j \in 1..(i - 1) : line[s][j].delay # line[s][i].delay
        /\ line' = [line EXCEPT ![s] = RemoveAt(line[s], i)]
        /\ view' = [view EXCEPT ![s] = Seen(view[s], line[s][i].message)]
        /\ UNCHANGED << robot, stream, chaos, tickets, sockets, subscribed, closed, promised, untold, watched >>
  BY DEF Deliver, history
<1>2. /\ line \in [Sockets -> Seq(Entries)] /\ view \in [Sockets -> Views]
      /\ chaos \in Configs /\ stream \in Streams
  BY DEF PushTypes
<1>3. PICK n \in Nat : n = Len(line[s]) /\ i \in 1..n
  BY <1>1, <1>2, LenProperties
<1>4. line[s] # <<>>
  BY <1>3
<1>5. Promise(chaos) # "nothing" /\ sockets[s] # "closed" /\ promised[s] # "nothing"
  BY <1>4 DEF PushFlows
<1>6. i = 1
  <2>1. \A d, e \in delays : d = e
    BY <1>2, <1>5, OneDelay
  <2>2. \A j \in 1..n : line[s][j].delay \in delays
    BY <1>3 DEF PushFlows, Flows, Pipe
  <2>. SUFFICES ASSUME i # 1 PROVE FALSE
    OBVIOUS
  <2>3. 1 \in 1..(i - 1) /\ 1 \in 1..n
    BY <1>3
  <2>. QED BY <1>1, <1>3, <2>1, <2>2, <2>3
<1>. DEFINE q == Pipe(s)'
<1>7. q = [line |-> RemoveAt(line[s], 1), view |-> Seen(view[s], line[s][1].message)]
  BY <1>1, <1>2, <1>6 DEF Pipe
<1>8. Arrived(Pipe(s), q)
  <2>1. Pipe(s) \in Pipes
    BY <1>2, PipesTyped
  <2>2. Arrives(Pipe(s), q) /\ q = [line |-> q.line, view |-> q.view]
    BY <1>4, <1>7 DEF Arrives, Pipe
  <2>. HIDE DEF q
  <2>. QED BY <2>1, <2>2, FirstArrives
<1>9. \A x \in Sockets : x # s => line'[x] = line[x] /\ view'[x] = view[x] /\ Pipe(x)' = Pipe(x)
  BY <1>1, <1>2 DEF Pipe
<1>10. delays' = delays /\ Promise(chaos)' = Promise(chaos) /\ Top' = Top
  BY <1>1 DEF delays, Promise, Top
<1>11. /\ q.line = line'[s] /\ q.view = view'[s]
       /\ Pipe(s).line = line[s] /\ Pipe(s).view = view[s]
  BY DEF Pipe
<1>12. PushTypes'
  <2>1. /\ line' = [line EXCEPT ![s] = q.line] /\ view' = [view EXCEPT ![s] = q.view]
    BY <1>1, <1>6, <1>7
  <2>2. q.line \in Seq(Entries) /\ q.view \in Views /\ Len(q.line) <= Len(line[s])
    BY <1>8, <1>11 DEF Arrived, Pipes
  <2>. HIDE DEF q
  <2>3. line' \in [Sockets -> Seq(Entries)] /\ view' \in [Sockets -> Views]
    BY <1>2, <2>1, <2>2
  <2>4. ASSUME NEW x \in Sockets PROVE Len(line'[x]) <= MaxLine
    <3>1. Len(line[x]) <= MaxLine /\ Len(line[x]) \in Nat
      BY <1>2, LenProperties DEF PushTypes
    <3>2. CASE x = s
      <4>1. line'[x] = q.line
        BY <1>2, <2>1, <3>2
      <4>2. Len(q.line) \in Nat /\ MaxLine \in Nat
        BY <2>2, LenProperties, PushAssumption DEF PushAssumption
      <4>. QED BY <2>2, <3>1, <3>2, <4>1, <4>2
    <3>3. CASE x # s
      BY <1>9, <3>1, <3>3
    <3>. QED BY <3>2, <3>3
  <2>. QED BY <1>1, <2>3, <2>4 DEF PushTypes
<1>13. ASSUME NEW x \in Sockets
       PROVE  /\ Flows(Pipe(x)', delays) /\ Ordered(Pipe(x)', Top)
              /\ UpTo(view[x].frame, view'[x].frame)
  <2>1. Flows(Pipe(x), delays) /\ Ordered(Pipe(x), Top)
    BY DEF PushFlows, PushOrder
  <2>2. CASE x = s
    <3>1. Flows(q, delays) /\ Ordered(q, Top) /\ UpTo(Pipe(s).view.frame, q.view.frame)
      <4>. HIDE DEF q
      <4>. QED BY <1>8, <2>1, <2>2 DEF Arrived
    <3>. QED BY <1>11, <2>2, <3>1
  <2>3. CASE x # s
    BY <1>9, <2>1, <2>3 DEF UpTo
  <2>. QED BY <2>2, <2>3
<1>14. PushFlows'
  <2>1. ASSUME NEW x \in Sockets, sockets'[x] = "closed" \/ promised'[x] = "nothing"
        PROVE  line'[x] = <<>> /\ view'[x] = NothingSeen
    <3>1. x # s
      BY <1>1, <1>5, <2>1
    <3>. QED BY <1>1, <1>9, <2>1, <3>1 DEF PushFlows
  <2>2. /\ \A x \in Sockets : promised'[x] \in {"nothing", Promise(chaos)}
        /\ closed' => \A x \in Sockets : sockets'[x] = "closed"
    BY <1>1 DEF PushFlows
  <2>. QED BY <1>10, <1>13, <2>1, <2>2 DEF PushFlows
<1>15. PushOrder' /\ PushRises
  BY <1>10, <1>13 DEF PushOrder, PushRises
<1>16. PushCurrent'
  <2>. SUFFICES ASSUME watched = {"status", "task"}, NEW x \in Sockets,
                       sockets[x] = "open", promised[x] = "everything"
                PROVE  Current(x)'
    BY <1>1 DEF PushCurrent
  <2>1. /\ Current(x) /\ robot'.session = robot.session
        /\ x \notin untold' => Settled(x)
    BY <1>1 DEF PushCurrent, Settled
  <2>2. ASSUME NEW f \in {"status", "task"}, NEW v, Ends(Pipe(x), f, v)
        PROVE  Ends(Pipe(x)', f, v)
    <3>1. CASE x = s
      <4>1. f \in Fields
        BY DEF Fields
      <4>2. Ends(q, f, v)
        <5>. HIDE DEF q
        <5>. QED BY <1>8, <2>2, <3>1, <4>1 DEF Arrived
      <4>. QED BY <3>1, <4>2
    <3>2. CASE x # s
      BY <1>9, <2>2, <3>2
    <3>. QED BY <3>1, <3>2
  <2>. QED BY <2>1, <2>2, StillCurrent
<1>. QED BY <1>12, <1>14, <1>15, <1>16

\* The timers.
LEMMA TimerSteps ==
    ASSUME PushInv, MapTimer \/ LocationTimer
    PROVE  PushInv' /\ PushRises
<1>1. stream \in Streams
  BY DEF PushInv, PushTypes
<1>2. CASE MapTimer
  <2>. DEFINE messages == << mapFrame(stream') >>
  <2>1. /\ stream.frameId < MaxFrames /\ stream' = Followed(nextFrame(stream))
        /\ UNCHANGED << robot, chaos, tickets, sockets, subscribed, closed, promised, untold, watched >>
        /\ Send(Sockets, messages)
    BY <1>2 DEF MapTimer, Broadcast, history
  <2>2. /\ stream' \in Streams /\ UpTo(Top, Top')
        /\ "frame" \in watched => Before(Top, Top')
    BY <1>1, <2>1, StreamGoesOn
  <2>3. /\ mapFrame(stream') \in Messages /\ mapFrame(stream').field = "frame"
        /\ mapFrame(stream').value = Top'
    BY <2>2 DEF mapFrame, Message, Messages, Streams, Frames, Top
  <2>4. messages \in Seq(Messages) /\ DOMAIN messages = {1} /\ messages[1] = mapFrame(stream')
    BY <2>3, OneOrTwo
  <2>. HIDE DEF messages
  <2>5. /\ \A k \in DOMAIN messages :
             \/ messages[k].field = "pose"
             \/ /\ messages[k].field = "frame" /\ messages[k].value = Top'
                /\ "frame" \in watched => Before(Top, Top')
        /\ \A k, l \in DOMAIN messages : k = l
    BY <2>2, <2>3, <2>4
  <2>. QED BY <2>1, <2>2, <2>4, <2>5, DataStep
<1>3. CASE LocationTimer
  <2>. DEFINE messages == << robotLocation(currentRobotPose) >>
              receivers == { s \in Sockets : subscribed[s] }
  <2>1. /\ stream' = stream
        /\ UNCHANGED << robot, chaos, tickets, sockets, subscribed, closed, promised, untold, watched >>
        /\ Send(receivers, messages) /\ receivers \in SUBSET Sockets
    BY <1>3 DEF LocationTimer, history
  <2>2. stream' \in Streams /\ UpTo(Top, Top')
    BY <1>1, <2>1 DEF Top, UpTo
  <2>3. /\ robotLocation(currentRobotPose) \in Messages
        /\ robotLocation(currentRobotPose).field = "pose"
    <3>1. currentRobotPose \in Int
      BY <1>1, PushAssumption DEF currentRobotPose, Streams, PushAssumption
    <3>. QED BY <3>1 DEF robotLocation, Message, Messages
  <2>4. /\ messages \in Seq(Messages) /\ DOMAIN messages = {1}
        /\ messages[1] = robotLocation(currentRobotPose)
    BY <2>3, OneOrTwo
  <2>. HIDE DEF messages, receivers
  <2>5. /\ \A k \in DOMAIN messages : messages[k].field = "pose"
        /\ \A k, l \in DOMAIN messages : k = l
    BY <2>3, <2>4
  <2>. QED BY <2>1, <2>2, <2>4, <2>5, DataStep
<1>. QED BY <1>2, <1>3

\* A record that follows the session is a record, or still none.
LEMMA SyncedTyped ==
    ASSUME NEW session, NEW task \in TaskStatus
    PROVE  synced(session, task) \in TaskStatus
BY DEF synced, statusFor, TaskStatus, TASK_STATUSES

\* The robot emits `changed'.
LEMMA TellStep ==
    ASSUME PushInv, NEW session \in Statuses, NEW task \in TaskStatus, Tell(session, task)
    PROVE  PushInv' /\ PushRises
<1>1. robot' \in Robots /\ untold' \in SUBSET Sockets
  BY DEF Tell, Robots
<1>2. /\ OnChanged
      /\ UNCHANGED << chaos, tickets, sockets, subscribed, closed, promised, watched >>
  BY DEF Tell
<1>. QED BY <1>1, <1>2, ChangedStep

\* The robot emits nothing.
LEMMA KeepQuietStep ==
    ASSUME PushInv, NEW task \in TaskStatus, NEW made \in BOOLEAN, KeepQuiet(task, made)
    PROVE  PushInv' /\ PushRises
<1>1. /\ robot \in [session : Statuses, task : TaskStatus] /\ untold \in SUBSET Sockets
      /\ subscribed \in [Sockets -> BOOLEAN] /\ stream \in Streams
      /\ tickets \in [Tickets -> {"unissued", "issued", "gone"}]
  BY DEF PushInv, PushTypes
<1>2. /\ robot' = [robot EXCEPT !.task = task]
      /\ untold' = IF made \/ task # robot.task THEN Sockets ELSE untold
      /\ UNCHANGED << line, view, stream, chaos, tickets, sockets, subscribed, promised, closed, watched >>
  BY DEF KeepQuiet, Silent
<1>3. robot' \in Robots /\ robot'.session = robot.session /\ untold' \in SUBSET Sockets
  BY <1>1, <1>2 DEF Robots
<1>4. \A s \in Sockets : s \notin untold' => Settled(s)
  <2>. SUFFICES ASSUME NEW s \in Sockets, s \notin untold' PROVE Settled(s)
    OBVIOUS
  <2>1. task = robot.task /\ s \notin untold
    BY <1>2
  <2>. QED BY <1>1, <1>2, <2>1 DEF Settled
<1>5. Top' = Top /\ UpTo(Top, Top')
  BY <1>2 DEF Top, UpTo
<1>. QED BY <1>1, <1>2, <1>3, <1>4, <1>5, QuietStep

\* The robot changes, or is reset, or its record is made or altered.
LEMMA RobotSteps ==
    ASSUME PushInv,
           \/ \E session \in Sessions \union {IdleSession} : RobotChanges(session) \/ SetUp(session)
           \/ RobotStays \/ CreateTask \/ RobotReports \/ ResetRobot
           \/ \E status \in Forced : ForceTask(status)
    PROVE  PushInv' /\ PushRises
<1>1. /\ robot.session \in Statuses /\ robot.task \in TaskStatus /\ IdleSession \in Statuses
      /\ Null \in TaskStatus /\ "ON_THE_WAY" \in TaskStatus /\ Forced \subseteq TaskStatus
  BY PushAssumption DEF PushInv, PushTypes, Statuses, TaskStatus, TASK_STATUSES, PushAssumption
<1>2. ASSUME NEW session \in Statuses, RobotChanges(session)
      PROVE  PushInv' /\ PushRises
  <2>1. PICK task \in {robot.task, "ON_THE_WAY"} : Tell(session, synced(session, task))
    BY <1>2 DEF RobotChanges
  <2>2. synced(session, task) \in TaskStatus
    BY <1>1, SyncedTyped
  <2>. QED BY <2>1, <2>2, TellStep
<1>3. ASSUME NEW session \in Statuses, SetUp(session)
      PROVE  PushInv' /\ PushRises
  BY <1>1, <1>3, TellStep DEF SetUp
<1>4. CASE RobotReports \/ ResetRobot
  BY <1>1, <1>4, TellStep DEF RobotReports, ResetRobot
<1>5. CASE RobotStays \/ CreateTask
  <2>1. /\ synced(robot.session, robot.task) \in TaskStatus
        /\ synced(robot.session, "ON_THE_WAY") \in TaskStatus
    BY <1>1, SyncedTyped
  <2>. QED BY <1>5, <2>1, KeepQuietStep DEF RobotStays, CreateTask
<1>6. ASSUME NEW status \in Forced, ForceTask(status)
      PROVE  PushInv' /\ PushRises
  BY <1>1, <1>6, KeepQuietStep DEF ForceTask
<1>. QED BY <1>2, <1>3, <1>4, <1>5, <1>6 DEF Statuses

\* A frame alone tells where the session stands.
LEMMA RatelStatusStep ==
    ASSUME PushInv, RatelStatus
    PROVE  PushInv' /\ PushRises
<1>. DEFINE messages == << notifyRatelStatus(robot) >>
<1>1. /\ UNCHANGED << chaos, tickets, sockets, subscribed, closed, promised, watched >>
      /\ robot' = robot /\ untold' = untold /\ stream' = stream /\ Broadcast(messages)
  BY DEF RatelStatus, history
<1>2. robot \in Robots /\ untold \in SUBSET Sockets /\ stream \in Streams
  BY DEF PushInv, PushTypes, Robots
<1>3. /\ notifyRatelStatus(robot) \in Messages
      /\ notifyRatelStatus(robot).field = "status"
      /\ notifyRatelStatus(robot).value = robot.session
  BY <1>2 DEF notifyRatelStatus, Message, Messages, Robots
<1>4. /\ messages \in Seq(Messages) /\ DOMAIN messages = {1}
      /\ messages[1] = notifyRatelStatus(robot)
  BY <1>3, OneOrTwo
<1>. HIDE DEF messages
<1>5. Reports(messages, robot', Top') /\ ~Speaks(messages, "frame")
  BY <1>1, <1>3, <1>4 DEF Reports, Speaks
<1>6. Top' = Top /\ UpTo(Top, Top')
  BY <1>1 DEF Top, UpTo
<1>. QED BY <1>1, <1>2, <1>5, <1>6, NewsStep

\* The rest leaves clients and robot alone.
LEMMA QuietSteps ==
    ASSUME PushInv,
           \/ \E s \in Sockets : LocationRegister(s)
           \/ SwitchDataset
           \/ \E t \in Tickets : GenerateTicket(t) \/ TicketExpires(t)
           \/ UNCHANGED vars
    PROVE  PushInv' /\ PushRises
<1>1. /\ stream \in Streams /\ subscribed \in [Sockets -> BOOLEAN]
      /\ tickets \in [Tickets -> {"unissued", "issued", "gone"}]
  BY DEF PushInv, PushTypes
<1>2. UpTo(Top, Top)
  BY DEF UpTo
<1>3. /\ UNCHANGED << robot, chaos, sockets, line, view, closed, promised, untold, watched >>
      /\ tickets' \in [Tickets -> {"unissued", "issued", "gone"}]
      /\ subscribed' \in [Sockets -> BOOLEAN] /\ stream' \in Streams /\ UpTo(Top, Top')
  <2>1. CASE \E s \in Sockets : LocationRegister(s)
    BY <1>1, <1>2, <2>1 DEF LocationRegister, history, Top
  <2>2. CASE SwitchDataset
    <3>1. UNCHANGED << robot, chaos, tickets, sockets, subscribed, line, view, closed, promised, untold, watched >>
      BY <2>2 DEF SwitchDataset, history
    <3>. DEFINE st == [epoch |-> stream.epoch + 1, patchIndex |-> 0, frameId |-> 0,
                       current |-> NoPatch]
    <3>2. stream' = stream \/ stream' = st
      BY <2>2 DEF SwitchDataset, Followed
    <3>3. st \in Streams /\ Before(Top, << st.epoch, st.frameId >>)
      BY <1>1, PushAssumption DEF Streams, Before, Top, PushAssumption
    <3>. HIDE DEF st
    <3>. QED BY <1>1, <1>2, <3>1, <3>2, <3>3 DEF UpTo, Top
  <2>3. CASE \E t \in Tickets : GenerateTicket(t) \/ TicketExpires(t)
    BY <1>1, <1>2, <2>3 DEF GenerateTicket, TicketExpires, history, Top
  <2>4. CASE UNCHANGED vars
    BY <1>1, <1>2, <2>4 DEF vars, Top
  <2>. QED BY <2>1, <2>2, <2>3, <2>4
<1>4. /\ robot' \in Robots /\ robot'.session = robot.session /\ untold' \in SUBSET Sockets
      /\ \A s \in Sockets : s \notin untold' => Settled(s)
  BY <1>3 DEF PushInv, PushTypes, Robots, Settled
<1>. QED BY <1>3, <1>4, QuietStep

(********************************* Theorems *********************************)

\* It starts so.
LEMMA PushStarts == Init => PushInv
<1>. SUFFICES ASSUME Init PROVE PushInv
  OBVIOUS
<1>1. stream \in Streams /\ chaos = Calm /\ Calm \in Configs
  BY PushAssumption DEF Init, Streams, PushAssumption
<1>2. PushTypes
  <2>1. robot \in [session : Statuses, task : TaskStatus]
    BY DEF Init, Statuses, TaskStatus
  <2>2. /\ tickets \in [Tickets -> {"unissued", "issued", "gone"}]
        /\ sockets \in [Sockets -> {"open", "closed"}]
        /\ subscribed \in [Sockets -> BOOLEAN]
        /\ promised \in [Sockets -> {"nothing", "order", "everything"}]
        /\ untold \in SUBSET Sockets
        /\ closed \in BOOLEAN
    BY DEF Init
  <2>3. line \in [Sockets -> Seq(Entries)] /\ view \in [Sockets -> Views]
    BY NothingTyped DEF Init
  <2>4. \A s \in Sockets : Len(line[s]) <= MaxLine
    BY NothingTyped, PushAssumption DEF Init, PushAssumption
  <2>. QED BY <1>1, <2>1, <2>2, <2>3, <2>4 DEF PushTypes
<1>3. \A s \in Sockets : Pipe(s) = [line |-> <<>>, view |-> NothingSeen]
  BY DEF Init, Pipe
<1>4. \A s \in Sockets : Flows(Pipe(s), delays) /\ Ordered(Pipe(s), Top)
  BY <1>1, <1>3, NothingUnderWay
<1>5. PushFlows /\ PushOrder /\ PushCurrent
  BY <1>4 DEF Init, PushFlows, PushOrder, PushCurrent
<1>. QED BY <1>2, <1>5 DEF PushInv

\* Every step keeps the invariant, and what clients see of the frames goes up.
LEMMA PushStep == PushInv /\ [Next]_vars => PushInv' /\ PushRises
<1>. SUFFICES ASSUME PushInv, [Next]_vars PROVE PushInv' /\ PushRises
  OBVIOUS
<1>1. CASE Pushes
  BY <1>1, DeliverStep DEF Pushes
<1>2. CASE \/ \E session \in Sessions \union {IdleSession} :
                 RobotChanges(session) \/ SetUp(session)
           \/ RobotStays \/ CreateTask \/ RobotReports \/ ResetRobot
           \/ \E status \in Forced : ForceTask(status)
  BY <1>2, RobotSteps
<1>3. CASE MapTimer \/ LocationTimer
  BY <1>3, TimerSteps
<1>4. CASE \/ \E s \in Sockets : LocationRegister(s)
           \/ SwitchDataset
           \/ \E t \in Tickets : GenerateTicket(t) \/ TicketExpires(t)
           \/ UNCHANGED vars
  BY <1>4, QuietSteps
<1>5. CASE \E s \in Sockets : Disconnect(s)
  <2>1. PICK s \in Sockets : Forget({s}) /\ closed' = closed
    BY <1>5 DEF Disconnect
  <2>. QED BY <2>1, ForgetStep DEF PushInv, PushTypes
<1>6. CASE Shutdown
  <2>1. Forget(Sockets) /\ closed' = TRUE
    BY <1>6 DEF Shutdown
  <2>. QED BY <2>1, ForgetStep
<1>7. CASE \E s \in Sockets, t \in Tickets : Upgrade(s, t)
  BY <1>7, UpgradeStep
<1>8. CASE \E config \in Configs : UpdateChaos(config)
  BY <1>8, UpdateChaosStep
<1>9. CASE RatelStatus
  BY <1>9, RatelStatusStep
<1>. QED BY <1>1, <1>2, <1>3, <1>4, <1>5, <1>6, <1>7, <1>8, <1>9 DEF Next

\* The invariant holds.
THEOREM PushSound == Spec => [](PushInv)
<1>. QED BY PushStarts, PushStep, PTL DEF Spec

\* The robot, the stream, the tickets and the clients are typed, and never is more under way
\* than the bound allows.
THEOREM PushTyped == Spec => []TypeOK
<1>1. PushInv => TypeOK
  BY DEF PushInv, PushTypes, TypeOK, Streams, Statuses, Views
<1>. QED BY <1>1, PushSound, PTL

\* Once nothing is under way to it, a client that is promised everything has seen where the
\* session stands, and the status of the record unless that was made or altered without a
\* `changed' since it connected or was last told (wsServer.ts, pushChannels.ts, and
\* dispatchMapping, createMappingTask and forceMappingTaskStatus of virtualRobotCore.ts).
THEOREM PushUpToDate == Spec => []UpToDate
<1>1. PushInv => UpToDate
  <2>. SUFFICES ASSUME PushInv, NEW s \in Sockets, sockets[s] = "open",
                       promised[s] = "everything", line[s] = <<>>, watched = {"status", "task"}
                PROVE  /\ view[s].status = robot.session
                       /\ robot.task # Null /\ s \notin untold =>
                            \/ view[s].task = robot.task
                            \/ view[s].task = Unseen /\ robot.task \notin {"ON_THE_WAY", "PAUSE"}
    BY DEF UpToDate
  <2>1. Current(s)
    BY DEF PushInv, PushCurrent
  <2>2. \A k \in 1..Len(Pipe(s).line) : FALSE
    BY DEF Pipe
  <2>3. \A f, v : Ends(Pipe(s), f, v) => view[s][f] = v
    BY <2>2 DEF Ends, Pipe
  <2>. QED BY <2>1, <2>3 DEF Current, Knows
<1>. QED BY <1>1, PushSound, PTL

\* The frames a client is shown only go up: to a later dataset, or to a later frame of it,
\* through every interleaving of timers, greetings and switches (mapStream.ts, chaos.ts).
THEOREM PushFramesInOrder == Spec => FramesInOrder
<1>. DEFINE A == \A s \in Sockets :
          sockets'[s] = "open" /\ promised'[s] # "nothing" /\ view'[s].frame # view[s].frame =>
              LET old == view[s].frame
                  new == view'[s].frame
              IN  new[1] > old[1] \/ (new[1] = old[1] /\ new[2] > old[2])
<1>1. PushInv /\ [Next]_vars => [A]_vars
  <2>. SUFFICES ASSUME PushInv, [Next]_vars PROVE A
    OBVIOUS
  <2>1. PushRises /\ PushInv'
    BY PushStep
  <2>2. \A s \in Sockets : view[s].frame \in Frames /\ view'[s].frame \in Frames
    BY <2>1 DEF PushInv, PushTypes, Views
  <2>3. \A a, b \in Frames : Before(a, b) => b[1] > a[1] \/ (b[1] = a[1] /\ b[2] > a[2])
    BY DEF Before, Frames
  <2>. QED BY <2>1, <2>2, <2>3 DEF PushRises, UpTo
<1>2. Spec => [][A]_vars
  BY <1>1, PushSound, PTL DEF Spec
<1>. QED BY <1>2 DEF FramesInOrder
=============================================================================
