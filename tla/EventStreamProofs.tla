-------------------------- MODULE EventStreamProofs --------------------------
(***************************************************************************)
(* Proofs about EventStream, for any query limit, any number of events,    *)
(* lost connections and server deaths: the feed shows every event once and *)
(* in order, and a subscription that ends has shown all of them.           *)
(*                                                                         *)
(* The second half is about another specification, that of Conversation    *)
(* with StorageRoots.                                                      *)
(***************************************************************************)
EXTENDS EventStream, Conversation, FiniteSetTheorems, TLAPS

Phases == {"none", "poll", "merge", "send", "check"}

TypeOK ==
    /\ log \in Seq(Labels)
    /\ status \in {"running", "paused"} \cup Final
    /\ stream \in [pc : Phases, last : Nat, idle : Nat, batch : SUBSET Nat]
    /\ wire \in Seq(Nat)
    /\ client \in [state : {"waiting", "open", "done"}, lastId : Nat]
    /\ shown \in Seq(Nat)
    /\ flooded \in BOOLEAN
    /\ ended \in Int /\ ended <= Len(log)

\* What the feed has, what is on its way to it and what the stream is about to send have
\* numbers that grow, and a frame that ends the stream is the last one.
Ordered ==
    /\ \A i, j \in DOMAIN shown : i < j => shown[i] < shown[j]
    /\ \A i \in DOMAIN shown : shown[i] <= client.lastId
    /\ \A i, j \in DOMAIN wire : i < j => wire[i] # EndFrame /\ (wire[j] = EndFrame \/ wire[i] < wire[j])
    /\ \A i \in DOMAIN wire : wire[i] = EndFrame \/ client.lastId < wire[i]
    /\ \A i \in DOMAIN wire : wire[i] = EndFrame => stream.pc = "none"
    /\ client.state # "open" => wire = << >> /\ stream.pc = "none"
    /\ stream.pc # "none" => /\ client.lastId <= stream.last
                             /\ \A i \in DOMAIN wire : wire[i] <= stream.last
    /\ \A s \in stream.batch : stream.last < s /\ s <= Len(log)

IsShown(s) == \E i \in DOMAIN shown : shown[i] = s
OnWire(s, k) == \E i \in DOMAIN wire : i <= k /\ wire[i] = s

\* Nothing is passed over: by the feed, by the wire, by the stream in each of its phases.
NoGap ==
    flooded \/
    /\ \A s \in 1..client.lastId : s \in raced \/ IsShown(s)
    /\ \A k \in DOMAIN wire : \A s \in 1..wire[k] : s \in raced \/ IsShown(s) \/ OnWire(s, k)
    /\ stream.pc # "none" =>
          \A s \in 1..stream.last : s \in raced \/ IsShown(s) \/ OnWire(s, Len(wire))
    /\ stream.pc = "merge" =>
          \A s \in DOMAIN log : (stream.last < s /\ log[s] = "run") => s \in raced \/ s \in stream.batch
    /\ stream.pc = "send" =>
          \A b \in stream.batch : \A s \in 1..b : stream.last < s => s \in raced \/ s \in stream.batch
    /\ stream.pc = "check" => \A s \in DOMAIN log : stream.last < s => s \in raced

\* The end is announced when there is nothing left to send.
EndKnown ==
    (client.state = "done" \/ \E i \in DOMAIN wire : wire[i] = EndFrame) =>
        /\ status \in Final
        /\ flooded \/ \A s \in 1..ended : s \in raced \/ IsShown(s) \/ OnWire(s, Len(wire))

IInv == TypeOK /\ Ordered /\ NoGap /\ EndKnown

LEMMA InitIInv == Init => IInv
<1> SUFFICES ASSUME Init PROVE IInv
    OBVIOUS
<1> USE DEF Init, Closed, Final
<1>1. TypeOK
  <2>1. log \in Seq(Labels) /\ wire \in Seq(Nat) /\ shown \in Seq(Nat) /\ Len(log) = 0
        OBVIOUS
  <2>2. ended \in Int /\ ended <= 0
        OBVIOUS
  <2>3. /\ stream \in [pc : Phases, last : Nat, idle : Nat, batch : SUBSET Nat]
        /\ client \in [state : {"waiting", "open", "done"}, lastId : Nat]
        BY DEF Phases
  <2>4. QED BY <2>1, <2>2, <2>3 DEF TypeOK
<1>2. Ordered
      BY DEF Ordered
<1>3. NoGap
      BY DEF NoGap
<1>4. EndKnown
      BY DEF EndKnown
<1>5. QED BY <1>1, <1>2, <1>3, <1>4 DEF IInv

\* An event is stored: the stream is where it was, and where it would miss the event the
\* event has raced with it.
LEMMA StoreKeeps ==
    ASSUME IInv, NEW label \in Labels, Store(label),
           UNCHANGED <<status, stream, wire, client, shown, flooded, ended>>
    PROVE  IInv'
<1>1. /\ log' \in Seq(Labels) /\ Len(log') = Len(log) + 1
      /\ DOMAIN log = 1..Len(log) /\ DOMAIN log' = 1..Len(log) + 1
      /\ \A s \in DOMAIN log : log'[s] = log[s]
      /\ log'[Len(log) + 1] = label
      BY DEF IInv, TypeOK, Store
<1>2. raced \subseteq raced' /\ (Raced(label) => Len(log) + 1 \in raced')
      BY <1>1 DEF Store
<1>3. TypeOK'
      BY <1>1 DEF IInv, TypeOK
<1>4. Ordered'
      BY <1>1 DEF IInv, TypeOK, Ordered
<1>5. NoGap'
  <2> SUFFICES ASSUME ~flooded PROVE NoGap'
      BY DEF NoGap
  <2>1. NoGap
        BY DEF IInv
  <2>2. (stream.pc = "merge" =>
          \A s \in DOMAIN log : (stream.last < s /\ log[s] = "run") => s \in raced \/ s \in stream.batch)'
        BY <1>1, <1>2, <2>1 DEF NoGap, Raced
  <2>3. (stream.pc = "check" => \A s \in DOMAIN log : stream.last < s => s \in raced)'
        BY <1>1, <1>2, <2>1 DEF NoGap, Raced
  <2>4. QED BY <1>2, <2>1, <2>2, <2>3 DEF NoGap, IsShown, OnWire
<1>6. EndKnown'
      BY <1>2 DEF IInv, EndKnown, IsShown, OnWire
<1>7. QED BY <1>3, <1>4, <1>5, <1>6 DEF IInv

\* Nothing that the invariant speaks of changes but the status.
LEMMA StatusKeeps ==
    ASSUME IInv, UNCHANGED <<log, stream, wire, client, shown, raced, flooded>>,
           \/ UNCHANGED <<status, ended>>
           \/ status = "running" /\ status' \in {"running", "paused"} \cup Final
                  /\ ended' \in {ended, Len(log)}
           \/ status = "paused" /\ status' = "running" /\ UNCHANGED ended
    PROVE  IInv'
<1>1. TypeOK'
      BY DEF IInv, TypeOK
<1>2. Ordered' /\ NoGap'
      BY DEF IInv, Ordered, NoGap, IsShown, OnWire
<1>3. EndKnown'
      BY DEF IInv, EndKnown, IsShown, OnWire, Final
<1>4. QED BY <1>1, <1>2, <1>3 DEF IInv

LEMMA RunKeeps == ASSUME IInv, Run PROVE IInv'
<1>1. ASSUME NEW label \in Labels, Emit(label) PROVE IInv'
  <2>1. CASE opened
        BY <1>1, <2>1, StoreKeeps DEF Emit
  <2>2. CASE ~opened
        BY <1>1, <2>2, StatusKeeps DEF Emit
  <2>3. QED BY <2>1, <2>2
<1>2. CASE PermissionChanged
      BY <1>2, StoreKeeps DEF PermissionChanged, Labels
<1>3. CASE End
      BY <1>3, StatusKeeps DEF End, observed
<1>4. CASE Pause
      BY <1>4, StatusKeeps DEF Pause, observed
<1>5. CASE Return
      BY <1>5, StatusKeeps DEF Return, observed
<1>6. CASE Resume
      BY <1>6, StatusKeeps DEF Resume, observed
<1>7. QED BY <1>1, <1>2, <1>3, <1>4, <1>5, <1>6 DEF Run

\* A stream starts where the feed is.
LEMMA ConnectKeeps == ASSUME IInv, Connect PROVE IInv'
<1>1. /\ client.state = "waiting"
      /\ client'.state = "open" /\ client'.lastId = client.lastId
      /\ stream'.pc = "poll" /\ stream'.last = client.lastId
      /\ stream'.idle = 0 /\ stream'.batch = {}
      /\ stream' \in [pc : Phases, last : Nat, idle : Nat, batch : SUBSET Nat]
      /\ client' \in [state : {"waiting", "open", "done"}, lastId : Nat]
      BY DEF IInv, TypeOK, Connect, Closed, Phases
<1>2. UNCHANGED <<log, status, wire, shown, raced, flooded, ended>>
      BY DEF Connect
<1>3. wire = << >>
      BY <1>1 DEF IInv, Ordered
<1>4. TypeOK'
      BY <1>1, <1>2 DEF IInv, TypeOK
<1>5. Ordered'
      BY <1>1, <1>2, <1>3 DEF IInv, TypeOK, Ordered
<1>6. NoGap'
      BY <1>1, <1>2, <1>3 DEF IInv, NoGap, IsShown, OnWire
<1>7. EndKnown'
      BY <1>1, <1>2, <1>3 DEF IInv, EndKnown
<1>8. QED BY <1>4, <1>5, <1>6, <1>7 DEF IInv

LEMMA PollRunKeeps == ASSUME IInv, PollRun PROVE IInv'
<1>1. Rows("run") \subseteq Waiting("run") /\ Waiting("run") \subseteq DOMAIN log
      BY DEF Rows, Waiting
<1>2. DOMAIN log = 1..Len(log)
      BY DEF IInv, TypeOK
<1>3. /\ stream.pc = "poll" /\ stream'.pc = "merge" /\ stream'.last = stream.last
      /\ stream'.batch = Rows("run")
      /\ flooded' = (flooded \/ Rows("run") # Waiting("run"))
      /\ UNCHANGED <<log, status, wire, client, shown, raced, ended>>
      BY DEF PollRun, IInv, TypeOK
<1>4. stream' \in [pc : Phases, last : Nat, idle : Nat, batch : SUBSET Nat]
  <2>1. Rows("run") \in SUBSET Nat
        BY <1>1, <1>2
  <2>2. stream' = [stream EXCEPT !.pc = "merge", !.batch = Rows("run")]
        BY DEF PollRun
  <2>3. QED BY <2>1, <2>2 DEF IInv, TypeOK, Phases
<1>5. TypeOK'
      BY <1>3, <1>4 DEF IInv, TypeOK
<1>6. Ordered'
      BY <1>1, <1>2, <1>3 DEF IInv, Ordered, Waiting
<1>7. NoGap'
  <2> SUFFICES ASSUME ~flooded' PROVE NoGap'
      BY DEF NoGap
  <2>1. ~flooded /\ Rows("run") = Waiting("run")
        BY <1>3
  <2>2. \A s \in DOMAIN log : (stream.last < s /\ log[s] = "run") => s \in Rows("run")
        BY <2>1 DEF Waiting
  <2>3. QED BY <1>3, <2>1, <2>2 DEF IInv, NoGap, IsShown, OnWire
<1>8. EndKnown'
      BY <1>3 DEF IInv, EndKnown, IsShown, OnWire
<1>9. QED BY <1>5, <1>6, <1>7, <1>8 DEF IInv

\* The two queries have found all that the stream has not sent, but what has raced.
LEMMA PollTaskKeeps == ASSUME IInv, PollTask PROVE IInv'
<1> DEFINE batch == stream.batch \cup Rows("task")
<1>1. Rows("task") \subseteq Waiting("task") /\ Waiting("task") \subseteq DOMAIN log
      BY DEF Rows, Waiting
<1>2. DOMAIN log = 1..Len(log) /\ log \in Seq(Labels)
      BY DEF IInv, TypeOK
<1>3. /\ stream.pc = "merge" /\ stream'.pc \in {"poll", "send", "check"}
      /\ stream'.last = stream.last
      /\ stream'.batch = batch
      /\ stream'.pc # "send" => batch = {}
      /\ flooded' = (flooded \/ Rows("task") # Waiting("task"))
      /\ UNCHANGED <<log, status, wire, client, shown, raced, ended>>
      BY DEF PollTask, IInv, TypeOK
<1>4. stream' \in [pc : Phases, last : Nat, idle : Nat, batch : SUBSET Nat]
  <2>1. batch \in SUBSET Nat
        BY <1>1, <1>2 DEF IInv, TypeOK
  <2>2. CASE batch # {}
    <3>1. stream' = [stream EXCEPT !.pc = "send", !.idle = 0, !.batch = batch]
          BY <2>2 DEF PollTask
    <3>2. QED BY <2>1, <3>1 DEF IInv, TypeOK, Phases
  <2>3. CASE batch = {}
    <3>1. stream' = [stream EXCEPT !.idle = IF @ < MaxIdle THEN @ + 1 ELSE @,
                                   !.pc = IF stream.idle + 1 >= MaxIdle THEN "check" ELSE "poll"]
          BY <2>3 DEF PollTask
    <3>2. stream.idle \in Nat
          BY DEF IInv, TypeOK
    <3>3. (IF stream.idle < MaxIdle THEN stream.idle + 1 ELSE stream.idle) \in Nat
          BY <3>2
    <3>4. (IF stream.idle + 1 >= MaxIdle THEN "check" ELSE "poll") \in Phases
          BY DEF Phases
    <3>5. QED BY <3>1, <3>3, <3>4 DEF IInv, TypeOK
  <2>4. QED BY <2>2, <2>3
<1>5. TypeOK'
      BY <1>3, <1>4 DEF IInv, TypeOK
<1>6. \A s \in batch : stream.last < s /\ s <= Len(log)
      BY <1>1, <1>2 DEF IInv, Ordered, Waiting
<1>7. Ordered'
      BY <1>3, <1>6 DEF IInv, Ordered
<1>8. NoGap'
  <2> SUFFICES ASSUME ~flooded' PROVE NoGap'
      BY DEF NoGap
  <2>1. ~flooded /\ Rows("task") = Waiting("task")
        BY <1>3
  <2>2. ASSUME NEW s \in DOMAIN log, stream.last < s PROVE s \in raced \/ s \in batch
    <3>1. CASE log[s] = "run"
          BY <1>3, <2>1, <2>2, <3>1 DEF IInv, NoGap
    <3>2. CASE log[s] = "task"
          BY <2>1, <2>2, <3>2 DEF Waiting
    <3>3. QED BY <1>2, <3>1, <3>2 DEF Labels
  <2> HIDE DEF batch
  <2>3. \A b \in batch : \A s \in 1..b : s \in DOMAIN log
    <3>1. batch \subseteq Nat /\ Len(log) \in Nat
          BY <1>1, <1>2 DEF IInv, TypeOK, batch
    <3>2. QED BY <1>2, <1>6, <3>1
  <2>4. QED BY <1>3, <2>1, <2>2, <2>3 DEF IInv, NoGap, IsShown, OnWire
<1>9. EndKnown'
      BY <1>3 DEF IInv, EndKnown, IsShown, OnWire
<1>10. QED BY <1>5, <1>7, <1>8, <1>9 DEF IInv

\* The number sent is the next one that has not raced.
LEMMA SendKeeps == ASSUME IInv, Send PROVE IInv'
<1>1. PICK s \in stream.batch :
          /\ IsNext(s)
          /\ wire' = Append(wire, s)
          /\ stream' = [stream EXCEPT !.last = s, !.batch = @ \ {s},
                                      !.pc = IF stream.batch = {s} THEN "poll" ELSE @]
      BY DEF Send
<1>2. /\ stream.pc = "send"
      /\ UNCHANGED <<log, status, client, shown, raced, flooded, ended>>
      BY DEF Send, observed
<1>3. s \in Nat /\ stream.last < s /\ s <= Len(log) /\ stream.last \in Nat /\ \A r \in stream.batch : s <= r
      BY <1>1 DEF IInv, TypeOK, Ordered, IsNext
<1>4. /\ stream'.pc \in {"poll", "send"} /\ stream'.last = s /\ stream'.batch = stream.batch \ {s}
      /\ stream' \in [pc : Phases, last : Nat, idle : Nat, batch : SUBSET Nat]
      BY <1>1, <1>2, <1>3 DEF IInv, TypeOK, Phases
<1>5. /\ wire \in Seq(Nat) /\ wire' \in Seq(Nat) /\ Len(wire') = Len(wire) + 1
      /\ DOMAIN wire = 1..Len(wire) /\ DOMAIN wire' = 1..Len(wire) + 1
      /\ \A i \in DOMAIN wire : wire'[i] = wire[i]
      /\ wire'[Len(wire) + 1] = s
      BY <1>1, <1>3 DEF IInv, TypeOK
<1>6. client.lastId \in Nat /\ client.lastId <= stream.last /\ client.state = "open"
      BY <1>2 DEF IInv, TypeOK, Ordered
<1>7. \A i \in DOMAIN wire : /\ wire[i] \in Nat
                              /\ wire[i] # EndFrame /\ wire[i] <= stream.last /\ client.lastId < wire[i]
      BY <1>2, <1>5 DEF IInv, Ordered
<1>8. TypeOK'
      BY <1>2, <1>4, <1>5 DEF IInv, TypeOK
<1>9. Ordered'
  <2>1. (\A i, j \in DOMAIN wire : i < j => wire[i] # EndFrame /\ (wire[j] = EndFrame \/ wire[i] < wire[j]))'
    <3> SUFFICES ASSUME NEW i \in DOMAIN wire', NEW j \in DOMAIN wire', i < j
                 PROVE  wire'[i] # EndFrame /\ (wire'[j] = EndFrame \/ wire'[i] < wire'[j])
        BY DEF EndFrame
    <3>1. i \in DOMAIN wire /\ wire'[i] = wire[i] /\ Len(wire) \in Nat
          BY <1>5
    <3>2. CASE j \in DOMAIN wire
          BY <1>5, <3>1, <3>2 DEF IInv, Ordered
    <3>3. CASE j = Len(wire) + 1
          BY <1>3, <1>5, <1>7, <3>1, <3>3
    <3>4. QED BY <1>5, <3>1, <3>2, <3>3
  <2>2. (\A i \in DOMAIN wire : wire[i] # EndFrame /\ client.lastId < wire[i] /\ wire[i] <= stream.last)'
    <3> SUFFICES ASSUME NEW i \in DOMAIN wire'
                 PROVE  wire'[i] # EndFrame /\ client.lastId < wire'[i] /\ wire'[i] <= s
        BY <1>2, <1>4 DEF EndFrame
    <3>1. CASE i \in DOMAIN wire
          BY <1>3, <1>5, <1>7, <3>1
    <3>2. CASE i = Len(wire) + 1
          BY <1>3, <1>5, <1>6, <3>2 DEF EndFrame
    <3>3. QED BY <1>5, <3>1, <3>2
  <2>3. (\A r \in stream.batch : stream.last < r /\ r <= Len(log))'
        BY <1>2, <1>3, <1>4 DEF IInv, TypeOK, Ordered
  <2>4. QED BY <1>2, <1>3, <1>4, <1>6, <2>1, <2>2, <2>3 DEF IInv, Ordered
<1>10. NoGap'
  <2> SUFFICES ASSUME ~flooded PROVE NoGap'
      BY <1>2 DEF NoGap
  <2>1. NoGap
        BY DEF IInv
  <2>2. ASSUME NEW r \in 1..s, r # s PROVE r \in raced \/ IsShown(r) \/ OnWire(r, Len(wire))
    <3>1. CASE r <= stream.last
          BY <1>2, <1>3, <2>1, <2>2, <3>1 DEF NoGap
    <3>2. CASE stream.last < r
      <4>1. r \in raced \/ r \in stream.batch
            BY <1>1, <1>2, <2>1, <3>2 DEF NoGap
      <4>2. r \notin stream.batch
            BY <1>3, <2>2
      <4>3. QED BY <4>1, <4>2
    <3>3. QED BY <1>3, <3>1, <3>2
  <2>3. \A r \in Nat : \A k \in DOMAIN wire : OnWire(r, k) => OnWire(r, k)'
        BY <1>5 DEF OnWire
  <2>4. \A r \in Nat : OnWire(r, Len(wire)) => OnWire(r, Len(wire))'
        BY <1>5 DEF OnWire
  <2>5. OnWire(s, Len(wire))'
        BY <1>5 DEF OnWire
  <2>6. (\A k \in DOMAIN wire : \A r \in 1..wire[k] : r \in raced \/ IsShown(r) \/ OnWire(r, k))'
    <3> SUFFICES ASSUME NEW k \in DOMAIN wire', NEW r \in 1..wire'[k]
                 PROVE  r \in raced \/ IsShown(r) \/ OnWire(r, k)'
        BY <1>2 DEF IsShown
    <3>1. CASE k \in DOMAIN wire
          BY <1>5, <2>1, <2>3, <3>1 DEF NoGap
    <3>2. CASE k = Len(wire) + 1
          BY <1>3, <1>5, <2>2, <2>4, <2>5, <3>2
    <3>3. QED BY <1>5, <3>1, <3>2
  <2>7. (\A r \in 1..stream.last : r \in raced \/ IsShown(r) \/ OnWire(r, Len(wire)))'
        BY <1>2, <1>3, <1>4, <2>2, <2>4, <2>5 DEF IsShown
  <2>8. (stream.pc = "send" =>
            \A b \in stream.batch : \A r \in 1..b : stream.last < r => r \in raced \/ r \in stream.batch)'
        BY <1>2, <1>3, <1>4, <2>1 DEF NoGap
  <2>9. QED BY <1>2, <1>4, <2>1, <2>6, <2>7, <2>8 DEF NoGap, IsShown
<1>11. EndKnown'
  <2>1. \A i \in DOMAIN wire' : wire'[i] # EndFrame
        BY <1>3, <1>5, <1>7 DEF EndFrame
  <2>2. QED BY <1>2, <1>6, <2>1 DEF EndKnown
<1>12. QED BY <1>8, <1>9, <1>10, <1>11 DEF IInv

\* The status is asked for when nothing but what has raced is left.
LEMMA CheckKeeps == ASSUME IInv, Check PROVE IInv'
<1>1. /\ stream.pc = "check"
      /\ UNCHANGED <<log, status, client, shown, raced, flooded, ended>>
      BY DEF Check, observed
<1>2. CASE ~IsFinal
  <2>1. /\ stream'.pc = "poll" /\ stream'.last = stream.last /\ stream'.batch = stream.batch
        /\ stream' \in [pc : Phases, last : Nat, idle : Nat, batch : SUBSET Nat]
        /\ UNCHANGED wire
        BY <1>2 DEF Check, IInv, TypeOK, Phases
  <2>2. TypeOK'
        BY <1>1, <2>1 DEF IInv, TypeOK
  <2>3. Ordered'
        BY <1>1, <2>1 DEF IInv, Ordered
  <2>4. NoGap' /\ EndKnown'
        BY <1>1, <2>1 DEF IInv, NoGap, EndKnown, IsShown, OnWire
  <2>5. QED BY <2>2, <2>3, <2>4 DEF IInv
<1>3. CASE IsFinal
  <2>1. /\ stream'.pc = "none" /\ stream'.last = 0 /\ stream'.batch = {}
        /\ stream' \in [pc : Phases, last : Nat, idle : Nat, batch : SUBSET Nat]
        BY <1>3 DEF Check, Closed, Phases
  <2>2. /\ wire \in Seq(Nat) /\ wire' \in Seq(Nat) /\ Len(wire') = Len(wire) + 1
        /\ DOMAIN wire = 1..Len(wire) /\ DOMAIN wire' = 1..Len(wire) + 1
        /\ \A i \in DOMAIN wire : wire'[i] = wire[i]
        /\ wire'[Len(wire) + 1] = EndFrame
    <3>1. wire' = Append(wire, EndFrame) /\ EndFrame \in Nat
          BY <1>3 DEF Check, EndFrame
    <3>2. wire \in Seq(Nat)
          BY DEF IInv, TypeOK
    <3>3. QED BY <3>1, <3>2
  <2>3. client.state = "open" /\ \A i \in DOMAIN wire : wire[i] # EndFrame
        BY <1>1 DEF IInv, Ordered
  <2>4. TypeOK'
        BY <1>1, <2>1, <2>2 DEF IInv, TypeOK
  <2>5. Ordered'
    <3>1. (\A i, j \in DOMAIN wire : i < j => wire[i] # EndFrame /\ (wire[j] = EndFrame \/ wire[i] < wire[j]))'
      <4> SUFFICES ASSUME NEW i \in DOMAIN wire', NEW j \in DOMAIN wire', i < j
                   PROVE  wire'[i] # EndFrame /\ (wire'[j] = EndFrame \/ wire'[i] < wire'[j])
          BY DEF EndFrame
      <4>1. i \in DOMAIN wire /\ wire'[i] = wire[i] /\ Len(wire) \in Nat
            BY <2>2
      <4>2. CASE j \in DOMAIN wire
            BY <2>2, <2>3, <4>1, <4>2 DEF IInv, Ordered
      <4>3. CASE j = Len(wire) + 1
            BY <2>2, <2>3, <4>1, <4>3
      <4>4. QED BY <2>2, <4>1, <4>2, <4>3
    <3>2. (\A i \in DOMAIN wire : wire[i] = EndFrame \/ client.lastId < wire[i])'
      <4> SUFFICES ASSUME NEW i \in DOMAIN wire' PROVE wire'[i] = EndFrame \/ client.lastId < wire'[i]
          BY <1>1 DEF EndFrame
      <4>1. CASE i \in DOMAIN wire
            BY <2>2, <4>1 DEF IInv, Ordered
      <4>2. CASE i = Len(wire) + 1
            BY <2>2, <4>2
      <4>3. QED BY <2>2, <4>1, <4>2
    <3>3. QED BY <1>1, <2>1, <2>3, <3>1, <3>2 DEF IInv, Ordered
  <2>6. \A s \in Nat : \A k \in DOMAIN wire : OnWire(s, k) => OnWire(s, k)'
        BY <2>2 DEF OnWire
  <2>7. \A s \in Nat : OnWire(s, Len(wire)) => OnWire(s, Len(wire))'
        BY <2>2 DEF OnWire
  <2>8. NoGap'
    <3> SUFFICES ASSUME ~flooded PROVE NoGap'
        BY <1>1 DEF NoGap
    <3>1. (\A k \in DOMAIN wire : \A s \in 1..wire[k] : s \in raced \/ IsShown(s) \/ OnWire(s, k))'
      <4> SUFFICES ASSUME NEW k \in DOMAIN wire', NEW s \in 1..wire'[k]
                   PROVE  s \in raced \/ IsShown(s) \/ OnWire(s, k)'
          BY <1>1 DEF IsShown
      <4>1. k \in DOMAIN wire
            BY <2>2 DEF EndFrame
      <4>2. wire'[k] = wire[k] /\ s \in Nat
            BY <2>2, <4>1
      <4>3. s \in raced \/ IsShown(s) \/ OnWire(s, k)
            BY <4>1, <4>2 DEF IInv, NoGap
      <4>4. QED BY <2>6, <4>1, <4>2, <4>3
    <3>2. QED BY <1>1, <2>1, <3>1 DEF IInv, NoGap, IsShown
  <2>9. EndKnown'
    <3>1. status \in Final
          BY <1>3 DEF IsFinal
    <3>2. ASSUME ~flooded, NEW s \in 1..ended PROVE s \in raced \/ IsShown(s) \/ OnWire(s, Len(wire))
      <4>1. s \in DOMAIN log /\ s \in Nat /\ stream.last \in Nat
            BY DEF IInv, TypeOK
      <4>2. CASE s <= stream.last
            BY <1>1, <3>2, <4>1, <4>2 DEF IInv, NoGap
      <4>3. CASE stream.last < s
            BY <1>1, <3>2, <4>1, <4>3 DEF IInv, NoGap
      <4>4. QED BY <4>1, <4>2, <4>3
    <3>3. \A s \in 1..ended : s \in Nat
          BY DEF IInv, TypeOK
    <3>4. QED BY <1>1, <2>7, <3>1, <3>2, <3>3 DEF EndKnown, IsShown
  <2>10. QED BY <2>4, <2>5, <2>8, <2>9 DEF IInv
<1>4. QED BY <1>2, <1>3

\* A frame leaves the wire for the feed.
LEMMA ReceiveKeeps == ASSUME IInv, Receive PROVE IInv'
<1> DEFINE h == Head(wire)
<1>1. /\ client.state = "open" /\ wire # << >> /\ wire' = Tail(wire)
      /\ UNCHANGED <<log, status, stream, raced, flooded, ended>>
      BY DEF Receive
<1>2. /\ wire \in Seq(Nat) /\ wire' \in Seq(Nat) /\ Len(wire) >= 1 /\ Len(wire) \in Nat
      /\ DOMAIN wire = 1..Len(wire) /\ DOMAIN wire' = 1..(Len(wire) - 1) /\ Len(wire') = Len(wire) - 1
      /\ \A i \in DOMAIN wire' : wire'[i] = wire[i + 1]
      /\ wire[1] = h /\ h \in Nat /\ 1 \in DOMAIN wire
      BY <1>1 DEF IInv, TypeOK
<1>3. \A i \in DOMAIN wire' : i \in Nat /\ i >= 1 /\ i + 1 \in DOMAIN wire
  <2>1. DOMAIN wire = 1..Len(wire) /\ DOMAIN wire' = 1..(Len(wire) - 1) /\ Len(wire) \in Nat
        BY <1>2
  <2>2. QED BY <2>1
<1>4. \A i \in DOMAIN wire : i \in Nat /\ (i # 1 => i - 1 \in DOMAIN wire' /\ (i - 1) + 1 = i)
  <2>1. DOMAIN wire = 1..Len(wire) /\ DOMAIN wire' = 1..(Len(wire) - 1) /\ Len(wire) \in Nat
        BY <1>2
  <2>2. QED BY <2>1
<1>5. CASE h = EndFrame
  <2>1. /\ UNCHANGED shown
        /\ client'.state = "done" /\ client'.lastId = client.lastId
        /\ client' \in [state : {"waiting", "open", "done"}, lastId : Nat]
        BY <1>5 DEF Receive, IInv, TypeOK
  <2>2. Len(wire) = 1 /\ stream.pc = "none"
        BY <1>2, <1>5 DEF IInv, Ordered
  <2>3. wire' = << >> /\ DOMAIN wire' = {}
        BY <1>2, <2>2
  <2>4. TypeOK'
        BY <1>1, <1>2, <2>1 DEF IInv, TypeOK
  <2>5. Ordered'
        BY <1>1, <2>1, <2>2, <2>3 DEF IInv, Ordered
  <2>6. NoGap'
        BY <1>1, <2>1, <2>2, <2>3 DEF IInv, NoGap, IsShown
  <2>7. EndKnown'
    <3>1. status \in Final
          BY <1>2, <1>5 DEF IInv, EndKnown
    <3>2. ASSUME ~flooded, NEW s \in 1..ended PROVE s \in raced \/ IsShown(s)
      <4>1. s \in raced \/ IsShown(s) \/ OnWire(s, Len(wire))
            BY <1>2, <1>5, <3>2 DEF IInv, EndKnown
      <4>2. ~OnWire(s, Len(wire))
            BY <1>2, <1>5, <2>2 DEF OnWire, EndFrame
      <4>3. QED BY <4>1, <4>2
    <3>3. QED BY <1>1, <2>1, <3>1, <3>2 DEF EndKnown, IsShown
  <2>8. QED BY <2>4, <2>5, <2>6, <2>7 DEF IInv
<1>6. CASE h # EndFrame
  <2>1. client.lastId < h /\ client.lastId \in Nat
        BY <1>2, <1>6 DEF IInv, TypeOK, Ordered
  <2>2. /\ shown' = Append(shown, h)
        /\ client'.state = "open" /\ client'.lastId = h
        /\ client' \in [state : {"waiting", "open", "done"}, lastId : Nat]
        BY <1>1, <1>2, <1>6, <2>1 DEF Receive, IInv, TypeOK
  <2>3. /\ shown \in Seq(Nat) /\ shown' \in Seq(Nat) /\ Len(shown) \in Nat
        /\ DOMAIN shown = 1..Len(shown) /\ DOMAIN shown' = 1..Len(shown) + 1
        /\ \A i \in DOMAIN shown : shown'[i] = shown[i]
        /\ shown'[Len(shown) + 1] = h
    <3>1. shown \in Seq(Nat) /\ h \in Nat
          BY <1>2 DEF IInv, TypeOK
    <3> HIDE DEF h
    <3>2. QED BY <2>2, <3>1
  <2> HIDE DEF h
  <2>4. TypeOK'
        BY <1>1, <1>2, <2>2, <2>3 DEF IInv, TypeOK
  <2>5. Ordered'
    <3>1. (\A i, j \in DOMAIN shown : i < j => shown[i] < shown[j])'
      <4> SUFFICES ASSUME NEW i \in DOMAIN shown', NEW j \in DOMAIN shown', i < j
                   PROVE  shown'[i] < shown'[j]
          OBVIOUS
      <4>1. i \in DOMAIN shown /\ shown'[i] = shown[i] /\ shown[i] \in Nat /\ shown[i] <= client.lastId
        <5>1. DOMAIN shown = 1..Len(shown) /\ DOMAIN shown' = 1..Len(shown) + 1 /\ Len(shown) \in Nat
              BY <2>3
        <5>2. i \in DOMAIN shown
              BY <5>1
        <5>3. QED BY <2>3, <5>2 DEF IInv, Ordered
      <4>2. CASE j \in DOMAIN shown
        <5>1. shown[i] < shown[j]
              BY <4>1, <4>2 DEF IInv, Ordered
        <5>2. shown'[j] = shown[j]
              BY <2>3, <4>2
        <5>3. QED BY <4>1, <5>1, <5>2
      <4>3. CASE j = Len(shown) + 1
        <5>1. shown'[j] = h /\ h \in Nat
              BY <1>2, <2>3, <4>3
        <5>2. QED BY <2>1, <4>1, <5>1
      <4>4. QED BY <2>3, <4>1, <4>2, <4>3
    <3>2. (\A i \in DOMAIN shown : shown[i] <= client.lastId)'
      <4> SUFFICES ASSUME NEW i \in DOMAIN shown' PROVE shown'[i] <= h
          BY <2>2
      <4>1. CASE i \in DOMAIN shown
        <5>1. shown'[i] = shown[i] /\ shown[i] <= client.lastId /\ shown[i] \in Nat
              BY <2>3, <4>1 DEF IInv, Ordered
        <5>2. QED BY <1>2, <2>1, <5>1
      <4>2. CASE i = Len(shown) + 1
            BY <1>2, <2>3, <4>2
      <4>3. QED BY <2>3, <4>1, <4>2
    <3>3. (\A i, j \in DOMAIN wire : i < j => wire[i] # EndFrame /\ (wire[j] = EndFrame \/ wire[i] < wire[j]))'
      <4> SUFFICES ASSUME NEW i \in DOMAIN wire', NEW j \in DOMAIN wire', i < j
                   PROVE  wire'[i] # EndFrame /\ (wire'[j] = EndFrame \/ wire'[i] < wire'[j])
          BY DEF EndFrame
      <4>1. i + 1 \in DOMAIN wire /\ j + 1 \in DOMAIN wire /\ i + 1 < j + 1
            BY <1>3
      <4>2. wire'[i] = wire[i + 1] /\ wire'[j] = wire[j + 1]
            BY <1>2
      <4>3. QED BY <4>1, <4>2 DEF IInv, Ordered
    <3>4. (\A i \in DOMAIN wire : wire[i] = EndFrame \/ client.lastId < wire[i])'
      <4> SUFFICES ASSUME NEW i \in DOMAIN wire'
                   PROVE  wire'[i] = EndFrame \/ h < wire'[i]
          BY <2>2 DEF EndFrame
      <4>1. i + 1 \in DOMAIN wire /\ 1 < i + 1
            BY <1>3
      <4>2. wire'[i] = wire[i + 1]
            BY <1>2
      <4>3. QED BY <1>2, <4>1, <4>2 DEF IInv, Ordered
    <3>5. (\A i \in DOMAIN wire : wire[i] = EndFrame => stream.pc = "none")'
          BY <1>1, <1>2 DEF IInv, Ordered
    <3>6. (stream.pc # "none" => /\ client.lastId <= stream.last
                                 /\ \A i \in DOMAIN wire : wire[i] <= stream.last)'
          BY <1>1, <1>2, <2>2 DEF IInv, Ordered
    <3>7. QED BY <1>1, <2>2, <3>1, <3>2, <3>3, <3>4, <3>5, <3>6 DEF IInv, Ordered
  <2>6. \A s \in Nat : IsShown(s) => IsShown(s)'
        BY <2>3 DEF IsShown
  <2> DEFINE LeftOnWire(s, k) == \E i \in DOMAIN wire' : i <= k /\ wire'[i] = s
  <2>7. \A s \in Nat, k \in DOMAIN wire : OnWire(s, k) => IsShown(s)' \/ LeftOnWire(s, k - 1)
    <3> SUFFICES ASSUME NEW s \in Nat, NEW k \in DOMAIN wire, NEW i \in DOMAIN wire,
                        i <= k, wire[i] = s
                 PROVE  IsShown(s)' \/ LeftOnWire(s, k - 1)
        BY DEF OnWire
    <3>1. CASE i = 1
      <4>1. s = h
            BY <1>2, <3>1
      <4>2. Len(shown) + 1 \in DOMAIN shown'
            BY <2>3
      <4>3. QED BY <2>3, <4>1, <4>2 DEF IsShown
    <3>2. CASE i # 1
      <4>1. i - 1 \in DOMAIN wire' /\ wire'[i - 1] = s /\ i - 1 <= k - 1
        <5>1. i - 1 \in DOMAIN wire' /\ (i - 1) + 1 = i
              BY <1>4, <3>2
        <5>2. wire'[i - 1] = wire[i]
              BY <1>2, <5>1
        <5>3. i - 1 <= k - 1
              BY <1>4
        <5>4. QED BY <5>1, <5>2, <5>3
      <4>2. QED BY <4>1
    <3>3. QED BY <3>1, <3>2
  <2> HIDE DEF LeftOnWire
  <2>8. NoGap'
    <3> SUFFICES ASSUME ~flooded PROVE NoGap'
        BY <1>1 DEF NoGap
    <3>1. NoGap
          BY DEF IInv
    <3>2. ASSUME NEW k \in DOMAIN wire, NEW s \in 1..wire[k]
          PROVE  s \in raced \/ IsShown(s)' \/ LeftOnWire(s, k - 1)
      <4>1. s \in Nat
            OBVIOUS
      <4>2. QED BY <2>6, <2>7, <3>1, <4>1 DEF NoGap
    <3>3. \A s : ~LeftOnWire(s, 0)
          BY <1>2 DEF LeftOnWire
    <3>4. (\A s \in 1..client.lastId : s \in raced \/ IsShown(s))'
          BY <1>1, <1>2, <2>2, <3>2, <3>3
    <3>5. (\A k \in DOMAIN wire : \A s \in 1..wire[k] : s \in raced \/ IsShown(s) \/ OnWire(s, k))'
      <4> SUFFICES ASSUME NEW k \in DOMAIN wire', NEW s \in 1..wire'[k]
                   PROVE  s \in raced \/ IsShown(s)' \/ OnWire(s, k)'
          BY <1>1
      <4>1. k + 1 \in DOMAIN wire /\ (k + 1) - 1 = k
            BY <1>3
      <4>2. s \in 1..wire[k + 1]
            BY <1>2
      <4>3. s \in raced \/ IsShown(s)' \/ LeftOnWire(s, k)
            BY <3>2, <4>1, <4>2
      <4>4. QED BY <4>3 DEF LeftOnWire, OnWire
    <3>6. (stream.pc # "none" =>
             \A s \in 1..stream.last : s \in raced \/ IsShown(s) \/ OnWire(s, Len(wire)))'
      <4> SUFFICES ASSUME stream.pc # "none", NEW s \in 1..stream.last
                   PROVE  s \in raced \/ IsShown(s)' \/ LeftOnWire(s, Len(wire) - 1)
          BY <1>1, <1>2 DEF LeftOnWire, OnWire
      <4>1. s \in Nat /\ Len(wire) \in DOMAIN wire
            BY <1>2
      <4>2. QED BY <2>6, <2>7, <3>1, <4>1 DEF NoGap
    <3>7. QED BY <1>1, <3>1, <3>4, <3>5, <3>6 DEF NoGap
  <2>9. EndKnown'
    <3> SUFFICES ASSUME NEW e \in DOMAIN wire', wire'[e] = EndFrame
                 PROVE  /\ status \in Final
                        /\ flooded \/ \A s \in 1..ended : s \in raced \/ IsShown(s)' \/ OnWire(s, Len(wire))'
        BY <1>1, <2>2 DEF EndKnown
    <3>1. e + 1 \in DOMAIN wire /\ wire[e + 1] = EndFrame
          BY <1>2, <1>3
    <3>2. ASSUME ~flooded, NEW s \in 1..ended PROVE s \in raced \/ IsShown(s)' \/ LeftOnWire(s, Len(wire) - 1)
      <4>1. s \in Nat /\ Len(wire) \in DOMAIN wire
            BY <1>2 DEF IInv, TypeOK
      <4>2. s \in raced \/ IsShown(s) \/ OnWire(s, Len(wire))
            BY <3>1, <3>2 DEF IInv, EndKnown
      <4>3. QED BY <2>6, <2>7, <4>1, <4>2
    <3>3. \A s : LeftOnWire(s, Len(wire) - 1) => OnWire(s, Len(wire))'
          BY <1>2 DEF LeftOnWire, OnWire
    <3>4. QED BY <1>2, <3>1, <3>2, <3>3 DEF IInv, EndKnown
  <2>10. QED BY <2>4, <2>5, <2>8, <2>9 DEF IInv
<1>7. QED BY <1>5, <1>6

\* A lost connection takes the wire with it; the feed stays.
LEMMA LostKeeps ==
    ASSUME IInv, Lost, UNCHANGED <<log, status, shown, raced, flooded, ended>>
    PROVE  IInv'
<1>1. /\ wire' = << >> /\ stream'.pc = "none" /\ stream'.last = 0 /\ stream'.batch = {}
      /\ stream' \in [pc : Phases, last : Nat, idle : Nat, batch : SUBSET Nat]
      /\ client' \in [state : {"waiting", "open", "done"}, lastId : Nat]
      /\ client'.lastId = client.lastId
      /\ client'.state = "done" => client.state = "done" /\ wire = << >>
      /\ client'.state # "open"
      BY DEF IInv, TypeOK, Ordered, Lost, Closed, Phases
<1>2. TypeOK'
      BY <1>1 DEF IInv, TypeOK
<1>3. Ordered'
      BY <1>1 DEF IInv, Ordered
<1>4. NoGap'
      BY <1>1 DEF IInv, NoGap, IsShown
<1>5. EndKnown'
      BY <1>1 DEF IInv, EndKnown, IsShown, OnWire
<1>6. QED BY <1>2, <1>3, <1>4, <1>5 DEF IInv

LEMMA NextKeeps == IInv /\ [Next]_vars => IInv'
<1> SUFFICES ASSUME IInv, [Next]_vars PROVE IInv'
    OBVIOUS
<1>1. CASE Run
      BY <1>1, RunKeeps
<1>2. CASE Connect
      BY <1>2, ConnectKeeps
<1>3. CASE Stream
      BY <1>3, PollRunKeeps, PollTaskKeeps, SendKeeps, CheckKeeps DEF Stream
<1>4. CASE Receive
      BY <1>4, ReceiveKeeps
<1>5. CASE Disconnect
      BY <1>5, LostKeeps DEF Disconnect
<1>6. CASE Die
      BY <1>6, LostKeeps DEF Die
<1>7. CASE UNCHANGED vars
      BY <1>7, StatusKeeps DEF vars
<1>8. QED BY <1>1, <1>2, <1>3, <1>4, <1>5, <1>6, <1>7 DEF Next

LEMMA Complete == IInv => FeedComplete
<1> SUFFICES ASSUME IInv PROVE FeedComplete
    OBVIOUS
<1>1. \A s : IsShown(s) => s \in Range(shown)
      BY DEF IsShown, Range
<1>2. ShownInOrder
      BY <1>1 DEF IInv, Ordered, NoGap, ShownInOrder
<1>3. EndsComplete
  <2> SUFFICES ASSUME client.state = "done" PROVE EndsComplete
      BY DEF EndsComplete
  <2>1. wire = << >>
        BY DEF IInv, Ordered
  <2>2. \A s, k : ~OnWire(s, k)
        BY <2>1 DEF OnWire
  <2>3. QED BY <1>1, <2>2 DEF IInv, EndKnown, EndsComplete
<1>4. QED BY <1>2, <1>3 DEF FeedComplete

\* The activity feed shows every event of a run once and in order, over any number of
\* lost connections and server deaths and for any limit of a query, but what came
\* between two reads of the stream or was cut off; a subscription ends when all has been
\* shown (app/api/server.py 1746-1812).
THEOREM EventsShownOnce == Spec => []FeedComplete
<1>1. Spec => []IInv
      BY InitIInv, NextKeeps, PTL DEF Spec
<1>2. QED BY <1>1, Complete, PTL

-----------------------------------------------------------------------------
(***************************************************************************)
(* The storage roots and the conversation, for any directories, projects,  *)
(* tasks and threads.                                                      *)
(***************************************************************************)
Path == Dirs \cup {None}
AFile == [task : Tasks, n : Nat, grows : BOOLEAN]
Config == [root : Path, own : [Projects -> Path]]
RunRow == [status : {"none", "starting", "running", "paused", "ended"}, project : Projects \cup {None},
           root : Path, home : Path, writes : Nat, own : Path, late : BOOLEAN,
           gone : BOOLEAN]
Migrations == [pc : {"copy", "switch", "delete"}, to : Dirs, from : Dirs, new : BOOLEAN,
               manifest : SUBSET AFile, prior : Path]
Session == [turns : Seq(Nat), scroll : Nat, noWrite : BOOLEAN, plan : BOOLEAN, task : BOOLEAN,
            edit : BOOLEAN]
Talks == [pc : {"run", "save", "write"}, kind : {"turn", "voice", "scroll", "clear", "steer"},
          id : Nat, session : Session, said : Said \cup {"scroll", "clear", "steer"},
          task : Tasks \cup {None}, change : BOOLEAN]

\* What the threads are doing.
RequestsTyped == call \in [Clients -> {Idle} \cup Migrations \cup Talks] /\ served \in Nat

\* The directories and the tasks.
StorageTyped ==
    /\ exists \subseteq Dirs
    /\ files \in [Dirs -> SUBSET AFile]
    /\ \A d \in Dirs : /\ IsFiniteSet(files[d]) /\ files[d] \subseteq written
                       /\ d \notin exists => files[d] = {}
    /\ saved \in Config /\ registry \in Config /\ registry.root = saved.root
    /\ run \in [Tasks -> RunRow]
    /\ \A t \in Tasks : run[t].status # "none" => run[t].project \in Projects /\ run[t].root \in Dirs
    /\ \A t \in Tasks : run[t].status \in {"running", "paused"} => run[t].home \in Dirs

Migrating(c) == call[c].pc \in {"copy", "switch", "delete"}
Kept == written \ exposed

\* What a migration has in hand, by the stage it is in.
Migrated(c, m) ==
    /\ holder = c /\ m.from # m.to /\ {m.from, m.to} \subseteq moved
    /\ m.pc \in {"copy", "switch"} =>
          /\ Root(registry) = m.from /\ m.prior = registry.root
          /\ \A f \in Kept : \E d \in Dirs \ {m.to} : f \in files[d]
    /\ m.pc = "copy" =>
          /\ m.manifest \subseteq files[m.from]
          /\ \A f \in files[m.from] \cap Kept : f.grows \/ f \in m.manifest
    /\ m.pc \in {"switch", "delete"} => files[m.from] \cap Kept \subseteq files[m.to]
    /\ m.pc = "delete" => Root(registry) = m.to

MigrationsSafe == \A c \in Clients : Migrating(c) => Migrated(c, call[c])

\* Where the manifest of a task is.
Housed(t) ==
    /\ Manifest(t) \in written
    /\ run[t].own # None /\ run[t].own \notin moved => Manifest(t) \in files[run[t].own]
    /\ run[t].own = None /\ ~run[t].late => Manifest(t) \in files[Root(saved)]

TasksHoused ==
    \A t \in Tasks :
        /\ run[t].status = "starting" /\ run[t].own # None => run[t].root = run[t].own
        /\ run[t].status \in {"running", "paused"} /\ Manifest(t) \notin exposed => Housed(t)

StorageInv == StorageTyped /\ MigrationsSafe /\ NothingLost /\ TasksHoused

ConversationTyped ==
    /\ file \in Session
    /\ acked \in [turns : Seq(Nat), scroll : Nat, forbidden : BOOLEAN]
    /\ torn \in BOOLEAN /\ disturbed \in BOOLEAN

\* A request under way, and what it is going to write.
Holding(c) ==
    /\ Locks(call[c].kind) => lock = c
    /\ call[c].kind = "clear" => call[c].session = Fresh /\ call[c].pc # "run"

\* What request r writes follows on from session, and honours a ban.
Fits(r, session, forbidden) ==
    /\ r.kind = "scroll" => r.session = [session EXCEPT !.scroll = r.id]
    /\ r.kind \notin {"scroll", "clear"} =>
          /\ r.session.turns = LastTurns(Append(session.turns, r.id))
          /\ r.session.scroll = session.scroll
          /\ r.said = "forbid" => r.session.noWrite
    /\ forbidden /\ r.kind # "clear" =>
          r.session.noWrite /\ (r.pc = "run" => ~r.change)

Upright(c) ==
    /\ \A o \in Clients : Talking(o) => o = c
    /\ call[c].pc = "write" => torn
    /\ Fits(call[c], file, acked.forbidden)

Undisturbed ==
    ~disturbed =>
        /\ file.turns = acked.turns /\ file.scroll = acked.scroll
        /\ acked.forbidden => file.noWrite
        /\ torn => \E c \in Clients : At(c, "write")
        /\ \A c \in Clients : Talking(c) => Upright(c)

ConversationInv == ConversationTyped /\ Undisturbed /\ \A c \in Clients : Talking(c) => Holding(c)

JarvisInv == RequestsTyped /\ StorageInv /\ ConversationInv
-----------------------------------------------------------------------------
USE StorageAssumption

\* What a thread that migrates, or talks, has in hand.
LEMMA InHand ==
    ASSUME RequestsTyped, NEW c \in Clients
    PROVE  /\ Migrating(c) => call[c] \in Migrations /\ ~Talking(c)
           /\ Talking(c) => call[c] \in Talks /\ ~Migrating(c)
           /\ At(c, "idle") => ~Migrating(c) /\ ~Talking(c)
BY DEF RequestsTyped, Migrating, Talking, At, Idle, Migrations, Talks

\* What a request leaves of the calls.
LEMMA AfterBegin ==
    ASSUME RequestsTyped, NEW c \in Clients, NEW r \in Migrations \cup Talks, Begin(c, r)
    PROVE  /\ RequestsTyped' /\ served' = served + 1
           /\ call'[c] = r /\ \A o \in Clients \ {c} : call'[o] = call[o]
           /\ ~Migrating(c) /\ ~Talking(c)
BY InHand DEF RequestsTyped, Begin, Serve

\* A request ends.
LEMMA AfterFinish ==
    ASSUME RequestsTyped, NEW c \in Clients, Finish(c)
    PROVE  /\ RequestsTyped' /\ served' = served
           /\ call'[c] = Idle /\ \A o \in Clients \ {c} : call'[o] = call[o]
           /\ ~Migrating(c)' /\ ~Talking(c)'
<1>1. RequestsTyped' /\ call'[c] = Idle /\ served' = served /\ \A o \in Clients \ {c} : call'[o] = call[o]
      BY DEF RequestsTyped, Finish, Become
<1> QED BY <1>1 DEF Migrating, Talking, Idle

\* A request goes on.
LEMMA AfterGoto ==
    ASSUME RequestsTyped, NEW c \in Clients, NEW pc, Goto(c, pc),
           \/ Migrating(c) /\ pc \in {"copy", "switch", "delete"}
           \/ Talking(c) /\ pc \in {"run", "save", "write"}
    PROVE  /\ RequestsTyped' /\ served' = served
           /\ call'[c] = [call[c] EXCEPT !.pc = pc] /\ \A o \in Clients \ {c} : call'[o] = call[o]
<1>1. [call[c] EXCEPT !.pc = pc] \in Migrations \cup Talks
      BY InHand DEF Migrations, Talks
<1> QED BY <1>1 DEF RequestsTyped, Goto, Become

\* One migration at a time.
LEMMA OneMigration ==
    ASSUME MigrationsSafe, NEW c \in Clients, NEW o \in Clients, Migrating(c), Migrating(o)
    PROVE  c = o
BY DEF MigrationsSafe, Migrated

\* Every workspace is in a directory.
LEMMA RootsTyped ==
    ASSUME StorageTyped
    PROVE  /\ Root(registry) \in Dirs /\ Root(saved) = Root(registry)
           /\ \A p \in Projects : Workspace(saved, p) \in Dirs
BY DEF StorageTyped, Config, Path, Root, Workspace

\* A file is written.
LEMMA Stored ==
    ASSUME RequestsTyped, StorageInv, NEW d \in Dirs, NEW f \in AFile, StoreFile(d, f),
           UNCHANGED <<call, saved, registry, holder, moved>>
    PROVE  /\ exists' \subseteq Dirs /\ files' \in [Dirs -> SUBSET AFile]
           /\ \A x \in Dirs : /\ IsFiniteSet(files'[x]) /\ files'[x] \subseteq written'
                              /\ x \notin exists' => files'[x] = {}
                              /\ files[x] \subseteq files'[x]
           /\ f \in files'[d] /\ exposed \subseteq exposed' /\ written \subseteq written'
           /\ f \in written'
           /\ MigrationsSafe' /\ NothingLost'
<1> USE DEF StorageInv
<1>1. /\ exists' = exists \cup {d} /\ files' = [files EXCEPT ![d] = @ \cup {f}]
      /\ written' = written \cup {f} /\ exposed \subseteq exposed'
      /\ Exposed(d, f.grows) => f \in exposed'
      BY DEF StoreFile
<1>2. /\ exists \subseteq Dirs /\ files \in [Dirs -> SUBSET AFile]
      /\ \A x \in Dirs : IsFiniteSet(files[x]) /\ files[x] \subseteq written /\ (x \notin exists => files[x] = {})
      BY DEF StorageTyped
<1>3. /\ files' \in [Dirs -> SUBSET AFile] /\ files'[d] = files[d] \cup {f}
      /\ \A x \in Dirs \ {d} : files'[x] = files[x]
      BY <1>1, <1>2
<1>4. IsFiniteSet(files'[d])
      BY <1>2, <1>3, FS_AddElement
<1>5. ASSUME NEW g \in Kept' PROVE g \in Kept \/ (g = f /\ ~Exposed(d, f.grows))
      BY <1>1 DEF Kept
<1>6. ASSUME NEW x \in Dirs, NEW g \in files'[x] \cap Kept'
      PROVE  (g \in files[x] /\ g \in Kept) \/ (g = f /\ x = d /\ ~Exposed(d, f.grows))
  <2>1. CASE x # d \/ g # f
        BY <2>1, <1>1, <1>2, <1>3 DEF Kept
  <2>2. CASE x = d /\ g = f
        BY <2>2, <1>1 DEF Kept
  <2> QED BY <2>1, <2>2
<1>7. NothingLost'
      BY <1>3, <1>5 DEF NothingLost, Kept
<1>8. ASSUME NEW c \in Clients, Migrating(c)' PROVE Migrated(c, call[c])'
  <2> DEFINE m == call[c]
  <2>1. call'[c] = m /\ Migrating(c) /\ m \in Migrations /\ Migrated(c, m) /\ holder = c
        BY <1>8, InHand DEF Migrating, MigrationsSafe, Migrated
  <2>2. /\ m.pc \in {"copy", "switch", "delete"} /\ m.from \in Dirs /\ m.to \in Dirs
        BY <2>1 DEF Migrations
  <2>3. /\ d = m.to => Exposed(d, f.grows)
        /\ d = m.from /\ m.pc = "copy" /\ ~f.grows => Exposed(d, f.grows)
        /\ d = m.from /\ m.pc \in {"switch", "delete"} => Exposed(d, f.grows)
        BY <2>1, <2>2 DEF Exposed, At
  <2> HIDE DEF m
  <2>4. m.pc \in {"copy", "switch"} => \A g \in Kept' : \E x \in Dirs \ {m.to} : g \in files'[x]
    <3> SUFFICES ASSUME m.pc \in {"copy", "switch"}, NEW g \in Kept'
                 PROVE  \E x \in Dirs \ {m.to} : g \in files'[x]
        OBVIOUS
    <3>1. CASE g \in Kept
      <4>1. PICK x \in Dirs \ {m.to} : g \in files[x]
            BY <3>1, <2>1 DEF Migrated
      <4> QED BY <4>1, <1>3
    <3>2. CASE g = f /\ ~Exposed(d, f.grows)
          BY <3>2, <2>3, <1>3
    <3> QED BY <3>1, <3>2, <1>5
  <2>5. m.pc = "copy" => \A g \in files'[m.from] \cap Kept' : g.grows \/ g \in m.manifest
        BY <2>1, <2>2, <2>3, <1>6 DEF Migrated
  <2>6. m.pc \in {"switch", "delete"} => files'[m.from] \cap Kept' \subseteq files'[m.to]
        BY <2>1, <2>2, <2>3, <1>3, <1>6 DEF Migrated
  <2>7. m.pc = "copy" => m.manifest \subseteq files'[m.from]
        BY <2>1, <2>2, <1>3 DEF Migrated
  <2> QED BY <2>1, <2>4, <2>5, <2>6, <2>7 DEF Migrated
<1>9. MigrationsSafe'
      BY <1>8 DEF MigrationsSafe
<1> QED BY <1>1, <1>2, <1>3, <1>4, <1>7, <1>9

\* Steps that touch neither the files nor a migration.
LEMMA FilesLeft ==
    ASSUME StorageInv, UNCHANGED <<exists, files, holder, written, exposed, moved>>,
           saved.root = saved'.root, registry'.root = registry.root,
           \A c \in Clients : Migrating(c)' => Migrating(c) /\ call'[c] = call[c]
    PROVE  MigrationsSafe' /\ NothingLost'
<1>1. Root(registry)' = Root(registry) /\ Kept' = Kept
      BY DEF Root, Kept
<1>2. ASSUME NEW c \in Clients, Migrating(c)' PROVE Migrated(c, call[c])'
  <2> DEFINE m == call[c]
  <2>1. call'[c] = m /\ Migrated(c, m)
        BY <1>2 DEF StorageInv, MigrationsSafe
  <2> HIDE DEF m
  <2> QED BY <2>1, <1>1 DEF Migrated
<1> QED BY <1>2 DEF StorageInv, MigrationsSafe, NothingLost

\* Requests that are not about storage.
LEMMA StorageLeft ==
    ASSUME StorageInv, UNCHANGED storage,
           \A c \in Clients : Migrating(c)' => Migrating(c) /\ call'[c] = call[c]
    PROVE  StorageInv'
<1>1. UNCHANGED <<exists, files, saved, registry, holder, run, written, exposed, moved>>
      BY DEF storage
<1>2. MigrationsSafe' /\ NothingLost'
      BY <1>1, FilesLeft
<1>3. StorageTyped' /\ TasksHoused'
      BY <1>1 DEF StorageInv, StorageTyped, TasksHoused, Housed, Manifest, File, Root
<1> QED BY <1>2, <1>3 DEF StorageInv

\* A migration begins.
LEMMA MigrateKeeps ==
    ASSUME RequestsTyped, StorageInv, NEW c \in Clients, NEW to \in Dirs, Migrate(c, to)
    PROVE  RequestsTyped' /\ StorageInv'
<1> DEFINE m == Migration(to)
<1> USE DEF StorageInv
<1>1. /\ holder = None /\ to # Root(registry) /\ files[to] = {} /\ Begin(c, m) /\ holder' = c
      /\ moved' = moved \cup {to, Root(registry)}
      /\ UNCHANGED <<exists, files, saved, registry, run, written, exposed>>
      BY DEF Migrate, Unlocked
<1>2. Root(registry) \in Dirs /\ files[Root(registry)] \subseteq AFile /\ registry.root \in Path
      BY RootsTyped DEF StorageTyped, Config
<1>3. m \in Migrations
      BY <1>2 DEF Migration, Migrations
<1>4. /\ RequestsTyped' /\ call'[c] = m /\ \A o \in Clients \ {c} : call'[o] = call[o]
      BY <1>1, <1>3, AfterBegin
<1>5. \A o \in Clients \ {c} : ~Migrating(o)'
      BY <1>1, <1>4 DEF MigrationsSafe, Migrated, Migrating
<1>6. Migrated(c, call[c])'
  <2>1. /\ m.from = Root(registry) /\ m.to = to /\ m.pc = "copy" /\ m.prior = registry.root
        /\ m.manifest = files[Root(registry)]
        BY DEF Migration
  <2>2. \A f \in Kept' : \E d \in Dirs \ {to} : f \in files[d]
        BY <1>1 DEF NothingLost, Kept
  <2>3. Root(registry)' = Root(registry)
        BY <1>1 DEF Root
  <2> HIDE DEF m
  <2> QED BY <1>1, <1>4, <2>1, <2>2, <2>3 DEF Migrated
<1>7. MigrationsSafe'
      BY <1>5, <1>6 DEF MigrationsSafe
<1>8. StorageTyped' /\ NothingLost'
      BY <1>1 DEF StorageTyped, NothingLost
<1>9. TasksHoused'
      BY <1>1 DEF TasksHoused, Housed, Manifest, File, Root
<1> QED BY <1>4, <1>7, <1>8, <1>9

\* A file is copied.
LEMMA CopyKeeps ==
    ASSUME RequestsTyped, StorageInv, NEW c \in Clients, Copy(c)
    PROVE  RequestsTyped' /\ StorageInv'
<1> DEFINE m == call[c]
<1> USE DEF StorageInv
<1>1. m.pc = "copy" /\ Migrating(c) /\ m \in Migrations /\ Migrated(c, m) /\ m.to \in Dirs /\ m.from \in Dirs
      BY InHand DEF Copy, At, Migrating, MigrationsSafe, Migrations
<1>2. PICK f \in files[m.from] : files' = [files EXCEPT ![m.to] = @ \cup {f}]
      BY DEF Copy, ToCopy
<1>3. /\ exists' = exists \cup {m.to}
      /\ UNCHANGED <<call, served, saved, registry, holder, run, written, exposed, moved>>
      BY DEF Copy, requests
<1>4. /\ files \in [Dirs -> SUBSET AFile] /\ exists \subseteq Dirs
      /\ \A d \in Dirs : IsFiniteSet(files[d]) /\ files[d] \subseteq written /\ (d \notin exists => files[d] = {})
      BY DEF StorageTyped
<1>5. /\ files' \in [Dirs -> SUBSET AFile] /\ files'[m.to] = files[m.to] \cup {f}
      /\ \A d \in Dirs \ {m.to} : files'[d] = files[d]
      /\ \A d \in Dirs : files[d] \subseteq files'[d] /\ files'[d] \subseteq written
      BY <1>1, <1>2, <1>4
<1>6. IsFiniteSet(files'[m.to])
  <2>1. IsFiniteSet(files[m.to])
        BY <1>1, <1>4
  <2> HIDE DEF m
  <2> QED BY <2>1, <1>5, FS_AddElement
<1>7. StorageTyped'
  <2> HIDE DEF m
  <2> QED BY <1>1, <1>3, <1>4, <1>5, <1>6 DEF StorageTyped
<1>8. Root(registry)' = Root(registry) /\ Root(saved)' = Root(saved) /\ Kept' = Kept
      BY <1>3 DEF Root, Kept
<1>9. Migrated(c, call[c])'
  <2>1. call'[c] = m
        BY <1>3
  <2>2. m.from # m.to
        BY <1>1 DEF Migrated
  <2>3. files'[m.from] = files[m.from]
        BY <1>1, <1>5, <2>2
  <2> HIDE DEF m
  <2> QED BY <1>1, <1>3, <1>5, <1>8, <2>1, <2>3 DEF Migrated
<1>10. ASSUME NEW o \in Clients, Migrating(o)' PROVE o = c
  <2>1. Migrating(o)
        BY <1>3, <1>10 DEF Migrating
  <2> QED BY <2>1, <1>1, OneMigration
<1>11. MigrationsSafe'
       BY <1>9, <1>10 DEF MigrationsSafe
<1>12. NothingLost'
       BY <1>3, <1>5 DEF NothingLost
<1>13. TasksHoused'
  <2>1. ASSUME NEW t \in Tasks PROVE Manifest(t)' = Manifest(t) /\ (Housed(t) => Housed(t)')
    <3>1. run[t].own \in Path /\ Root(saved) \in Dirs
          BY RootsTyped DEF StorageTyped, RunRow
    <3> QED BY <1>3, <1>5, <1>8, <3>1 DEF Housed, Manifest, File, Path
  <2> QED BY <2>1, <1>3 DEF TasksHoused
<1> QED BY <1>3, <1>7, <1>11, <1>12, <1>13 DEF RequestsTyped

\* What has been copied is taken back.
LEMMA RestoreKeeps ==
    ASSUME RequestsTyped, StorageInv, NEW c \in Clients, call[c].pc \in {"copy", "switch"}, Restore(c)
    PROVE  RequestsTyped' /\ StorageInv'
<1> DEFINE m == call[c]
<1> USE DEF StorageInv
<1>1. Migrating(c) /\ m \in Migrations /\ Migrated(c, m) /\ m.to \in Dirs /\ m.from \in Dirs
      BY InHand DEF Migrating, MigrationsSafe, Migrations
<1>2. /\ m.from # m.to /\ m.to \in moved /\ Root(registry) = m.from /\ m.prior = registry.root
      /\ \A f \in Kept : \E d \in Dirs \ {m.to} : f \in files[d]
      BY <1>1 DEF Migrated
<1>3. /\ files' = [files EXCEPT ![m.to] = {}]
      /\ exists' \subseteq exists /\ \A d \in exists : d \in exists' \/ d = m.to
      /\ registry' = [registry EXCEPT !.root = m.prior] /\ saved' = registry'
      /\ holder' = None /\ Finish(c) /\ UNCHANGED <<run, written, exposed, moved>>
      BY DEF Restore
<1>4. /\ files \in [Dirs -> SUBSET AFile] /\ exists \subseteq Dirs /\ registry \in Config
      /\ \A d \in Dirs : IsFiniteSet(files[d]) /\ files[d] \subseteq written /\ (d \notin exists => files[d] = {})
      BY DEF StorageTyped
<1>5. registry' = registry /\ registry.root = saved.root
      BY <1>2, <1>3, <1>4 DEF Config, StorageTyped
<1>6. /\ files' \in [Dirs -> SUBSET AFile] /\ files'[m.to] = {}
      /\ \A d \in Dirs \ {m.to} : files'[d] = files[d]
      BY <1>1, <1>3, <1>4
<1>7. /\ RequestsTyped' /\ ~Migrating(c)' /\ \A o \in Clients \ {c} : call'[o] = call[o]
      BY <1>3, AfterFinish
<1>8. \A o \in Clients : ~Migrating(o)'
  <2> SUFFICES ASSUME NEW o \in Clients, Migrating(o)' PROVE FALSE
      OBVIOUS
  <2>1. o # c /\ Migrating(o)
        BY <1>7 DEF Migrating
  <2> QED BY <2>1, <1>1, OneMigration
<1>9. MigrationsSafe'
      BY <1>8 DEF MigrationsSafe
<1>10. StorageTyped'
  <2>1. IsFiniteSet({})
        BY FS_EmptySet
  <2>2. \A d \in Dirs : IsFiniteSet(files'[d]) /\ files'[d] \subseteq written' /\ (d \notin exists' => files'[d] = {})
    <3> HIDE DEF m
    <3> QED BY <1>3, <1>4, <1>6, <2>1
  <2>3. exists' \subseteq Dirs /\ saved' = registry' /\ registry' = registry /\ run' = run
        BY <1>3, <1>4, <1>5
  <2> QED BY <1>4, <1>6, <2>2, <2>3 DEF StorageTyped
<1>11. NothingLost'
  <2> HIDE DEF m
  <2> QED BY <1>2, <1>3, <1>6 DEF NothingLost, Kept
<1>12. TasksHoused'
  <2>1. Root(saved)' = m.from /\ Root(saved) = m.from
        BY <1>2, <1>3, <1>5 DEF Root
  <2>2. ASSUME NEW t \in Tasks PROVE Manifest(t)' = Manifest(t) /\ (Housed(t) => Housed(t)')
    <3>1. run[t].own \in Path
          BY DEF StorageTyped, RunRow
    <3> HIDE DEF m
    <3> QED BY <1>1, <1>2, <1>3, <1>6, <2>1, <3>1 DEF Housed, Manifest, File, Path
  <2> QED BY <2>2, <1>3 DEF TasksHoused
<1> QED BY <1>7, <1>9, <1>10, <1>11, <1>12

\* A copy that is verified has everything that was kept in the old directory.
LEMMA VerifiedCopy ==
    ASSUME RequestsTyped, StorageInv, NEW c \in Clients, At(c, "copy"), Verified(c)
    PROVE  files[call[c].from] \cap Kept \subseteq files[call[c].to]
<1> DEFINE m == call[c]
           grown(S) == {f \in S : f.grows}
<1> USE DEF StorageInv
<1>1. Migrating(c) /\ m \in Migrations /\ Migrated(c, m) /\ m.to \in Dirs /\ m.from \in Dirs /\ m.pc = "copy"
      BY InHand DEF At, Migrating, MigrationsSafe, Migrations
<1>2. /\ IsFiniteSet(files[m.from]) /\ (m.from \notin exists => files[m.from] = {})
      BY <1>1 DEF StorageTyped
<1>3. CASE m.from \in exists
  <2>1. Size(files[m.from]) = Size(files[m.to]) /\ m.manifest = files[m.to]
        BY <1>3 DEF Verified
  <2> HIDE DEF m
  <2>2. m.manifest \subseteq files[m.from] /\ \A f \in files[m.from] \cap Kept : f.grows \/ f \in m.manifest
        BY <1>1 DEF Migrated
  <2>3. IsFiniteSet(grown(files[m.from])) /\ grown(m.manifest) \subseteq grown(files[m.from])
        BY <1>2, <2>2, FS_Subset
  <2>4. Cardinality(grown(files[m.from])) = Cardinality(grown(m.manifest))
        BY <2>1 DEF Size
  <2> HIDE DEF grown
  <2>5. grown(m.manifest) = grown(files[m.from])
        BY <2>3, <2>4, FS_Subset
  <2> USE DEF grown
  <2>6. \A f \in files[m.from] \cap Kept : f \in m.manifest
        BY <2>2, <2>5
  <2> QED BY <2>1, <2>6 DEF m
<1>4. CASE m.from \notin exists
      BY <1>2, <1>4
<1> QED BY <1>3, <1>4

\* The copy is taken, or taken back.
LEMMA VerifyKeeps ==
    ASSUME RequestsTyped, StorageInv, NEW c \in Clients, Verify(c)
    PROVE  RequestsTyped' /\ StorageInv'
<1> DEFINE m == call[c]
<1> USE DEF StorageInv
<1>1. Migrating(c) /\ m \in Migrations /\ Migrated(c, m) /\ m.to \in Dirs /\ m.pc = "copy"
      BY InHand DEF Verify, At, Migrating, MigrationsSafe, Migrations
<1>2. CASE ~Verified(c)
      BY <1>1, <1>2, RestoreKeeps DEF Verify
<1>3. CASE Verified(c)
  <2>1. /\ exists' = exists \cup {m.to} /\ Goto(c, "switch")
        /\ UNCHANGED <<files, saved, registry, holder, run, written, exposed, moved>>
        BY <1>3 DEF Verify
  <2>2. /\ RequestsTyped' /\ call'[c] = [m EXCEPT !.pc = "switch"]
        /\ \A o \in Clients \ {c} : call'[o] = call[o]
        BY <1>1, <2>1, AfterGoto
  <2>3. files[m.from] \cap Kept \subseteq files[m.to]
        BY <1>3, VerifiedCopy DEF Verify
  <2>4. Root(registry)' = Root(registry) /\ Kept' = Kept /\ Root(saved)' = Root(saved)
        BY <2>1 DEF Root, Kept
  <2>5. Migrated(c, call[c])'
    <3>1. /\ call'[c].pc = "switch" /\ call'[c].from = m.from /\ call'[c].to = m.to
          /\ call'[c].prior = m.prior
          BY <1>1, <2>2 DEF Migrations
    <3> HIDE DEF m
    <3> QED BY <1>1, <2>1, <2>3, <2>4, <3>1 DEF Migrated
  <2>6. ASSUME NEW o \in Clients, Migrating(o)' PROVE o = c
    <3>1. CASE o # c
      <4>1. Migrating(o)
            BY <2>2, <2>6, <3>1 DEF Migrating
      <4> QED BY <4>1, <1>1, OneMigration
    <3> QED BY <3>1
  <2>7. MigrationsSafe'
        BY <2>5, <2>6 DEF MigrationsSafe
  <2>8. StorageTyped'
        BY <1>1, <2>1 DEF StorageTyped
  <2>9. NothingLost' /\ TasksHoused'
        BY <2>1, <2>4 DEF NothingLost, TasksHoused, Housed, Manifest, File
  <2> QED BY <2>2, <2>7, <2>8, <2>9
<1> QED BY <1>2, <1>3

\* The new root is configured, or the copy is taken back.
LEMMA SwitchKeeps ==
    ASSUME RequestsTyped, StorageInv, NEW c \in Clients, Switch(c)
    PROVE  RequestsTyped' /\ StorageInv'
<1> DEFINE m == call[c]
<1> USE DEF StorageInv
<1>1. Migrating(c) /\ m \in Migrations /\ Migrated(c, m) /\ m.to \in Dirs /\ m.from \in Dirs /\ m.pc = "switch"
      BY InHand DEF Switch, At, Migrating, MigrationsSafe, Migrations
<1>2. CASE Restore(c)
      BY <1>1, <1>2, RestoreKeeps
<1>3. CASE ~Restore(c)
  <2>1. /\ registry' = [registry EXCEPT !.root = m.to] /\ saved' = registry' /\ Goto(c, "delete")
        /\ UNCHANGED <<exists, files, holder, run, written, exposed, moved>>
        BY <1>3 DEF Switch, Switched
  <2>2. /\ RequestsTyped' /\ call'[c] = [m EXCEPT !.pc = "delete"]
        /\ \A o \in Clients \ {c} : call'[o] = call[o]
        BY <1>1, <2>1, AfterGoto
  <2>3. registry' \in Config /\ registry'.root = m.to /\ m.to # None
        BY <1>1, <2>1 DEF StorageTyped, Config, Path
  <2>4. Root(registry)' = m.to /\ Root(saved)' = m.to /\ Kept' = Kept /\ Root(saved) = m.from
        BY <1>1, <2>1, <2>3, RootsTyped DEF Root, Kept, Migrated
  <2>5. Migrated(c, call[c])'
    <3>1. /\ call'[c].pc = "delete" /\ call'[c].from = m.from /\ call'[c].to = m.to
          /\ call'[c].prior = m.prior
          BY <1>1, <2>2 DEF Migrations
    <3> HIDE DEF m
    <3> QED BY <1>1, <2>1, <2>4, <3>1 DEF Migrated
  <2>6. ASSUME NEW o \in Clients, Migrating(o)' PROVE o = c
    <3>1. CASE o # c
      <4>1. Migrating(o)
            BY <2>2, <2>6, <3>1 DEF Migrating
      <4> QED BY <4>1, <1>1, OneMigration
    <3> QED BY <3>1
  <2>7. MigrationsSafe'
        BY <2>5, <2>6 DEF MigrationsSafe
  <2>8. StorageTyped' /\ NothingLost'
        BY <2>1, <2>3 DEF StorageTyped, NothingLost
  <2>9. TasksHoused'
    <3>1. ASSUME NEW t \in Tasks, Manifest(t) \notin exposed, Housed(t) PROVE Manifest(t)' = Manifest(t) /\ Housed(t)'
      <4>1. Manifest(t) \in Kept /\ Manifest(t)' = Manifest(t)
            BY <3>1 DEF Housed, Kept, Manifest, File
      <4>2. files[m.from] \cap Kept \subseteq files[m.to]
            BY <1>1 DEF Migrated
      <4> HIDE DEF m
      <4> QED BY <2>1, <2>4, <3>1, <4>1, <4>2 DEF Housed
    <3>2. \A t \in Tasks : Manifest(t)' = Manifest(t)
          BY DEF Manifest, File
    <3> QED BY <2>1, <3>1, <3>2 DEF TasksHoused
  <2> QED BY <2>2, <2>7, <2>8, <2>9
<1> QED BY <1>2, <1>3

\* The old directory goes, or one file of it stays.
LEMMA DeleteKeeps ==
    ASSUME RequestsTyped, StorageInv, NEW c \in Clients, Delete(c)
    PROVE  RequestsTyped' /\ StorageInv'
<1> DEFINE m == call[c]
<1> USE DEF StorageInv
<1>1. Migrating(c) /\ m \in Migrations /\ Migrated(c, m) /\ m.to \in Dirs /\ m.from \in Dirs /\ m.pc = "delete"
      BY InHand DEF Delete, At, Migrating, MigrationsSafe, Migrations
<1>2. /\ m.from # m.to /\ m.from \in moved /\ Root(registry) = m.to /\ files[m.from] \cap Kept \subseteq files[m.to]
      BY <1>1 DEF Migrated
<1>3. PICK left \in SUBSET files[m.from] :
          /\ files' = [files EXCEPT ![m.from] = left] /\ exists' \subseteq exists
          /\ \A d \in exists : d \in exists' \/ (d = m.from /\ left = {})
  <2>1. CASE files' = [files EXCEPT ![m.from] = {}] /\ exists' = exists \ {m.from}
        BY <2>1
  <2>2. CASE exists' = exists /\ \E f \in files[m.from] : files' = [files EXCEPT ![m.from] = {f}]
        BY <2>2
  <2> QED BY <2>1, <2>2 DEF Delete
<1>4. /\ holder' = None /\ Finish(c) /\ UNCHANGED <<saved, registry, written, exposed, moved>>
      /\ run' = [t \in Tasks |-> IF run[t].home = m.from THEN [run[t] EXCEPT !.gone = TRUE] ELSE run[t]]
      BY DEF Delete
<1>5. /\ files \in [Dirs -> SUBSET AFile] /\ exists \subseteq Dirs
      /\ \A d \in Dirs : IsFiniteSet(files[d]) /\ files[d] \subseteq written /\ (d \notin exists => files[d] = {})
      BY DEF StorageTyped
<1>6. /\ files' \in [Dirs -> SUBSET AFile] /\ files'[m.from] = left
      /\ \A d \in Dirs \ {m.from} : files'[d] = files[d]
      BY <1>1, <1>3, <1>5
<1>7. /\ RequestsTyped' /\ ~Migrating(c)' /\ \A o \in Clients \ {c} : call'[o] = call[o]
      BY <1>4, AfterFinish
<1>8. \A o \in Clients : ~Migrating(o)'
  <2> SUFFICES ASSUME NEW o \in Clients, Migrating(o)' PROVE FALSE
      OBVIOUS
  <2>1. o # c /\ Migrating(o)
        BY <1>7 DEF Migrating
  <2> QED BY <2>1, <1>1, OneMigration
<1>9. MigrationsSafe'
      BY <1>8 DEF MigrationsSafe
<1> HIDE DEF m
<1>13. ASSUME NEW t \in Tasks
       PROVE  /\ run'[t] \in RunRow /\ run'[t].status = run[t].status /\ run'[t].project = run[t].project
              /\ run'[t].root = run[t].root /\ run'[t].home = run[t].home /\ run'[t].own = run[t].own
              /\ run'[t].late = run[t].late
  <2>1. run[t] \in RunRow /\ run'[t] \in {run[t], [run[t] EXCEPT !.gone = TRUE]}
        BY <1>4 DEF StorageTyped
  <2> QED BY <2>1 DEF RunRow
<1>14. run' \in [Tasks -> RunRow]
  <2>1. run' = [t \in Tasks |-> run'[t]]
        BY <1>4
  <2> QED BY <1>13, <2>1
<1>10. StorageTyped'
  <2>1. IsFiniteSet(left)
        BY <1>1, <1>5, FS_Subset
  <2>2. \A d \in Dirs : IsFiniteSet(files'[d]) /\ files'[d] \subseteq written' /\ (d \notin exists' => files'[d] = {})
        BY <1>3, <1>4, <1>5, <1>6, <2>1
  <2> QED BY <1>3, <1>4, <1>5, <1>6, <1>13, <1>14, <2>2 DEF StorageTyped
<1>11. NothingLost'
  <2>1. ASSUME NEW f \in Kept PROVE \E d \in Dirs \ {m.from} : f \in files[d]
    <3>1. PICK d \in Dirs : f \in files[d]
          BY <2>1 DEF NothingLost, Kept
    <3> QED BY <1>1, <1>2, <2>1, <3>1
  <2> QED BY <1>4, <1>6, <2>1 DEF NothingLost, Kept
<1>12. TasksHoused'
  <2>1. Root(saved)' = m.to /\ Root(saved) = m.to
        BY <1>2, <1>4, RootsTyped DEF Root
  <2>2. ASSUME NEW t \in Tasks PROVE Manifest(t)' = Manifest(t) /\ (Housed(t) => Housed(t)')
    <3>1. run[t].own \in Path
          BY DEF StorageTyped, RunRow
    <3> QED BY <1>1, <1>2, <1>4, <1>6, <1>13, <2>1, <3>1 DEF Housed, Manifest, File, Path
  <2> QED BY <2>2, <1>4, <1>13 DEF TasksHoused
<1> QED BY <1>7, <1>9, <1>10, <1>11, <1>12
-----------------------------------------------------------------------------
(***************************************************************************)
(* Projects and tasks                                                      *)
(***************************************************************************)
\* A project's directory changes, which no task is measured by: it keeps its own.
LEMMA OverrideKeeps ==
    ASSUME RequestsTyped, StorageInv, NEW p \in Projects, NEW d \in Path, Override(p, d)
    PROVE  RequestsTyped' /\ StorageInv'
<1> USE DEF StorageInv
<1>1. /\ registry' = [registry EXCEPT !.own[p] = d] /\ saved' \in {registry', saved}
      /\ UNCHANGED <<call, exists, files, holder, run, written, exposed, moved>>
      BY DEF Override, Reroute
<1>2. registry \in Config /\ saved \in Config /\ registry.root = saved.root
      BY DEF StorageTyped
<1>3. registry' \in Config /\ registry'.root = registry.root
      BY <1>1, <1>2 DEF Config
<1>4. MigrationsSafe' /\ NothingLost'
  <2>1. \A c \in Clients : Migrating(c)' => Migrating(c) /\ call'[c] = call[c]
        BY <1>1 DEF Migrating
  <2> QED BY <1>1, <1>2, <1>3, <2>1, FilesLeft
<1>5. StorageTyped'
      BY <1>1, <1>2, <1>3 DEF StorageTyped
<1>6. TasksHoused'
      BY <1>1, <1>2, <1>3 DEF TasksHoused, Housed, Manifest, File, Root
<1>7. RequestsTyped'
      BY <1>1 DEF RequestsTyped, Override, Serve
<1> QED BY <1>4, <1>5, <1>6, <1>7

\* A workspace is made in the root that the task has read.
LEMMA CreateWorkspaceKeeps ==
    ASSUME RequestsTyped, StorageInv, NEW t \in Tasks, CreateWorkspace(t)
    PROVE  RequestsTyped' /\ StorageInv'
<1> DEFINE d == run[t].root
           f == Manifest(t)
<1> USE DEF StorageInv
<1>1. /\ run[t].status = "starting" /\ StoreFile(d, f)
      /\ run' = [run EXCEPT ![t].status = "running", ![t].home = run[t].root,
                            ![t].late = run[t].own = None /\ run[t].root # Root(saved)]
      /\ UNCHANGED <<call, served, saved, registry, holder, moved>>
      BY DEF CreateWorkspace, requests
<1>2. /\ run \in [Tasks -> RunRow] /\ run[t] \in RunRow /\ d \in Dirs
      /\ run[t].project \in Projects
      BY <1>1 DEF StorageTyped
<1>3. f \in AFile /\ \A u \in Tasks : Manifest(u)' = Manifest(u)
      BY DEF Manifest, File, AFile
<1>4. run[t].own # None => d = run[t].own
      BY <1>1 DEF TasksHoused
<1>5. /\ run'[t] \in RunRow /\ run'[t].status = "running" /\ run'[t].home = d /\ run'[t].root = d
      /\ run'[t].own = run[t].own /\ run'[t].project = run[t].project
      /\ run'[t].late = (run[t].own = None /\ d # Root(saved))
      BY <1>1, <1>2 DEF RunRow, Path
<1>6. run' \in [Tasks -> RunRow] /\ \A u \in Tasks \ {t} : run'[u] = run[u]
      BY <1>1, <1>2, <1>5
<1> HIDE DEF d, f
<1>7. /\ exists' \subseteq Dirs /\ files' \in [Dirs -> SUBSET AFile]
      /\ \A x \in Dirs : /\ IsFiniteSet(files'[x]) /\ files'[x] \subseteq written'
                         /\ x \notin exists' => files'[x] = {}
                         /\ files[x] \subseteq files'[x]
      /\ f \in files'[d] /\ exposed \subseteq exposed' /\ written \subseteq written'
      /\ f \in written' /\ MigrationsSafe' /\ NothingLost'
      BY <1>1, <1>2, <1>3, Stored
<1>8. StorageTyped'
      BY <1>1, <1>2, <1>5, <1>6, <1>7 DEF StorageTyped
<1>9. TasksHoused'
  <2>1. Root(saved)' = Root(saved)
        BY <1>1 DEF Root
  <2>2. Housed(t)'
        BY <1>1, <1>2, <1>3, <1>4, <1>5, <1>7, <2>1 DEF Housed, f
  <2>3. ASSUME NEW u \in Tasks \ {t}, Housed(u) PROVE Housed(u)'
    <3>1. run[u].own \in Path /\ Root(saved) \in Dirs
          BY RootsTyped DEF StorageTyped, RunRow
    <3> QED BY <1>1, <1>3, <1>6, <1>7, <2>1, <2>3, <3>1 DEF Housed, Path
  <2>4. \A u \in Tasks : Manifest(u)' \notin exposed' => Manifest(u) \notin exposed
        BY <1>3, <1>7
  <2> QED BY <1>5, <1>6, <2>2, <2>3, <2>4 DEF TasksHoused
<1> QED BY <1>1, <1>7, <1>8, <1>9 DEF RequestsTyped

\* A task writes.
LEMMA WriteKeeps ==
    ASSUME RequestsTyped, StorageInv, NEW t \in Tasks, Write(t)
    PROVE  RequestsTyped' /\ StorageInv'
<1> USE DEF StorageInv
<1>1. PICK d \in {run[t].home, run[t].root}, grows \in BOOLEAN :
          StoreFile(d, File(t, run[t].writes + 1, grows))
      BY DEF Write
<1> DEFINE f == File(t, run[t].writes + 1, grows)
<1>2. /\ run[t].status = "running" /\ run' = [run EXCEPT ![t].writes = @ + 1]
      /\ UNCHANGED <<call, served, saved, registry, holder, moved>>
      BY DEF Write, requests
<1>3. run \in [Tasks -> RunRow] /\ run[t] \in RunRow /\ d \in Dirs
      BY <1>1, <1>2 DEF StorageTyped
<1>4. f \in AFile
      BY <1>3 DEF File, AFile, RunRow
<1>5. \A u \in Tasks : Manifest(u)' = Manifest(u)
      BY DEF Manifest, File
<1>6. /\ run' \in [Tasks -> RunRow]
      /\ \A u \in Tasks : /\ run'[u].status = run[u].status /\ run'[u].project = run[u].project
                          /\ run'[u].root = run[u].root /\ run'[u].home = run[u].home
                          /\ run'[u].own = run[u].own /\ run'[u].late = run[u].late
  <2>1. run'[t] = [run[t] EXCEPT !.writes = @ + 1] /\ \A u \in Tasks \ {t} : run'[u] = run[u]
        BY <1>2, <1>3
  <2>2. /\ run'[t] \in RunRow
        /\ run'[t].status = run[t].status /\ run'[t].project = run[t].project
        /\ run'[t].root = run[t].root /\ run'[t].home = run[t].home
        /\ run'[t].own = run[t].own /\ run'[t].late = run[t].late
        BY <1>3, <2>1 DEF RunRow
  <2> QED BY <1>2, <1>3, <2>1, <2>2
<1> HIDE DEF f
<1>7. /\ exists' \subseteq Dirs /\ files' \in [Dirs -> SUBSET AFile]
      /\ \A x \in Dirs : /\ IsFiniteSet(files'[x]) /\ files'[x] \subseteq written'
                         /\ x \notin exists' => files'[x] = {}
                         /\ files[x] \subseteq files'[x]
      /\ exposed \subseteq exposed' /\ written \subseteq written' /\ MigrationsSafe' /\ NothingLost'
      BY <1>1, <1>2, <1>3, <1>4, Stored DEF f
<1>8. StorageTyped'
      BY <1>2, <1>6, <1>7 DEF StorageTyped
<1>9. TasksHoused'
  <2>1. Root(saved)' = Root(saved)
        BY <1>2 DEF Root
  <2>2. ASSUME NEW u \in Tasks, Housed(u) PROVE Housed(u)'
    <3>1. run[u].own \in Path /\ Root(saved) \in Dirs
          BY RootsTyped DEF StorageTyped, RunRow
    <3> QED BY <1>2, <1>5, <1>6, <1>7, <2>1, <2>2, <3>1 DEF Housed, Path
  <2>3. \A u \in Tasks : Manifest(u)' \notin exposed' => Manifest(u) \notin exposed
        BY <1>5, <1>7
  <2> QED BY <1>6, <2>2, <2>3 DEF TasksHoused
<1> QED BY <1>2, <1>7, <1>8, <1>9 DEF RequestsTyped

\* Steps of a task that keep its files: what is asked of it afterwards held before.
LEMMA TaskLeft ==
    ASSUME StorageInv, run' \in [Tasks -> RunRow],
           exists \subseteq exists', exists' \subseteq Dirs,
           UNCHANGED <<files, saved, registry, holder, written, exposed, moved>>,
           \A c \in Clients : Migrating(c)' => Migrating(c) /\ call'[c] = call[c],
           \A t \in Tasks :
              /\ run'[t].status # "none" => run'[t].project \in Projects /\ run'[t].root \in Dirs
              /\ run'[t].status \in {"running", "paused"} =>
                    /\ run[t].status \in {"running", "paused"}
                    /\ run'[t].home = run[t].home /\ run'[t].own = run[t].own /\ run'[t].late = run[t].late
              /\ run'[t].status = "starting" /\ run'[t].own # None => run'[t].root = run'[t].own
    PROVE  StorageInv'
<1> USE DEF StorageInv
<1>1. MigrationsSafe'
  <2>1. Root(registry)' = Root(registry) /\ Kept' = Kept
        BY DEF Root, Kept
  <2>2. ASSUME NEW c \in Clients, Migrating(c)' PROVE Migrated(c, call[c])'
    <3> DEFINE m == call[c]
    <3>1. call'[c] = m /\ Migrated(c, m)
          BY <2>2 DEF MigrationsSafe
    <3> HIDE DEF m
    <3> QED BY <3>1, <2>1 DEF Migrated
  <2> QED BY <2>2 DEF MigrationsSafe
<1>2. StorageTyped'
      BY DEF StorageTyped
<1>3. NothingLost'
      BY DEF NothingLost
<1>4. TasksHoused'
  <2>1. Root(saved)' = Root(saved) /\ \A t \in Tasks : Manifest(t)' = Manifest(t)
        BY DEF Root, Manifest, File
  <2> QED BY <2>1 DEF TasksHoused, Housed
<1> QED BY <1>1, <1>2, <1>3, <1>4

\* A task reads the root.
LEMMA StartTaskKeeps ==
    ASSUME StorageInv, NEW t \in Tasks, NEW p \in Projects, StartTask(t, p),
           \A c \in Clients : Migrating(c)' => Migrating(c) /\ call'[c] = call[c]
    PROVE  StorageInv'
<1>1. /\ exists' = exists \cup {Workspace(saved, p)}
      /\ UNCHANGED <<files, saved, registry, holder, written, exposed, moved>>
      /\ run' = [run EXCEPT ![t] = [NoRun EXCEPT !.status = "starting", !.project = p,
                                                !.root = Workspace(saved, p), !.own = saved.own[p]]]
      BY DEF StartTask
<1>2. StorageTyped /\ run \in [Tasks -> RunRow] /\ exists \subseteq Dirs /\ saved.own[p] \in Path
      BY DEF StorageInv, StorageTyped, Config
<1>3. /\ Workspace(saved, p) \in Dirs
      /\ saved.own[p] # None => Workspace(saved, p) = saved.own[p]
      BY <1>2, RootsTyped DEF Workspace
<1>4. /\ run'[t] \in RunRow /\ run'[t].status = "starting" /\ run'[t].project = p
      /\ run'[t].root = Workspace(saved, p) /\ run'[t].own = saved.own[p]
      BY <1>1, <1>2, <1>3 DEF NoRun, RunRow, Path
<1>5. run' \in [Tasks -> RunRow] /\ \A u \in Tasks \ {t} : run'[u] = run[u]
      BY <1>1, <1>2, <1>4
<1>6. \A u \in Tasks :
         /\ run'[u].status # "none" => run'[u].project \in Projects /\ run'[u].root \in Dirs
         /\ run'[u].status \in {"running", "paused"} =>
               /\ run[u].status \in {"running", "paused"}
               /\ run'[u].home = run[u].home /\ run'[u].own = run[u].own /\ run'[u].late = run[u].late
         /\ run'[u].status = "starting" /\ run'[u].own # None => run'[u].root = run'[u].own
  <2> SUFFICES ASSUME NEW u \in Tasks
      PROVE /\ run'[u].status # "none" => run'[u].project \in Projects /\ run'[u].root \in Dirs
            /\ run'[u].status \in {"running", "paused"} =>
                  /\ run[u].status \in {"running", "paused"}
                  /\ run'[u].home = run[u].home /\ run'[u].own = run[u].own /\ run'[u].late = run[u].late
            /\ run'[u].status = "starting" /\ run'[u].own # None => run'[u].root = run'[u].own
      OBVIOUS
  <2>1. CASE u = t
        BY <2>1, <1>3, <1>4
  <2>2. CASE u # t
        BY <2>2, <1>5 DEF StorageInv, StorageTyped, TasksHoused
  <2> QED BY <2>1, <2>2
<1> QED BY <1>1, <1>2, <1>3, <1>5, <1>6, TaskLeft

\* A task pauses, ends, or goes on once it is decided.
LEMMA LeaveDecideKeep ==
    ASSUME RequestsTyped, StorageInv, NEW t \in Tasks, Leave(t) \/ Decide(t)
    PROVE  RequestsTyped' /\ StorageInv'
<1>1. /\ call' = call /\ served' \in Nat
      /\ UNCHANGED <<exists, files, saved, registry, holder, written, exposed, moved>>
      BY DEF Leave, Decide, requests, Serve, RequestsTyped
<1>2. StorageTyped /\ run \in [Tasks -> RunRow] /\ exists \subseteq Dirs /\ run[t] \in RunRow
      BY DEF StorageInv, StorageTyped
<1>3. /\ run' \in [Tasks -> RunRow] /\ \A u \in Tasks \ {t} : run'[u] = run[u]
      /\ run'[t].project = run[t].project /\ run'[t].home = run[t].home /\ run'[t].own = run[t].own
      /\ run'[t].late = run[t].late /\ run'[t].status # "starting" /\ run[t].status # "none"
      /\ run'[t].status \in {"running", "paused"} => run[t].status \in {"running", "paused"}
      /\ run'[t].root \in Dirs
  <2>1. CASE Leave(t)
    <3>1. PICK outcome \in {"ended", "paused"} :
             /\ outcome = "paused" => run[t].status = "running"
             /\ run' = [run EXCEPT ![t].status = outcome]
          BY <2>1 DEF Leave
    <3>2. Live(t)
          BY <2>1 DEF Leave
    <3>3. run'[t] = [run[t] EXCEPT !.status = outcome] /\ run[t].root \in Dirs
          BY <1>2, <3>1, <3>2 DEF Live, StorageTyped
    <3>4. run'[t] \in RunRow
          BY <1>2, <3>3 DEF RunRow
    <3>5. /\ run'[t].project = run[t].project /\ run'[t].home = run[t].home /\ run'[t].own = run[t].own
          /\ run'[t].late = run[t].late /\ run'[t].status = outcome /\ run'[t].root = run[t].root
          BY <1>2, <3>3 DEF RunRow
    <3> QED BY <1>2, <3>1, <3>2, <3>3, <3>4, <3>5 DEF Live
  <2>2. CASE Decide(t)
    <3>1. /\ run[t].status = "paused"
          /\ run' = [run EXCEPT ![t].status = "running", ![t].root = Workspace(saved, run[t].project)]
          BY <2>2 DEF Decide
    <3>2. Workspace(saved, run[t].project) \in Dirs
          BY <1>2, <3>1, RootsTyped DEF StorageTyped
    <3>3. run'[t] = [run[t] EXCEPT !.status = "running", !.root = Workspace(saved, run[t].project)]
          BY <1>2, <3>1
    <3>4. run'[t] \in RunRow
          BY <1>2, <3>2, <3>3 DEF RunRow, Path
    <3>5. /\ run'[t].project = run[t].project /\ run'[t].home = run[t].home /\ run'[t].own = run[t].own
          /\ run'[t].late = run[t].late /\ run'[t].status = "running"
          /\ run'[t].root = Workspace(saved, run[t].project)
          BY <1>2, <3>3 DEF RunRow
    <3> QED BY <1>2, <3>1, <3>2, <3>4, <3>5
  <2> QED BY <2>1, <2>2
<1>4. ASSUME NEW u \in Tasks
      PROVE /\ run'[u].status # "none" => run'[u].project \in Projects /\ run'[u].root \in Dirs
            /\ run'[u].status \in {"running", "paused"} =>
                  /\ run[u].status \in {"running", "paused"}
                  /\ run'[u].home = run[u].home /\ run'[u].own = run[u].own /\ run'[u].late = run[u].late
            /\ run'[u].status = "starting" /\ run'[u].own # None => run'[u].root = run'[u].own
  <2>1. CASE u = t
        BY <2>1, <1>2, <1>3 DEF StorageTyped
  <2>2. CASE u # t
        BY <2>2, <1>3 DEF StorageInv, StorageTyped, TasksHoused
  <2> QED BY <2>1, <2>2
<1>5. \A c \in Clients : Migrating(c)' => Migrating(c) /\ call'[c] = call[c]
      BY <1>1 DEF Migrating
<1>6. StorageInv'
      BY <1>1, <1>2, <1>3, <1>4, <1>5, TaskLeft
<1> QED BY <1>1, <1>6 DEF RequestsTyped

\* Every step of the storage.
LEMMA StorageStepKeeps ==
    ASSUME RequestsTyped, StorageInv, StorageStep
    PROVE  RequestsTyped' /\ StorageInv'
<1>1. ASSUME NEW c \in Clients, CopyFails(c) PROVE RequestsTyped' /\ StorageInv'
      BY <1>1, RestoreKeeps DEF CopyFails, At
<1> QED BY <1>1, MigrateKeeps, CopyKeeps, VerifyKeeps, SwitchKeeps, DeleteKeeps, OverrideKeeps,
           CreateWorkspaceKeeps, WriteKeeps, LeaveDecideKeep DEF StorageStep, Path
-----------------------------------------------------------------------------
(***************************************************************************)
(* The conversation                                                        *)
(***************************************************************************)
\* The turns that are kept are turns.
LEMMA LastTurnsTyped ==
    ASSUME NEW turns \in Seq(Nat), NEW id \in Nat
    PROVE  LastTurns(Append(turns, id)) \in Seq(Nat)
BY DEF LastTurns

\* record_turn keeps the scroll position and the ban.
LEMMA Recorded ==
    ASSUME NEW session \in Session, NEW id \in Nat, NEW said, NEW ofTask \in BOOLEAN
    PROVE  LET r == RecordTurn(session, id, said, ofTask)
           IN /\ r \in Session /\ r.turns = LastTurns(Append(session.turns, id))
              /\ r.scroll = session.scroll /\ r.noWrite = session.noWrite
<1>1. LastTurns(Append(session.turns, id)) \in Seq(Nat)
      BY LastTurnsTyped DEF Session
<1> DEFINE edits == said \in {"edit", "implement"}
           turns == LastTurns(Append(session.turns, id))
<1>2. edits \in BOOLEAN
      OBVIOUS
<1>3. RecordTurn(session, id, said, ofTask)
        = [session EXCEPT !.turns = turns, !.task = ofTask, !.edit = edits]
      BY DEF RecordTurn
<1> HIDE DEF edits, turns
<1> QED BY <1>1, <1>2, <1>3 DEF turns, Session

\* A request begins.
LEMMA EnterKeeps ==
    ASSUME RequestsTyped, ConversationInv, NEW c \in Clients, NEW r \in Talks, Enter(c, r),
           r.pc # "write", r.kind = "clear" => r.session = Fresh /\ r.pc # "run",
           UNCHANGED <<file, torn>>, acked' \in [turns : Seq(Nat), scroll : Nat, forbidden : BOOLEAN],
           acked'.turns = acked.turns, acked'.scroll = acked.scroll,
           acked'.forbidden => acked.forbidden,
           (acked.forbidden => file.noWrite) => Fits(r, file, acked'.forbidden)
    PROVE  /\ RequestsTyped' /\ ConversationInv'
           /\ \A o \in Clients : Migrating(o)' => Migrating(o) /\ call'[o] = call[o]
<1>1. /\ Locks(r.kind) => lock = None
      /\ Begin(c, r) /\ lock' = IF Locks(r.kind) THEN c ELSE lock
      /\ r.kind # "clear" => ~torn
      /\ disturbed' = (disturbed \/ \E o \in Clients : Talking(o) /\ {r.kind, call[o].kind} \cap Loose # {})
      BY DEF Enter
<1>2. /\ RequestsTyped' /\ call'[c] = r /\ \A o \in Clients \ {c} : call'[o] = call[o]
      /\ ~Migrating(c) /\ ~Talking(c)
      BY <1>1, AfterBegin
<1>3. \A o \in Clients : Migrating(o)' => Migrating(o) /\ call'[o] = call[o]
      BY <1>2 DEF Migrating, Talks
<1>4. \A o \in Clients \ {c} : Talking(o)' => Talking(o) /\ call'[o] = call[o]
      BY <1>2 DEF Talking
<1>5. \A o \in Clients : Talking(o)' => Holding(o)'
  <2>1. Holding(c)'
        BY <1>1, <1>2 DEF Holding, Locks
  <2>2. ASSUME NEW o \in Clients \ {c}, Talking(o)' PROVE Holding(o)'
    <3>1. Holding(o) /\ call'[o] = call[o]
          BY <1>4, <2>2 DEF ConversationInv
    <3>2. Locks(call[o].kind) => lock # None
          BY <3>1 DEF Holding
    <3> QED BY <1>1, <3>1, <3>2 DEF Holding, Locks
  <2> QED BY <2>1, <2>2
<1>6. ASSUME ~disturbed' PROVE ~disturbed /\ \A o \in Clients : ~Talking(o)
  <2>1. ~disturbed
        BY <1>1, <1>6
  <2>2. ASSUME NEW o \in Clients, Talking(o) PROVE FALSE
    <3>1. r.kind \notin Loose /\ call[o].kind \notin Loose
          BY <1>1, <1>6, <2>2
    <3>2. call[o] \in Talks
          BY <2>2, InHand
    <3>3. Locks(call[o].kind) /\ Locks(r.kind)
          BY <3>1, <3>2 DEF Talks, Loose, Locks
    <3>4. lock = o
          BY <2>2, <3>3 DEF ConversationInv, Holding
    <3> QED BY <1>1, <3>3, <3>4
  <2> QED BY <2>1, <2>2
<1>7. Undisturbed'
  <2> SUFFICES ASSUME ~disturbed' PROVE Undisturbed'
      BY DEF Undisturbed
  <2>1. /\ file.turns = acked.turns /\ file.scroll = acked.scroll /\ (acked.forbidden => file.noWrite)
        /\ ~torn
        BY <1>6 DEF ConversationInv, Undisturbed, Talking, At
  <2>2. \A o \in Clients : Talking(o)' => o = c
        BY <1>4, <1>6
  <2>3. Fits(call[c], file, acked.forbidden)'
        BY <1>2, <2>1 DEF Fits
  <2>4. Upright(c)'
        BY <1>2, <2>2, <2>3 DEF Upright
  <2> QED BY <2>1, <2>2, <2>4 DEF Undisturbed
<1>8. ConversationTyped'
      BY <1>1 DEF ConversationInv, ConversationTyped
<1> QED BY <1>2, <1>3, <1>5, <1>7, <1>8 DEF ConversationInv

\* A request that goes on or ends without writing.
LEMMA GoesOn ==
    ASSUME RequestsTyped, ConversationInv, NEW c \in Clients, Talking(c), RequestsTyped',
           \A o \in Clients \ {c} : call'[o] = call[o],
           UNCHANGED <<file, acked, disturbed>>,
           \/ /\ ~Talking(c)' /\ ~Migrating(c)' /\ Release(c) /\ torn' = torn /\ call[c].pc # "write"
           \/ /\ \E pc \in {"save", "write"} : /\ call'[c] = [call[c] EXCEPT !.pc = pc]
                                               /\ torn' = IF pc = "write" THEN TRUE ELSE torn
              /\ call[c].pc # "write" /\ lock' = lock
    PROVE  /\ ConversationInv'
           /\ \A o \in Clients : Migrating(o)' => Migrating(o) /\ call'[o] = call[o]
<1>1. call[c] \in Talks
      BY InHand
<1>2. CASE ~Talking(c)' /\ ~Migrating(c)' /\ Release(c) /\ torn' = torn /\ call[c].pc # "write"
  <2>1. \A o \in Clients : Talking(o)' => o # c /\ Talking(o) /\ call'[o] = call[o]
        BY <1>2 DEF Talking
  <2>2. \A o \in Clients : Talking(o)' => Holding(o)'
        BY <1>2, <2>1 DEF ConversationInv, Holding, Release, Locks
  <2>3. ~disturbed => \A o \in Clients : ~Talking(o)'
        BY <2>1 DEF ConversationInv, Undisturbed, Upright
  <2>4. ~disturbed => ~torn
    <3> SUFFICES ASSUME ~disturbed, torn PROVE FALSE
        OBVIOUS
    <3>1. PICK o \in Clients : At(o, "write")
          BY DEF ConversationInv, Undisturbed
    <3>2. Talking(o)
          BY <3>1 DEF Talking, At
    <3>3. o = c
          BY <3>2 DEF ConversationInv, Undisturbed, Upright
    <3> QED BY <3>1, <3>3, <1>2 DEF At
  <2>5. Undisturbed'
        BY <1>2, <2>3, <2>4 DEF ConversationInv, Undisturbed
  <2>6. ConversationTyped'
        BY <1>2 DEF ConversationInv, ConversationTyped
  <2>7. \A o \in Clients : Migrating(o)' => Migrating(o) /\ call'[o] = call[o]
        BY <1>2 DEF Migrating
  <2> QED BY <2>2, <2>5, <2>6, <2>7 DEF ConversationInv
<1>3. ASSUME NEW pc \in {"save", "write"}, call'[c] = [call[c] EXCEPT !.pc = pc],
             torn' = (IF pc = "write" THEN TRUE ELSE torn), call[c].pc # "write", lock' = lock
      PROVE  /\ ConversationInv'
             /\ \A o \in Clients : Migrating(o)' => Migrating(o) /\ call'[o] = call[o]
  <2>1. /\ call'[c].pc = pc /\ call'[c].kind = call[c].kind /\ call'[c].id = call[c].id
        /\ call'[c].session = call[c].session /\ call'[c].said = call[c].said
        BY <1>1, <1>3 DEF Talks
  <2>2. \A o \in Clients : Talking(o)' => Talking(o)
        BY <2>1 DEF Talking
  <2>3. ASSUME NEW o \in Clients, Talking(o)' PROVE Holding(o)'
    <3>1. Holding(o)
          BY <2>2, <2>3 DEF ConversationInv
    <3>2. CASE o = c
          BY <1>3, <2>1, <3>1, <3>2 DEF Holding, Locks
    <3>3. CASE o # c
          BY <1>3, <3>1, <3>3 DEF Holding, Locks
    <3> QED BY <3>2, <3>3
  <2>4. Undisturbed'
    <3> SUFFICES ASSUME ~disturbed PROVE Undisturbed'
        BY DEF Undisturbed
    <3>1. Upright(c)
          BY DEF ConversationInv, Undisturbed
    <3>2. /\ file.turns = acked.turns /\ file.scroll = acked.scroll /\ (acked.forbidden => file.noWrite)
          BY DEF ConversationInv, Undisturbed
    <3>3. ~torn
      <4> SUFFICES ASSUME torn PROVE FALSE
          BY DEF ConversationInv, ConversationTyped
      <4>1. PICK o \in Clients : At(o, "write")
            BY DEF ConversationInv, Undisturbed
      <4>2. o = c
            BY <3>1, <4>1 DEF Upright, Talking, At
      <4> QED BY <1>3, <4>1, <4>2 DEF At
    <3>4. torn' => At(c, "write")'
          BY <1>3, <2>1, <3>3 DEF At
    <3>5. \A o \in Clients : Talking(o)' => o = c
          BY <2>2, <3>1 DEF Upright
    <3>6. Fits(call[c], file, acked.forbidden)'
          BY <2>1, <3>1, <1>3 DEF Upright, Fits
    <3>7. Upright(c)'
          BY <1>3, <2>1, <3>5, <3>6 DEF Upright
    <3> QED BY <3>2, <3>4, <3>5, <3>7 DEF Undisturbed
  <2>5. ConversationTyped'
        BY <1>3 DEF ConversationInv, ConversationTyped
  <2>6. \A o \in Clients : Migrating(o)' => Migrating(o) /\ call'[o] = call[o]
        BY <2>1 DEF Migrating
  <2> QED BY <2>3, <2>4, <2>5, <2>6 DEF ConversationInv
<1> QED BY <1>2, <1>3

\* The session is written.
LEMMA WriteSessionKeeps ==
    ASSUME RequestsTyped, ConversationInv, NEW c \in Clients, WriteSession(c)
    PROVE  /\ RequestsTyped' /\ ConversationInv'
           /\ \A o \in Clients : Migrating(o)' => Migrating(o) /\ call'[o] = call[o]
<1> DEFINE r == call[c]
<1>1. /\ r.pc = "write" /\ Talking(c) /\ r \in Talks
      BY InHand DEF WriteSession, At, Talking
<1>2. /\ file' = r.session /\ torn' \in {FALSE, ~torn} /\ Release(c) /\ Finish(c)
      /\ disturbed' = (disturbed /\ (r.kind = "clear" => torn' \/ \E o \in Clients \ {c} : Talking(o)))
      BY DEF WriteSession
<1>3. /\ r.kind = "clear" => acked' = [turns |-> << >>, scroll |-> 0, forbidden |-> FALSE]
      /\ r.kind = "scroll" => acked' = [acked EXCEPT !.scroll = r.id]
      /\ r.kind \notin {"clear", "scroll"} =>
            acked' = [acked EXCEPT !.turns = LastTurns(Append(@, r.id)),
                                   !.forbidden = @ \/ r.said = "forbid"]
      BY DEF WriteSession
<1>4. RequestsTyped' /\ ~Migrating(c)' /\ ~Talking(c)' /\ \A o \in Clients \ {c} : call'[o] = call[o]
      BY <1>2, AfterFinish
<1>5. \A o \in Clients : Talking(o)' => o # c /\ Talking(o) /\ call'[o] = call[o]
      BY <1>4 DEF Talking
<1>6. \A o \in Clients : Migrating(o)' => Migrating(o) /\ call'[o] = call[o]
      BY <1>4 DEF Migrating
<1>7. \A o \in Clients : Talking(o)' => Holding(o)'
      BY <1>2, <1>5 DEF ConversationInv, Holding, Release, Locks
<1>8. /\ file \in Session /\ acked \in [turns : Seq(Nat), scroll : Nat, forbidden : BOOLEAN]
      /\ torn \in BOOLEAN /\ disturbed \in BOOLEAN
      BY DEF ConversationInv, ConversationTyped
<1>9. r.session \in Session /\ r.id \in Nat
      BY <1>1 DEF Talks
<1>10. Holding(c)
      BY <1>1 DEF ConversationInv
<1> HIDE DEF r
<1>11. LastTurns(Append(acked.turns, r.id)) \in Seq(Nat)
  <2>1. acked.turns \in Seq(Nat)
        BY <1>8
  <2> QED BY <1>9, <2>1, LastTurnsTyped
<1>12. acked' \in [turns : Seq(Nat), scroll : Nat, forbidden : BOOLEAN]
  <2>1. CASE r.kind = "clear"
    <3>1. << >> \in Seq(Nat)
          OBVIOUS
    <3>2. [turns |-> << >>, scroll |-> 0, forbidden |-> FALSE]
            \in [turns : Seq(Nat), scroll : Nat, forbidden : BOOLEAN]
          BY <3>1
    <3> QED BY <1>3, <2>1, <3>2
  <2>2. CASE r.kind = "scroll"
        BY <1>3, <1>8, <1>9, <2>2
  <2>3. CASE r.kind \notin {"clear", "scroll"}
    <3> DEFINE turns == LastTurns(Append(acked.turns, r.id))
               forbids == acked.forbidden \/ r.said = "forbid"
    <3>1. acked' = [acked EXCEPT !.turns = turns, !.forbidden = forbids]
          BY <1>3, <2>3
    <3>2. forbids \in BOOLEAN /\ turns \in Seq(Nat)
          BY <1>11
    <3> HIDE DEF turns, forbids
    <3> QED BY <1>8, <3>1, <3>2
  <2> QED BY <2>1, <2>2, <2>3
<1>13. ConversationTyped'
      BY <1>2, <1>8, <1>9, <1>12 DEF ConversationTyped
<1>14. Undisturbed'
  <2> SUFFICES ASSUME ~disturbed' PROVE Undisturbed'
      BY DEF Undisturbed
  <2>1. CASE ~disturbed
    <3>1. Upright(c) /\ torn
          BY <1>1, <2>1 DEF ConversationInv, Undisturbed, Upright, r
    <3>2. ~torn' /\ \A o \in Clients : ~Talking(o)'
          BY <1>2, <1>5, <3>1 DEF Upright
    <3>3. /\ file.turns = acked.turns /\ file.scroll = acked.scroll /\ (acked.forbidden => file.noWrite)
          BY <2>1 DEF ConversationInv, Undisturbed
    <3>4. Fits(r, file, acked.forbidden)
          BY <3>1 DEF Upright, r
    <3>5. file'.turns = acked'.turns /\ file'.scroll = acked'.scroll /\ (acked'.forbidden => file'.noWrite)
      <4>1. CASE r.kind = "clear"
            BY <4>1, <1>2, <1>3, <1>10 DEF Holding, Fresh, r
      <4>2. CASE r.kind = "scroll"
            BY <4>2, <1>2, <1>3, <1>8, <3>3, <3>4 DEF Fits, Session
      <4>3. CASE r.kind \notin {"clear", "scroll"}
        <5>1. /\ acked'.turns = LastTurns(Append(acked.turns, r.id)) /\ acked'.scroll = acked.scroll
              /\ acked'.forbidden = (acked.forbidden \/ r.said = "forbid")
              BY <4>3, <1>3, <1>8
        <5> QED BY <4>3, <5>1, <1>2, <3>3, <3>4 DEF Fits
      <4> QED BY <4>1, <4>2, <4>3
    <3> QED BY <3>2, <3>5 DEF Undisturbed
  <2>2. CASE disturbed
    <3>1. r.kind = "clear" /\ ~torn' /\ \A o \in Clients \ {c} : ~Talking(o)
          BY <1>2, <2>2
    <3>2. \A o \in Clients : ~Talking(o)'
          BY <1>5, <3>1
    <3>3. file' = Fresh /\ acked' = [turns |-> << >>, scroll |-> 0, forbidden |-> FALSE]
          BY <1>2, <1>3, <1>10, <3>1 DEF Holding, r
    <3> QED BY <3>1, <3>2, <3>3 DEF Undisturbed, Fresh
  <2> QED BY <1>8, <2>1, <2>2
<1> QED BY <1>4, <1>6, <1>7, <1>13, <1>14 DEF ConversationInv

\* The turns of the user, with what they say.
LEMMA TurnKeeps ==
    ASSUME RequestsTyped, StorageInv, ConversationInv, NEW c \in Clients,
           NEW kind \in {"turn", "voice"}, Turn(c, kind)
    PROVE  RequestsTyped' /\ StorageInv' /\ ConversationInv'
<1>0. /\ file \in Session /\ acked \in [turns : Seq(Nat), scroll : Nat, forbidden : BOOLEAN]
      /\ served \in Nat /\ served + 1 \in Nat
      BY DEF ConversationInv, ConversationTyped, RequestsTyped
<1>1. ASSUME NEW said \in Said, Answer(c, kind, said) PROVE RequestsTyped' /\ StorageInv' /\ ConversationInv'
  <2> DEFINE session == IF said = "forbid" THEN [file EXCEPT !.noWrite = TRUE] ELSE file
             after == RecordTurn(session, served + 1, said, FALSE)
             r == Save(kind, after, said)
  <2>1. Enter(c, r) /\ UNCHANGED <<file, torn, acked, storage>>
        BY <1>1 DEF Answer
  <2>2. /\ session \in Session /\ session.turns = file.turns /\ session.scroll = file.scroll
        /\ file.noWrite \/ said = "forbid" => session.noWrite
        BY <1>0 DEF Session
  <2>3. /\ after \in Session /\ after.turns = LastTurns(Append(session.turns, served + 1))
        /\ after.scroll = session.scroll /\ after.noWrite = session.noWrite
    <3> HIDE DEF session
    <3> QED BY <1>0, <2>2, Recorded
  <2> HIDE DEF session, after
  <2>4. /\ r \in Talks /\ r.pc = "save" /\ r.kind = kind /\ r.id = served + 1 /\ r.session = after
        /\ r.said = said
        BY <1>0, <2>3 DEF Save, Talks
  <2> HIDE DEF r
  <2>5. (acked.forbidden => file.noWrite) => Fits(r, file, acked'.forbidden)
        BY <2>1, <2>2, <2>3, <2>4 DEF Fits
  <2>6. /\ RequestsTyped' /\ ConversationInv'
        /\ \A o \in Clients : Migrating(o)' => Migrating(o) /\ call'[o] = call[o]
        BY <1>0, <2>1, <2>4, <2>5, EnterKeeps
  <2> QED BY <2>1, <2>6, StorageLeft
<1>2. ASSUME NEW said \in Said, NEW task \in Tasks \cup {None}, RunTurn(c, kind, said, task)
      PROVE  RequestsTyped' /\ StorageInv' /\ ConversationInv'
  <2> DEFINE change == AsksChange(file, said)
             lifted == [file EXCEPT !.noWrite = @ /\ said # "implement"]
             planned == [lifted EXCEPT !.plan = @ \/ Plans(file, said)]
             after == RecordTurn(planned, served + 1, said, TRUE)
             r == [Save(kind, after, said) EXCEPT !.pc = "run", !.task = task, !.change = change]
  <2>1. /\ said # "forbid" /\ ~Blocked(file, said)
        /\ Enter(c, r) /\ UNCHANGED <<file, torn>>
        /\ acked' = [acked EXCEPT !.forbidden = @ /\ said # "implement"]
        /\ task = None => UNCHANGED storage
        /\ task # None => \E p \in Projects : StartTask(task, p)
        BY <1>2 DEF RunTurn
  <2>2. change \in BOOLEAN /\ Plans(file, said) \in BOOLEAN
        BY DEF AsksChange, Plans
  <2>3. change => ~file.noWrite
        BY <2>1 DEF Blocked
  <2>4. /\ lifted \in Session /\ lifted.turns = file.turns /\ lifted.scroll = file.scroll
        /\ lifted.noWrite = (file.noWrite /\ said # "implement")
        BY <1>0 DEF Session
  <2>5. /\ planned \in Session /\ planned.turns = file.turns /\ planned.scroll = file.scroll
        /\ planned.noWrite = (file.noWrite /\ said # "implement")
    <3> DEFINE plan == lifted.plan \/ Plans(file, said)
    <3>1. plan \in BOOLEAN /\ planned = [lifted EXCEPT !.plan = plan]
          BY <2>2
    <3> HIDE DEF plan, lifted, planned
    <3> QED BY <2>4, <3>1 DEF Session
  <2> HIDE DEF planned
  <2>6. /\ after \in Session /\ after.turns = LastTurns(Append(planned.turns, served + 1))
        /\ after.scroll = planned.scroll /\ after.noWrite = planned.noWrite
        BY <1>0, <2>5, Recorded
  <2> HIDE DEF after, change
  <2>7. /\ r \in Talks /\ r.pc = "run" /\ r.kind = kind /\ r.id = served + 1 /\ r.session = after
        /\ r.said = said /\ r.change = change
        BY <1>0, <2>2, <2>6 DEF Save, Talks
  <2>8. /\ acked' \in [turns : Seq(Nat), scroll : Nat, forbidden : BOOLEAN]
        /\ acked'.turns = acked.turns /\ acked'.scroll = acked.scroll
        /\ acked'.forbidden = (acked.forbidden /\ said # "implement")
        BY <1>0, <2>1
  <2> HIDE DEF r
  <2>9. (acked.forbidden => file.noWrite) => Fits(r, file, acked'.forbidden)
        BY <2>1, <2>3, <2>5, <2>6, <2>7, <2>8 DEF Fits
  <2>10. /\ RequestsTyped' /\ ConversationInv'
         /\ \A o \in Clients : Migrating(o)' => Migrating(o) /\ call'[o] = call[o]
         BY <2>1, <2>7, <2>8, <2>9, EnterKeeps
  <2>11. CASE task = None
         BY <2>1, <2>10, <2>11, StorageLeft
  <2>12. CASE task # None
    <3>1. PICK p \in Projects : StartTask(task, p)
          BY <2>1, <2>12
    <3> QED BY <2>10, <2>12, <3>1, StartTaskKeeps
  <2> QED BY <2>11, <2>12
<1> QED BY <1>1, <1>2 DEF Turn

\* The other requests.
LEMMA OthersKeep ==
    ASSUME RequestsTyped, StorageInv, ConversationInv, NEW c \in Clients,
           SaveScroll(c) \/ Clear(c) \/ Steer(c)
    PROVE  RequestsTyped' /\ StorageInv' /\ ConversationInv'
<1>0. /\ file \in Session /\ acked \in [turns : Seq(Nat), scroll : Nat, forbidden : BOOLEAN]
      /\ served \in Nat /\ served + 1 \in Nat
      BY DEF ConversationInv, ConversationTyped, RequestsTyped
<1>1. ASSUME NEW r \in Talks, Enter(c, r), UNCHANGED <<file, torn, acked, storage>>, r.pc = "save",
             r.kind = "clear" => r.session = Fresh, (acked.forbidden => file.noWrite) => Fits(r, file, acked'.forbidden)
      PROVE  RequestsTyped' /\ StorageInv' /\ ConversationInv'
  <2>1. /\ RequestsTyped' /\ ConversationInv'
        /\ \A o \in Clients : Migrating(o)' => Migrating(o) /\ call'[o] = call[o]
        BY <1>0, <1>1, EnterKeeps
  <2> QED BY <1>1, <2>1, StorageLeft
<1>2. CASE SaveScroll(c)
  <2> DEFINE session == [file EXCEPT !.scroll = served + 1]
             r == Save("scroll", session, "scroll")
  <2>1. Enter(c, r) /\ UNCHANGED <<file, torn, acked, storage>>
        BY <1>2 DEF SaveScroll
  <2>2. session \in Session /\ session.noWrite = file.noWrite
        BY <1>0 DEF Session
  <2>3. /\ r \in Talks /\ r.pc = "save" /\ r.kind = "scroll" /\ r.session = session /\ r.id = served + 1
    <3> HIDE DEF session
    <3> QED BY <1>0, <2>2 DEF Save, Talks
  <2> HIDE DEF r
  <2>4. (acked.forbidden => file.noWrite) => Fits(r, file, acked'.forbidden)
        BY <2>1, <2>2, <2>3 DEF Fits
  <2> QED BY <1>1, <2>1, <2>3, <2>4
<1>3. CASE Clear(c)
  <2> DEFINE r == Save("clear", Fresh, "clear")
  <2>1. Enter(c, r) /\ UNCHANGED <<file, torn, acked, storage>>
        BY <1>3 DEF Clear
  <2>2. Fresh \in Session
        BY DEF Fresh, Session
  <2>3. r \in Talks /\ r.pc = "save" /\ r.kind = "clear" /\ r.session = Fresh
        BY <1>0, <2>2 DEF Save, Talks
  <2> HIDE DEF r
  <2>4. Fits(r, file, acked'.forbidden)
        BY <2>3 DEF Fits
  <2> QED BY <1>1, <2>1, <2>3, <2>4
<1>4. CASE Steer(c)
  <2> DEFINE after == RecordTurn(file, served + 1, "steer", TRUE)
             r == Save("steer", after, "steer")
  <2>1. Enter(c, r) /\ UNCHANGED <<file, torn, acked, storage>>
        BY <1>4 DEF Steer
  <2>2. /\ after \in Session /\ after.turns = LastTurns(Append(file.turns, served + 1))
        /\ after.scroll = file.scroll /\ after.noWrite = file.noWrite
        BY <1>0, Recorded
  <2> HIDE DEF after
  <2>3. /\ r \in Talks /\ r.pc = "save" /\ r.kind = "steer" /\ r.session = after /\ r.id = served + 1
        /\ r.said = "steer"
        BY <1>0, <2>2 DEF Save, Talks
  <2> HIDE DEF r
  <2>4. (acked.forbidden => file.noWrite) => Fits(r, file, acked'.forbidden)
        BY <2>1, <2>2, <2>3 DEF Fits
  <2> QED BY <1>1, <2>1, <2>3, <2>4
<1> QED BY <1>2, <1>3, <1>4

\* Every step of a request.
LEMMA ConversationStepKeeps ==
    ASSUME RequestsTyped, StorageInv, ConversationInv, ConversationStep
    PROVE  RequestsTyped' /\ StorageInv' /\ ConversationInv'
<1>1. PICK c \in Clients :
          \/ Turn(c, "turn") \/ Turn(c, "voice") \/ SaveScroll(c) \/ Clear(c) \/ Steer(c)
          \/ RunReturns(c) \/ RunFails(c) \/ Truncate(c) \/ WriteSession(c)
      BY DEF ConversationStep
<1>2. CASE RunReturns(c) \/ Truncate(c)
  <2> DEFINE pc == IF RunReturns(c) THEN "save" ELSE "write"
  <2>1. /\ Talking(c) /\ call[c].pc \in {"run", "save"}
        /\ UNCHANGED <<file, acked, disturbed, lock, storage>>
        /\ (Goto(c, "save") /\ torn' = torn) \/ (Goto(c, "write") /\ torn' = TRUE)
        BY <1>2 DEF RunReturns, RunOver, Truncate, At, Talking, conversation
  <2>2. ASSUME NEW to \in {"save", "write"}, Goto(c, to), torn' = IF to = "write" THEN TRUE ELSE torn
        PROVE  RequestsTyped' /\ StorageInv' /\ ConversationInv'
    <3>1. /\ RequestsTyped' /\ call'[c] = [call[c] EXCEPT !.pc = to]
          /\ \A o \in Clients \ {c} : call'[o] = call[o]
          BY <2>1, <2>2, AfterGoto
    <3>2. /\ ConversationInv'
          /\ \A o \in Clients : Migrating(o)' => Migrating(o) /\ call'[o] = call[o]
          BY <2>1, <2>2, <3>1, GoesOn
    <3> QED BY <2>1, <3>1, <3>2, StorageLeft
  <2> QED BY <2>1, <2>2
<1>3. CASE RunFails(c)
  <2>1. /\ Talking(c) /\ call[c].pc = "run" /\ Release(c) /\ Finish(c)
        /\ UNCHANGED <<file, torn, acked, disturbed, storage>>
        BY <1>3 DEF RunFails, RunOver, At, Talking
  <2>2. /\ RequestsTyped' /\ ~Migrating(c)' /\ ~Talking(c)' /\ \A o \in Clients \ {c} : call'[o] = call[o]
        BY <2>1, AfterFinish
  <2>3. /\ ConversationInv'
        /\ \A o \in Clients : Migrating(o)' => Migrating(o) /\ call'[o] = call[o]
        BY <2>1, <2>2, GoesOn
  <2> QED BY <2>1, <2>2, <2>3, StorageLeft
<1>4. CASE WriteSession(c)
  <2>1. UNCHANGED storage
        BY <1>4 DEF WriteSession
  <2> QED BY <1>4, <2>1, WriteSessionKeeps, StorageLeft
<1> QED BY <1>1, <1>2, <1>3, <1>4, TurnKeeps, OthersKeep

\* A step of the storage does not concern the conversation: who talks goes on talking.
LEMMA ConversationLeft ==
    ASSUME ConversationInv, UNCHANGED conversation,
           \A c \in Clients : /\ Talking(c)' => Talking(c) /\ call'[c] = call[c]
                              /\ Talking(c) => call'[c] = call[c]
    PROVE  ConversationInv'
<1>1. UNCHANGED <<file, torn, lock, acked, disturbed>>
      BY DEF conversation
<1>2. \A c \in Clients : Talking(c)' => Holding(c)'
      BY <1>1 DEF ConversationInv, Holding
<1>3. Undisturbed'
  <2> SUFFICES ASSUME ~disturbed PROVE Undisturbed'
      BY <1>1 DEF Undisturbed
  <2>1. torn => \E c \in Clients : At(c, "write")'
    <3> SUFFICES ASSUME torn PROVE \E c \in Clients : At(c, "write")'
        OBVIOUS
    <3>1. PICK c \in Clients : At(c, "write")
          BY DEF ConversationInv, Undisturbed
    <3>2. call'[c] = call[c]
          BY <3>1 DEF At, Talking
    <3> QED BY <3>1, <3>2 DEF At
  <2>2. ASSUME NEW c \in Clients, Talking(c)' PROVE Upright(c)'
    <3>1. Upright(c) /\ call'[c] = call[c]
          BY <2>2 DEF ConversationInv, Undisturbed
    <3> QED BY <1>1, <3>1 DEF Upright, Fits
  <2> QED BY <1>1, <2>1, <2>2 DEF ConversationInv, Undisturbed
<1>4. ConversationTyped'
      BY <1>1 DEF ConversationInv, ConversationTyped
<1> QED BY <1>2, <1>3, <1>4 DEF ConversationInv

\* No step of the storage touches a request of the conversation.
LEMMA StorageStepsApart ==
    ASSUME RequestsTyped, StorageInv, StorageStep, NEW c \in Clients
    PROVE  /\ Talking(c)' => Talking(c) /\ call'[c] = call[c]
           /\ Talking(c) => call'[c] = call[c]
<1>1. CASE call' = call
      BY <1>1 DEF Talking
<1>2. ASSUME NEW o \in Clients, NEW d \in Dirs, Migrate(o, d)
      PROVE  /\ Talking(c)' => Talking(c) /\ call'[c] = call[c]
             /\ Talking(c) => call'[c] = call[c]
  <2>1. call' = [call EXCEPT ![o] = Migration(d)] /\ call[o].pc = "idle"
        BY <1>2 DEF Migrate, Begin, At
  <2>2. Migration(d).pc = "copy"
        BY DEF Migration
  <2> QED BY <2>1, <2>2 DEF Talking, RequestsTyped
<1>3. ASSUME NEW o \in Clients, CopyFails(o) \/ Verify(o) \/ Switch(o) \/ Delete(o)
      PROVE  /\ Talking(c)' => Talking(c) /\ call'[c] = call[c]
             /\ Talking(c) => call'[c] = call[c]
  <2>1. Migrating(o)
        BY <1>3 DEF CopyFails, Verify, Switch, Delete, At, Migrating
  <2>2. Finish(o) \/ Goto(o, "switch") \/ Goto(o, "delete")
        BY <1>3 DEF CopyFails, Verify, Switch, Delete, Restore
  <2>3. ~Talking(o) /\ ~Talking(o)' /\ \A x \in Clients \ {o} : call'[x] = call[x]
    <3>1. CASE Finish(o)
          BY <2>1, <3>1, InHand, AfterFinish
    <3>2. ASSUME NEW pc \in {"switch", "delete"}, Goto(o, pc)
          PROVE  ~Talking(o) /\ ~Talking(o)' /\ \A x \in Clients \ {o} : call'[x] = call[x]
      <4>1. /\ call'[o] = [call[o] EXCEPT !.pc = pc] /\ \A x \in Clients \ {o} : call'[x] = call[x]
            /\ call[o] \in Migrations /\ ~Talking(o)
            BY <2>1, <3>2, AfterGoto, InHand
      <4>2. call'[o].pc = pc
            BY <4>1 DEF Migrations
      <4> QED BY <4>1, <4>2 DEF Talking
    <3> QED BY <2>2, <3>1, <3>2
  <2> QED BY <2>3 DEF Talking
<1>4. ASSUME NEW o \in Clients, Copy(o) PROVE call' = call
      BY <1>4 DEF Copy, requests
<1>5. ASSUME NEW p \in Projects, NEW d \in Dirs \cup {None}, Override(p, d) PROVE call' = call
      BY <1>5 DEF Override
<1>6. ASSUME NEW t \in Tasks, CreateWorkspace(t) \/ Write(t) \/ Leave(t) \/ Decide(t) PROVE call' = call
      BY <1>6 DEF CreateWorkspace, Write, Leave, Decide, requests
<1> QED BY <1>1, <1>2, <1>3, <1>4, <1>5, <1>6 DEF StorageStep

\* The server dies: no request survives, and no migration.
LEMMA DeathKeeps ==
    ASSUME JarvisInv, Death
    PROVE  JarvisInv'
<1> USE DEF JarvisInv
<1>1. /\ call' = [c \in Clients |-> Idle] /\ served' = served /\ UNCHANGED <<file, torn, acked>>
      /\ disturbed' = (disturbed \/ \E c \in Clients : At(c, "write"))
      /\ registry' = saved /\ UNCHANGED <<exists, files, saved, written, exposed, moved>>
      /\ run' = [t \in Tasks |-> IF Live(t) THEN [run[t] EXCEPT !.status = "ended"] ELSE run[t]]
      BY DEF Death, StorageAfterDeath
<1>2. RequestsTyped' /\ \A c \in Clients : ~Migrating(c)' /\ ~Talking(c)'
      BY <1>1 DEF RequestsTyped, Migrating, Talking, Idle
<1>3. ConversationInv'
  <2>1. ConversationTyped'
        BY <1>1 DEF ConversationInv, ConversationTyped
  <2>2. Undisturbed'
        BY <1>1, <1>2 DEF ConversationInv, Undisturbed
  <2> QED BY <1>2, <2>1, <2>2 DEF ConversationInv
<1>4. run \in [Tasks -> RunRow] /\ StorageTyped
      BY DEF StorageInv, StorageTyped
<1>5. ASSUME NEW t \in Tasks
      PROVE  /\ run'[t] \in RunRow /\ run'[t].project = run[t].project /\ run'[t].root = run[t].root
             /\ run'[t].home = run[t].home /\ run'[t].own = run[t].own /\ run'[t].late = run[t].late
             /\ run'[t].status # "starting"
             /\ run'[t].status \in {"running", "paused"} => run[t].status = run'[t].status
             /\ run'[t].status # "none" => run[t].status # "none"
  <2>1. run[t] \in RunRow
        BY <1>4
  <2>2. CASE Live(t)
    <3>1. run'[t] = [run[t] EXCEPT !.status = "ended"]
          BY <1>1, <2>2
    <3> QED BY <2>1, <2>2, <3>1 DEF RunRow, Live
  <2>3. CASE ~Live(t)
        BY <1>1, <2>1, <2>3 DEF Live
  <2> QED BY <2>2, <2>3
<1>6. run' \in [Tasks -> RunRow]
  <2>1. run' = [t \in Tasks |-> run'[t]]
        BY <1>1
  <2> QED BY <1>5, <2>1
<1>7. StorageTyped'
      BY <1>1, <1>4, <1>5, <1>6 DEF StorageTyped
<1>8. MigrationsSafe' /\ NothingLost'
      BY <1>1, <1>2 DEF MigrationsSafe, NothingLost, StorageInv
<1>9. TasksHoused'
  <2>1. Root(saved)' = Root(saved) /\ \A t \in Tasks : Manifest(t)' = Manifest(t)
        BY <1>1 DEF Root, Manifest, File
  <2> QED BY <1>1, <1>5, <2>1 DEF TasksHoused, Housed, StorageInv
<1> QED BY <1>2, <1>3, <1>7, <1>8, <1>9 DEF StorageInv

\* The server starts with the default directory and a fresh session.
LEMMA JarvisStarts == JarvisInit => JarvisInv
<1> SUFFICES ASSUME JarvisInit PROVE JarvisInv
    OBVIOUS
<1> USE DEF JarvisInit, StorageInit, ConversationInit
<1>1. RequestsTyped /\ \A c \in Clients : ~Migrating(c) /\ ~Talking(c)
      BY DEF RequestsTyped, Migrating, Talking, Idle
<1>2. StorageTyped
  <2>1. Unconfigured \in Config /\ NoRun \in RunRow
        BY DEF Unconfigured, Config, NoRun, RunRow, Path
  <2>2. \A d \in Dirs : files[d] = {} /\ IsFiniteSet(files[d])
        BY FS_EmptySet
  <2> QED BY <2>1, <2>2 DEF StorageTyped, NoRun
<1>3. MigrationsSafe /\ NothingLost /\ TasksHoused
      BY <1>1 DEF MigrationsSafe, NothingLost, TasksHoused, NoRun
<1>4. ConversationInv
  <2>1. ConversationTyped
    <3>1. << >> \in Seq(Nat)
          OBVIOUS
    <3> QED BY <3>1 DEF ConversationTyped, Fresh, Session
  <2>2. Undisturbed
        BY <1>1 DEF Undisturbed, Fresh
  <2> QED BY <1>1, <2>1, <2>2 DEF ConversationInv
<1> QED BY <1>1, <1>2, <1>3, <1>4 DEF JarvisInv, StorageInv

\* Every step.
LEMMA JarvisStep == JarvisInv /\ [JarvisNext]_jarvisVars => JarvisInv'
<1> SUFFICES ASSUME JarvisInv, [JarvisNext]_jarvisVars PROVE JarvisInv'
    OBVIOUS
<1>1. CASE ConversationStep
      BY <1>1, ConversationStepKeeps DEF JarvisInv
<1>2. CASE StorageStep /\ UNCHANGED conversation
      BY <1>2, StorageStepKeeps, StorageStepsApart, ConversationLeft DEF JarvisInv
<1>3. CASE Death
      BY <1>3, DeathKeeps
<1>4. CASE UNCHANGED jarvisVars
  <2>1. UNCHANGED <<storage, conversation, call, served>>
        BY <1>4 DEF jarvisVars, requests
  <2>2. RequestsTyped'
        BY <2>1 DEF JarvisInv, RequestsTyped
  <2>4. \A c \in Clients : Migrating(c)' => Migrating(c) /\ call'[c] = call[c]
        BY <2>1 DEF Migrating
  <2>5. StorageInv'
        BY <2>1, <2>4, StorageLeft DEF JarvisInv
  <2>3. ConversationInv'
        BY <2>1, ConversationLeft DEF JarvisInv, Talking
  <2> QED BY <2>2, <2>3, <2>5 DEF JarvisInv
<1> QED BY <1>1, <1>2, <1>3, <1>4 DEF JarvisNext

\* The invariant holds.
LEMMA JarvisHolds == JarvisSpec => []JarvisInv
BY JarvisStarts, JarvisStep, PTL DEF JarvisSpec

(***************************************************************************)
(* What a paused run starts from                                           *)
(***************************************************************************)
\* The migrations that may still be taken back, and the tasks whose base must stay.
Taking(c) == call[c].pc \in {"copy", "switch"}
Based(t) ==
    run[t].status \in {"running", "paused"} /\ ~run[t].gone /\ Manifest(t) \notin exposed

\* Nothing that may be taken back is under way into the directory of a worktree.
BaseSafe ==
    \A t \in Tasks : Based(t) =>
        /\ Manifest(t) \in files[run[t].home]
        /\ \A c \in Clients : Taking(c) => call[c].to # run[t].home

\* Steps that take no file away and begin no migration.
LEMMA BaseLeft ==
    ASSUME BaseSafe, StorageTyped,
           \A t \in Tasks : Based(t)' => Based(t) /\ run'[t].home = run[t].home,
           \A d \in Dirs : files[d] \subseteq files'[d],
           \A c \in Clients : Taking(c)' => Taking(c) /\ call'[c].to = call[c].to
    PROVE  BaseSafe'
<1> SUFFICES ASSUME NEW t \in Tasks, Based(t)'
             PROVE  /\ Manifest(t)' \in files'[run'[t].home]
                    /\ \A c \in Clients : Taking(c)' => call'[c].to # run'[t].home
    BY DEF BaseSafe
<1>1. Based(t) /\ run'[t].home = run[t].home /\ run[t].home \in Dirs
      BY DEF Based, StorageTyped
<1>2. Manifest(t) \in files[run[t].home] /\ \A c \in Clients : Taking(c) => call[c].to # run[t].home
      BY <1>1 DEF BaseSafe
<1>3. Manifest(t)' = Manifest(t)
      BY DEF Manifest, File
<1> QED BY <1>1, <1>2, <1>3

\* A migration begins into a directory that is empty.
LEMMA BaseMigrate ==
    ASSUME BaseSafe, RequestsTyped, StorageInv, NEW c \in Clients, NEW to \in Dirs, Migrate(c, to)
    PROVE  BaseSafe'
<1>1. /\ files[to] = {} /\ UNCHANGED <<files, run, exposed>> /\ call' = [call EXCEPT ![c] = Migration(to)]
      BY DEF Migrate, Begin
<1>2. \A o \in Clients : Taking(o)' => call'[o].to = to \/ (Taking(o) /\ call'[o].to = call[o].to)
      BY <1>1 DEF Taking, Migration, RequestsTyped
<1>3. ASSUME NEW t \in Tasks PROVE Manifest(t)' = Manifest(t) /\ (Based(t)' <=> Based(t))
      BY <1>1 DEF Based, Manifest, File
<1> QED BY <1>1, <1>2, <1>3 DEF BaseSafe

\* What is taken back is in no worktree.
LEMMA BaseRestore ==
    ASSUME BaseSafe, RequestsTyped, StorageInv, NEW c \in Clients, Taking(c), Restore(c)
    PROVE  BaseSafe'
<1> DEFINE m == call[c]
<1>1. files' = [files EXCEPT ![m.to] = {}] /\ Finish(c) /\ UNCHANGED <<run, exposed>>
      BY DEF Restore
<1>2. /\ call' = [call EXCEPT ![c] = Idle] /\ files \in [Dirs -> SUBSET AFile]
      /\ call \in [Clients -> {Idle} \cup Migrations \cup Talks]
      BY <1>1 DEF Finish, Become, RequestsTyped, StorageInv, StorageTyped
<1>3. \A o \in Clients : Taking(o)' => Taking(o) /\ call'[o].to = call[o].to
      BY <1>2 DEF Taking, Idle
<1>4. ASSUME NEW t \in Tasks, Based(t)'
      PROVE  /\ Manifest(t)' \in files'[run'[t].home]
             /\ \A o \in Clients : Taking(o)' => call'[o].to # run'[t].home
  <2>1. Based(t) /\ Manifest(t)' = Manifest(t)
        BY <1>1, <1>4 DEF Based, Manifest, File
  <2>2. /\ Manifest(t) \in files[run[t].home] /\ m.to # run[t].home /\ run[t].home \in Dirs
        /\ \A o \in Clients : Taking(o) => call[o].to # run[t].home
        BY <2>1 DEF BaseSafe, StorageInv, StorageTyped, Based
  <2> HIDE DEF m
  <2> QED BY <1>1, <1>2, <1>3, <2>1, <2>2
<1> QED BY <1>4 DEF BaseSafe

\* A migration goes on, or deletes the old directory.
LEMMA BaseGoesOn ==
    ASSUME BaseSafe, RequestsTyped, StorageInv, NEW c \in Clients,
           Copy(c) \/ CopyFails(c) \/ Verify(c) \/ Switch(c) \/ Delete(c)
    PROVE  BaseSafe'
<1> DEFINE m == call[c]
<1>1. m \in Migrations /\ m.to \in Dirs /\ m.from \in Dirs
      BY InHand DEF Copy, CopyFails, Verify, Switch, Delete, At, Migrating, Migrations
<1>2. /\ files \in [Dirs -> SUBSET AFile] /\ call \in [Clients -> {Idle} \cup Migrations \cup Talks]
      /\ StorageTyped /\ run \in [Tasks -> RunRow]
      BY DEF StorageInv, StorageTyped, RequestsTyped
<1>3. CASE Restore(c) /\ Taking(c)
      BY <1>3, BaseRestore
<1>4. CASE Copy(c)
  <2>1. /\ UNCHANGED <<call, run, exposed>>
        /\ \E f \in ToCopy(c) : files' = [files EXCEPT ![m.to] = @ \cup {f}]
        BY <1>4 DEF Copy, requests
  <2>2. \A d \in Dirs : files[d] \subseteq files'[d]
        BY <2>1, <1>2
  <2>3. \A t \in Tasks : Based(t)' => Based(t) /\ run'[t].home = run[t].home
        BY <2>1 DEF Based, Manifest, File
  <2>4. \A o \in Clients : Taking(o)' => Taking(o) /\ call'[o].to = call[o].to
        BY <2>1 DEF Taking
  <2> QED BY <1>2, <2>2, <2>3, <2>4, BaseLeft
<1>5. ASSUME NEW pc \in {"switch", "delete"}, Taking(c), Goto(c, pc), UNCHANGED <<files, run, exposed>>
      PROVE  BaseSafe'
  <2>1. call' = [call EXCEPT ![c] = [m EXCEPT !.pc = pc]]
        BY <1>5 DEF Goto, Become
  <2>2. [m EXCEPT !.pc = pc].to = m.to
        BY <1>1 DEF Migrations
  <2>3. \A o \in Clients : Taking(o)' => Taking(o) /\ call'[o].to = call[o].to
    <3> HIDE DEF m
    <3>1. call'[c] = [m EXCEPT !.pc = pc] /\ \A o \in Clients \ {c} : call'[o] = call[o]
          BY <1>2, <2>1
    <3> QED BY <1>5, <2>2, <3>1 DEF Taking, m
  <2>4. \A t \in Tasks : Based(t)' => Based(t) /\ run'[t].home = run[t].home
        BY <1>5 DEF Based, Manifest, File
  <2> QED BY <1>2, <1>5, <2>3, <2>4, BaseLeft
<1>6. CASE CopyFails(c) \/ Verify(c) \/ Switch(c)
  <2>1. Taking(c)
        BY <1>6 DEF CopyFails, Verify, Switch, At, Taking
  <2> QED BY <1>3, <1>5, <1>6, <2>1 DEF CopyFails, Verify, Switch
<1>7. CASE Delete(c)
  <2>1. PICK left \in SUBSET files[m.from] : files' = [files EXCEPT ![m.from] = left]
        BY <1>7 DEF Delete
  <2>2. /\ exposed' = exposed /\ call' = [call EXCEPT ![c] = Idle]
        /\ run' = [t \in Tasks |-> IF run[t].home = m.from THEN [run[t] EXCEPT !.gone = TRUE] ELSE run[t]]
        BY <1>7 DEF Delete, Finish, Become
  <2> HIDE DEF m
  <2>3. \A o \in Clients : Taking(o)' => Taking(o) /\ call'[o].to = call[o].to
        BY <1>2, <2>2 DEF Taking, Idle
  <2>4. ASSUME NEW t \in Tasks, Based(t)'
        PROVE  /\ Manifest(t)' \in files'[run'[t].home]
               /\ \A o \in Clients : Taking(o)' => call'[o].to # run'[t].home
    <3>1. run[t].home # m.from /\ run'[t] = run[t]
      <4>1. run[t].home = m.from => run'[t].gone
            BY <1>2, <2>2 DEF RunRow
      <4> QED BY <2>2, <2>4, <4>1 DEF Based
    <3>2. Based(t) /\ Manifest(t)' = Manifest(t)
          BY <2>2, <2>4, <3>1 DEF Based, Manifest, File
    <3>3. /\ Manifest(t) \in files[run[t].home] /\ run[t].home \in Dirs
          /\ \A o \in Clients : Taking(o) => call[o].to # run[t].home
          BY <1>2, <3>2 DEF BaseSafe, StorageTyped, Based
    <3>4. files'[run[t].home] = files[run[t].home]
          BY <1>2, <2>1, <3>1, <3>3
    <3> QED BY <2>3, <3>1, <3>2, <3>3, <3>4
  <2> QED BY <2>4 DEF BaseSafe
<1> QED BY <1>4, <1>6, <1>7

\* A workspace is made where no migration writes that may be taken back, or is exposed.
LEMMA BaseCreate ==
    ASSUME BaseSafe, RequestsTyped, StorageInv, NEW t \in Tasks, CreateWorkspace(t)
    PROVE  BaseSafe'
<1> DEFINE d == run[t].root
           f == Manifest(t)
<1>1. /\ run[t].status = "starting" /\ StoreFile(d, f) /\ call' = call
      /\ run' = [run EXCEPT ![t].status = "running", ![t].home = run[t].root,
                            ![t].late = run[t].own = None /\ run[t].root # Root(saved)]
      BY DEF CreateWorkspace, requests
<1>2. /\ run \in [Tasks -> RunRow] /\ d \in Dirs /\ files \in [Dirs -> SUBSET AFile]
      BY <1>1 DEF StorageInv, StorageTyped
<1>3. run'[t].home = d /\ \A u \in Tasks \ {t} : run'[u] = run[u]
      BY <1>1, <1>2 DEF RunRow
<1>4. files' = [files EXCEPT ![d] = @ \cup {f}]
      /\ exposed' = IF Exposed(d, f.grows) THEN exposed \cup {f} ELSE exposed
      BY <1>1 DEF StoreFile
<1>5. \A u \in Tasks : Manifest(u)' = Manifest(u)
      BY DEF Manifest, File
<1>6. ASSUME NEW u \in Tasks, Based(u)'
      PROVE  /\ Manifest(u)' \in files'[run'[u].home]
             /\ \A c \in Clients : Taking(c)' => call'[c].to # run'[u].home
  <2>1. CASE u = t
    <3>1. f \notin exposed'
          BY <1>5, <1>6, <2>1 DEF Based
    <3>2. ~Exposed(d, f.grows)
          BY <1>4, <3>1
    <3>3. ASSUME NEW c \in Clients, Taking(c) PROVE call[c].to # d
      <4>1. holder = c /\ ~At(c, "idle")
            BY <3>3 DEF Taking, At, StorageInv, MigrationsSafe, Migrating, Migrated
      <4> QED BY <3>2, <4>1 DEF Exposed
    <3>4. f \in files'[d]
          BY <1>2, <1>4
    <3> HIDE DEF d, f
    <3>5. \A c \in Clients : Taking(c)' => call'[c].to # d
          BY <1>1, <3>3 DEF Taking
    <3> QED BY <1>3, <1>5, <2>1, <3>4, <3>5 DEF f
  <2>2. CASE u # t
    <3>1. run'[u] = run[u] /\ exposed \subseteq exposed'
          BY <1>3, <1>4, <2>2
    <3>2. Based(u)
          BY <1>5, <1>6, <3>1 DEF Based
    <3>3. /\ Manifest(u) \in files[run[u].home] /\ run[u].home \in Dirs
          /\ \A c \in Clients : Taking(c) => call[c].to # run[u].home
          BY <3>2 DEF BaseSafe, StorageInv, StorageTyped, Based
    <3>4. Manifest(u) \in files'[run[u].home]
          BY <1>2, <1>4, <3>3
    <3>5. \A c \in Clients : Taking(c)' => call'[c].to # run[u].home
          BY <1>1, <3>3 DEF Taking
    <3> QED BY <1>5, <3>1, <3>4, <3>5
  <2> QED BY <2>1, <2>2
<1> QED BY <1>6 DEF BaseSafe

\* The other steps of the storage.
LEMMA BaseStorageStep ==
    ASSUME BaseSafe, RequestsTyped, StorageInv, StorageStep
    PROVE  BaseSafe'
<1>1. /\ files \in [Dirs -> SUBSET AFile] /\ StorageTyped /\ run \in [Tasks -> RunRow]
      BY DEF StorageInv, StorageTyped
<1>2. ASSUME NEW p \in Projects, NEW d \in Path, Override(p, d) PROVE BaseSafe'
  <2>1. UNCHANGED <<call, files, run, exposed>>
        BY <1>2 DEF Override
  <2>2. \A t \in Tasks : Based(t)' => Based(t) /\ run'[t].home = run[t].home
        BY <2>1 DEF Based, Manifest, File
  <2>3. \A c \in Clients : Taking(c)' => Taking(c) /\ call'[c].to = call[c].to
        BY <2>1 DEF Taking
  <2> QED BY <1>1, <2>1, <2>2, <2>3, BaseLeft
<1>3. ASSUME NEW t \in Tasks, Write(t) \/ Leave(t) \/ Decide(t) PROVE BaseSafe'
  <2>1. /\ call' = call /\ exposed \subseteq exposed' /\ \A d \in Dirs : files[d] \subseteq files'[d]
    <3>1. CASE Write(t)
      <4>1. PICK d \in {run[t].home, run[t].root}, g \in BOOLEAN : StoreFile(d, File(t, run[t].writes + 1, g))
            BY <3>1 DEF Write
      <4>2. call' = call
            BY <3>1 DEF Write, requests
      <4> QED BY <1>1, <4>1, <4>2 DEF StoreFile
    <3>2. CASE Leave(t) \/ Decide(t)
          BY <3>2 DEF Leave, Decide, requests
    <3> QED BY <1>3, <3>1, <3>2
  <2>2. \A u \in Tasks \ {t} : run'[u] = run[u]
        BY <1>1, <1>3 DEF Write, Leave, Decide
  <2>3. /\ run'[t].home = run[t].home /\ run'[t].gone = run[t].gone
        /\ run'[t].status \in {"running", "paused"} => run[t].status \in {"running", "paused"}
    <3>1. run[t] \in RunRow
          BY <1>1
    <3>2. CASE Write(t)
      <4>1. run'[t] = [run[t] EXCEPT !.writes = @ + 1]
            BY <1>1, <3>2 DEF Write
      <4> QED BY <3>1, <4>1 DEF RunRow
    <3>3. CASE Leave(t)
      <4>1. PICK outcome \in {"ended", "paused"} :
               /\ outcome = "paused" => run[t].status = "running"
               /\ run' = [run EXCEPT ![t].status = outcome]
            BY <3>3 DEF Leave
      <4>2. run'[t] = [run[t] EXCEPT !.status = outcome]
            BY <1>1, <4>1
      <4> QED BY <3>1, <4>1, <4>2 DEF RunRow
    <3>4. CASE Decide(t)
      <4>1. /\ run[t].status = "paused"
            /\ run'[t] = [run[t] EXCEPT !.status = "running", !.root = Workspace(saved, run[t].project)]
            BY <1>1, <3>4 DEF Decide
      <4> QED BY <3>1, <4>1 DEF RunRow
    <3> QED BY <1>3, <3>2, <3>3, <3>4
  <2>4. \A u \in Tasks : Based(u)' => Based(u) /\ run'[u].home = run[u].home
        BY <2>1, <2>2, <2>3 DEF Based, Manifest, File
  <2>5. \A c \in Clients : Taking(c)' => Taking(c) /\ call'[c].to = call[c].to
        BY <2>1 DEF Taking
  <2> QED BY <1>1, <2>1, <2>4, <2>5, BaseLeft
<1> QED BY <1>2, <1>3, BaseMigrate, BaseGoesOn, BaseCreate DEF StorageStep, Path

\* Requests of the conversation, which may start a task.
LEMMA BaseConversationStep ==
    ASSUME BaseSafe, RequestsTyped, StorageInv, ConversationStep
    PROVE  BaseSafe'
<1>1. StorageTyped /\ run \in [Tasks -> RunRow] /\ call \in [Clients -> {Idle} \cup Migrations \cup Talks]
      BY DEF StorageInv, StorageTyped, RequestsTyped
<1>2. PICK c \in Clients :
          \/ Turn(c, "turn") \/ Turn(c, "voice") \/ SaveScroll(c) \/ Clear(c) \/ Steer(c)
          \/ RunReturns(c) \/ RunFails(c) \/ Truncate(c) \/ WriteSession(c)
      BY DEF ConversationStep
<1>3. PICK x : x.pc \notin {"copy", "switch"} /\ call' = [call EXCEPT ![c] = x]
  <2>1. CASE RunReturns(c) \/ Truncate(c)
    <3>1. Talking(c)
          BY <2>1 DEF RunReturns, RunOver, Truncate, At, Talking
    <3>2. call[c] \in Talks
          BY <3>1, InHand
    <3>3. PICK pc \in {"save", "write"} : call' = [call EXCEPT ![c] = [call[c] EXCEPT !.pc = pc]]
          BY <2>1 DEF RunReturns, Truncate, Goto, Become
    <3>4. [call[c] EXCEPT !.pc = pc].pc = pc
          BY <3>2 DEF Talks
    <3> QED BY <3>3, <3>4
  <2>2. CASE RunFails(c) \/ WriteSession(c)
    <3>1. call' = [call EXCEPT ![c] = Idle]
          BY <2>2 DEF RunFails, WriteSession, Finish, Become
    <3> QED BY <3>1 DEF Idle
  <2>3. CASE SaveScroll(c) \/ Clear(c) \/ Steer(c)
        BY <2>3 DEF SaveScroll, Clear, Steer, Enter, Begin, Save
  <2>4. ASSUME NEW kind, Turn(c, kind) PROVE \E y : y.pc \notin {"copy", "switch"} /\ call' = [call EXCEPT ![c] = y]
    <3>1. PICK said \in Said : Answer(c, kind, said) \/ \E task \in Tasks \cup {None} : RunTurn(c, kind, said, task)
          BY <2>4 DEF Turn
    <3>2. CASE Answer(c, kind, said)
      <4>1. PICK session : call' = [call EXCEPT ![c] = Save(kind, session, said)]
            BY <3>2 DEF Answer, Enter, Begin
      <4>2. Save(kind, session, said).pc = "save"
            BY DEF Save
      <4> QED BY <4>1, <4>2
    <3>3. ASSUME NEW task \in Tasks \cup {None}, RunTurn(c, kind, said, task)
          PROVE  \E y : y.pc \notin {"copy", "switch"} /\ call' = [call EXCEPT ![c] = y]
      <4>1. PICK session : call' = [call EXCEPT ![c] =
               [Save(kind, session, said) EXCEPT !.pc = "run", !.task = task, !.change = AsksChange(file, said)]]
            BY <3>3 DEF RunTurn, Enter, Begin
      <4>2. [Save(kind, session, said) EXCEPT !.pc = "run", !.task = task, !.change = AsksChange(file, said)].pc = "run"
            BY DEF Save
      <4> QED BY <4>1, <4>2
    <3> QED BY <3>1, <3>2, <3>3
  <2> QED BY <1>2, <2>1, <2>2, <2>3, <2>4
<1>4. \A o \in Clients : Taking(o)' => Taking(o) /\ call'[o].to = call[o].to
      BY <1>1, <1>3 DEF Taking
<1>5. UNCHANGED storage \/ \E t \in Tasks, p \in Projects : StartTask(t, p)
  <2>1. ASSUME NEW kind, Turn(c, kind) PROVE UNCHANGED storage \/ \E t \in Tasks, p \in Projects : StartTask(t, p)
        BY <2>1 DEF Turn, Answer, RunTurn
  <2> QED BY <1>2, <2>1 DEF SaveScroll, Clear, Steer, RunReturns, RunFails, Truncate, WriteSession
<1>6. UNCHANGED <<files, exposed>> /\ \A u \in Tasks : run'[u] = run[u] \/ run'[u].status = "starting"
  <2>1. CASE UNCHANGED storage
        BY <2>1 DEF storage
  <2>2. ASSUME NEW t \in Tasks, NEW p \in Projects, StartTask(t, p)
        PROVE  UNCHANGED <<files, exposed>> /\ \A u \in Tasks : run'[u] = run[u] \/ run'[u].status = "starting"
    <3>1. /\ UNCHANGED <<files, exposed>>
          /\ run' = [run EXCEPT ![t] = [NoRun EXCEPT !.status = "starting", !.project = p,
                                                     !.root = Workspace(saved, p), !.own = saved.own[p]]]
          BY <2>2 DEF StartTask
    <3>2. [NoRun EXCEPT !.status = "starting", !.project = p,
                        !.root = Workspace(saved, p), !.own = saved.own[p]].status = "starting"
          BY DEF NoRun
    <3> QED BY <1>1, <3>1, <3>2
  <2> QED BY <1>5, <2>1, <2>2
<1>7. \A t \in Tasks : Based(t)' => Based(t) /\ run'[t].home = run[t].home
      BY <1>6 DEF Based, Manifest, File
<1> QED BY <1>1, <1>4, <1>6, <1>7, BaseLeft

\* Every step.
LEMMA BaseHolds == JarvisSpec => []BaseSafe
<1>1. JarvisInit => BaseSafe
      BY DEF JarvisInit, StorageInit, BaseSafe, Based, NoRun
<1>2. JarvisInv /\ BaseSafe /\ [JarvisNext]_jarvisVars => BaseSafe'
  <2> SUFFICES ASSUME JarvisInv, BaseSafe, [JarvisNext]_jarvisVars PROVE BaseSafe'
      OBVIOUS
  <2>1. StorageTyped /\ run \in [Tasks -> RunRow]
        BY DEF JarvisInv, StorageInv, StorageTyped
  <2>2. CASE Death
    <3>1. /\ call' = [c \in Clients |-> Idle] /\ UNCHANGED <<files, exposed>>
          /\ run' = [t \in Tasks |-> IF Live(t) THEN [run[t] EXCEPT !.status = "ended"] ELSE run[t]]
          BY <2>2 DEF Death, StorageAfterDeath
    <3>2. \A c \in Clients : ~Taking(c)'
          BY <3>1 DEF Taking, Idle
    <3>3. ASSUME NEW t \in Tasks, Based(t)' PROVE Based(t) /\ run'[t].home = run[t].home
      <4>1. run[t] \in RunRow
            BY <2>1
      <4>2. ~Live(t)
        <5>1. Live(t) => run'[t].status = "ended"
              BY <3>1, <4>1 DEF RunRow
        <5> QED BY <3>3, <5>1 DEF Based
      <4>3. run'[t] = run[t]
            BY <3>1, <4>2
      <4> QED BY <3>1, <3>3, <4>3 DEF Based, Manifest, File
    <3> QED BY <2>1, <3>1, <3>2, <3>3, BaseLeft
  <2>3. CASE UNCHANGED jarvisVars
    <3>1. UNCHANGED <<call, files, run, exposed>>
          BY <2>3 DEF jarvisVars, requests, storage
    <3>2. \A t \in Tasks : Based(t)' => Based(t) /\ run'[t].home = run[t].home
          BY <3>1 DEF Based, Manifest, File
    <3>3. \A c \in Clients : Taking(c)' => Taking(c) /\ call'[c].to = call[c].to
          BY <3>1 DEF Taking
    <3> QED BY <2>1, <3>1, <3>2, <3>3, BaseLeft
  <2> QED BY <2>2, <2>3, BaseStorageStep, BaseConversationStep DEF JarvisNext, JarvisInv
<1> QED BY <1>1, <1>2, JarvisHolds, PTL DEF JarvisSpec

\* A task that waits for approval is found where storage.json says.
LEMMA HousedFindable == StorageInv => PausedFindable
<1> SUFFICES ASSUME StorageInv, NEW t \in Tasks, run[t].status = "paused",
                    run[t].own = saved.own[run[t].project], saved.own[run[t].project] \notin moved,
                    ~run[t].late, Manifest(t) \notin exposed
             PROVE  Findable(t)
    BY DEF PausedFindable
<1>1. run[t].project \in Projects /\ Housed(t)
      BY DEF StorageInv, StorageTyped, TasksHoused
<1>2. Manifest(t) \in files[Workspace(saved, run[t].project)]
      BY <1>1 DEF Housed, Workspace
<1>3. Workspace(saved, run[t].project) \in Roots
      BY <1>1 DEF Roots, Workspace
<1> QED BY <1>2, <1>3 DEF Findable

\* However migrations fail, the server dies and tasks write meanwhile: what was written
\* where the verification sees it stays on the disk, a paused task is found, and the
\* worktree that its manifest names stays until a migration deletes that directory
\* (storage.py, migrate and its rollback).
THEOREM StorageSurvives == JarvisSpec => []StorageKept
<1>1. JarvisInv /\ BaseSafe => StorageKept
      BY HousedFindable DEF JarvisInv, StorageInv, StorageKept, BaseSafe, BaseStays, Based
<1> QED BY <1>1, JarvisHolds, BaseHolds, PTL

\* Unless requests without the lock have overlapped others, the session file holds what
\* was acknowledged, and a confirmed ban on changes is honoured (session.py, server.py).
THEOREM ConversationSurvives == JarvisSpec => []ConversationKept
<1>1. ASSUME JarvisInv, ~disturbed PROVE ConversationKept
  <2>1. Undisturbed
        BY <1>1 DEF JarvisInv, ConversationInv
  <2>2. TurnsKept
        BY <1>1, <2>1 DEF Undisturbed, TurnsKept
  <2>3. ASSUME NEW c \in Clients, At(c, "run"), acked.forbidden PROVE ~call[c].change
    <3>1. Talking(c) /\ call[c].pc = "run"
          BY <2>3 DEF Talking, At
    <3>2. Upright(c) /\ Holding(c)
          BY <1>1, <2>1, <3>1 DEF Undisturbed, JarvisInv, ConversationInv
    <3> QED BY <2>3, <3>1, <3>2 DEF Upright, Fits, Holding
  <2> QED BY <2>2, <2>3 DEF ConversationKept, NoWriteHeld
<1>2. JarvisInv => ConversationKept
      BY <1>1 DEF ConversationKept, TurnsKept, NoWriteHeld
<1> QED BY <1>2, JarvisHolds, PTL
=============================================================================
