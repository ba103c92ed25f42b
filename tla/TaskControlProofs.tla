-------------------------- MODULE TaskControlProofs --------------------------
(***************************************************************************)
(* Proofs about the task-control mailbox, for every set of clients and     *)
(* instructions and every size limit.  However the reads, temporary writes *)
(* and renames of concurrent callers interleave, the file stays a          *)
(* well-formed mailbox, and what was written while nobody else was between *)
(* reading and writing is not lost, handed over twice or ignored later.    *)
(*                                                                         *)
(* The second half is about another module, VoiceSession.                  *)
(***************************************************************************)
EXTENDS TaskControl, VoiceSession, SequenceTheorems, TLAPS

\* Which operations a process may be executing, with which argument.
OpOK ==
    \A p \in Procs :
        /\ op[p].kind = "idle" => op[p].pc = "read"
        /\ op[p].kind = "request" => op[p].arg \in {"pause", "stop"}
        /\ op[p].kind = "add" => op[p].arg \in Instructions
        /\ IF p = "graph" THEN op[p].kind \in {"idle", "clear", "take"}
                          ELSE op[p].kind \notin {"clear", "take"}

IInv == TypeOK /\ OpOK

\* The [-10:] slice of the store yields a constraint list of the allowed size.
LEMMA KeepLastType ==
    ASSUME NEW s \in Seq(Instructions)
    PROVE  KeepLast(s) \in Lists
<1>1. CASE Len(s) > MaxConstraints
  <2> DEFINE lo == Len(s) - MaxConstraints + 1
  <2>1. lo \in 1..Len(s)
    BY <1>1, TaskControlAssumption
  <2>2. SubSeq(s, lo, Len(s)) \in Seq(Instructions)
    BY <2>1
  <2>3. Len(SubSeq(s, lo, Len(s))) = MaxConstraints
    BY <2>1, TaskControlAssumption
  <2> QED
    BY <1>1, <2>2, <2>3, TaskControlAssumption DEF KeepLast, Lists
<1>2. CASE ~(Len(s) > MaxConstraints)
  BY <1>2, TaskControlAssumption DEF KeepLast, Lists
<1> QED
  BY <1>1, <1>2

\* Each store operation maps a well-formed mailbox to a well-formed one.
LEMMA ModifiedType ==
    ASSUME NEW data \in Content,
           NEW kind \in {"request", "add", "clear", "resume", "take"}, NEW arg,
           kind = "request" => arg \in {"pause", "stop"},
           kind = "add" => arg \in Instructions
    PROVE  Modified(kind, arg, data) \in Content
<1>1. <<>> \in Lists
  BY TaskControlAssumption DEF Lists
<1>2. CASE kind = "add"
  <2> DEFINE cs == data.constraints
             new == IF arg \in Range(cs) THEN cs ELSE Append(cs, arg)
  <2>1. new \in Seq(Instructions)
    BY <1>2 DEF Content, Lists
  <2>2. KeepLast(new) \in Lists
    BY <2>1, KeepLastType
  <2>3. Modified(kind, arg, data) = [data EXCEPT !.constraints = KeepLast(new)]
    BY <1>2 DEF Modified, AddConstraint
  <2> QED
    BY <2>2, <2>3 DEF Content
<1>3. CASE kind = "request"
  BY <1>3 DEF Modified, Request, Content
<1>4. CASE kind \in {"clear", "resume"}
  BY <1>4 DEF Modified, ClearAction, Content, None
<1>5. CASE kind = "take"
  BY <1>1, <1>5 DEF Modified, TakeConstraints, Content
<1> QED
  BY <1>2, <1>3, <1>4, <1>5

\* What an operation under way is going to write is a well-formed mailbox.
LEMMA WritesType ==
    ASSUME IInv, NEW p \in Procs, op[p].kind # "idle"
    PROVE  Writes(p) \in Content
<1>1. /\ op[p].kind \in {"request", "add", "clear", "resume", "take"}
      /\ op[p].data \in Content
      /\ op[p].kind = "request" => op[p].arg \in {"pause", "stop"}
      /\ op[p].kind = "add" => op[p].arg \in Instructions
  BY DEF IInv, TypeOK, OpOK
<1> QED
  BY <1>1, ModifiedType DEF Writes

\* Only pauses and stops may come back.
LEMMA MayReturnType == ASSUME IInv PROVE MayReturn \subseteq {"pause", "stop"}
<1> SUFFICES ASSUME NEW p \in Procs, Pending(p)
             PROVE  Writes(p).action \in {None, "pause", "stop"}
  BY DEF MayReturn
<1> QED
  BY WritesType DEF Pending, Content

\* The inductive step: every store step, handler and graph step keeps IInv.
LEMMA InductiveStep == IInv /\ [Next]_vars => IInv'
<1> SUFFICES ASSUME IInv, [Next]_vars PROVE IInv'
  OBVIOUS
<1> USE DEF IInv, Procs
<1>0. Empty \in Content
  BY TaskControlAssumption DEF Empty, Content, Lists, None
<1>1. ASSUME NEW p \in Procs, Read(p) PROVE IInv'
  <2>1. PICK pc \in {"done", "tmp"} : op' = [op EXCEPT ![p].pc = pc, ![p].data = file]
    BY <1>1 DEF Read
  <2>2. op[p].kind # "idle"
    BY <1>1 DEF Read
  <2>3. OpOK'
    BY <2>1, <2>2 DEF TypeOK, OpOK
  <2> QED
    BY <1>1, <2>1, <2>3 DEF Read, TypeOK, history
<1>2. ASSUME NEW p \in Procs, WriteTmp(p) PROVE IInv'
  <2>1. /\ op[p].kind \in {"request", "add", "clear", "resume", "take"}
        /\ op[p].data \in Content
    BY <1>2 DEF WriteTmp, TypeOK, OpOK
  <2>2. tmp' \in Content
    BY <1>2, <2>1, WritesType DEF WriteTmp, Writes
  <2> QED
    BY <1>2, <2>2 DEF WriteTmp, TypeOK, OpOK, history
<1>3. ASSUME NEW p \in Procs, Rename(p) PROVE IInv'
  <2>1. /\ UNCHANGED <<node, resumed, posts>>
        /\ op' \in {[op EXCEPT ![p].pc = "error"], [op EXCEPT ![p].pc = "done"]}
        /\ file' \in Content /\ tmp' \in Content \cup {NoFile}
    BY <1>3 DEF Rename, TypeOK
  <2>2. op[p].kind # "idle"
    BY <1>3 DEF Rename, OpOK
  <2>3. TypeOK!3' /\ OpOK'
    BY <2>1, <2>2 DEF TypeOK, OpOK
  <2>4. CASE tmp = NoFile
    BY <1>3, <2>1, <2>3, <2>4 DEF Rename, TypeOK
  <2>5. CASE tmp # NoFile
    <3>1. Settle(p)
      BY <1>3, <2>5 DEF Rename
    <3>2. Range(op[p].data.constraints) \subseteq Instructions
      BY DEF TypeOK, Content, Lists, Range
    <3>3. op[p].kind = "add" => op[p].arg \in Instructions
      BY DEF OpOK
    <3>4. owed' \subseteq Instructions /\ given' \subseteq Instructions
      BY <3>1, <3>2, <3>3 DEF Settle, TypeOK
    <3>5. asked' \subseteq {"pause", "stop"}
      BY <3>1, MayReturnType DEF Settle, TypeOK
    <3>6. stopped' \in BOOLEAN
      BY <3>1 DEF Settle, TypeOK
    <3> QED
      BY <2>1, <2>3, <3>4, <3>5, <3>6 DEF TypeOK
  <2> QED
    BY <2>4, <2>5
<1>4. ASSUME NEW c \in Clients, Post(c) PROVE IInv'
  <2>1. posts' \in 0..MaxPosts
    BY <1>4, TaskControlAssumption DEF Post, TypeOK
  <2>2. c \in Procs /\ c # "graph"
    BY TaskControlAssumption
  <2>3. ASSUME NEW kind \in {"request", "add", "resume"},
               NEW arg \in {None, "pause", "stop"} \cup Instructions,
               kind = "request" => arg \in {"pause", "stop"},
               kind = "add" => arg \in Instructions,
               Begin(c, kind, arg)
        PROVE  OpOK' /\ (TypeOK => TypeOK!1' /\ TypeOK!2' /\ TypeOK!3')
    BY <2>2, <2>3, <1>0 DEF Begin, Idle, TypeOK, OpOK, None
  <2>4. ASSUME NEW a \in {"pause", "stop"}, SteerAction(c, a) PROVE IInv'
    BY <2>1, <2>3, <2>4 DEF SteerAction, TypeOK
  <2>5. ASSUME NEW i \in Instructions, SteerConstraint(c, i) PROVE IInv'
    BY <2>1, <2>3, <2>5 DEF SteerConstraint, TypeOK
  <2>6. CASE SteerResume(c)
    BY <2>1, <2>3, <2>6, MayReturnType DEF SteerResume, TypeOK
  <2> QED
    BY <1>4, <2>4, <2>5, <2>6 DEF Post
<1>5. ASSUME NEW c \in Clients, Answer(c) PROVE IInv'
  <2>1. op[c].kind = "add" => op[c].arg \in Instructions
    BY DEF OpOK
  <2> QED
    BY <1>5, <1>0, <2>1, TaskControlAssumption DEF Answer, Idle, TypeOK, OpOK, history
<1>6. CASE ResumeEndpoint
  BY <1>6, MayReturnType DEF ResumeEndpoint, TypeOK, OpOK, store
<1>7. CASE Inspect
  BY <1>7 DEF Inspect, TypeOK, OpOK, store, history
<1>8. CASE GraphClear
  BY <1>8, <1>0 DEF GraphClear, Begin, Idle, TypeOK, OpOK, history
<1>9. CASE GraphTake
  BY <1>9, <1>0 DEF GraphTake, Begin, Idle, TypeOK, OpOK, history
<1>10. CASE GraphReturn
  <2>1. op["graph"].kind \in {"clear", "take"}
    BY <1>10 DEF GraphReturn, OpOK
  <2> QED
    BY <1>10, <1>0, <2>1 DEF GraphReturn, Idle, TypeOK, OpOK
<1>11. CASE EndNode
  BY <1>11 DEF EndNode, TypeOK, OpOK, store, history
<1>12. CASE UNCHANGED vars
  BY <1>12 DEF vars, store, history, TypeOK, OpOK
<1> HIDE DEF IInv, Procs
<1> QED
  BY <1>1, <1>2, <1>3, <1>4, <1>5, <1>6, <1>7, <1>8, <1>9, <1>10, <1>11, <1>12
     DEF Next, Graph, StoreStep

\* The mailbox starts well-formed, with nothing in flight.
LEMMA InductiveInit == Init => IInv
<1> SUFFICES ASSUME Init PROVE TypeOK /\ OpOK
  BY DEF IInv
<1>0. Empty \in Content
  BY TaskControlAssumption DEF Empty, Content, Lists, None
<1>1. \A p \in Procs : op[p] = Idle
  BY DEF Init
<1>2. OpOK
  BY <1>1 DEF OpOK, Idle
<1>3. TypeOK
  <2>1. TypeOK!1 /\ TypeOK!2
    BY <1>0 DEF Init
  <2>2. TypeOK!3
    BY <1>0 DEF Init, Idle
  <2>3. TypeOK!4 /\ TypeOK!6 /\ TypeOK!7
    BY DEF Init
  <2>4. TypeOK!5 /\ TypeOK!8 /\ TypeOK!9
    BY DEF Init
  <2>5. TypeOK!10
    BY TaskControlAssumption DEF Init
  <2> QED
    BY <2>1, <2>2, <2>3, <2>4, <2>5 DEF TypeOK
<1> QED
  BY <1>2, <1>3

\* TaskControlStore.snapshot always finds a well-formed mailbox, however its
\* callers interleave.
THEOREM TypeCorrect == Spec => []TypeOK
<1>1. IInv => TypeOK
  BY DEF IInv
<1> QED
  BY <1>1, InductiveInit, InductiveStep, PTL DEF Spec

(***************************************************************************)
(* What the operations under way leave alone.                              *)
(***************************************************************************)
\* Whoever wrote the temporary file last has yet to rename it.
Written == tmp # NoFile => \E p \in Procs : op[p].pc = "rename" /\ tmp = Writes(p)

\* An operation holds nothing before it has read.
Fresh == \A p \in Procs : op[p].pc = "read" => op[p].data = Empty

\* The constraints that a take has in its hands.
InHand == IF op["graph"].kind = "take" THEN Range(op["graph"].data.constraints) ELSE {}

\* A text that settled is in the file, and in what everybody has read who will write
\* the file again, unless the graph has it in its hands.
OwedKept ==
    /\ owed \subseteq Range(file.constraints) \cup InHand
    /\ \A p \in Procs : PastRead(p) => owed \subseteq Range(op[p].data.constraints) \cup InHand

\* A text that was handed over is in no such place, and nobody is about to add it.
GivenGone ==
    /\ given \cap Range(file.constraints) = {}
    /\ \A p \in Procs : PastRead(p) => given \cap Range(op[p].data.constraints) = {}
    /\ \A p \in Procs : Pending(p) /\ op[p].kind = "add" => op[p].arg \notin given

\* A replay ends at its first inspection, and whoever clears the action is in one.
Replays ==
    /\ op["graph"].kind = "clear" => node = "clearing"
    /\ op["graph"].kind = "take" => node = "body"
    /\ node = "clearing" => resumed
    /\ resumed => node \in {"boundary", "clearing"}

\* The graph has cleared the action and not yet gone on.
Cleared == op["graph"].kind = "clear" /\ op["graph"].pc = "done"

\* An action that nobody asked for since the resume is not in the file when the graph
\* looks for it, and only a writer that read it there can bring it back.
ActionAsked ==
    /\ asked = {} /\ file.action = None
         => \A p \in Procs : Pending(p) => Writes(p).action = None
    /\ asked = {} /\ (Cleared \/ (~resumed /\ node \notin {"paused", "crashed"}))
         => file.action = None

\* A STOP that settled is in the file and in what everybody is about to write; nobody
\* is about to clear it.
StopKept ==
    stopped =>
      /\ file.action # None
      /\ \A p \in Procs : PastRead(p) => Writes(p).action # None
      /\ ~Resuming /\ ~Replaying

\* All that is known of the mailbox while operations race.
Races == Written /\ Fresh /\ OwedKept /\ GivenGone /\ Replays /\ ActionAsked /\ StopKept

\* What add_constraint does to the list: the new text is in it, and of the others at
\* most the one pushed out is missing.
LEMMA AddedConstraint ==
    ASSUME NEW data \in Content, NEW i \in Instructions
    PROVE  LET new == Range(AddConstraint(data, i).constraints)
               old == Range(data.constraints)
           IN /\ old \ PushedOut(data, i) \subseteq new
              /\ i \in new
              /\ new \subseteq old \cup {i}
<1> DEFINE s == data.constraints
           m == MaxConstraints
           new == AddConstraint(data, i).constraints
<1>0. /\ s \in Seq(Instructions) /\ Len(s) \in Nat /\ Len(s) <= m
      /\ m \in Nat \ {0}
      /\ DOMAIN s = 1..Len(s)
      /\ Range(s) = {s[k] : k \in 1..Len(s)}
  BY TaskControlAssumption DEF Content, Lists, Range
<1>1. new = KeepLast(IF i \in Range(s) THEN s ELSE Append(s, i))
  BY DEF AddConstraint, Content
<1>2. CASE i \in Range(s)
  <2>1. new = s
    BY <1>0, <1>1, <1>2 DEF KeepLast
  <2> QED
    BY <1>2, <2>1
<1>3. CASE i \notin Range(s) /\ Len(s) < m
  <2>1. new = Append(s, i)
    BY <1>0, <1>1, <1>3 DEF KeepLast
  <2>2. /\ DOMAIN new = 1..(Len(s) + 1)
        /\ \A k \in 1..Len(s) : new[k] = s[k]
        /\ new[Len(s) + 1] = i
    BY <1>0, <2>1
  <2>3. Range(new) = {new[k] : k \in 1..(Len(s) + 1)}
    BY <2>2 DEF Range
  <2>4. 1..(Len(s) + 1) = 1..Len(s) \cup {Len(s) + 1}
    BY <1>0
  <2> HIDE DEF new, s
  <2>5. Range(new) = Range(s) \cup {i}
    BY <1>0, <2>2, <2>3, <2>4
  <2> QED
    BY <2>5 DEF new, s
<1>4. CASE i \notin Range(s) /\ Len(s) = m
  <2>1. new = SubSeq(Append(s, i), 2, m + 1)
    <3>1. new = KeepLast(Append(s, i))
      BY <1>1, <1>4
    <3>2. Len(Append(s, i)) = m + 1
      BY <1>0, <1>4
    <3> DEFINE a == Append(s, i)
    <3>3. Len(a) > MaxConstraints /\ Len(a) - MaxConstraints + 1 = 2
      BY <3>2, TaskControlAssumption
    <3> HIDE DEF new, s, a
    <3>4. KeepLast(a) = SubSeq(a, 2, m + 1)
      BY <3>2, <3>3, Zenon DEF KeepLast, a
    <3> QED
      BY <3>1, <3>4 DEF a
  <2>2. /\ DOMAIN new = 1..m
        /\ \A k \in 1..m : new[k] = IF k = m THEN i ELSE s[k + 1]
    BY <1>0, <1>4, <2>1
  <2>3. PushedOut(data, i) = {s[1]}
    BY <1>0, <1>4 DEF PushedOut
  <2>4. Range(new) = {new[k] : k \in 1..m}
    BY <2>2 DEF Range
  <2>5. i \in Range(new)
    BY <1>0, <2>2, <2>4
  <2>6. ASSUME NEW x \in Range(s), x # s[1] PROVE x \in Range(new)
    <3>1. PICK k \in 1..Len(s) : x = s[k]
      BY <1>0, <2>6
    <3>2. k - 1 \in 1..m /\ k - 1 # m /\ (k - 1) + 1 = k
      BY <1>0, <1>4, <2>6, <3>1
    <3>3. new[k - 1] = x
      BY <2>2, <3>1, <3>2
    <3> QED
      BY <2>4, <3>2, <3>3
  <2>7. ASSUME NEW x \in Range(new), x # i PROVE x \in Range(s)
    <3>1. PICK k \in 1..m : x = new[k]
      BY <2>4, <2>7
    <3>2. k # m /\ x = s[k + 1] /\ k + 1 \in 1..Len(s)
      BY <1>0, <1>4, <2>2, <2>7, <3>1
    <3> QED
      BY <1>0, <3>2
  <2> QED
    BY <2>3, <2>5, <2>6, <2>7
<1> QED
  BY <1>0, <1>2, <1>3, <1>4

\* The action and the constraints that an operation makes of what it read.
LEMMA ModifiedWhat ==
    ASSUME NEW data \in Content, NEW kind \in {"request", "add", "clear", "resume", "take"},
           NEW arg, kind = "add" => arg \in Instructions
    PROVE  LET new == Modified(kind, arg, data)
           IN /\ new.action = IF kind = "request" THEN arg
                              ELSE IF kind \in {"add", "take"} THEN data.action ELSE None
              /\ kind = "add" =>
                   /\ arg \in Range(new.constraints)
                   /\ Range(data.constraints) \ PushedOut(data, arg) \subseteq Range(new.constraints)
                   /\ Range(new.constraints) \subseteq Range(data.constraints) \cup {arg}
              /\ kind = "take" => new.constraints = <<>>
              /\ kind \notin {"add", "take"} => new.constraints = data.constraints
<1>2. CASE kind = "add"
  <2>1. Modified(kind, arg, data) = AddConstraint(data, arg)
    BY <1>2 DEF Modified
  <2>2. AddConstraint(data, arg).action = data.action
    BY DEF AddConstraint, Content
  <2> QED
    BY <1>2, <2>1, <2>2, AddedConstraint
<1>3. CASE kind = "request"
  BY <1>3 DEF Modified, Request, Content
<1>4. CASE kind \in {"clear", "resume"}
  BY <1>4 DEF Modified, ClearAction, Content
<1>5. CASE kind = "take"
  BY <1>5 DEF Modified, TakeConstraints, Content
<1> QED
  BY <1>2, <1>3, <1>4, <1>5

\* The same of what an operation under way is going to write.
LEMMA WritesWhat ==
    ASSUME IInv, NEW p \in Procs, op[p].kind # "idle"
    PROVE  /\ Writes(p).action = IF op[p].kind = "request" THEN op[p].arg
                                 ELSE IF op[p].kind \in {"add", "take"}
                                      THEN op[p].data.action ELSE None
           /\ op[p].kind = "add" =>
                /\ op[p].arg \in Range(Writes(p).constraints)
                /\ Range(op[p].data.constraints) \ PushedOut(op[p].data, op[p].arg)
                     \subseteq Range(Writes(p).constraints)
                /\ Range(Writes(p).constraints)
                     \subseteq Range(op[p].data.constraints) \cup {op[p].arg}
           /\ op[p].kind = "take" => Writes(p).constraints = <<>>
           /\ op[p].kind \notin {"add", "take"}
                => Writes(p).constraints = op[p].data.constraints
<1>1. /\ op[p].kind \in {"request", "add", "clear", "resume", "take"}
      /\ op[p].data \in Content
      /\ op[p].kind = "add" => op[p].arg \in Instructions
  BY DEF IInv, TypeOK, OpOK
<1> QED
  BY <1>1, ModifiedWhat DEF Writes

\* An operation that begins holds nothing, and does not disturb the others.
LEMMA Begun ==
    ASSUME IInv, Races, NEW p \in Procs, NEW kind, NEW arg, Begin(p, kind, arg),
           kind \in {"request", "add", "clear", "resume", "take"}
    PROVE  /\ op[p].kind = "idle" /\ op[p].pc = "read"
           /\ op'[p].kind = kind /\ op'[p].arg = arg
           /\ op'[p].pc = "read" /\ op'[p].data = Empty
           /\ \A q \in Procs \ {p} : op'[q] = op[q] /\ (Writes(q))' = Writes(q)
           /\ \A q \in Procs : (PastRead(q))' = PastRead(q)
           /\ (kind # "request" => (Writes(p)).action' = None)
           /\ InHand' = InHand
           /\ Written' /\ Fresh'
           /\ UNCHANGED <<file, tmp>>
<1> USE DEF Begin
<1>1. /\ op[p].kind = "idle" /\ op[p].pc = "read"
      /\ op'[p].kind = kind /\ op'[p].arg = arg
      /\ op'[p].pc = "read" /\ op'[p].data = Empty
      /\ UNCHANGED <<file, tmp>>
      /\ \A q \in Procs \ {p} : op'[q] = op[q]
  BY DEF IInv, TypeOK, OpOK, Idle
<1> HIDE DEF Begin
<1>2. \A q \in Procs \ {p} : (Writes(q))' = Writes(q)
  BY <1>1 DEF Writes
<1>3. \A q \in Procs : (PastRead(q))' = PastRead(q)
  BY <1>1 DEF PastRead
<1>4. kind # "request" => (Writes(p)).action' = None
  BY <1>1 DEF Writes, Modified, AddConstraint, ClearAction, TakeConstraints, Empty
<1>5. InHand' = InHand
  <2>1. op["graph"].kind = "take" /\ p = "graph" => FALSE
    BY <1>1
  <2>2. p = "graph" => InHand' = {} /\ InHand = {}
    BY <1>1 DEF InHand, Empty, Range
  <2> QED
    BY <1>1, <2>2 DEF InHand, Procs
<1>6. Written'
  BY <1>1, <1>2 DEF Races, Written
<1>7. Fresh'
  BY <1>1 DEF Races, Fresh, Procs
<1> QED
  BY <1>1, <1>2, <1>3, <1>4, <1>5, <1>6, <1>7

\* An operation moves on without changing its kind or its argument.
LEMMA Moved ==
    ASSUME IInv, Races, NEW p \in Procs, Read(p) \/ WriteTmp(p) \/ Rename(p)
    PROVE  /\ op[p].kind # "idle"
           /\ op'[p].kind = op[p].kind /\ op'[p].arg = op[p].arg
           /\ \A q \in Procs \ {p} : op'[q] = op[q]
           /\ \A q \in Procs : op'[q].kind = op[q].kind /\ op'[q].arg = op[q].arg
           /\ \A q \in Procs \ {p} : (Writes(q))' = Writes(q)
           /\ \A q \in Procs \ {p} : (PastRead(q))' = PastRead(q) /\ (Pending(q))' = Pending(q)
           /\ Resuming' = Resuming
<1>1. /\ op[p].kind # "idle"
      /\ op'[p].kind = op[p].kind /\ op'[p].arg = op[p].arg
      /\ \A q \in Procs \ {p} : op'[q] = op[q]
  BY DEF Read, WriteTmp, Rename, IInv, TypeOK, OpOK
<1>2. \A q \in Procs : op'[q].kind = op[q].kind /\ op'[q].arg = op[q].arg
  BY <1>1
<1>3. \A q \in Procs \ {p} : (Writes(q))' = Writes(q)
  BY <1>1 DEF Writes
<1>4. \A q \in Procs \ {p} : (PastRead(q))' = PastRead(q) /\ (Pending(q))' = Pending(q)
  BY <1>1 DEF PastRead, Pending
<1>5. Resuming' = Resuming
  BY <1>2 DEF Resuming, Procs
<1> QED
  BY <1>1, <1>2, <1>3, <1>4, <1>5

\* A snapshot takes over what is in the file.
LEMMA ReadKeeps == ASSUME IInv, Races, NEW p \in Procs, Read(p) PROVE Races'
<1> DEFINE o == op[p]
<1>0. "graph" \in Procs
  BY DEF Procs
<1>1. /\ o.kind # "idle" /\ o.pc = "read" /\ o.data = Empty
      /\ op'[p].pc = IF o.kind = "take" /\ file.constraints = <<>> THEN "done" ELSE "tmp"
      /\ op'[p].data = file /\ op'[p].kind = o.kind /\ op'[p].arg = o.arg
      /\ UNCHANGED <<file, tmp, node, resumed, owed, given, asked, stopped>>
  BY DEF Read, IInv, TypeOK, history, Races, Fresh
<1>2. /\ \A q \in Procs \ {p} : op'[q] = op[q]
      /\ \A q \in Procs \ {p} : (Writes(q))' = Writes(q)
      /\ \A q \in Procs \ {p} : (PastRead(q))' = PastRead(q) /\ (Pending(q))' = Pending(q)
      /\ \A q \in Procs : op'[q].kind = op[q].kind /\ op'[q].arg = op[q].arg
      /\ Resuming' = Resuming
  BY Moved
<1>3. /\ Pending(p) /\ ~PastRead(p)
      /\ (Writes(p)).action' = IF o.kind = "request" THEN o.arg
                               ELSE IF o.kind \in {"add", "take"} THEN file.action ELSE None
  <2>1. /\ file \in Content
        /\ o.kind \in {"request", "add", "clear", "resume", "take"}
        /\ o.kind = "add" => o.arg \in Instructions
    BY <1>1 DEF IInv, TypeOK, OpOK
  <2>2. (Writes(p))' = Modified(o.kind, o.arg, file)
    BY <1>1 DEF Writes
  <2>3. (Writes(p)).action' = IF o.kind = "request" THEN o.arg
                              ELSE IF o.kind \in {"add", "take"} THEN file.action ELSE None
    BY <2>1, <2>2, ModifiedWhat
  <2> QED
    BY <1>1, <2>3 DEF Pending, PastRead
<1>4. InHand \subseteq InHand' /\ (op["graph"].kind # "take" => InHand' = InHand)
  BY <1>0, <1>1, <1>2 DEF InHand, Empty, Range
<1>5. Written' /\ Fresh'
  BY <1>1, <1>2 DEF Races, Written, Fresh, Procs
<1>6. OwedKept'
  BY <1>1, <1>2, <1>4 DEF Races, OwedKept, Procs
<1>7. GivenGone'
  BY <1>1, <1>2, <1>3 DEF Races, GivenGone, Procs
<1>8. Replays'
  BY <1>0, <1>1, <1>2 DEF Races, Replays
<1>9. ActionAsked'
  <2>1. Cleared' = Cleared
    BY <1>0, <1>1, <1>2 DEF Cleared
  <2>2. ASSUME asked = {}, file.action = None PROVE (Writes(p)).action' = None
    <3>1. Writes(p).action = None
      BY <1>3, <2>2 DEF Races, ActionAsked
    <3> QED
      BY <1>1, <1>3, <2>2, <3>1, WritesWhat
  <2> QED
    BY <1>1, <1>2, <1>3, <2>1, <2>2 DEF Races, ActionAsked, Procs
<1>10. StopKept'
  <2> SUFFICES ASSUME stopped PROVE StopKept'
    BY <1>1 DEF StopKept
  <2>1. file.action # None /\ ~Resuming /\ ~Replaying
    BY DEF Races, StopKept
  <2>2. o.kind \notin {"clear", "resume"}
    <3>1. o.kind = "clear" => p = "graph" /\ resumed
      BY DEF IInv, OpOK, TypeOK, Races, Replays
    <3> QED
      BY <1>1, <2>1, <3>1 DEF Resuming, Replaying
  <2>3. (Writes(p)).action' # None
    BY <1>1, <1>3, <2>1, <2>2 DEF IInv, TypeOK, OpOK, None
  <2>4. ~Replaying'
    BY <1>0, <1>1, <1>2, <2>1 DEF Replaying
  <2> QED
    BY <1>1, <1>2, <2>1, <2>3, <2>4 DEF Races, StopKept, Procs
<1> QED
  BY <1>5, <1>6, <1>7, <1>8, <1>9, <1>10 DEF Races

\* The temporary file of an operation that is past its read.
LEMMA WriteTmpKeeps == ASSUME IInv, Races, NEW p \in Procs, WriteTmp(p) PROVE Races'
<1> DEFINE o == op[p]
<1>0. "graph" \in Procs
  BY DEF Procs
<1>1. /\ o.kind # "idle" /\ o.pc = "tmp"
      /\ op'[p].pc = "rename"
      /\ op'[p].data = o.data /\ op'[p].kind = o.kind /\ op'[p].arg = o.arg
      /\ tmp' = Writes(p)
      /\ UNCHANGED <<file, node, resumed, owed, given, asked, stopped>>
  BY DEF WriteTmp, Writes, IInv, TypeOK, OpOK, history
<1>2. /\ \A q \in Procs \ {p} : op'[q] = op[q]
      /\ \A q \in Procs : op'[q].kind = op[q].kind /\ op'[q].arg = op[q].arg
      /\ Resuming' = Resuming
  BY Moved
<1>3. \A q \in Procs : op'[q].data = op[q].data
  BY <1>1, <1>2
<1>4. \A q \in Procs : (Writes(q))' = Writes(q)
  BY <1>2, <1>3 DEF Writes
<1>5. \A q \in Procs : (PastRead(q))' = PastRead(q) /\ (Pending(q))' = Pending(q)
  BY <1>1, <1>2 DEF PastRead, Pending
<1>6. InHand' = InHand
  BY <1>0, <1>2, <1>3 DEF InHand
<1>7. Written'
  BY <1>1, <1>4 DEF Written, Procs
<1>8. Fresh'
  BY <1>1, <1>2 DEF Races, Fresh, Procs
<1>9. OwedKept'
  BY <1>1, <1>3, <1>5, <1>6 DEF Races, OwedKept, Procs
<1>10. GivenGone'
  BY <1>1, <1>2, <1>3, <1>5 DEF Races, GivenGone, Procs
<1>11. Replays'
  BY <1>0, <1>1, <1>2 DEF Races, Replays
<1>12. ActionAsked'
  <2>1. Cleared' = Cleared
    BY <1>0, <1>1, <1>2 DEF Cleared
  <2> QED
    BY <1>1, <1>4, <1>5, <2>1 DEF Races, ActionAsked, Procs
<1>13. StopKept'
  <2>1. Replaying' = Replaying
    BY <1>0, <1>1, <1>2 DEF Replaying
  <2> QED
    BY <1>1, <1>2, <1>4, <1>5, <2>1 DEF Races, StopKept, Procs
<1> QED
  BY <1>7, <1>8, <1>9, <1>10, <1>11, <1>12, <1>13 DEF Races

\* A rename: the file becomes what the last writer wrote, or nothing happens to it.
LEMMA RenameKeeps == ASSUME IInv, Races, NEW p \in Procs, Rename(p) PROVE Races'
<1> DEFINE o == op[p]
<1>0. "graph" \in Procs
  BY DEF Procs
<1>1. /\ o.kind # "idle" /\ o.pc = "rename"
      /\ op'[p].data = o.data /\ op'[p].kind = o.kind /\ op'[p].arg = o.arg
      /\ op'[p].pc \in {"done", "error"}
      /\ UNCHANGED <<node, resumed>>
  BY DEF Rename, IInv, TypeOK, OpOK
<1>2. /\ \A q \in Procs \ {p} : op'[q] = op[q]
      /\ \A q \in Procs \ {p} : (PastRead(q))' = PastRead(q) /\ (Pending(q))' = Pending(q)
      /\ \A q \in Procs : op'[q].kind = op[q].kind /\ op'[q].arg = op[q].arg
      /\ Resuming' = Resuming
  BY Moved
<1>3. \A q \in Procs : op'[q].data = op[q].data
  BY <1>1, <1>2
<1>4. \A q \in Procs : (Writes(q))' = Writes(q)
  BY <1>2, <1>3 DEF Writes
<1>5. /\ PastRead(p) /\ Pending(p) /\ ~(PastRead(p))' /\ ~(Pending(p))'
  BY <1>1 DEF PastRead, Pending
<1>6. InHand' = InHand
  BY <1>0, <1>2, <1>3 DEF InHand
<1>7. Fresh'
  BY <1>1, <1>2 DEF Races, Fresh, Procs
<1>8. Replays'
  BY <1>0, <1>1, <1>2 DEF Races, Replays
<1>9. resumed => (Replaying' => Replaying)
  BY <1>0, <1>1, <1>2 DEF Replaying
<1>10. CASE tmp = NoFile
  <2>1. /\ UNCHANGED <<file, tmp, owed, given, asked, stopped>> /\ op'[p].pc = "error"
    BY <1>10 DEF Rename, IInv, TypeOK
  <2>2. Written'
    BY <1>10, <2>1 DEF Written
  <2>3. OwedKept' /\ GivenGone'
    BY <1>2, <1>3, <1>5, <1>6, <2>1 DEF Races, OwedKept, GivenGone, Procs
  <2>4. Cleared' = Cleared
    BY <1>0, <1>1, <1>2, <2>1 DEF Cleared
  <2>5. ActionAsked'
    BY <1>1, <1>2, <1>4, <1>5, <2>1, <2>4 DEF Races, ActionAsked, Procs
  <2>6. StopKept'
    BY <1>1, <1>2, <1>4, <1>5, <1>9, <2>1 DEF Races, StopKept, Replaying, Procs
  <2> QED
    BY <1>7, <1>8, <2>2, <2>3, <2>5, <2>6 DEF Races
<1>11. CASE tmp # NoFile
  <2>1. /\ file' = tmp /\ tmp' = NoFile /\ op'[p].pc = "done"
        /\ Settle(p)
    BY <1>11 DEF Rename, IInv, TypeOK
  <2>2. PICK w \in Procs : op[w].pc = "rename" /\ tmp = Writes(w)
    BY <1>11 DEF Races, Written
  <2>3. op[w].kind # "idle" /\ PastRead(w) /\ Pending(w)
    BY <2>2 DEF IInv, OpOK, PastRead, Pending
  <2>4. Alone(p) => w = p /\ \A q \in Procs : ~(PastRead(q))'
    BY <1>2, <1>5, <2>3 DEF Alone
  <2>5. Written'
    BY <2>1 DEF Written
  <2>6. OwedKept'
    <3> DEFINE new == IF Alone(p) /\ o.kind = "add" THEN {o.arg} ELSE {}
    <3>1. owed' = (owed \ Displaced) \cup new
      BY <2>1 DEF Settle
    <3>2. new \subseteq Range(tmp.constraints)
      BY <2>2, <2>4, <1>1, WritesWhat
    <3>3. owed \ Displaced \subseteq Range(tmp.constraints) \cup InHand
      <4> SUFFICES ASSUME NEW t \in owed \ Displaced, t \notin InHand
                   PROVE  t \in Range(tmp.constraints)
        OBVIOUS
      <4>1. t \in Range(op[w].data.constraints)
        BY <2>3 DEF Races, OwedKept
      <4>2. op[w].kind # "take"
        <5>1. op[w].kind = "take" => w = "graph"
          BY DEF IInv, OpOK, TypeOK
        <5> QED
          BY <4>1, <5>1 DEF InHand
      <4>3. CASE op[w].kind = "add"
        <5>1. t \in PushedOut(op[w].data, op[w].arg) => t \in Range(tmp.constraints)
          BY <2>2, <4>3 DEF Displaced
        <5> QED
          BY <2>2, <2>3, <4>1, <4>3, <5>1, WritesWhat
      <4>4. CASE op[w].kind # "add"
        BY <2>2, <2>3, <4>1, <4>2, <4>4, WritesWhat
      <4> QED
        BY <4>3, <4>4
    <3>4. ASSUME NEW q \in Procs, (PastRead(q))'
          PROVE  owed' \subseteq Range(op'[q].data.constraints) \cup InHand
      <4>1. new = {} /\ q # p
        BY <1>5, <2>4, <3>4
      <4> QED
        BY <1>2, <1>3, <3>1, <3>4, <4>1 DEF Races, OwedKept
    <3> QED
      BY <1>6, <2>1, <3>1, <3>2, <3>3, <3>4 DEF OwedKept, Procs
  <2>7. GivenGone'
    <3> DEFINE texts == Range(o.data.constraints)
               new == IF Alone(p) /\ o.kind = "take" THEN texts \ Adding ELSE {}
    <3>1. given' = given \cup new
      BY <2>1 DEF Settle
    <3>2. given \cap Range(tmp.constraints) = {}
      <4>1. given \cap Range(op[w].data.constraints) = {}
        BY <2>3 DEF Races, GivenGone
      <4>2. op[w].kind = "add" => op[w].arg \notin given
        BY <2>3 DEF Races, GivenGone
      <4> QED
        BY <2>2, <2>3, <4>1, <4>2, WritesWhat DEF Range
    <3>3. new # {} => Range(tmp.constraints) = {}
      BY <1>1, <2>2, <2>4, WritesWhat DEF Range
    <3>4. \A q \in Procs : Pending(q) /\ op[q].kind = "add" => op[q].arg \notin new
      BY DEF Adding
    <3>5. \A q \in Procs : (PastRead(q))' => q # p /\ new = {}
      BY <1>5, <2>4
    <3> HIDE DEF new
    <3>6. given' \cap Range(file'.constraints) = {}
      BY <2>1, <3>1, <3>2, <3>3
    <3>7. \A q \in Procs : (PastRead(q))' => given' \cap Range(op'[q].data.constraints) = {}
      BY <1>2, <1>3, <3>1, <3>5 DEF Races, GivenGone
    <3>8. \A q \in Procs : (Pending(q))' /\ op'[q].kind = "add" => op'[q].arg \notin given'
      BY <1>2, <1>5, <3>1, <3>4 DEF Races, GivenGone
    <3> QED
      BY <3>6, <3>7, <3>8 DEF GivenGone, Procs
  <2>8. ActionAsked'
    <3>1. MayReturn = {} => \A q \in Procs : Pending(q) => Writes(q).action = None
      BY DEF MayReturn
    <3>2. asked \subseteq asked'
          /\ (tmp.action = None \/ o.kind \in {"clear", "resume"} => MayReturn \subseteq asked')
      BY <2>1 DEF Settle
    <3>3. ASSUME asked' = {}, file'.action = None
          PROVE  \A q \in Procs : (Pending(q))' => (Writes(q))'.action = None
      BY <1>2, <1>4, <1>5, <2>1, <3>1, <3>2, <3>3
    <3>4. ASSUME asked' = {}, Cleared' \/ (~resumed /\ node \notin {"paused", "crashed"})
          PROVE  file'.action = None
      <4>1. CASE o.kind \in {"clear", "resume"}
        BY <2>1, <2>2, <2>3, <3>1, <3>2, <3>4, <4>1
      <4>2. CASE o.kind \notin {"clear", "resume"}
        <5>1. Cleared' => Cleared
          BY <1>0, <1>2, <4>2 DEF Cleared
        <5>2. file.action = None
          BY <3>2, <3>4, <5>1 DEF Races, ActionAsked
        <5> QED
          BY <2>1, <2>2, <2>3, <3>2, <3>4, <5>2 DEF Races, ActionAsked
      <4> QED
        BY <4>1, <4>2
    <3> QED
      BY <1>1, <3>3, <3>4 DEF ActionAsked, Procs
  <2>9. StopKept'
    <3> SUFFICES ASSUME stopped' PROVE StopKept'
      BY DEF StopKept
    <3>1. CASE stopped
      <4>1. file'.action # None
        BY <2>1, <2>2, <2>3, <3>1 DEF Races, StopKept
      <4>2. \A q \in Procs : (PastRead(q))' => (Writes(q))'.action # None
        BY <1>2, <1>4, <1>5, <3>1 DEF Races, StopKept
      <4>3. ~Resuming' /\ ~Replaying'
        BY <1>1, <1>2, <1>9, <3>1 DEF Races, StopKept, Replaying
      <4> QED
        BY <4>1, <4>2, <4>3 DEF StopKept, Procs
    <3>2. CASE ~stopped
      <4>1. Alone(p) /\ o.kind = "request" /\ o.arg = "stop" /\ ~Resuming /\ ~Replaying
        BY <2>1, <3>2 DEF Settle
      <4>2. file'.action # None
        BY <1>1, <2>1, <2>2, <2>4, <4>1, WritesWhat DEF None
      <4>3. ~Resuming' /\ ~Replaying'
        BY <1>1, <1>2, <1>9, <4>1 DEF Replaying
      <4> QED
        BY <2>4, <4>1, <4>2, <4>3 DEF StopKept, Procs
    <3> QED
      BY <3>1, <3>2
  <2> QED
    BY <1>7, <1>8, <2>5, <2>6, <2>7, <2>8, <2>9 DEF Races
<1> QED
  BY <1>10, <1>11

\* The requests and writers that may bring an action back when the user resumes.
LEMMA MayReturnNone ==
    MayReturn = {} => \A p \in Procs : Pending(p) => Writes(p).action = None
  BY DEF MayReturn

\* A handler or a graph node that begins an operation, with the history it keeps.
LEMMA BeginKeeps ==
    ASSUME IInv, Races, NEW p \in Procs, NEW kind, NEW arg, Begin(p, kind, arg),
           kind \in {"request", "add", "clear", "resume", "take"},
           kind = "request" => arg \in {"pause", "stop"} /\ asked' # {},
           kind = "clear" => p = "graph" /\ node = "clearing",
           kind = "take" => p = "graph" /\ node = "body",
           kind = "resume" => asked' = MayReturn /\ ~stopped' /\ node = "paused",
           kind # "resume" => asked \subseteq asked' /\ stopped' = stopped,
           given' = (IF kind = "add" THEN given \ {arg} ELSE given),
           UNCHANGED <<node, resumed, owed>>
    PROVE  Races'
<1>0. "graph" \in Procs
  BY DEF Procs
<1>1. /\ op[p].kind = "idle" /\ op[p].pc = "read"
      /\ op'[p].kind = kind /\ op'[p].arg = arg
      /\ op'[p].pc = "read" /\ op'[p].data = Empty
      /\ \A q \in Procs \ {p} : op'[q] = op[q] /\ (Writes(q))' = Writes(q)
      /\ \A q \in Procs : (PastRead(q))' = PastRead(q)
      /\ (kind # "request" => (Writes(p)).action' = None)
      /\ InHand' = InHand
      /\ Written' /\ Fresh'
      /\ UNCHANGED <<file, tmp>>
  BY Begun
<1>2. /\ \A q \in Procs \ {p} : (Pending(q))' = Pending(q)
      /\ ~PastRead(p)
  BY <1>1 DEF Pending, PastRead
<1>3. OwedKept'
  BY <1>1, <1>2 DEF Races, OwedKept, Procs
<1>4. GivenGone'
  BY <1>1, <1>2 DEF Races, GivenGone, Procs
<1>5. Replays'
  BY <1>0, <1>1 DEF Races, Replays
<1>6. ActionAsked'
  <2>1. CASE kind = "resume"
    <3>1. asked' = {} => \A q \in Procs \ {p} : (Pending(q))' => (Writes(q)).action' = None
      BY <1>1, <1>2, <2>1, MayReturnNone
    <3>2. ~Cleared'
      BY <1>0, <1>1, <2>1 DEF Races, Replays, Cleared
    <3> QED
      BY <1>1, <2>1, <3>1, <3>2 DEF ActionAsked, Procs
  <2>2. CASE kind = "request"
    BY <2>2 DEF ActionAsked
  <2>3. CASE kind \notin {"resume", "request"}
    <3>1. Cleared' => Cleared
      BY <1>0, <1>1 DEF Cleared
    <3> QED
      BY <1>1, <1>2, <2>3, <3>1 DEF Races, ActionAsked, Procs
  <2> QED
    BY <2>1, <2>2, <2>3
<1>7. StopKept'
  <2> SUFFICES ASSUME stopped' PROVE StopKept'
    BY DEF StopKept
  <2>1. /\ kind # "resume" /\ stopped
        /\ file.action # None /\ ~Resuming /\ ~Replaying
    BY DEF Races, StopKept
  <2>2. ~Resuming'
    BY <1>1, <2>1 DEF Resuming, Procs
  <2>3. ~Replaying'
    <3>1. kind = "clear" => FALSE
      BY <1>0, <1>1, <2>1 DEF Races, Replays, Replaying
    <3>2. kind = "take" => ~resumed
      BY <1>0, <1>1 DEF Races, Replays
    <3>3. p # "graph" => op'["graph"] = op["graph"]
      BY <1>0, <1>1
    <3>4. p = "graph" => kind \in {"clear", "take"} \/ ~resumed
      BY <1>0, <1>1, <2>1 DEF Replaying
    <3> QED
      BY <1>1, <2>1, <3>1, <3>2, <3>3, <3>4 DEF Replaying
  <2>4. \A q \in Procs : (PastRead(q))' => (Writes(q)).action' # None
    BY <1>1, <1>2, <2>1 DEF Races, StopKept
  <2> QED
    BY <1>1, <2>1, <2>2, <2>3, <2>4 DEF StopKept, Procs
<1> QED
  BY <1>1, <1>3, <1>4, <1>5, <1>6, <1>7 DEF Races

\* An operation that ended is forgotten: nobody else's is touched.
LEMMA Ended ==
    ASSUME IInv, Races, NEW p \in Procs, op[p].pc \in {"done", "error"},
           op' = [op EXCEPT ![p] = Idle], UNCHANGED <<file, tmp>>
    PROVE  /\ op'[p].kind = "idle" /\ op'[p].pc = "read" /\ op'[p].data = Empty
           /\ \A q \in Procs \ {p} : op'[q] = op[q]
           /\ \A q \in Procs : (PastRead(q))' = PastRead(q) /\ (Pending(q))' = Pending(q)
           /\ \A q \in Procs : Pending(q) => op'[q] = op[q] /\ (Writes(q))' = Writes(q)
           /\ \A q \in Procs : PastRead(q) => Pending(q)
           /\ Resuming' => Resuming
           /\ Written' /\ Fresh'
<1>1. /\ op'[p].kind = "idle" /\ op'[p].pc = "read" /\ op'[p].data = Empty
      /\ \A q \in Procs \ {p} : op'[q] = op[q]
      /\ ~PastRead(p) /\ ~Pending(p)
      /\ ~(PastRead(p))' /\ ~(Pending(p))'
  BY DEF IInv, TypeOK, Idle, PastRead, Pending
<1>2. \A q \in Procs : (PastRead(q))' = PastRead(q) /\ (Pending(q))' = Pending(q)
  BY <1>1 DEF PastRead, Pending
<1>3. \A q \in Procs : Pending(q) => op'[q] = op[q] /\ (Writes(q))' = Writes(q)
  BY <1>1 DEF Writes
<1>4. \A q \in Procs : PastRead(q) => Pending(q)
  BY DEF IInv, OpOK, PastRead, Pending
<1>5. Resuming' => Resuming
  BY <1>1 DEF Resuming, Procs
<1>6. Written'
  BY <1>1, <1>3, <1>4 DEF Races, Written, PastRead, Procs
<1>7. Fresh'
  BY <1>1 DEF Races, Fresh, Procs
<1> QED
  BY <1>1, <1>2, <1>3, <1>4, <1>5, <1>6, <1>7

\* The handler of a steering call returns.
LEMMA AnswerKeeps == ASSUME IInv, Races, NEW c \in Clients, Answer(c) PROVE Races'
<1>0. c \in Procs /\ "graph" \in Procs /\ c # "graph"
  BY TaskControlAssumption DEF Procs
<1> DEFINE replay == op[c].pc = "done" /\ op[c].kind = "resume" /\ node = "paused"
<1>1. /\ op[c].pc \in {"done", "error"} /\ op' = [op EXCEPT ![c] = Idle]
      /\ node' = IF replay THEN "boundary" ELSE node
      /\ resumed' = (resumed \/ replay)
      /\ UNCHANGED <<file, tmp, owed, given, asked, stopped>>
  BY DEF Answer, history
<1>2. /\ op'[c].kind = "idle"
      /\ op'["graph"] = op["graph"]
      /\ \A q \in Procs : (PastRead(q))' = PastRead(q) /\ (Pending(q))' = Pending(q)
      /\ \A q \in Procs : Pending(q) => op'[q] = op[q] /\ (Writes(q))' = Writes(q)
      /\ \A q \in Procs : PastRead(q) => Pending(q)
      /\ Resuming' => Resuming
      /\ Written' /\ Fresh'
  <2>1. UNCHANGED <<file, tmp>>
    BY <1>1
  <2>2. \A q \in Procs \ {c} : op'[q] = op[q]
    BY <1>0, <1>1, <2>1, Ended
  <2> QED
    BY <1>0, <1>1, <2>1, <2>2, Ended
<1>3. InHand' = InHand /\ Cleared' = Cleared
  BY <1>2 DEF InHand, Cleared
<1>4. OwedKept' /\ GivenGone'
  BY <1>1, <1>2, <1>3 DEF Races, OwedKept, GivenGone, Procs
<1>5. Replays'
  BY <1>1, <1>2 DEF Races, Replays
<1>6. ActionAsked'
  BY <1>1, <1>2, <1>3 DEF Races, ActionAsked, Procs
<1>7. StopKept'
  <2>1. Resuming \/ ~replay
    BY <1>0 DEF Resuming
  <2>2. stopped => ~Replaying' /\ ~Resuming'
    BY <1>1, <1>2, <2>1 DEF Races, StopKept, Replaying
  <2> QED
    BY <1>1, <1>2, <2>2 DEF Races, StopKept, Procs
<1> QED
  BY <1>2, <1>4, <1>5, <1>6, <1>7 DEF Races

\* A mailbox operation of the graph returns to its node.
LEMMA GraphReturnKeeps == ASSUME IInv, Races, GraphReturn PROVE Races'
<1> DEFINE o == op["graph"]
<1>0. "graph" \in Procs
  BY DEF Procs
<1>1. /\ o.pc \in {"done", "error"} /\ op' = [op EXCEPT !["graph"] = Idle]
      /\ UNCHANGED <<file, tmp, given, asked, stopped>> /\ resumed' = FALSE
      /\ owed' = IF o.pc = "error" THEN {}
                 ELSE IF o.kind = "take" THEN owed \ Range(o.data.constraints) ELSE owed
      /\ node' = IF o.pc = "error" THEN "crashed"
                 ELSE IF o.kind = "clear" THEN "body" ELSE "work"
  BY DEF GraphReturn
<1>2. /\ op'["graph"].kind = "idle"
      /\ \A q \in Procs : (PastRead(q))' = PastRead(q) /\ (Pending(q))' = Pending(q)
      /\ \A q \in Procs : Pending(q) => op'[q] = op[q] /\ (Writes(q))' = Writes(q)
      /\ \A q \in Procs : PastRead(q) => Pending(q)
      /\ Resuming' => Resuming
      /\ Written' /\ Fresh'
  BY <1>0, <1>1, Ended
<1>3. o.kind \in {"clear", "take"}
  BY <1>0, <1>1 DEF IInv, OpOK
<1>4. /\ o.pc = "error" => node' = "crashed"
      /\ o.pc = "done" /\ o.kind = "clear" => node' = "body" /\ Cleared
      /\ o.pc = "done" /\ o.kind = "take" => node' = "work" /\ node = "body"
  BY <1>1, <1>3 DEF Races, Replays, Cleared
<1>5. OwedKept'
  <2>1. InHand' = {}
    BY <1>2 DEF InHand
  <2>2. owed' \subseteq owed /\ owed' \cap InHand = {}
    BY <1>1 DEF InHand
  <2> QED
    BY <1>1, <1>2, <2>1, <2>2 DEF Races, OwedKept, Procs
<1>6. GivenGone'
  BY <1>1, <1>2 DEF Races, GivenGone, Procs
<1>7. Replays'
  BY <1>1, <1>2, <1>3, <1>4 DEF Replays
<1>8. ActionAsked'
  <2>1. node' # "crashed" => Cleared \/ (~resumed /\ node \notin {"paused", "crashed"})
    BY <1>1, <1>3, <1>4 DEF Races, Replays
  <2>2. ~Cleared'
    BY <1>2 DEF Cleared
  <2> QED
    BY <1>1, <1>2, <2>1, <2>2 DEF Races, ActionAsked, Procs
<1>9. StopKept'
  <2>1. ~Replaying'
    BY <1>1 DEF Replaying
  <2> QED
    BY <1>1, <1>2, <2>1 DEF Races, StopKept, Procs
<1> QED
  BY <1>2, <1>5, <1>6, <1>7, <1>8, <1>9 DEF Races

\* The steps that leave the mailbox alone.
LEMMA NodeKeeps ==
    ASSUME IInv, Races, ResumeEndpoint \/ Inspect \/ EndNode \/ UNCHANGED vars
    PROVE  Races'
<1>0. "graph" \in Procs
  BY DEF Procs
<1>1. UNCHANGED <<file, tmp, op, owed, given>>
  BY DEF ResumeEndpoint, Inspect, EndNode, vars, store, history
<1>2. /\ \A q \in Procs : /\ (PastRead(q))' = PastRead(q)
                          /\ (Pending(q))' = Pending(q)
                          /\ (Writes(q))' = Writes(q)
      /\ InHand' = InHand /\ Cleared' = Cleared /\ Resuming' = Resuming
  BY <1>1 DEF PastRead, Pending, Writes, InHand, Cleared, Resuming, Procs
<1>3. Written'
  BY <1>1, <1>2 DEF Races, Written, Procs
<1>4. Fresh' /\ OwedKept' /\ GivenGone'
  BY <1>1, <1>2 DEF Races, Fresh, OwedKept, GivenGone, Procs
<1>5. (ResumeEndpoint \/ Inspect \/ EndNode) => op["graph"].kind \notin {"clear", "take"}
  BY DEF ResumeEndpoint, Inspect, EndNode, Races, Replays
<1>6. Replays'
  <2>1. CASE ResumeEndpoint \/ Inspect \/ EndNode
    BY <1>1, <1>5, <2>1 DEF ResumeEndpoint, Inspect, EndNode, Races, Replays
  <2>2. CASE UNCHANGED vars
    BY <2>2 DEF vars, store, Races, Replays
  <2> QED
    BY <2>1, <2>2
<1>7. CASE ResumeEndpoint
  <2>1. asked' = MayReturn /\ resumed' /\ ~stopped' /\ node = "paused"
    BY <1>7 DEF ResumeEndpoint
  <2>2. ActionAsked'
    BY <1>2, <1>5, <1>7, <2>1, MayReturnNone DEF ActionAsked, Cleared, Procs
  <2> QED
    BY <1>3, <1>4, <1>6, <2>1, <2>2 DEF Races, StopKept
<1>8. CASE Inspect
  <2>1. /\ node = "boundary" /\ op["graph"].kind = "idle" /\ UNCHANGED <<asked, stopped>>
        /\ \/ file.action = None /\ resumed' = FALSE
           \/ file.action # None /\ resumed' = resumed
              /\ node' = IF resumed THEN "clearing" ELSE "paused"
    BY <1>8 DEF Inspect, history
  <2>2. ActionAsked'
    BY <1>1, <1>2, <2>1 DEF Races, ActionAsked, Cleared, Procs
  <2>3. StopKept'
    <3>1. stopped => ~Replaying'
      BY <1>1, <2>1 DEF Races, StopKept, Replaying
    <3> QED
      BY <1>1, <1>2, <2>1, <3>1 DEF Races, StopKept, Procs
  <2> QED
    BY <1>3, <1>4, <1>6, <2>2, <2>3 DEF Races
<1>9. CASE EndNode \/ UNCHANGED vars
  <2>1. /\ UNCHANGED <<asked, stopped, resumed>>
        /\ node' = node \/ (node \in {"body", "work"} /\ node' \in {"boundary", "finished"})
    BY <1>9 DEF EndNode, vars, history
  <2>2. ActionAsked'
    BY <1>1, <1>2, <2>1 DEF Races, ActionAsked, Procs
  <2>3. StopKept'
    <3>1. Replaying' = Replaying
      BY <1>1, <2>1 DEF Replaying
    <3> QED
      BY <1>1, <1>2, <2>1, <3>1 DEF Races, StopKept, Procs
  <2> QED
    BY <1>3, <1>4, <1>6, <2>2, <2>3 DEF Races
<1> QED
  BY <1>7, <1>8, <1>9

\* The inductive step of Races, one action after the other.
LEMMA RacesStep == ASSUME IInv, Races, [Next]_vars PROVE Races'
<1>0. "graph" \in Procs /\ (\A c \in Clients : c \in Procs /\ c # "graph")
  BY TaskControlAssumption DEF Procs
<1>1. ASSUME NEW p \in Procs, StoreStep(p) PROVE Races'
  BY <1>1, ReadKeeps, WriteTmpKeeps, RenameKeeps DEF StoreStep
<1>2. ASSUME NEW c \in Clients, Post(c) PROVE Races'
  <2>1. ASSUME NEW a \in {"pause", "stop"}, SteerAction(c, a) PROVE Races'
    <3>1. /\ Begin(c, "request", a) /\ asked' # {} /\ asked \subseteq asked'
          /\ UNCHANGED <<node, resumed, owed, given, stopped>>
      BY <2>1 DEF SteerAction
    <3> QED
      BY <1>0, <3>1, BeginKeeps
  <2>2. ASSUME NEW i \in Instructions, SteerConstraint(c, i) PROVE Races'
    <3>1. /\ Begin(c, "add", i) /\ given' = given \ {i}
          /\ UNCHANGED <<node, resumed, owed, asked, stopped>>
      BY <2>2 DEF SteerConstraint
    <3> QED
      BY <1>0, <3>1, BeginKeeps
  <2>3. CASE SteerResume(c)
    <3>1. /\ Begin(c, "resume", None) /\ node = "paused" /\ asked' = MayReturn /\ ~stopped'
          /\ UNCHANGED <<node, resumed, owed, given>>
      BY <2>3 DEF SteerResume
    <3> QED
      BY <1>0, <3>1, BeginKeeps
  <2> QED
    BY <1>2, <2>1, <2>2, <2>3 DEF Post
<1>3. ASSUME NEW c \in Clients, Answer(c) PROVE Races'
  BY <1>3, AnswerKeeps
<1>4. CASE Graph
  <2>1. CASE GraphClear
    <3>1. /\ Begin("graph", "clear", None) /\ node = "clearing"
          /\ UNCHANGED <<node, resumed, owed, given, asked, stopped>>
      BY <2>1 DEF GraphClear, history
    <3> QED
      BY <1>0, <3>1, BeginKeeps
  <2>2. CASE GraphTake
    <3>1. /\ Begin("graph", "take", None) /\ node = "body"
          /\ UNCHANGED <<node, resumed, owed, given, asked, stopped>>
      BY <2>2 DEF GraphTake, history
    <3> QED
      BY <1>0, <3>1, BeginKeeps
  <2> QED
    BY <1>4, <2>1, <2>2, GraphReturnKeeps, NodeKeeps DEF Graph
<1>5. CASE ResumeEndpoint \/ UNCHANGED vars
  BY <1>5, NodeKeeps
<1> QED
  BY <1>1, <1>2, <1>3, <1>4, <1>5 DEF Next

\* Nothing is under way at the start.
LEMMA RacesInit == Init => Races
<1> SUFFICES ASSUME Init PROVE Races
  OBVIOUS
<1>1. \A p \in Procs : op[p].kind = "idle" /\ op[p].pc = "read" /\ op[p].data = Empty
  BY DEF Init, Idle
<1>2. \A p \in Procs : ~PastRead(p) /\ ~Pending(p)
  BY <1>1 DEF PastRead, Pending
<1>3. op["graph"].kind = "idle" /\ "graph" \in Procs
  BY <1>1 DEF Procs
<1>4. Written /\ Fresh
  BY <1>1 DEF Init, Written, Fresh
<1>5. OwedKept /\ GivenGone
  BY <1>2 DEF Init, OwedKept, GivenGone
<1>6. Replays
  BY <1>3 DEF Init, Replays
<1>7. ActionAsked /\ StopKept
  BY <1>2 DEF Init, ActionAsked, StopKept, Empty
<1> QED
  BY <1>4, <1>5, <1>6, <1>7 DEF Races

\* The mailbox under any interleaving of its users.
LEMMA RacesInvariant == Spec => [](IInv /\ Races)
  BY InductiveInit, InductiveStep, RacesInit, RacesStep, PTL DEF Spec

\* A text that settled is not lost: it is in the file until the graph has it in its hands
\* or it is pushed out, whoever writes the mailbox meanwhile.
THEOREM ConstraintsKept == Spec => []NoConstraintLost
<1>1. Races => NoConstraintLost
  BY DEF Races, OwedKept, InHand, NoConstraintLost
<1> QED
  BY <1>1, RacesInvariant, PTL

\* A settled STOP is honoured, a text handed over by a settled take is not handed over
\* again, and the run pauses only for an action that was asked for.
THEOREM ControlCorrect == Spec => ControlHonoured
<1> DEFINE StopStep == stopped /\ node = "boundary" => node' # "body"
           TakeStep == op["graph"].kind = "take" /\ op["graph"].pc = "rename"
                         /\ op'["graph"].pc = "done"
                         => Range(op["graph"].data.constraints) \cap given = {}
           PauseStep == node # "paused" /\ node' = "paused" => asked # {}
<1>0. "graph" \in Procs
  BY DEF Procs
<1>1. ASSUME IInv, Races, [Next]_vars, node' # node, node' \in {"body", "paused"}
      PROVE  Inspect \/ (node = "clearing" /\ node' = "body")
  <2>1. CASE Graph
    <3>1. CASE GraphReturn
      <4>1. op["graph"].kind \in {"clear", "take"}
        BY <1>0, <1>1, <3>1 DEF GraphReturn, IInv, OpOK
      <4>2. op["graph"].pc = "error" => node' = "crashed"
        BY <3>1 DEF GraphReturn
      <4>3. op["graph"].pc = "done" /\ op["graph"].kind = "take" => node' = "work"
        BY <3>1 DEF GraphReturn
      <4> QED
        BY <1>1, <3>1, <4>1, <4>2, <4>3 DEF GraphReturn, Races, Replays
    <3> QED
      BY <1>1, <2>1, <3>1 DEF Graph, GraphClear, GraphTake, EndNode
  <2>2. CASE ResumeEndpoint
    BY <1>1, <2>2 DEF ResumeEndpoint
  <2>3. ASSUME NEW c \in Clients, Post(c) \/ Answer(c) PROVE FALSE
    BY <1>1, <2>3 DEF Post, SteerAction, SteerConstraint, SteerResume, Answer
  <2>4. ASSUME NEW p \in Procs, StoreStep(p) PROVE FALSE
    BY <1>1, <2>4 DEF StoreStep, Read, WriteTmp, Rename
  <2> QED
    BY <1>1, <2>1, <2>2, <2>3, <2>4 DEF Next, vars
<1>2. IInv /\ Races /\ [Next]_vars => StopStep
  BY <1>1 DEF Inspect, Races, StopKept
<1>3. IInv /\ Races /\ [Next]_vars => PauseStep
  <2> SUFFICES ASSUME IInv, Races, [Next]_vars, node # "paused", node' = "paused"
               PROVE  asked # {}
    OBVIOUS
  <2>1. Inspect
    BY <1>1
  <2> QED
    BY <2>1 DEF Inspect, Races, ActionAsked
<1>4. IInv /\ Races /\ [Next]_vars => TakeStep
  BY <1>0 DEF Races, GivenGone, PastRead
<1>5. Spec => [][StopStep]_vars /\ [][TakeStep]_vars /\ [][PauseStep]_vars
  BY <1>2, <1>3, <1>4, RacesInvariant, PTL DEF Spec
<1> QED
  BY <1>5, PTL DEF ControlHonoured, StopHonoured, DeliveredOnce, PauseIsAsked

(***************************************************************************)
(* The voice session, for any settings and any number of recordings, turns *)
(* and threads.                                                            *)
(***************************************************************************)
Status == [st : States, mic : Mics, active : BOOLEAN, listener : BOOLEAN, rec : Nat]
TurnRow == [phase : Phases, rec : Nat]

VoiceTyped ==
    /\ settings \in [voice : BOOLEAN, mic : BOOLEAN, wake : BOOLEAN, single : BOOLEAN]
    /\ settings.wake => settings.mic
    /\ v \in Status
    /\ waiting \in [workers : Nat, timers : Nat]
    /\ turns \in Seq(TurnRow)
    /\ routed \in Seq(Nat)

\* A session needs voice, and waiting for the wake word needs that it is enabled.
Consented ==
    /\ v.active => settings.voice
    /\ v.st = "wake_listening" => settings.wake

\* A recording is in progress, or with one turn, or it has been routed.
Held ==
    /\ v.rec # 0 => v.rec \in DOMAIN routed /\ routed[v.rec] = 0
    /\ \A t \in DOMAIN turns : turns[t].rec # 0 =>
          /\ turns[t].rec \in DOMAIN routed /\ routed[turns[t].rec] = 0
          /\ turns[t].rec # v.rec
          /\ \A u \in DOMAIN turns : turns[u].rec = turns[t].rec => u = t
    /\ \A r \in DOMAIN routed : routed[r] <= 1

VoiceInv == VoiceTyped /\ Consented /\ ListeningRecords /\ Held

Opens == (v.rec = 0 /\ v'.rec # 0) \/ (~v.listener /\ v'.listener)
OpensAllowed == Opens => v'.active /\ settings.voice /\ settings.mic
Kept == VoiceInv' /\ OpensAllowed

\* What a step of the service may make of its state: the recording stays or is dropped.
Moves(w) ==
    /\ w \in Status
    /\ w.active => settings'.voice
    /\ w.st = "wake_listening" => settings'.wake
    /\ w.st = "listening" => w.rec # 0 /\ w.active /\ w.mic = "listening"
    /\ w.listener => v.listener \/ (w.active /\ settings.voice /\ settings.mic)
-----------------------------------------------------------------------------
USE DEF States, Mics

\* The state of the service changes, a recording in progress stays or is dropped.
LEMMA StateStep ==
    ASSUME VoiceInv, Moves(v'), v'.rec \in {v.rec, 0},
           settings' \in [voice : BOOLEAN, mic : BOOLEAN, wake : BOOLEAN, single : BOOLEAN],
           settings'.wake => settings'.mic,
           waiting' \in [workers : Nat, timers : Nat],
           UNCHANGED <<turns, routed>>
    PROVE  Kept
<1>1. VoiceTyped' /\ Consented' /\ ListeningRecords'
      BY DEF VoiceInv, VoiceTyped, Consented, ListeningRecords, Moves
<1>2. Held'
      BY DEF VoiceInv, VoiceTyped, Held, Status
<1>3. OpensAllowed
      BY DEF OpensAllowed, Opens, Moves, VoiceInv, VoiceTyped, Status
<1> QED BY <1>1, <1>2, <1>3 DEF Kept, VoiceInv

\* A stream is opened for a recording, unless one is open.
LEMMA CaptureStep ==
    ASSUME VoiceInv, NEW w \in Status, v' = Capturing(w), w.rec = v.rec,
           Recorded, w.active, settings.voice, settings.mic, w.listener => v.listener,
           waiting' \in [workers : Nat, timers : Nat],
           UNCHANGED <<turns, settings>>
    PROVE  Kept
<1>1. routed \in Seq(Nat) /\ Len(routed) \in Nat /\ DOMAIN routed = 1..Len(routed)
      BY DEF VoiceInv, VoiceTyped
<1>2. v' = [st |-> "listening", mic |-> "listening", active |-> w.active, listener |-> w.listener,
            rec |-> IF v.rec = 0 THEN Len(routed) + 1 ELSE v.rec]
      BY DEF Capturing, At, Status
<1>3. v' \in Status /\ v'.active /\ v'.rec # 0 /\ v'.mic = "listening" /\ v'.st = "listening"
      BY <1>1, <1>2 DEF VoiceInv, VoiceTyped, Status
<1>4. routed' \in Seq(Nat)
      BY <1>1 DEF Recorded
<1>5. VoiceTyped' /\ Consented' /\ ListeningRecords'
      BY <1>3, <1>4 DEF VoiceInv, VoiceTyped, Consented, ListeningRecords
<1>6. Held'
  <2>1. CASE v.rec = 0
    <3>1. routed' = Append(routed, 0) /\ v'.rec = Len(routed) + 1
          BY <2>1, <1>2, <1>3 DEF Recorded
    <3>2. /\ DOMAIN routed' = 1..(Len(routed) + 1) /\ routed'[Len(routed) + 1] = 0
          /\ \A r \in DOMAIN routed : routed'[r] = routed[r]
          BY <3>1, <1>1
    <3> QED BY <3>1, <3>2, <1>1 DEF VoiceInv, Held
  <2>2. CASE v.rec # 0
    <3>1. routed' = routed /\ v'.rec = v.rec
          BY <2>2, <1>2 DEF Recorded
    <3> QED BY <3>1 DEF VoiceInv, Held
  <2> QED BY <2>1, <2>2
<1>7. OpensAllowed
      BY <1>3 DEF OpensAllowed, Opens
<1> QED BY <1>5, <1>6, <1>7 DEF Kept, VoiceInv

\* A turn goes on, and keeps its recording or is done with it.
LEMMA TurnRowStep ==
    ASSUME VoiceInv, NEW t \in DOMAIN turns, NEW row \in TurnRow,
           turns' = [turns EXCEPT ![t] = row], row.rec \in {0, turns[t].rec},
           Moves(v'), v'.rec = v.rec, waiting' \in [workers : Nat, timers : Nat],
           UNCHANGED settings,
           \/ routed' = routed
           \/ /\ row.rec = 0 /\ turns[t].rec # 0
              /\ routed' = [routed EXCEPT ![turns[t].rec] = @ + 1]
    PROVE  Kept
<1>1. /\ turns \in Seq(TurnRow) /\ DOMAIN turns = 1..Len(turns) /\ turns[t] \in TurnRow
      /\ routed \in Seq(Nat) /\ DOMAIN routed = 1..Len(routed)
      BY DEF VoiceInv, VoiceTyped
<1>2. /\ turns' \in Seq(TurnRow) /\ DOMAIN turns' = DOMAIN turns /\ turns'[t] = row
      /\ \A u \in DOMAIN turns : u # t => turns'[u] = turns[u]
      BY <1>1
<1>3. /\ routed' \in Seq(Nat) /\ DOMAIN routed' = DOMAIN routed
      /\ \A r \in DOMAIN routed : r # turns[t].rec \/ row.rec # 0 => routed'[r] = routed[r]
      /\ \A r \in DOMAIN routed : routed'[r] <= 1
  <2>1. CASE routed' = routed
        BY <2>1, <1>1 DEF VoiceInv, Held
  <2>2. CASE row.rec = 0 /\ turns[t].rec # 0 /\ routed' = [routed EXCEPT ![turns[t].rec] = @ + 1]
    <3>1. turns[t].rec \in DOMAIN routed /\ routed[turns[t].rec] = 0
          BY <2>2 DEF VoiceInv, Held
    <3>2. routed' = [routed EXCEPT ![turns[t].rec] = 1]
          BY <2>2, <3>1
    <3> QED BY <2>2, <3>1, <3>2, <1>1 DEF VoiceInv, Held
  <2> QED BY <2>1, <2>2
<1>4. VoiceTyped' /\ Consented' /\ ListeningRecords'
      BY <1>2, <1>3 DEF VoiceInv, VoiceTyped, Consented, ListeningRecords, Moves
<1>5. Held'
  <2>1. v'.rec # 0 => v'.rec \in DOMAIN routed' /\ routed'[v'.rec] = 0
        BY <1>1, <1>3 DEF VoiceInv, Held
  <2>2. ASSUME NEW u \in DOMAIN turns', turns'[u].rec # 0
        PROVE  /\ turns'[u].rec \in DOMAIN routed' /\ routed'[turns'[u].rec] = 0
               /\ turns'[u].rec # v'.rec
               /\ \A x \in DOMAIN turns' : turns'[x].rec = turns'[u].rec => x = u
    <3>1. u \in DOMAIN turns /\ turns'[u].rec = turns[u].rec /\ turns[u].rec # 0
          BY <2>2, <1>2
    <3>2. /\ turns[u].rec \in DOMAIN routed /\ routed[turns[u].rec] = 0 /\ turns[u].rec # v.rec
          /\ \A x \in DOMAIN turns : turns[x].rec = turns[u].rec => x = u
          BY <3>1 DEF VoiceInv, Held
    <3>3. turns[u].rec # turns[t].rec \/ row.rec # 0
          BY <2>2, <3>1, <3>2, <1>2
    <3> QED BY <3>1, <3>2, <3>3, <1>2, <1>3
  <2> QED BY <2>1, <2>2, <1>3 DEF Held
<1>6. OpensAllowed
      BY DEF OpensAllowed, Opens, Moves, VoiceInv, VoiceTyped, Status
<1> QED BY <1>4, <1>5, <1>6 DEF Kept, VoiceInv

\* A turn begins, with the recording that ends or with a typed text.
LEMMA NewTurnStep ==
    ASSUME VoiceInv, NEW r, r \in {0, v.rec}, turns' = Append(turns, NewTurn(r)),
           Moves(v'), v'.rec = IF r = 0 THEN v.rec ELSE 0,
           waiting' \in [workers : Nat, timers : Nat], UNCHANGED <<settings, routed>>
    PROVE  Kept
<1>1. v.rec \in Nat /\ turns \in Seq(TurnRow) /\ DOMAIN turns = 1..Len(turns) /\ Len(turns) \in Nat
      BY DEF VoiceInv, VoiceTyped, Status
<1>2. NewTurn(r) \in TurnRow /\ NewTurn(r).rec = r
      BY <1>1 DEF NewTurn, TurnRow, Phases
<1>3. /\ turns' \in Seq(TurnRow) /\ DOMAIN turns' = 1..(Len(turns) + 1)
      /\ turns'[Len(turns) + 1].rec = r
      /\ \A u \in DOMAIN turns : turns'[u] = turns[u]
      BY <1>1, <1>2
<1>4. VoiceTyped' /\ Consented' /\ ListeningRecords'
      BY <1>3 DEF VoiceInv, VoiceTyped, Consented, ListeningRecords, Moves
<1>5. Held'
  <2>1. CASE r = 0
        BY <2>1, <1>1, <1>3 DEF VoiceInv, Held
  <2>2. CASE r # 0
        BY <2>2, <1>1, <1>3 DEF VoiceInv, Held
  <2> QED BY <2>1, <2>2
<1>6. OpensAllowed
      BY <1>1 DEF OpensAllowed, Opens, Moves, VoiceInv, VoiceTyped, Status
<1> QED BY <1>4, <1>5, <1>6 DEF Kept, VoiceInv
-----------------------------------------------------------------------------
(***************************************************************************)
(* The changes of the state                                                *)
(***************************************************************************)
\* What the proofs of the steps use of the invariant.
LEMMA VoiceTypes ==
    ASSUME VoiceInv
    PROVE  /\ v \in Status /\ (v.active => settings.voice)
           /\ settings \in [voice : BOOLEAN, mic : BOOLEAN, wake : BOOLEAN, single : BOOLEAN]
           /\ settings.wake => settings.mic
           /\ waiting \in [workers : Nat, timers : Nat]
           /\ turns \in Seq(TurnRow) /\ DOMAIN turns = 1..Len(turns) /\ Len(turns) \in Nat
           /\ v.st = "wake_listening" => settings.wake
BY DEF VoiceInv, VoiceTyped, Consented

\* The states a failure, a stop, a pause or a speech leaves.
LEMMA AtFields ==
    ASSUME NEW w \in Status, NEW st \in States, NEW mic \in Mics
    PROVE  /\ At(w, st, mic) \in Status /\ At(w, st, mic).st = st /\ At(w, st, mic).mic = mic
           /\ At(w, st, mic).active = w.active /\ At(w, st, mic).listener = w.listener
           /\ At(w, st, mic).rec = w.rec
BY DEF At, Status

\* The wake word starts in a session, with the person's consent.
LEMMA WakeStartedMoves ==
    ASSUME VoiceInv, UNCHANGED settings, NEW w \in Status, NEW device,
           w.active, settings.voice, settings.wake, w.listener => v.listener
    PROVE  Moves(WakeStarted(w, device)) /\ WakeStarted(w, device).rec = w.rec
<1>1. settings.mic
      BY DEF VoiceInv, VoiceTyped
<1> QED BY <1>1 DEF WakeStarted, DeviceFailed, At, Moves, Status

\* A session that starts does not open a stream without consent.
LEMMA StartedMoves ==
    ASSUME VoiceInv, UNCHANGED settings, NEW d \in Devices
    PROVE  /\ Moves(SessionStarted(v, d)) /\ SessionStarted(v, d).rec = v.rec
           /\ SessionStarted(v, d).st # "error" => SessionStarted(v, d).active
           /\ SessionStarted(v, d).st # "listening"
<1>1. v \in Status /\ settings.voice \in BOOLEAN /\ settings.wake \in BOOLEAN
      BY VoiceTypes
<1>2. CASE ~settings.voice
      BY <1>1, <1>2, VoiceTypes DEF SessionStarted, Failed, At, Moves, Status
<1>3. CASE settings.voice /\ ~settings.wake
      BY <1>1, <1>3, VoiceTypes DEF SessionStarted, At, Moves, Status
<1>4. CASE settings.voice /\ settings.wake /\ d = "no_model"
      BY <1>1, <1>4, VoiceTypes DEF SessionStarted, Failed, At, Moves, Status
<1>5. CASE settings.voice /\ settings.wake /\ d # "no_model"
  <2> DEFINE w == [v EXCEPT !.active = TRUE]
  <2>1. SessionStarted(v, d) = WakeStarted(w, d = "ready")
        BY <1>5 DEF SessionStarted
  <2>2. w \in Status /\ w.active /\ w.listener = v.listener /\ w.rec = v.rec
        BY <1>1 DEF Status
  <2>3. WakeStarted(w, d = "ready").st \in {"wake_listening", "paused"} /\ WakeStarted(w, d = "ready").active
        BY <2>2 DEF WakeStarted, DeviceFailed, At, Status
  <2> HIDE DEF w
  <2> QED BY <1>5, <2>1, <2>2, <2>3, WakeStartedMoves
<1> QED BY <1>1, <1>2, <1>3, <1>4, <1>5

\* The counters of waiting threads stay natural numbers.
LEMMA WaitingAfter ==
    ASSUME VoiceInv, CancelTimeout \/ ArmTimeout
    PROVE  waiting' \in [workers : Nat, timers : Nat]
BY VoiceTypes DEF CancelTimeout, ArmTimeout, TimerCancelled

\* speak does not open a stream.
LEMMA SpeakMoves ==
    ASSUME VoiceInv, UNCHANGED settings, NEW outcome, Speak(outcome)
    PROVE  Moves(v') /\ v'.rec = v.rec
<1> DEFINE w == [At(v, "speaking", "muted") EXCEPT !.listener = FALSE]
<1>1. /\ v \in Status /\ w \in Status /\ w.rec = v.rec /\ w.active = v.active
      /\ w.st = "speaking" /\ ~w.listener
      BY VoiceTypes DEF At, Status
<1>2. v' \in {Failed(v), w, Failed(w)}
      BY DEF Speak
<1> HIDE DEF w
<1>3. ASSUME NEW x \in {v, w}
      PROVE  /\ Failed(x) \in Status /\ Failed(x).st = "error" /\ Failed(x).active = v.active
             /\ Failed(x).listener = x.listener /\ Failed(x).rec = v.rec
      BY <1>1, AtFields DEF Failed
<1> QED BY <1>1, <1>2, <1>3, VoiceTypes DEF Moves
-----------------------------------------------------------------------------
(***************************************************************************)
(* The person's calls                                                      *)
(***************************************************************************)
\* A settings change that takes voice away ends the session.
LEMMA SettingsKeep ==
    ASSUME VoiceAssumption, VoiceInv, NEW s \in SettingsSet, UpdateSettings(s)
    PROVE  Kept
<1>1. /\ s \in [voice : BOOLEAN, mic : BOOLEAN, wake : BOOLEAN, single : BOOLEAN]
      /\ settings' \in {settings, s}
      /\ UNCHANGED <<turns, routed>>
      BY DEF VoiceAssumption, UpdateSettings
<1>2. settings'.wake => settings'.mic
      BY <1>1, VoiceTypes DEF UpdateSettings
<1>3. waiting' \in [workers : Nat, timers : Nat]
      BY VoiceTypes, WaitingAfter DEF UpdateSettings
<1>4. Moves(v') /\ v'.rec \in {v.rec, 0}
  <2>1. CASE s.voice
        BY <2>1, <1>1, VoiceTypes DEF UpdateSettings, Moves, Status, VoiceInv, ListeningRecords
  <2>2. CASE ~s.voice
        BY <2>2, <1>1, VoiceTypes DEF UpdateSettings, Moves, Status, Stopped, At
  <2> QED BY <2>1, <2>2
<1> QED BY <1>1, <1>2, <1>3, <1>4, VoiceTypes, StateStep

\* The person opens a stream, unless a session, the microphone or the device is missing.
LEMMA PttStartKeeps ==
    ASSUME VoiceInv, NEW d \in Devices, NEW now \in BOOLEAN, PttStart(d, now)
    PROVE  Kept
<1> DEFINE w == IF v.active THEN v ELSE SessionStarted(v, d)
           capture == (v.active \/ w.st # "error") /\ settings.mic /\ now
           u == [w EXCEPT !.listener = FALSE]
<1>1. UNCHANGED <<settings, turns>> /\ waiting' \in [workers : Nat, timers : Nat]
      BY WaitingAfter DEF PttStart
<1>2. w \in Status /\ w.rec = v.rec /\ Moves(w) /\ (w.st # "error" => w.active \/ v.active)
  <2>1. CASE v.active
        BY <2>1, <1>1, VoiceTypes DEF Moves, VoiceInv, ListeningRecords
  <2>2. CASE ~v.active
        BY <2>2, <1>1, StartedMoves DEF Moves
  <2> QED BY <2>1, <2>2
<1>3. CASE capture
  <2>1. v' = Capturing(u) /\ Recorded
        BY <1>3 DEF PttStart
  <2>2. w.active
        BY <1>2, <1>3
  <2>3. u \in Status /\ u.rec = v.rec /\ u.active /\ ~u.listener
        BY <1>2, <2>2 DEF Status
  <2>4. settings.voice /\ settings.mic
        BY <1>1, <1>2, <1>3, <2>2 DEF Moves
  <2> HIDE DEF u
  <2> QED BY <1>1, <2>1, <2>3, <2>4, CaptureStep
<1>4. CASE ~capture
  <2>1. v' \in {w, At(w, "error", "error"), DeviceFailed(w)}
        BY <1>4 DEF PttStart
  <2>2. Moves(v') /\ v'.rec = v.rec
    <3> HIDE DEF w
    <3> QED BY <2>1, <1>2 DEF Moves, Status, At, DeviceFailed
  <2>3. v.rec \in Nat /\ v'.rec \in Nat
        BY <2>2, VoiceTypes DEF Status
  <2>4. routed' = routed
        BY <2>2 DEF PttStart, Recorded
  <2> QED BY <1>1, <2>2, <2>4, VoiceTypes, StateStep
<1> QED BY <1>3, <1>4

\* The recording goes from the service to a new turn.
LEMMA PttStopKeeps ==
    ASSUME VoiceInv, PttStop
    PROVE  Kept
<1>1. UNCHANGED <<settings, waiting, routed>>
      BY DEF PttStop, voiceHistory
<1>2. CASE v.rec = 0
  <2>1. v' = Failed(v) /\ turns' = turns
        BY <1>2 DEF PttStop
  <2>2. Moves(v') /\ v'.rec = v.rec
        BY <2>1, <1>1, VoiceTypes DEF Failed, At, Moves, Status
  <2> QED BY <1>1, <2>1, <2>2, VoiceTypes, StateStep
<1>3. CASE v.rec # 0
  <2>1. v' = [At(v, "transcribing", "off") EXCEPT !.rec = 0] /\ turns' = Append(turns, NewTurn(v.rec))
        BY <1>3 DEF PttStop
  <2>2. Moves(v') /\ v'.rec = 0
        BY <2>1, <1>1, VoiceTypes DEF At, Moves, Status
  <2> QED BY <1>1, <1>3, <2>1, <2>2, VoiceTypes, NewTurnStep
<1> QED BY <1>2, <1>3

\* A step that leaves the state alone.
LEMMA SameMoves ==
    ASSUME VoiceInv, UNCHANGED <<settings, v>>
    PROVE  Moves(v') /\ v'.rec = v.rec
BY VoiceTypes DEF Moves, VoiceInv, ListeningRecords

\* The other calls of the person.
LEMMA PersonKeeps ==
    ASSUME VoiceAssumption, VoiceInv, Person
    PROVE  Kept
<1>1. ASSUME NEW s \in SettingsSet, UpdateSettings(s) PROVE Kept
      BY <1>1, SettingsKeep
<1>2. ASSUME NEW d \in Devices, StartSession(d) PROVE Kept
      BY <1>2, StartedMoves, VoiceTypes, StateStep DEF StartSession
<1>3. ASSUME NEW d \in Devices, NEW now \in BOOLEAN, PttStart(d, now) PROVE Kept
      BY <1>3, PttStartKeeps
<1>4. CASE PttStop
      BY <1>4, PttStopKeeps
<1>5. CASE Typed
  <2>1. UNCHANGED <<settings, v, waiting, routed>> /\ turns' = Append(turns, NewTurn(0))
        BY <1>5 DEF Typed, voiceHistory
  <2> QED BY <2>1, SameMoves, VoiceTypes, NewTurnStep
<1>6. ASSUME NEW outcome \in SpeakOutcomes, SpeakCall(outcome) PROVE Kept
      BY <1>6, SpeakMoves, VoiceTypes, StateStep DEF SpeakCall
<1>7. CASE Pause \/ Stop
  <2>1. /\ UNCHANGED <<settings, turns, routed>> /\ waiting' \in [workers : Nat, timers : Nat]
        /\ v' = [At(v, "paused", "muted") EXCEPT !.listener = FALSE, !.rec = 0] \/ v' = Stopped(v)
        BY <1>7, WaitingAfter DEF Pause, Stop, voiceHistory
  <2>2. CASE v' = [At(v, "paused", "muted") EXCEPT !.listener = FALSE, !.rec = 0]
    <3>1. Moves(v') /\ v'.rec = 0
          BY <2>1, <2>2, VoiceTypes DEF At, Moves, Status
    <3> QED BY <2>1, <3>1, VoiceTypes, StateStep
  <2>3. CASE v' = Stopped(v)
    <3>1. Moves(v') /\ v'.rec = 0
          BY <2>1, <2>3, VoiceTypes DEF Stopped, At, Moves, Status
    <3> QED BY <2>1, <3>1, VoiceTypes, StateStep
  <2> QED BY <2>1, <2>2, <2>3
<1>8. ASSUME NEW device \in BOOLEAN, Resume(device) PROVE Kept
  <2>1. UNCHANGED <<settings, waiting, turns, routed>>
        BY <1>8 DEF Resume
  <2>2. Moves(v') /\ v'.rec = v.rec
    <3>1. CASE settings.wake /\ v.active
          BY <3>1, <1>8, <2>1, VoiceTypes, WakeStartedMoves DEF Resume
    <3>2. CASE ~(settings.wake /\ v.active)
          BY <3>2, <1>8, <2>1, VoiceTypes DEF Resume, At, Moves, Status
    <3> QED BY <3>1, <3>2
  <2> QED BY <2>1, <2>2, VoiceTypes, StateStep
<1> QED BY <1>1, <1>2, <1>3, <1>4, <1>5, <1>6, <1>7, <1>8 DEF Person
-----------------------------------------------------------------------------
(***************************************************************************)
(* The turns and the threads                                               *)
(***************************************************************************)
\* A turn that goes on without its recording, or ends.
LEMMA RowKeeps ==
    ASSUME VoiceInv, NEW t \in DOMAIN turns, NEW phase \in Phases, To(t, phase),
           Moves(v'), v'.rec = v.rec, waiting' \in [workers : Nat, timers : Nat],
           UNCHANGED <<settings, routed>>
    PROVE  Kept
<1>1. [phase |-> phase, rec |-> 0] \in TurnRow
      BY DEF TurnRow
<1> QED BY <1>1, TurnRowStep DEF To

\* The end of a turn is its last phase.
LEMMA EndsAsDone == ASSUME NEW t, End(t) PROVE To(t, "done")
BY DEF End, Done, To

\* A turn is routed once: it gives up its recording.
LEMMA RouteKeeps ==
    ASSUME VoiceInv, NEW t, Route(t), NEW phase \in Phases, To(t, phase), Moves(v'), v'.rec = v.rec
    PROVE  Kept
<1>1. t \in DOMAIN turns /\ UNCHANGED <<settings, waiting>>
      BY DEF Route, Turn
<1>2. [phase |-> phase, rec |-> 0] \in TurnRow
      BY DEF TurnRow
<1> QED BY <1>1, <1>2, VoiceTypes, TurnRowStep DEF Route, To

\* A failure.
LEMMA FailedMoves ==
    ASSUME VoiceInv, UNCHANGED settings, v' = Failed(v)
    PROVE  Moves(v') /\ v'.rec = v.rec
BY VoiceTypes DEF Failed, At, Moves, Status

\* The steps of a turn.
LEMMA TurnKeeps ==
    ASSUME VoiceInv, NEW t \in 1..MaxTurns, TurnStep(t)
    PROVE  Kept
<1> USE DEF Turn
<1>1. CASE NotRecognised(t) \/ EmptyTranscript(t)
  <2>1. /\ t \in DOMAIN turns /\ To(t, "done") /\ v' = Failed(v)
        /\ UNCHANGED <<settings, waiting, routed>>
        BY <1>1, EndsAsDone DEF NotRecognised, EmptyTranscript, voiceHistory
  <2> QED BY <2>1, FailedMoves, VoiceTypes, RowKeeps DEF Phases
<1>2. CASE RecogniserTimesOut(t)
  <2>1. /\ t \in DOMAIN turns /\ To(t, "done") /\ UNCHANGED <<settings, v, waiting, routed>>
        BY <1>2, EndsAsDone DEF RecogniserTimesOut, voiceHistory
  <2> QED BY <2>1, SameMoves, VoiceTypes, RowKeeps DEF Phases
<1>3. ASSUME NEW silences \in BOOLEAN, LocalCommand(t, silences) PROVE Kept
  <2>1. /\ t \in DOMAIN turns /\ To(t, "reply") /\ UNCHANGED <<settings, v, waiting, routed>>
        BY <1>3 DEF LocalCommand, voiceHistory
  <2> QED BY <2>1, SameMoves, VoiceTypes, RowKeeps DEF Phases
<1>4. ASSUME NEW execute \in BOOLEAN, Forward(t, execute) PROVE Kept
  <2>1. t \in DOMAIN turns /\ UNCHANGED <<settings, waiting, routed>>
        BY <1>4 DEF Forward, voiceHistory
  <2>2. Moves(v') /\ v'.rec = v.rec
        BY <1>4, <2>1, VoiceTypes DEF Forward, Moves, Status
  <2>3. CASE execute
    <3>1. turns[t] \in TurnRow
          BY <2>1, VoiceTypes
    <3>2. /\ turns' = [turns EXCEPT ![t] = [phase |-> "route", rec |-> turns[t].rec]]
          /\ [phase |-> "route", rec |-> turns[t].rec] \in TurnRow
          BY <1>4, <2>1, <2>3, <3>1, VoiceTypes DEF Forward, TurnRow, Phases
    <3> QED BY <2>1, <2>2, <3>2, VoiceTypes, TurnRowStep
  <2>4. CASE ~execute
        BY <1>4, <2>1, <2>2, <2>4, VoiceTypes, RowKeeps DEF Forward, Phases
  <2> QED BY <2>3, <2>4
<1>5. CASE SupervisorAnswers(t)
  <2>1. Route(t) /\ To(t, "answer") /\ UNCHANGED <<settings, v>>
        BY <1>5 DEF SupervisorAnswers, Route
  <2> QED BY <2>1, SameMoves, RouteKeeps DEF Phases
<1>6. CASE SupervisorFails(t)
  <2>1. Route(t) /\ To(t, "done") /\ UNCHANGED settings /\ v' = Failed(v)
        BY <1>6, EndsAsDone DEF SupervisorFails, Route
  <2> QED BY <2>1, FailedMoves, RouteKeeps DEF Phases
<1>7. ASSUME NEW device \in BOOLEAN, Complete(t, device) PROVE Kept
  <2> DEFINE w == [v EXCEPT !.st = "idle", !.active = @ /\ ~settings.single]
  <2>1. /\ t \in DOMAIN turns /\ UNCHANGED <<settings, waiting, routed>>
        /\ To(t, "done") \/ To(t, "say") \/ To(t, "arm")
        BY <1>7, EndsAsDone DEF Complete, voiceHistory
  <2>2. Moves(v') /\ v'.rec = v.rec
    <3>1. /\ w \in Status /\ w.rec = v.rec /\ w.st = "idle" /\ w.listener = v.listener
          /\ w.active = (v.active /\ ~settings.single)
          BY VoiceTypes DEF Status
    <3>2. CASE v' = w
          BY <3>1, <3>2, <2>1, VoiceTypes DEF Moves
    <3>3. CASE v' = WakeStarted(w, device) /\ ~settings.single /\ settings.wake /\ v.active
      <4> HIDE DEF w
      <4> QED BY <3>1, <3>3, <2>1, VoiceTypes, WakeStartedMoves
    <3>4. v' = w \/ (v' = WakeStarted(w, device) /\ ~settings.single /\ settings.wake /\ v.active)
          BY <1>7 DEF Complete
    <3> QED BY <3>2, <3>3, <3>4
  <2> QED BY <2>1, <2>2, VoiceTypes, RowKeeps DEF Phases
<1>8. ASSUME NEW outcome \in SpeakOutcomes, Say(t, outcome) PROVE Kept
  <2>1. /\ t \in DOMAIN turns /\ UNCHANGED <<settings, waiting, routed>> /\ Speak(outcome)
        /\ To(t, "unsaid") \/ To(t, "done")
        BY <1>8, EndsAsDone DEF Say, voiceHistory
  <2> QED BY <2>1, SpeakMoves, VoiceTypes, RowKeeps DEF Phases
<1>9. CASE Unsaid(t)
  <2>1. /\ t \in DOMAIN turns /\ To(t, "done") /\ UNCHANGED <<settings, waiting, routed>>
        /\ v' = At(v, "idle", "off")
        BY <1>9, EndsAsDone DEF Unsaid, voiceHistory
  <2>2. Moves(v') /\ v'.rec = v.rec
        BY <2>1, VoiceTypes DEF At, Moves, Status
  <2> QED BY <2>1, <2>2, VoiceTypes, RowKeeps DEF Phases
<1>10. CASE Arm(t)
  <2>1. /\ t \in DOMAIN turns /\ To(t, "done") /\ UNCHANGED <<settings, v, routed>>
        /\ waiting' \in [workers : Nat, timers : Nat]
        BY <1>10, EndsAsDone, WaitingAfter DEF Arm, voiceHistory
  <2> QED BY <2>1, SameMoves, RowKeeps DEF Phases
<1> QED BY <1>1, <1>2, <1>3, <1>4, <1>5, <1>6, <1>7, <1>8, <1>9, <1>10 DEF TurnStep, Answered

\* The threads, when they get the lock.
LEMMA ThreadsKeep ==
    ASSUME VoiceInv, Threads
    PROVE  Kept
<1>1. ASSUME NEW device \in BOOLEAN, FinishSpeaking(device) PROVE Kept
  <2>1. UNCHANGED <<settings, turns, routed>> /\ waiting' \in [workers : Nat, timers : Nat]
        BY <1>1, WaitingAfter, VoiceTypes DEF FinishSpeaking, voiceHistory
  <2>2. Moves(v') /\ v'.rec = v.rec
    <3> DEFINE w == At(v, "idle", "off")
    <3>1. /\ w \in Status /\ w.rec = v.rec /\ w.st = "idle" /\ w.listener = v.listener
          /\ w.active = v.active
          BY VoiceTypes, AtFields
    <3>2. CASE v' = v
          BY <3>2, <2>1, SameMoves
    <3>3. CASE v' = w
          BY <3>1, <3>3, <2>1, VoiceTypes DEF Moves
    <3>4. CASE v' = WakeStarted(w, device) /\ settings.wake /\ v.active
      <4> HIDE DEF w
      <4> QED BY <3>1, <3>4, <2>1, VoiceTypes, WakeStartedMoves
    <3>5. v' = v \/ v' = w \/ (v' = WakeStarted(w, device) /\ settings.wake /\ v.active)
          BY <1>1 DEF FinishSpeaking
    <3> QED BY <3>2, <3>3, <3>4, <3>5
  <2> QED BY <2>1, <2>2, VoiceTypes, StateStep
<1>2. CASE SoundEnds
  <2>1. UNCHANGED <<settings, v, waiting, turns, routed>>
        BY <1>2 DEF SoundEnds, voiceHistory
  <2> QED BY <2>1, SameMoves, VoiceTypes, StateStep
<1>3. CASE MonitorStops
      BY <1>3, PttStopKeeps DEF MonitorStops
<1>4. CASE Hears
  <2>1. UNCHANGED <<settings, turns, routed>> /\ waiting' \in [workers : Nat, timers : Nat]
        BY <1>4, VoiceTypes DEF Hears, voiceHistory
  <2>2. Moves(v') /\ v'.rec = v.rec
        BY <1>4, <2>1, VoiceTypes DEF Hears, Moves, Status, VoiceInv, ListeningRecords
  <2> QED BY <2>1, <2>2, VoiceTypes, StateStep
<1>5. ASSUME NEW device \in BOOLEAN, WakeDetected(device) PROVE Kept
  <2>1. UNCHANGED <<settings, turns>> /\ waiting' \in [workers : Nat, timers : Nat] /\ Recorded
        BY <1>5, VoiceTypes DEF WakeDetected
  <2>2. CASE v' = Capturing(v) /\ v.active /\ v.st = "wake_listening"
        BY <2>1, <2>2, VoiceTypes, CaptureStep
  <2>3. CASE v' = v \/ v' = DeviceFailed(v)
    <3>1. Moves(v') /\ v'.rec = v.rec
          BY <2>1, <2>3, SameMoves, VoiceTypes DEF DeviceFailed, At, Moves, Status
    <3>2. routed' = routed
          BY <2>1, <3>1 DEF Recorded
    <3> QED BY <2>1, <3>1, <3>2, VoiceTypes, StateStep
  <2> QED BY <1>5, <2>2, <2>3 DEF WakeDetected
<1>6. CASE WakeFailed
  <2>1. /\ UNCHANGED <<settings, turns, routed>> /\ waiting' \in [workers : Nat, timers : Nat]
        /\ v' = Failed(v)
        BY <1>6, VoiceTypes DEF WakeFailed, voiceHistory
  <2> QED BY <2>1, FailedMoves, VoiceTypes, StateStep
<1>7. ASSUME NEW cancelled \in BOOLEAN, ConversationTimedOut(cancelled) PROVE Kept
  <2>1. UNCHANGED <<settings, turns, routed>>
        BY <1>7 DEF ConversationTimedOut, voiceHistory
  <2>2. waiting' \in [workers : Nat, timers : Nat]
        BY <1>7, VoiceTypes DEF ConversationTimedOut
  <2>3. Moves(v') /\ v'.rec = v.rec
    <3>1. CASE v.st \notin {"idle", "wake_listening"}
          BY <3>1, <1>7, <2>1, SameMoves DEF ConversationTimedOut
    <3>2. CASE v.st \in {"idle", "wake_listening"}
          BY <3>2, <1>7, <2>1, VoiceTypes DEF ConversationTimedOut, At, Moves, Status
    <3> QED BY <3>1, <3>2
  <2> QED BY <2>1, <2>2, <2>3, VoiceTypes, StateStep
<1> QED BY <1>1, <1>2, <1>3, <1>4, <1>5, <1>6, <1>7 DEF Threads, Finisher

\* Every step.
LEMMA VoiceStep ==
    ASSUME VoiceAssumption, VoiceInv, [VoiceNext]_voiceVars
    PROVE  VoiceInv' /\ [OpensAllowed]_voiceVars
<1>1. CASE VoiceNext
      BY <1>1, PersonKeeps, TurnKeeps, ThreadsKeep DEF VoiceNext, Kept
<1>2. CASE UNCHANGED voiceVars
  <2>1. UNCHANGED <<settings, v, waiting, turns, routed>>
        BY <1>2 DEF voiceVars, voiceHistory
  <2> QED BY <1>2, <2>1, SameMoves, VoiceTypes, StateStep DEF Kept
<1> QED BY <1>1, <1>2

\* The service starts without a session.
LEMMA VoiceStarts == ASSUME VoiceAssumption, VoiceInit PROVE VoiceInv
<1>1. VoiceTyped
      BY DEF VoiceAssumption, VoiceInit, VoiceTyped, Status
<1> QED BY <1>1 DEF VoiceInit, VoiceInv, Consented, ListeningRecords, Held

\* The invariant holds.
LEMMA VoiceHolds == VoiceSpec => []VoiceInv
<1> USE VoiceAssumption
<1>1. VoiceInit => VoiceInv
      BY VoiceStarts
<1>2. VoiceInv /\ [VoiceNext]_voiceVars => VoiceInv'
      BY VoiceStep
<1> QED BY <1>1, <1>2, PTL DEF VoiceSpec

\* While the service says it listens it does record, in a session, and shows it: no late
\* turn, timer, wake worker or settings change leaves that state half (service.py:126-150).
THEOREM ListensAsItSays == VoiceSpec => []ListeningRecords
<1>1. VoiceInv => ListeningRecords
      BY DEF VoiceInv
<1> QED BY <1>1, VoiceHolds, PTL

\* No recording is routed twice, whoever ends it (service.py:159-171).
THEOREM RecordingRoutedOnce == VoiceSpec => []RoutedOnce
<1>1. VoiceInv => RoutedOnce
      BY DEF VoiceInv, Held, RoutedOnce
<1> QED BY <1>1, VoiceHolds, PTL

\* A stream is opened only in a session and with voice and microphone enabled, also by
\* the threads that waited for the lock meanwhile (service.py:126-150, 372-405).
THEOREM StreamsNeedConsent == VoiceSpec => OpensWithConsent
<1>1. VoiceInv /\ [VoiceNext]_voiceVars => [OpensAllowed]_voiceVars
      BY VoiceAssumption, VoiceStep
<1>2. [][OpensAllowed]_voiceVars => OpensWithConsent
      BY PTL DEF OpensAllowed, Opens, OpensWithConsent
<1> QED BY <1>1, <1>2, VoiceHolds, PTL DEF VoiceSpec
=============================================================================
