--------------------------- MODULE ApprovalProofs ---------------------------
(***************************************************************************)
(* Proofs about approvals and about the patches they let through.          *)
(*   Approval: for any diffs, calls, requests, reworks and server deaths,  *)
(* what reaches the file was approved as it is, and when calls are served  *)
(* in turn, on its base and once.                                          *)
(*   PatchEngine (second half): for any worktree, patches and faults, and  *)
(* any number of threads on it, an apply replaces only what was approved,  *)
(* and there is a way back from what it wrote.                             *)
(***************************************************************************)
EXTENDS Approval, PatchEngine, SequenceTheorems, TLAPS

Pcs == {"new", "reevaluate", "decide", "record", "build", "exec", "bind", "ask", "verify", "apply",
        "test", "review", "done"}

CallStates ==
    [pc : Pcs, decision : {"none", "approved", "rejected"}, appr : Reqs \cup {0},
     drop : Reqs \cup {0}, svc : Requests, diff : Diffs \cup {{}}, base : Nat,
     req : Reqs \cup {0}, allow : BOOLEAN]

Applies == [appr : Reqs, diff : Diffs \cup {{}}, rev : Nat]

\* A loaded service shows the requests of the file, with older statuses, and what it
\* holds as approved has been approved.
SameRequest(old, new) == new.status # "absent" /\ new.diff = old.diff /\ new.base = old.base

Extends(old, new) == \A r \in Reqs : old[r].status # "absent" => SameRequest(old[r], new[r])

ApprovedIn(svc) == {r \in Reqs : svc[r].status = "approved"}

Shows(svc, file, approved) == Extends(svc, file) /\ ApprovedIn(svc) \subseteq approved

\* What a call in the executor is about to apply, at each of its steps.
Bound(m) ==
    /\ m.pc \in {"decide", "record", "verify", "apply", "test"} => m.appr \in Reqs
    /\ m.pc \in {"decide", "record"} => m.decision # "none"
    /\ m.decision # "none" /\ m.pc # "done" => m.appr \in Reqs
    /\ m.pc \in {"ask", "verify"} =>
          m.req \in Reqs /\ m.svc[m.req].status # "absent" /\ m.svc[m.req].diff = m.diff
    /\ m.pc = "apply" =>
          /\ m.svc[m.appr].status = "approved"
          /\ m.svc[m.appr].diff = m.diff
          /\ m.svc[m.appr].base = m.base

CallsBound == \A c \in Calls : Shows(call[c].svc, disk, granted) /\ Bound(call[c])

Active(c) == call[c].pc \notin {"new", "done"}

\* In turn: one call is served, and the file is as the executor has hashed it.
InTurn ==
    ~overlapped => /\ \A c, o \in Calls : Active(c) /\ Active(o) => c = o
                   /\ \A c \in Calls : call[c].pc \in {"ask", "verify", "apply"} => call[c].base = rev

Recorded ==
    /\ \A k \in DOMAIN applied :
          LET a == applied[k]
          IN /\ a.appr \in granted
             /\ disk[a.appr].status # "absent"
             /\ a.diff = disk[a.appr].diff
             /\ overlapped \/ (a.rev = disk[a.appr].base /\ a.rev < rev)
    /\ AppliedOnceInTurn

\* TypeOK but for the file of requests and the calls.
Rest ==
    /\ expired \subseteq Reqs
    /\ mode \in {"ask", "allow"}
    /\ paused \in BOOLEAN /\ open \in BOOLEAN
    /\ pending \in Reqs \cup {0}
    /\ paused <=> pending # 0
    /\ rev \in Nat
    /\ reports \subseteq Reqs
    /\ granted \subseteq Reqs
    /\ reworks \in 0..MaxReworks
    /\ crashes \in 0..MaxCrashes
    /\ overlapped \in BOOLEAN

Typed ==
    /\ Rest
    /\ disk \in Requests
    /\ call \in [Calls -> CallStates]
    /\ applied \in Seq(Applies)

IInv == Typed /\ ApprovedIn(disk) \subseteq granted /\ CallsBound /\ InTurn /\ Recorded

LEMMA ReqPositive == 0 \notin Reqs
BY ApprovalAssumption DEF Reqs

LEMMA NoReqType == NoReq \in [status : Statuses, diff : Diffs \cup {{}}, base : Nat]
BY DEF NoReq, Statuses

LEMMA InitIInv == Init => IInv
<1> SUFFICES ASSUME Init PROVE IInv
    OBVIOUS
<1>1. disk \in Requests
      BY NoReqType DEF Init, Requests
<1>2. NewCall \in CallStates /\ [NewCall EXCEPT !.pc = "exec"] \in CallStates
      BY <1>1 DEF Init, NewCall, CallStates, Pcs
<1>3. call \in [Calls -> CallStates]
      BY <1>2 DEF Init
<1>4. Rest
  <2>1. reworks \in 0..MaxReworks /\ crashes \in 0..MaxCrashes /\ rev \in Nat
        BY ApprovalAssumption DEF Init
  <2>2. paused \in BOOLEAN /\ open \in BOOLEAN /\ overlapped \in BOOLEAN /\ (paused <=> pending # 0)
        BY DEF Init
  <2>3. QED BY <2>1, <2>2 DEF Init, Rest
<1>5. applied \in Seq(Applies) /\ Len(applied) = 0
  <2>1. applied = << >>
        BY DEF Init
  <2>2. QED BY <2>1
<1>6. DOMAIN applied = {}
      BY <1>5
<1>7. ApprovedIn(disk) = {}
      BY DEF Init, ApprovedIn, NoReq
<1>8. CallsBound
      BY DEF Init, CallsBound, Shows, Extends, ApprovedIn, Bound, NewCall, NoReq
<1>9. InTurn
      BY DEF Init, InTurn, Active, NewCall
<1>10. Recorded
      BY <1>6 DEF Recorded, AppliedOnceInTurn
<1>11. QED BY <1>1, <1>3, <1>4, <1>5, <1>7, <1>8, <1>9, <1>10 DEF IInv, Typed

\* What a request can be decided to.
Outcomes == {"approved", "rejected", "cancelled"}

\* decide changes the status of one request.
DecidedFacts(reqs, svc, r, d) ==
    /\ Decided(reqs, svc, r, d) \in Requests
    /\ Extends(reqs, Decided(reqs, svc, r, d))
    /\ ApprovedIn(Decided(reqs, svc, r, d)) \subseteq ApprovedIn(reqs) \cup {r}
    /\ ApprovedIn(Decided(reqs, svc, r, d)) \subseteq ApprovedIn(reqs)
       \/ (d = "approved" /\ Accepted(svc, r, d))

LEMMA DecidedShape ==
    ASSUME NEW reqs \in Requests, NEW svc \in Requests, NEW r \in Reqs, NEW d \in Outcomes
    PROVE  DecidedFacts(reqs, svc, r, d)
<1> USE DEF DecidedFacts
<1> DEFINE Row == [status : Statuses, diff : Diffs \cup {{}}, base : Nat]
<1>1. /\ [reqs EXCEPT ![r].status = "expired"] \in [Reqs -> Row]
      /\ [reqs EXCEPT ![r].status = d] \in [Reqs -> Row]
      BY DEF Requests, Statuses, Outcomes
<1>2. Verdict(svc, r, d) \in {"expired", "same", "refused", "set"}
      BY DEF Verdict
<1>3. Extends(reqs, reqs)
      BY DEF Extends, SameRequest
<1>4. CASE Verdict(svc, r, d) = "expired"
      BY <1>1, <1>4 DEF Decided, Accepted, Requests, Extends, SameRequest, ApprovedIn
<1>5. CASE Verdict(svc, r, d) = "set"
      BY <1>1, <1>5 DEF Decided, Accepted, Requests, Extends, SameRequest, ApprovedIn, Outcomes
<1>6. CASE Verdict(svc, r, d) \in {"same", "refused"}
      BY <1>3, <1>6 DEF Decided, Accepted, Requests
<1>7. QED BY <1>2, <1>4, <1>5, <1>6

\* A service that decides on a request and the file it writes still agree.
LEMMA DecidedAlike ==
    ASSUME NEW svc \in Requests, NEW file \in Requests, Extends(svc, file), NEW r \in Reqs,
           svc[r].status # "absent", NEW d \in Outcomes
    PROVE  Extends(Decided(svc, svc, r, d), Decided(file, svc, r, d))
<1>1. Verdict(svc, r, d) \in {"expired", "same", "refused", "set"}
      BY DEF Verdict
<1>2. CASE Verdict(svc, r, d) = "expired"
      BY <1>2 DEF Decided, Requests, Extends, SameRequest
<1>3. CASE Verdict(svc, r, d) = "set"
      BY <1>3 DEF Decided, Requests, Extends, SameRequest
<1>4. CASE Verdict(svc, r, d) \in {"same", "refused"}
      BY <1>4 DEF Decided
<1>5. QED BY <1>1, <1>2, <1>3, <1>4

LEMMA ExpiredShape ==
    ASSUME NEW file \in Requests, NEW r \in Reqs
    PROVE  LET new == [file EXCEPT ![r].status = "expired"]
           IN new \in Requests /\ Extends(file, new) /\ ApprovedIn(new) \subseteq ApprovedIn(file)
BY DEF Requests, Statuses, Extends, SameRequest, ApprovedIn

LEMMA ExpiredAlike ==
    ASSUME NEW svc \in Requests, NEW file \in Requests, Extends(svc, file), NEW r \in Reqs,
           svc[r].status # "absent"
    PROVE  Extends([svc EXCEPT ![r].status = "expired"], [file EXCEPT ![r].status = "expired"])
BY DEF Requests, Extends, SameRequest

LEMMA ExtendsTwice ==
    ASSUME NEW a, NEW b, NEW d, Extends(a, b), Extends(b, d)
    PROVE  Extends(a, d)
BY DEF Extends, SameRequest

\* What a step keeps of the records of a patch when the file is not written.
LEMMA RecordsKept ==
    ASSUME Typed, Recorded, Extends(disk, disk'), granted \subseteq granted',
           UNCHANGED <<rev, applied>>, overlapped => overlapped'
    PROVE  Recorded'
<1>1. \A k \in DOMAIN applied : applied[k] \in Applies
      BY DEF Typed
<1>2. \A k \in DOMAIN applied : applied[k].appr \in Reqs
      BY <1>1 DEF Applies
<1>3. QED BY <1>2 DEF Recorded, AppliedOnceInTurn, Extends, SameRequest

\* A step of call c that does not write the file keeps the invariant, if its new state
\* does and the requests only grow.
LEMMA StepKeeps ==
    ASSUME IInv, NEW c \in Calls, NEW m \in CallStates,
           call' = [call EXCEPT ![c] = m],
           disk' \in Requests, Extends(disk, disk'), granted \subseteq granted',
           ApprovedIn(disk') \subseteq granted', Rest',
           Shows(m.svc, disk', granted'), Bound(m),
           UNCHANGED <<rev, applied>>,
           Start(c) \/ (Active(c) /\ UNCHANGED overlapped),
           overlapped \/ (m.pc \in {"ask", "verify", "apply"} => m.base = rev)
    PROVE  IInv'
<1>1. Typed'
      BY DEF IInv, Typed
<1>2. CallsBound'
  <2>1. \A o \in Calls : call'[o] = IF o = c THEN m ELSE call[o]
        BY DEF IInv, Typed
  <2>2. ASSUME NEW o \in Calls PROVE Shows(call[o].svc, disk', granted') /\ Bound(call[o])
    <3>1. Shows(call[o].svc, disk, granted) /\ Bound(call[o])
          BY DEF IInv, CallsBound
    <3>2. QED BY <3>1, ExtendsTwice DEF Shows
  <2>3. QED BY <2>1, <2>2 DEF CallsBound, Shows
<1>3. overlapped => overlapped'
      BY DEF Start
<1>4. InTurn'
  <2> SUFFICES ASSUME ~overlapped' PROVE InTurn'
      BY DEF InTurn
  <2>1. \A o \in Calls : o # c => call'[o] = call[o]
        BY DEF IInv, Typed
  <2>2. call'[c] = m
        BY DEF IInv, Typed
  <2>3. \A o \in Calls : o # c => ~Active(o)
        BY <1>3 DEF IInv, InTurn, Start, Active
  <2>4. QED BY <1>3, <2>1, <2>2, <2>3 DEF InTurn, Active
<1>5. Recorded'
      BY <1>3, RecordsKept DEF IInv
<1>6. QED BY <1>1, <1>2, <1>4, <1>5 DEF IInv

LEMMA CallTyped ==
    ASSUME IInv, NEW c \in Calls
    PROVE  call[c] \in CallStates
BY DEF IInv, Typed

LEMMA ExtendsItself == \A file : Extends(file, file)
BY DEF Extends, SameRequest

LEMMA DiskExtends == Extends(disk, disk)
BY ExtendsItself

\* A step of call c that changes no request and grants nothing.
LEMMA LocalStepKeeps ==
    ASSUME IInv, NEW c \in Calls, NEW m \in CallStates,
           call' = [call EXCEPT ![c] = m], Rest',
           m.svc \in {disk, call[c].svc}, Bound(m),
           UNCHANGED <<disk, granted, rev, applied>>,
           Start(c) \/ (Active(c) /\ UNCHANGED overlapped),
           overlapped \/ (m.pc \in {"ask", "verify", "apply"} => m.base = rev)
    PROVE  IInv'
<1>1. Extends(disk, disk') /\ granted \subseteq granted' /\ ApprovedIn(disk') \subseteq granted'
      BY DiskExtends DEF IInv
<1>2. disk' \in Requests
      BY DEF IInv, Typed
<1>3. Shows(m.svc, disk', granted')
      BY DiskExtends DEF IInv, CallsBound, Shows
<1>4. QED BY <1>1, <1>2, <1>3, StepKeeps

LEMMA BeginKeeps ==
    ASSUME IInv, NEW c \in Calls, NEW r \in Reqs, NEW d \in {"approved", "rejected"}, Begin(c, r, d)
    PROVE  IInv'
<1> DEFINE pc == CASE ~paused -> "record"
                   [] paused /\ Matches(r, d) -> "decide"
                   [] OTHER -> "done"
           drop == IF paused /\ r # pending THEN pending ELSE 0
           m == [call[c] EXCEPT !.pc = pc, !.decision = d, !.appr = r, !.drop = drop, !.svc = disk]
<1>1. pc \in {"record", "decide", "done"} /\ drop \in Reqs \cup {0}
      BY DEF IInv, Typed, Rest
<1> HIDE DEF pc, drop
<1>2. m \in CallStates /\ m.pc = pc /\ m.appr = r /\ m.decision = d /\ m.svc = disk
  <2>1. call[c] \in CallStates /\ disk \in Requests
        BY CallTyped DEF IInv, Typed
  <2>2. QED BY <1>1, <2>1 DEF CallStates, Pcs
<1>3. call' = [call EXCEPT ![c] = m]
      BY DEF Begin, pc, drop
<1> HIDE DEF m
<1>4. Bound(m)
      BY <1>1, <1>2 DEF Bound
<1>5. Rest'
      BY DEF Begin, Start, IInv, Typed, Rest, checkpoint
<1>6. QED BY <1>1, <1>2, <1>3, <1>4, <1>5, LocalStepKeeps DEF Begin, checkpoint

LEMMA SwitchModeKeeps ==
    ASSUME IInv, NEW c \in Calls, SwitchMode(c)
    PROVE  IInv'
<1> DEFINE m == [call[c] EXCEPT !.pc = "reevaluate"]
<1>1. m \in CallStates /\ m.pc = "reevaluate" /\ m.appr = call[c].appr
      /\ m.decision = call[c].decision /\ m.svc = call[c].svc
      BY CallTyped DEF CallStates, Pcs
<1>2. call' = [call EXCEPT ![c] = m]
      BY DEF SwitchMode, Goto
<1> HIDE DEF m
<1>3. call[c].pc = "new" /\ Bound(call[c])
      BY DEF SwitchMode, Start, IInv, CallsBound
<1>4. Bound(m)
      BY <1>1, <1>3 DEF Bound
<1>5. Rest'
      BY DEF SwitchMode, Start, IInv, Typed, Rest, checkpoint
<1>6. QED BY <1>1, <1>2, <1>4, <1>5, LocalStepKeeps DEF SwitchMode, checkpoint

LEMMA ReevaluateKeeps ==
    ASSUME IInv, NEW c \in Calls, Reevaluate(c)
    PROVE  IInv'
<1> DEFINE pc == IF paused /\ pending # 0 THEN "decide" ELSE "done"
           m == [call[c] EXCEPT !.pc = pc, !.decision = "approved", !.appr = pending, !.svc = disk]
<1>1. m \in CallStates /\ m.pc = pc /\ m.appr = pending /\ m.decision = "approved" /\ m.svc = disk
  <2>1. call[c] \in CallStates /\ disk \in Requests /\ pending \in Reqs \cup {0}
        BY CallTyped DEF IInv, Typed, Rest
  <2>2. pc \in Pcs
        BY DEF Pcs
  <2> HIDE DEF pc
  <2>3. QED BY <2>1, <2>2 DEF CallStates
<1>2. call' = [call EXCEPT ![c] = m]
      BY DEF Reevaluate
<1> HIDE DEF m
<1>3. Bound(m) /\ m.pc \in {"decide", "done"}
      BY <1>1 DEF Bound, IInv, Typed, Rest
<1>4. Rest'
      BY DEF Reevaluate, IInv, Typed, Rest, checkpoint, history
<1>5. Active(c) /\ UNCHANGED <<disk, granted, rev, applied, overlapped>>
      BY DEF Reevaluate, Active, history
<1>6. QED BY <1>1, <1>2, <1>3, <1>4, <1>5, LocalStepKeeps
LEMMA DecideKeeps ==
    ASSUME IInv, NEW c \in Calls, Decide(c)
    PROVE  IInv'
<1> DEFINE o == call[c]
           free == o.drop = 0 \/ Accepted(o.svc, o.drop, "cancelled")
           dropped == IF o.drop = 0 THEN disk ELSE Decided(disk, o.svc, o.drop, "cancelled")
           decided == Decided(dropped, o.svc, o.appr, o.decision)
           accepted == Accepted(o.svc, o.appr, o.decision)
           pc == IF free /\ accepted THEN "build" ELSE "done"
           m == [o EXCEPT !.pc = pc]
<1>1. /\ o.pc = "decide"
      /\ disk' = IF free THEN decided ELSE dropped
      /\ IF free THEN Grant(o.svc, o.appr, o.decision) ELSE UNCHANGED granted
      /\ call' = [call EXCEPT ![c] = m]
      /\ UNCHANGED <<expired, mode, paused, pending, open, rev, reports, applied, reworks, crashes,
                     overlapped>>
      BY DEF Decide, Goto, checkpoint
<1>2. o \in CallStates /\ Bound(o) /\ Shows(o.svc, disk, granted)
      BY CallTyped DEF IInv, CallsBound
<1>3. /\ o.svc \in Requests /\ o.appr \in Reqs /\ o.decision \in Outcomes
      /\ o.drop \in Reqs \cup {0}
      BY <1>1, <1>2 DEF CallStates, Bound, Outcomes
<1>4. pc \in {"build", "done"}
      OBVIOUS
<1>5. disk \in Requests /\ ApprovedIn(disk) \subseteq granted
      BY DEF IInv, Typed
<1> HIDE DEF pc, o
<1>6. m \in CallStates /\ m.pc = pc /\ m.appr = o.appr /\ m.svc = o.svc
      BY <1>2, <1>4 DEF CallStates, Pcs
<1> HIDE DEF m, free, dropped, decided, accepted
<1>7. dropped \in Requests /\ Extends(disk, dropped) /\ ApprovedIn(dropped) \subseteq ApprovedIn(disk)
  <2>1. "cancelled" \in Outcomes /\ "cancelled" # "approved"
        BY DEF Outcomes
  <2>2. CASE o.drop = 0
        BY <2>2, <1>5, DiskExtends DEF dropped
  <2>3. CASE o.drop \in Reqs
    <3>1. dropped = Decided(disk, o.svc, o.drop, "cancelled")
          BY <2>3, ReqPositive DEF dropped
    <3>2. DecidedFacts(disk, o.svc, o.drop, "cancelled")
          BY <2>1, <2>3, <1>3, <1>5, DecidedShape
    <3>3. QED BY <2>1, <3>1, <3>2 DEF DecidedFacts
  <2>4. QED BY <2>2, <2>3, <1>3
<1>8. /\ decided \in Requests /\ Extends(dropped, decided)
      /\ ApprovedIn(decided) \subseteq ApprovedIn(dropped) \cup {o.appr}
      /\ ApprovedIn(decided) \subseteq ApprovedIn(dropped) \/ (o.decision = "approved" /\ accepted)
  <2>1. DecidedFacts(dropped, o.svc, o.appr, o.decision)
        BY <1>3, <1>7, DecidedShape
  <2>2. QED BY <2>1 DEF DecidedFacts, decided, accepted
<1>9. /\ disk' \in Requests /\ Extends(disk, disk')
      /\ granted \subseteq granted' /\ ApprovedIn(disk') \subseteq granted'
      /\ granted' \subseteq granted \cup {o.appr}
      BY <1>1, <1>5, <1>7, <1>8, ExtendsTwice DEF Grant, accepted
<1>10. Bound(m)
      BY <1>3, <1>4, <1>6 DEF Bound
<1>11. Shows(m.svc, disk', granted')
      BY <1>2, <1>6, <1>9, ExtendsTwice DEF Shows
<1>12. Rest'
      BY <1>1, <1>3, <1>9 DEF IInv, Typed, Rest
<1>13. Active(c)
      BY <1>1 DEF Active, o
<1>14. QED BY <1>1, <1>4, <1>6, <1>9, <1>10, <1>11, <1>12, <1>13, StepKeeps

LEMMA RecordKeeps ==
    ASSUME IInv, NEW c \in Calls, Record(c)
    PROVE  IInv'
<1> DEFINE o == call[c]
           m == [o EXCEPT !.pc = "done"]
<1>1. /\ o.pc = "record"
      /\ disk' = Decided(disk, o.svc, o.appr, o.decision)
      /\ Grant(o.svc, o.appr, o.decision)
      /\ call' = [call EXCEPT ![c] = m]
      /\ UNCHANGED <<expired, mode, paused, pending, open, rev, reports, applied, reworks, crashes,
                     overlapped>>
      BY DEF Record, Goto, checkpoint
<1>2. o \in CallStates /\ Bound(o) /\ Shows(o.svc, disk, granted)
      BY CallTyped DEF IInv, CallsBound
<1>3. o.svc \in Requests /\ o.appr \in Reqs /\ o.decision \in Outcomes
      BY <1>1, <1>2 DEF CallStates, Bound, Outcomes
<1>4. disk \in Requests /\ ApprovedIn(disk) \subseteq granted
      BY DEF IInv, Typed
<1>5. Active(c)
      BY <1>1 DEF Active
<1> HIDE DEF o
<1>6. m \in CallStates /\ m.pc = "done" /\ m.svc = o.svc
      BY <1>2 DEF CallStates, Pcs
<1> HIDE DEF m
<1>7. /\ disk' \in Requests /\ Extends(disk, disk')
      /\ ApprovedIn(disk') \subseteq ApprovedIn(disk) \cup {o.appr}
      /\ ApprovedIn(disk') \subseteq ApprovedIn(disk)
         \/ (o.decision = "approved" /\ Accepted(o.svc, o.appr, o.decision))
  <2>1. DecidedFacts(disk, o.svc, o.appr, o.decision)
        BY <1>3, <1>4, DecidedShape
  <2>2. QED BY <1>1, <2>1 DEF DecidedFacts
<1>8. /\ granted \subseteq granted' /\ ApprovedIn(disk') \subseteq granted'
      /\ granted' \subseteq granted \cup {o.appr}
      BY <1>1, <1>4, <1>7 DEF Grant
<1>9. Bound(m)
      BY <1>6 DEF Bound
<1>10. Shows(m.svc, disk', granted')
      BY <1>2, <1>6, <1>7, <1>8, ExtendsTwice DEF Shows
<1>11. Rest'
      BY <1>1, <1>3, <1>8 DEF IInv, Typed, Rest
<1>12. QED BY <1>1, <1>5, <1>6, <1>7, <1>8, <1>9, <1>10, <1>11, StepKeeps

LEMMA BuildKeeps ==
    ASSUME IInv, NEW c \in Calls, Build(c)
    PROVE  IInv'
<1>1. PICK next \in {"exec", "done"} : call' = [call EXCEPT ![c].svc = disk, ![c].pc = next]
      BY DEF Build
<1> DEFINE m == [call[c] EXCEPT !.svc = disk, !.pc = next]
<1>2. call' = [call EXCEPT ![c] = m]
      BY <1>1 DEF IInv, Typed
<1>3. /\ m \in CallStates /\ m.pc = next /\ m.svc = disk
      /\ m.appr = call[c].appr /\ m.decision = call[c].decision
  <2>1. call[c] \in CallStates /\ disk \in Requests
        BY CallTyped DEF IInv, Typed
  <2>2. QED BY <2>1 DEF CallStates, Pcs
<1> HIDE DEF m
<1>4. call[c].pc = "build" /\ Bound(call[c])
      BY DEF Build, IInv, CallsBound
<1>5. Bound(m)
      BY <1>3, <1>4 DEF Bound
<1>6. Rest'
      BY DEF Build, IInv, Typed, Rest, checkpoint, history
<1>7. Active(c) /\ UNCHANGED <<disk, granted, rev, applied, overlapped>>
      BY <1>4 DEF Build, Active, history
<1>8. QED BY <1>2, <1>3, <1>5, <1>6, <1>7, LocalStepKeeps

\* A step of an active call to another place of the executor.
LEMMA GotoKeeps ==
    ASSUME IInv, NEW c \in Calls, NEW pc \in Pcs, Goto(c, pc), Active(c), Rest',
           UNCHANGED <<disk, granted, rev, applied, overlapped>>,
           Bound([call[c] EXCEPT !.pc = pc]),
           pc \in {"ask", "verify", "apply"} => call[c].pc \in {"ask", "verify", "apply"}
    PROVE  IInv'
<1> DEFINE m == [call[c] EXCEPT !.pc = pc]
<1>1. m \in CallStates /\ m.pc = pc /\ m.svc = call[c].svc /\ m.base = call[c].base
      BY CallTyped DEF CallStates
<1>2. call' = [call EXCEPT ![c] = m]
      BY DEF Goto
<1> HIDE DEF m
<1>3. overlapped \/ (m.pc \in {"ask", "verify", "apply"} => m.base = rev)
      BY <1>1 DEF IInv, InTurn
<1>4. Bound(m)
      BY DEF m
<1>5. QED BY <1>1, <1>2, <1>3, <1>4, LocalStepKeeps
LEMMA ProposeKeeps ==
    ASSUME IInv, NEW c \in Calls, Propose(c)
    PROVE  IInv'
<1>1. call[c].pc = "exec" /\ Bound(call[c]) /\ call[c] \in CallStates
      BY CallTyped DEF Propose, IInv, CallsBound
<1>2. Active(c) /\ UNCHANGED <<disk, granted, rev, applied, overlapped>>
      BY <1>1 DEF Propose, Active, history
<1>3. Rest'
      BY DEF Propose, IInv, Typed, Rest, checkpoint, history
<1>4. CASE Goto(c, "review")
  <2>1. Bound([call[c] EXCEPT !.pc = "review"])
        BY <1>1 DEF Bound, CallStates
  <2>2. QED BY <1>2, <1>3, <1>4, <2>1, GotoKeeps DEF Pcs
<1>5. ASSUME NEW d \in Diffs, call' = [call EXCEPT ![c].pc = "bind", ![c].diff = d]
      PROVE  IInv'
  <2> DEFINE m == [call[c] EXCEPT !.pc = "bind", !.diff = d]
  <2>1. call' = [call EXCEPT ![c] = m]
        BY <1>5 DEF IInv, Typed
  <2>2. /\ m \in CallStates /\ m.pc = "bind" /\ m.svc = call[c].svc
        /\ m.appr = call[c].appr /\ m.decision = call[c].decision
        BY <1>1 DEF CallStates, Pcs
  <2> HIDE DEF m
  <2>3. Bound(m)
        BY <1>1, <2>2 DEF Bound
  <2>4. QED BY <1>2, <1>3, <2>1, <2>2, <2>3, LocalStepKeeps
<1>6. Goto(c, "review") \/ \E d \in Diffs : call' = [call EXCEPT ![c].pc = "bind", ![c].diff = d]
      BY DEF Propose, Proposals
<1>7. QED BY <1>4, <1>5, <1>6

\* The new request is not on file yet, so nothing that was approved is replaced.
LEMMA BindKeeps ==
    ASSUME IInv, NEW c \in Calls, Bind(c)
    PROVE  IInv'
<1> DEFINE o == call[c]
           Ask(r) == [o EXCEPT !.pc = "ask", !.req = r, !.base = rev, !.allow = mode = "allow"]
           new == [status |-> "pending", diff |-> o.diff, base |-> rev]
<1>1. /\ o.pc = "bind" /\ Bound(o) /\ o \in CallStates /\ Shows(o.svc, disk, granted)
      /\ rev \in Nat
      BY CallTyped DEF Bind, IInv, CallsBound, Typed, Rest
<1>2. Active(c) /\ UNCHANGED <<granted, rev, applied, overlapped>>
      BY <1>1 DEF Bind, Active, history
<1>3. Rest'
      BY DEF Bind, IInv, Typed, Rest, checkpoint, history
<1>4. disk \in Requests /\ o.svc \in Requests /\ ApprovedIn(disk) \subseteq granted
      BY <1>1 DEF IInv, Typed, CallStates
<1>5. ASSUME NEW r \in Reqs
      PROVE  /\ Ask(r) \in CallStates
             /\ Ask(r).pc = "ask" /\ Ask(r).req = r /\ Ask(r).base = rev /\ Ask(r).svc = o.svc
             /\ Ask(r).appr = o.appr /\ Ask(r).decision = o.decision /\ Ask(r).diff = o.diff
      BY <1>1 DEF CallStates, Pcs
<1>6. ASSUME NEW r \in Newest(Reusable(c)), call' = [call EXCEPT ![c] = Ask(r)], UNCHANGED disk
      PROVE  IInv'
  <2>1. r \in Reqs /\ o.svc[r].status # "absent" /\ o.svc[r].diff = o.diff
        BY DEF Newest, Reusable
  <2>2. Bound(Ask(r))
        BY <1>1, <1>5, <2>1 DEF Bound
  <2>3. QED BY <1>2, <1>3, <1>5, <1>6, <2>1, <2>2, LocalStepKeeps
<1>7. ASSUME NEW r \in Fresh, disk' = [disk EXCEPT ![r] = new],
             call' = [call EXCEPT ![c] = [Ask(r) EXCEPT !.svc[r] = new]]
      PROVE  IInv'
  <2> DEFINE m == [Ask(r) EXCEPT !.svc[r] = new]
             svc == [o.svc EXCEPT ![r] = new]
  <2>1. r \in Reqs /\ disk[r].status = "absent"
        BY DEF Fresh, Exists
  <2>2. new \in [status : Statuses, diff : Diffs \cup {{}}, base : Nat]
        /\ new.status = "pending" /\ new.diff = o.diff
        BY <1>1 DEF CallStates, Statuses
  <2> HIDE DEF new
  <2>3. svc \in Requests /\ disk' \in Requests
        BY <1>4, <1>7, <2>1, <2>2 DEF Requests
  <2>4. /\ m \in CallStates
        /\ m.pc = "ask" /\ m.req = r /\ m.base = rev /\ m.svc = svc
        /\ m.appr = o.appr /\ m.decision = o.decision /\ m.diff = o.diff
    <3> HIDE DEF Ask
    <3>1. Ask(r).svc = o.svc /\ Ask(r) \in CallStates
          BY <1>5, <2>1
    <3>2. m = [Ask(r) EXCEPT !.svc = svc]
          BY <3>1 DEF CallStates
    <3> HIDE DEF m, svc
    <3>3. QED BY <1>5, <2>1, <2>3, <3>1, <3>2 DEF CallStates
  <2>5. Extends(disk, disk') /\ Extends(svc, disk')
        BY <1>1, <1>4, <1>7, <2>1, <2>2, <2>3 DEF Shows, Extends, SameRequest, Requests
  <2>6. ApprovedIn(disk') \subseteq granted' /\ ApprovedIn(svc) \subseteq granted'
        BY <1>1, <1>2, <1>4, <1>7, <2>1, <2>2 DEF Shows, ApprovedIn, Requests
  <2>7. svc[r] = new
        BY <1>4, <2>1 DEF Requests
  <2> HIDE DEF m, svc
  <2>8. Bound(m)
        BY <1>1, <2>1, <2>2, <2>4, <2>7 DEF Bound
  <2>9. call' = [call EXCEPT ![c] = m]
        BY <1>7 DEF m
  <2>10. QED BY <1>2, <1>3, <2>3, <2>4, <2>5, <2>6, <2>8, <2>9, StepKeeps DEF Shows
<1>8. QED BY <1>6, <1>7 DEF Bind

LEMMA AutoApproveKeeps ==
    ASSUME IInv, NEW c \in Calls, AutoApprove(c)
    PROVE  IInv'
<1> DEFINE o == call[c]
           accepted == Accepted(o.svc, o.req, "approved")
           pc == IF accepted THEN "verify" ELSE "done"
           svc == Decided(o.svc, o.svc, o.req, "approved")
           m == [o EXCEPT !.pc = pc, !.svc = svc, !.decision = "approved", !.appr = o.req]
<1>1. /\ o.pc = "ask" /\ Bound(o) /\ o \in CallStates /\ Shows(o.svc, disk, granted)
      /\ disk' = Decided(disk, o.svc, o.req, "approved")
      /\ Grant(o.svc, o.req, "approved")
      /\ UNCHANGED <<expired, mode, paused, pending, open, rev, reports, applied, reworks, crashes,
                     overlapped>>
      BY CallTyped DEF AutoApprove, IInv, CallsBound, checkpoint
<1>2. call' = [call EXCEPT ![c] = m]
      BY DEF AutoApprove, IInv, Typed
<1>3. /\ o.svc \in Requests /\ o.req \in Reqs /\ o.svc[o.req].status # "absent"
      /\ o.svc[o.req].diff = o.diff /\ disk \in Requests /\ "approved" \in Outcomes
      BY <1>1 DEF Bound, CallStates, IInv, Typed, Outcomes
<1>4. Active(c)
      BY <1>1 DEF Active
<1>5. /\ svc \in Requests /\ Extends(o.svc, svc)
      /\ ApprovedIn(svc) \subseteq ApprovedIn(o.svc) \cup {o.req}
      /\ ApprovedIn(svc) \subseteq ApprovedIn(o.svc) \/ accepted
  <2>1. DecidedFacts(o.svc, o.svc, o.req, "approved")
        BY <1>3, DecidedShape
  <2>2. QED BY <2>1 DEF DecidedFacts
<1>6. /\ disk' \in Requests /\ Extends(disk, disk')
      /\ ApprovedIn(disk') \subseteq ApprovedIn(disk) \cup {o.req}
      /\ ApprovedIn(disk') \subseteq ApprovedIn(disk) \/ accepted
  <2>1. DecidedFacts(disk, o.svc, o.req, "approved")
        BY <1>3, DecidedShape
  <2>2. QED BY <1>1, <2>1 DEF DecidedFacts
<1>7. Extends(svc, disk')
      BY <1>1, <1>3, DecidedAlike DEF Shows
<1>8. pc \in {"verify", "done"}
      OBVIOUS
<1> HIDE DEF pc, svc, o
<1>9. /\ m \in CallStates /\ m.pc = pc /\ m.svc = svc /\ m.decision = "approved"
      /\ m.appr = o.req /\ m.req = o.req /\ m.diff = o.diff /\ m.base = o.base
      BY <1>1, <1>3, <1>5, <1>8 DEF CallStates, Pcs
<1> HIDE DEF m, accepted
<1>10. /\ granted \subseteq granted' /\ ApprovedIn(disk') \subseteq granted'
       /\ ApprovedIn(svc) \subseteq granted' /\ granted' \subseteq granted \cup {o.req}
  <2>1. granted' = IF accepted THEN granted \cup {o.req} ELSE granted
        BY <1>1 DEF Grant, accepted
  <2>2. ApprovedIn(disk) \subseteq granted /\ ApprovedIn(o.svc) \subseteq granted
        BY <1>1 DEF IInv, Shows
  <2>3. QED BY <1>5, <1>6, <2>1, <2>2
<1>11. Bound(m)
  <2>1. svc[o.req].status # "absent" /\ svc[o.req].diff = o.diff
        BY <1>3, <1>5 DEF Extends, SameRequest
  <2>2. QED BY <1>3, <1>8, <1>9, <2>1 DEF Bound
<1>12. Rest'
       BY <1>1, <1>3, <1>10 DEF IInv, Typed, Rest
<1>13. overlapped \/ m.base = rev
       BY <1>1, <1>9 DEF IInv, InTurn, o
<1>14. QED BY <1>1, <1>2, <1>4, <1>6, <1>7, <1>9, <1>10, <1>11, <1>12, <1>13, StepKeeps DEF Shows
LEMMA RefuseKeeps ==
    ASSUME IInv, NEW c \in Calls, Refuse(c)
    PROVE  IInv'
<1> DEFINE o == call[c]
           svc == IF o.req = o.appr THEN o.svc ELSE Decided(o.svc, o.svc, o.req, "cancelled")
           m == [o EXCEPT !.pc = "review", !.svc = svc]
<1>1. /\ o.pc = "ask" /\ Bound(o) /\ o \in CallStates /\ Shows(o.svc, disk, granted)
      /\ disk' = IF o.req = o.appr THEN disk ELSE Decided(disk, o.svc, o.req, "cancelled")
      /\ UNCHANGED <<expired, mode, paused, pending, open, rev, reports, granted, applied, reworks,
                     crashes, overlapped>>
      BY CallTyped DEF Refuse, IInv, CallsBound, checkpoint, history
<1>2. call' = [call EXCEPT ![c] = m]
      BY DEF Refuse, IInv, Typed
<1>3. /\ o.svc \in Requests /\ o.req \in Reqs /\ o.svc[o.req].status # "absent" /\ disk \in Requests
      /\ "cancelled" \in Outcomes /\ "cancelled" # "approved"
      BY <1>1 DEF Bound, CallStates, IInv, Typed, Outcomes
<1>4. Active(c)
      BY <1>1 DEF Active
<1>5. svc \in Requests /\ ApprovedIn(svc) \subseteq ApprovedIn(o.svc)
  <2>1. DecidedFacts(o.svc, o.svc, o.req, "cancelled")
        BY <1>3, DecidedShape
  <2>2. QED BY <1>3, <2>1 DEF DecidedFacts
<1>6. disk' \in Requests /\ Extends(disk, disk') /\ ApprovedIn(disk') \subseteq ApprovedIn(disk)
  <2>1. CASE o.req = o.appr
        BY <1>1, <1>3, <2>1, DiskExtends
  <2>2. CASE o.req # o.appr
    <3>1. DecidedFacts(disk, o.svc, o.req, "cancelled")
          BY <1>3, DecidedShape
    <3>2. QED BY <1>1, <1>3, <2>2, <3>1 DEF DecidedFacts
  <2>3. QED BY <2>1, <2>2
<1>7. Extends(svc, disk')
      BY <1>1, <1>3, DecidedAlike DEF Shows
<1> HIDE DEF svc, o
<1>8. /\ m \in CallStates /\ m.pc = "review" /\ m.svc = svc
      /\ m.appr = o.appr /\ m.decision = o.decision
      BY <1>1, <1>3, <1>5 DEF CallStates, Pcs
<1> HIDE DEF m
<1>9. ApprovedIn(disk') \subseteq granted' /\ ApprovedIn(svc) \subseteq granted'
      BY <1>1, <1>5, <1>6 DEF IInv, Shows
<1>10. Bound(m)
       BY <1>1, <1>8 DEF Bound
<1>11. Rest'
       BY <1>1 DEF IInv, Typed, Rest
<1>12. QED BY <1>1, <1>2, <1>4, <1>6, <1>7, <1>8, <1>9, <1>10, <1>11, StepKeeps DEF Shows

LEMMA VerifyKeeps ==
    ASSUME IInv, NEW c \in Calls, Verify(c)
    PROVE  IInv'
<1> DEFINE o == call[c]
           late == o.svc[o.appr].status = "approved" /\ o.appr \in expired
           pc == IF Verified(o) THEN "apply" ELSE "review"
           svc == IF late THEN [o.svc EXCEPT ![o.appr].status = "expired"] ELSE o.svc
           m == [o EXCEPT !.pc = pc, !.svc = svc]
<1>1. /\ o.pc = "verify" /\ Bound(o) /\ o \in CallStates /\ Shows(o.svc, disk, granted)
      /\ disk' = IF late THEN [disk EXCEPT ![o.appr].status = "expired"] ELSE disk
      /\ UNCHANGED <<expired, mode, paused, pending, open, rev, reports, granted, applied, reworks,
                     crashes, overlapped>>
      BY CallTyped DEF Verify, IInv, CallsBound, checkpoint, history
<1>2. call' = [call EXCEPT ![c] = m]
      BY DEF Verify, IInv, Typed
<1>3. /\ o.svc \in Requests /\ o.req \in Reqs /\ o.appr \in Reqs
      /\ o.svc[o.req].diff = o.diff /\ disk \in Requests
      BY <1>1 DEF Bound, CallStates, IInv, Typed
<1>4. Active(c)
      BY <1>1 DEF Active
<1>5. pc = "apply" => /\ ~late /\ o.svc[o.appr].status = "approved"
                      /\ o.svc[o.appr].diff = o.diff /\ o.svc[o.appr].base = o.base
      BY <1>3 DEF Verified
<1>6. pc \in {"apply", "review"}
      OBVIOUS
<1> HIDE DEF o, pc
<1>7. svc \in Requests /\ ApprovedIn(svc) \subseteq ApprovedIn(o.svc)
      BY <1>3, ExpiredShape
<1>8. disk' \in Requests /\ Extends(disk, disk') /\ ApprovedIn(disk') \subseteq ApprovedIn(disk)
      BY <1>1, <1>3, ExpiredShape, DiskExtends
<1>9. Extends(svc, disk') /\ ApprovedIn(disk') \subseteq granted' /\ ApprovedIn(svc) \subseteq granted'
      BY <1>1, <1>3, <1>7, <1>8, ExpiredAlike DEF IInv, Shows
<1>10. ~late => svc = o.svc
       OBVIOUS
<1> HIDE DEF svc, late
<1>11. /\ m \in CallStates /\ m.pc = pc /\ m.svc = svc /\ m.appr = o.appr
       /\ m.diff = o.diff /\ m.base = o.base /\ m.decision = o.decision
       BY <1>1, <1>6, <1>7 DEF CallStates, Pcs
<1> HIDE DEF m
<1>12. Bound(m)
       BY <1>3, <1>5, <1>6, <1>10, <1>11 DEF Bound
<1>13. overlapped \/ m.base = rev
       BY <1>1, <1>11 DEF IInv, InTurn, o
<1>14. Rest'
       BY <1>1 DEF IInv, Typed, Rest
<1>15. QED BY <1>1, <1>2, <1>4, <1>7, <1>8, <1>9, <1>11, <1>12, <1>13, <1>14, StepKeeps DEF Shows

\* Interrupt, Resume, Test and End go on without a change of requests.
LEMMA GoesOnKeeps ==
    ASSUME IInv, NEW c \in Calls, Interrupt(c) \/ Resume(c) \/ Test(c) \/ End(c)
    PROVE  IInv'
<1>1. call[c] \in CallStates /\ Bound(call[c])
      BY CallTyped DEF IInv, CallsBound
<1>2. \A pc \in Pcs : LET m == [call[c] EXCEPT !.pc = pc]
                      IN /\ m.pc = pc /\ m.appr = call[c].appr /\ m.decision = call[c].decision
                         /\ m.req = call[c].req /\ m.svc = call[c].svc /\ m.diff = call[c].diff
      BY <1>1 DEF CallStates
<1>3. CASE Interrupt(c)
  <2>1. call[c].pc = "ask" /\ Goto(c, "done") /\ UNCHANGED <<disk, granted, rev, applied, overlapped>>
        BY <1>3 DEF Interrupt, history
  <2>2. call[c].req \in Reqs /\ 0 \notin Reqs
        BY <1>1, <2>1, ReqPositive DEF Bound
  <2>3. Rest'
        BY <1>3, <2>2 DEF Interrupt, IInv, Typed, Rest, history
  <2>4. Bound([call[c] EXCEPT !.pc = "done"])
        BY <1>2 DEF Bound, Pcs
  <2>5. QED BY <2>1, <2>3, <2>4, GotoKeeps DEF Active, Pcs
<1>4. CASE Resume(c)
  <2>1. /\ call[c].pc = "ask" /\ call[c].decision = "approved" /\ Goto(c, "verify")
        /\ UNCHANGED <<disk, granted, rev, applied, overlapped>>
        BY <1>4 DEF Resume, history
  <2>2. Rest'
        BY <1>4 DEF Resume, IInv, Typed, Rest, checkpoint, history
  <2>3. Bound([call[c] EXCEPT !.pc = "verify"])
        BY <1>1, <1>2, <2>1 DEF Bound, Pcs
  <2>4. QED BY <2>1, <2>2, <2>3, GotoKeeps DEF Active, Pcs
<1>5. CASE Test(c)
  <2>1. /\ call[c].pc = "test" /\ Goto(c, "review")
        /\ UNCHANGED <<disk, granted, rev, applied, overlapped>>
        BY <1>5 DEF Test, history
  <2>2. call[c].appr \in Reqs
        BY <1>1, <2>1 DEF Bound
  <2>3. Rest'
        BY <1>5, <2>2 DEF Test, IInv, Typed, Rest, checkpoint, history
  <2>4. Bound([call[c] EXCEPT !.pc = "review"])
        BY <1>1, <1>2, <2>1 DEF Bound, Pcs
  <2>5. QED BY <2>1, <2>3, <2>4, GotoKeeps DEF Active, Pcs
<1>6. CASE End(c)
  <2>1. /\ call[c].pc = "review" /\ Goto(c, "done")
        /\ UNCHANGED <<disk, granted, rev, applied, overlapped>>
        BY <1>6 DEF End, history
  <2>2. Rest'
        BY <1>6 DEF End, IInv, Typed, Rest, history
  <2>3. Bound([call[c] EXCEPT !.pc = "done"])
        BY <1>2 DEF Bound, Pcs
  <2>4. QED BY <2>1, <2>2, <2>3, GotoKeeps DEF Active, Pcs
<1>7. QED BY <1>3, <1>4, <1>5, <1>6

LEMMA ReworkKeeps ==
    ASSUME IInv, NEW c \in Calls, Rework(c)
    PROVE  IInv'
<1> DEFINE m == [call[c] EXCEPT !.pc = "exec", !.decision = "none", !.appr = 0]
<1>1. m \in CallStates /\ m.pc = "exec" /\ m.decision = "none" /\ m.svc = call[c].svc
  <2>1. call[c] \in CallStates
        BY CallTyped
  <2>2. QED BY <2>1 DEF CallStates, Pcs
<1>2. call' = [call EXCEPT ![c] = m]
      BY DEF Rework, IInv, Typed
<1> HIDE DEF m
<1>3. Bound(m)
      BY <1>1 DEF Bound
<1>4. Rest'
  <2>1. reworks' \in 0..MaxReworks
        BY ApprovalAssumption DEF Rework, IInv, Typed, Rest
  <2>2. QED BY <2>1 DEF Rework, IInv, Typed, Rest
<1>5. Active(c) /\ UNCHANGED <<disk, granted, rev, applied, overlapped>>
      BY DEF Rework, Active
<1>6. QED BY <1>1, <1>2, <1>3, <1>4, <1>5, LocalStepKeeps
\* A patch is applied under an approval that shows it; in turn, on the base the approval
\* names, which no earlier patch under the same approval was applied on.
LEMMA ApplyKeeps ==
    ASSUME IInv, NEW c \in Calls, Apply(c)
    PROVE  IInv'
<1> DEFINE o == call[c]
           entry == [appr |-> o.appr, diff |-> o.diff, rev |-> rev]
<1>1. o.pc = "apply" /\ Bound(o) /\ o \in CallStates /\ Shows(o.svc, disk, granted)
      BY CallTyped DEF Apply, IInv, CallsBound
<1>2. /\ o.appr \in Reqs /\ o.appr \in granted /\ o.diff \in Diffs \cup {{}}
      /\ disk[o.appr].status # "absent" /\ disk[o.appr].diff = o.diff /\ disk[o.appr].base = o.base
      BY <1>1 DEF Bound, Shows, ApprovedIn, Extends, SameRequest, CallStates
<1>3. UNCHANGED <<disk, granted, overlapped, expired, mode, paused, pending, open, reports, reworks,
                  crashes>>
      BY DEF Apply, checkpoint
<1>4. Active(c) /\ (overlapped \/ o.base = rev)
      BY <1>1 DEF Active, IInv, InTurn
<1>5. CASE Goto(c, "review") /\ UNCHANGED <<rev, applied>>
  <2>1. Rest'
        BY <1>3, <1>5 DEF IInv, Typed, Rest
  <2>2. Bound([call[c] EXCEPT !.pc = "review"])
        BY <1>1 DEF Bound, CallStates
  <2>3. QED BY <1>3, <1>4, <1>5, <2>1, <2>2, GotoKeeps DEF Pcs
<1>6. CASE rev' = rev + 1 /\ applied' = Append(applied, entry) /\ Goto(c, "test")
  <2> DEFINE m == [o EXCEPT !.pc = "test"]
  <2>1. rev \in Nat /\ applied \in Seq(Applies)
        BY DEF IInv, Typed, Rest
  <2>2. entry \in Applies /\ entry.appr = o.appr /\ entry.diff = o.diff /\ entry.rev = rev
        BY <1>2, <2>1 DEF Applies
  <2>3. /\ m \in CallStates /\ m.pc = "test" /\ m.appr = o.appr /\ m.svc = o.svc
        /\ m.decision = o.decision
        BY <1>1 DEF CallStates, Pcs
  <2>4. \A d \in Calls : call'[d] = IF d = c THEN m ELSE call[d]
        BY <1>6 DEF Goto, IInv, Typed
  <2> HIDE DEF m, entry, o
  <2>5. Typed'
    <3>1. call' \in [Calls -> CallStates]
          BY <1>6, <2>3 DEF Goto, IInv, Typed, m, o
    <3>2. applied' \in Seq(Applies)
          BY <1>6, <2>1, <2>2
    <3>3. QED BY <1>3, <1>6, <3>1, <3>2 DEF IInv, Typed, Rest
  <2>6. CallsBound'
    <3>1. Bound(m)
          BY <1>2, <2>3 DEF Bound
    <3>2. Shows(m.svc, disk, granted)
          BY <1>1, <2>3
    <3>3. QED BY <1>3, <2>4, <3>1, <3>2 DEF IInv, CallsBound
  <2>7. InTurn'
    <3> SUFFICES ASSUME ~overlapped PROVE InTurn'
        BY <1>3 DEF InTurn
    <3>1. \A d \in Calls : d # c => ~Active(d)
          BY <1>4 DEF IInv, InTurn
    <3>2. QED BY <2>3, <2>4, <3>1 DEF InTurn, Active
  <2>8. /\ DOMAIN applied' = 1..Len(applied) + 1
        /\ \A k \in DOMAIN applied : applied'[k] = applied[k] /\ applied[k] \in Applies
        /\ applied'[Len(applied) + 1] = entry
        /\ DOMAIN applied = 1..Len(applied) /\ Len(applied) \in Nat
        BY <1>6, <2>1, <2>2
  <2>9. Recorded'
    <3>1. \A k \in DOMAIN applied' : k \in DOMAIN applied \/ k = Len(applied) + 1
          BY <2>8
    <3>2. ASSUME NEW k \in DOMAIN applied
          PROVE  /\ applied[k].appr \in granted
                 /\ disk[applied[k].appr].status # "absent"
                 /\ applied[k].diff = disk[applied[k].appr].diff
                 /\ overlapped \/ (applied[k].rev = disk[applied[k].appr].base /\ applied[k].rev < rev)
                 /\ applied[k].rev \in Nat
          BY <2>8 DEF IInv, Recorded, Applies
    <3>3. overlapped \/ \A k \in DOMAIN applied : applied[k].appr # o.appr
          BY <1>2, <1>4, <2>1, <3>2 DEF o
    <3>4. AppliedOnceInTurn'
      <4> SUFFICES ASSUME ~overlapped, NEW j \in DOMAIN applied', NEW k \in DOMAIN applied',
                          applied'[j].appr = applied'[k].appr
                   PROVE  j = k
          BY <1>3 DEF AppliedOnceInTurn
      <4>1. CASE j \in DOMAIN applied /\ k \in DOMAIN applied
            BY <2>8, <4>1 DEF IInv, Recorded, AppliedOnceInTurn
      <4>2. CASE j = Len(applied) + 1 \/ k = Len(applied) + 1
            BY <2>2, <2>8, <3>1, <3>3, <4>2
      <4>3. QED BY <3>1, <4>1, <4>2
    <3>5. ASSUME NEW k \in DOMAIN applied'
          PROVE  /\ applied'[k].appr \in granted
                 /\ disk[applied'[k].appr].status # "absent"
                 /\ applied'[k].diff = disk[applied'[k].appr].diff
                 /\ overlapped \/ (applied'[k].rev = disk[applied'[k].appr].base /\ applied'[k].rev < rev + 1)
      <4>1. CASE k \in DOMAIN applied
            BY <2>1, <2>8, <3>2, <4>1
      <4>2. CASE k = Len(applied) + 1
            BY <1>2, <1>4, <2>1, <2>2, <2>8, <4>2 DEF o
      <4>3. QED BY <3>1, <4>1, <4>2
    <3>6. QED BY <1>3, <1>6, <3>4, <3>5 DEF Recorded
  <2>10. QED BY <1>3, <2>5, <2>6, <2>7, <2>9 DEF IInv
<1>7. QED BY <1>5, <1>6 DEF Apply

LEMMA ExpireKeeps ==
    ASSUME IInv, NEW r \in Reqs, Expire(r)
    PROVE  IInv'
<1>1. /\ expired' = expired \cup {r}
      /\ UNCHANGED <<disk, mode, paused, pending, open, rev, reports, call, granted, applied, reworks,
                     crashes, overlapped>>
      BY DEF Expire, checkpoint, history
<1>2. Typed'
      BY <1>1 DEF IInv, Typed, Rest
<1>3. CallsBound' /\ InTurn' /\ Recorded'
      BY <1>1 DEF IInv, CallsBound, InTurn, Active, Recorded, AppliedOnceInTurn
<1>4. QED BY <1>1, <1>2, <1>3 DEF IInv

LEMMA CrashKeeps ==
    ASSUME IInv, Crash
    PROVE  IInv'
<1>1. /\ crashes' = crashes + 1 /\ crashes < MaxCrashes
      /\ UNCHANGED <<disk, expired, mode, paused, pending, open, rev, reports, granted, applied, reworks,
                     overlapped>>
      BY DEF Crash, checkpoint
<1>2. ASSUME NEW c \in Calls
      PROVE  /\ call'[c] \in CallStates /\ call'[c].svc = call[c].svc /\ call'[c].pc \in {"new", "done"}
             /\ call'[c].pc = "new" => call'[c] = call[c]
      BY CallTyped DEF Crash, CallStates, Pcs
<1>3. Typed'
  <2>1. call' \in [Calls -> CallStates]
        BY <1>2 DEF Crash
  <2>2. crashes' \in 0..MaxCrashes
        BY <1>1, ApprovalAssumption DEF IInv, Typed, Rest
  <2>3. QED BY <1>1, <2>1, <2>2 DEF IInv, Typed, Rest
<1>4. CallsBound'
      BY <1>1, <1>2 DEF IInv, CallsBound, Bound
<1>5. InTurn'
      BY <1>2 DEF InTurn, Active
<1>6. Recorded'
      BY <1>1 DEF IInv, Recorded, AppliedOnceInTurn
<1>7. QED BY <1>1, <1>3, <1>4, <1>5, <1>6 DEF IInv

LEMMA StutterKeeps == IInv /\ UNCHANGED vars => IInv'
<1> SUFFICES ASSUME IInv, UNCHANGED vars PROVE IInv'
    OBVIOUS
<1>1. Typed'
      BY DEF vars, checkpoint, history, IInv, Typed, Rest
<1>2. CallsBound' /\ InTurn' /\ Recorded'
      BY DEF vars, checkpoint, history, IInv, CallsBound, InTurn, Active, Recorded, AppliedOnceInTurn
<1>3. QED BY <1>1, <1>2 DEF vars, history, IInv

LEMMA NextKeeps == IInv /\ [Next]_vars => IInv'
<1> SUFFICES ASSUME IInv, [Next]_vars PROVE IInv'
    OBVIOUS
<1>1. ASSUME NEW c \in Calls, Post(c) PROVE IInv'
      BY <1>1, BeginKeeps, SwitchModeKeeps DEF Post
<1>2. ASSUME NEW c \in Calls, Serve(c) PROVE IInv'
      BY <1>2, ReevaluateKeeps, DecideKeeps, RecordKeeps, BuildKeeps, ProposeKeeps, BindKeeps,
         AutoApproveKeeps, RefuseKeeps, VerifyKeeps, GoesOnKeeps, ReworkKeeps, ApplyKeeps DEF Serve
<1>3. ASSUME NEW r \in Reqs, Expire(r) PROVE IInv'
      BY <1>3, ExpireKeeps
<1>4. CASE Crash
      BY <1>4, CrashKeeps
<1>5. CASE UNCHANGED vars
      BY <1>5, StutterKeeps
<1>6. QED BY <1>1, <1>2, <1>3, <1>4, <1>5 DEF Next

(***************************************************************************)
(* In turn: the copy a call works on is the file, so that refusals are     *)
(* final and a paused run waits for a request that can be decided.         *)
(***************************************************************************)
Decidable == {"pending", "approved"}
Still == {"new", "done", "reevaluate", "decide"}

Local(m) == /\ m.pc \in {"new", "reevaluate"} => m.drop = 0
            /\ m.pc = "ask" => m.svc[m.req].status \in Decidable

\* A call that decides takes the request the run waits for, or drops it for one that is
\* approved already.
Synced(m, file, isPaused, waitsFor) ==
    /\ m.pc \notin {"new", "done", "reevaluate", "build"} => m.svc = file
    /\ m.pc = "record" => ~isPaused
    /\ m.pc = "decide" => /\ isPaused
                          /\ \/ m.appr = waitsFor /\ m.drop = 0
                             \/ /\ m.drop = waitsFor /\ m.appr # waitsFor /\ m.decision = "approved"
                                /\ file[m.appr].status = "approved"

Quiet == crashes = 0 /\ expired = {} /\ paused /\ open

Waiting == (~overlapped /\ Quiet /\ \A c \in Calls : call[c].pc \in Still)
              => disk[pending].status \in Decidable

TurnInv ==
    /\ \A c \in Calls : Local(call[c]) /\ (overlapped \/ Synced(call[c], disk, paused, pending))
    /\ Waiting

LEMMA InitTurnInv == Init => TurnInv
<1> SUFFICES ASSUME Init PROVE TurnInv
    OBVIOUS
<1>1. \A c \in Calls : call[c].pc \in {"new", "exec"} /\ call[c].drop = 0 /\ call[c].svc = disk
      BY DEF Init, NewCall
<1>2. ~paused
      BY DEF Init
<1>3. QED BY <1>1, <1>2 DEF TurnInv, Local, Synced, Waiting, Quiet

\* What a step of call c has to show.
LEMMA TurnKept ==
    ASSUME IInv, TurnInv, NEW c \in Calls, \A o \in Calls : o # c => call'[o] = call[o],
           Start(c) \/ (Active(c) /\ UNCHANGED overlapped),
           Local(call'[c]),
           overlapped' \/ Synced(call'[c], disk', paused', pending'),
           overlapped' \/ ~Quiet' \/ call'[c].pc \notin Still \/ disk'[pending'].status \in Decidable
    PROVE  TurnInv'
<1>1. Waiting'
      BY DEF Waiting
<1>2. overlapped => overlapped'
      BY DEF Start
<1>3. ASSUME NEW o \in Calls, o # c PROVE Local(call'[o])
      BY <1>3 DEF TurnInv
<1>4. ASSUME NEW o \in Calls, o # c, ~overlapped' PROVE Synced(call'[o], disk', paused', pending')
  <2>1. call[o].pc \in {"new", "done"}
        BY <1>2, <1>4 DEF IInv, InTurn, Start, Active
  <2>2. QED BY <1>4, <2>1 DEF Synced
<1>5. QED BY <1>1, <1>3, <1>4 DEF TurnInv

\* In turn, a run that is paused while nothing decides waits for a decidable request.
LEMMA DecidableNow ==
    ASSUME IInv, TurnInv, NEW c \in Calls, ~overlapped', Quiet,
           Start(c) \/ (UNCHANGED overlapped /\ call[c].pc \in {"reevaluate", "decide"})
    PROVE  disk[pending].status \in Decidable
<1>1. ~overlapped
      BY DEF Start
<1>2. \A o \in Calls : o # c => call[o].pc \in {"new", "done"}
      BY <1>1 DEF IInv, InTurn, Start, Active
<1>3. call[c].pc \in Still
      BY DEF Start, Still
<1>4. QED BY <1>1, <1>2, <1>3 DEF TurnInv, Waiting, Still

LEMMA OthersStay ==
    ASSUME IInv, NEW c \in Calls, NEW m, call' = [call EXCEPT ![c] = m]
    PROVE  call'[c] = m /\ \A o \in Calls : o # c => call'[o] = call[o]
BY DEF IInv, Typed

LEMMA BeginTurn ==
    ASSUME IInv, TurnInv, NEW c \in Calls, NEW r \in Reqs, NEW d \in {"approved", "rejected"},
           Begin(c, r, d)
    PROVE  TurnInv'
<1>1. /\ Start(c) /\ UNCHANGED <<disk, expired, paused, pending, open, crashes>>
      /\ \A o \in Calls : o # c => call'[o] = call[o]
      BY DEF Begin, checkpoint, IInv, Typed
<1>2. /\ call'[c].svc = disk /\ call'[c].appr = r /\ call'[c].decision = d
      /\ call'[c].drop = IF paused /\ r # pending THEN pending ELSE 0
      /\ call'[c].pc \in {"record", "decide", "done"}
      /\ call'[c].pc = "record" => ~paused
      /\ call'[c].pc = "decide" => paused /\ Matches(r, d)
  <2>1. call[c] \in CallStates
        BY CallTyped
  <2>2. QED BY <2>1 DEF Begin, CallStates, IInv, Typed
<1>3. Local(call'[c])
      BY <1>2 DEF Local
<1>4. Synced(call'[c], disk', paused', pending')
      BY <1>1, <1>2 DEF Synced, Matches
<1>5. overlapped' \/ ~Quiet' \/ disk'[pending'].status \in Decidable
      BY <1>1, DecidableNow DEF Quiet
<1>6. QED BY <1>1, <1>3, <1>4, <1>5, TurnKept

LEMMA SwitchModeTurn ==
    ASSUME IInv, TurnInv, NEW c \in Calls, SwitchMode(c)
    PROVE  TurnInv'
<1>1. /\ Start(c) /\ UNCHANGED <<disk, expired, paused, pending, open, crashes>>
      /\ \A o \in Calls : o # c => call'[o] = call[o]
      /\ call[c].pc = "new"
      BY DEF SwitchMode, Start, Goto, checkpoint, IInv, Typed
<1>2. call'[c].pc = "reevaluate" /\ call'[c].drop = call[c].drop
  <2>1. call[c] \in CallStates
        BY CallTyped
  <2>2. QED BY <2>1 DEF SwitchMode, Goto, CallStates, IInv, Typed
<1>3. Local(call'[c])
      BY <1>1, <1>2 DEF TurnInv, Local
<1>4. Synced(call'[c], disk', paused', pending')
      BY <1>2 DEF Synced
<1>5. overlapped' \/ ~Quiet' \/ disk'[pending'].status \in Decidable
      BY <1>1, DecidableNow DEF Quiet
<1>6. QED BY <1>1, <1>3, <1>4, <1>5, TurnKept

LEMMA ReevaluateTurn ==
    ASSUME IInv, TurnInv, NEW c \in Calls, Reevaluate(c)
    PROVE  TurnInv'
<1>1. /\ call[c].pc = "reevaluate" /\ Active(c)
      /\ UNCHANGED <<disk, expired, paused, pending, open, crashes, overlapped>>
      /\ \A o \in Calls : o # c => call'[o] = call[o]
      BY DEF Reevaluate, Active, checkpoint, history, IInv, Typed
<1>2. /\ call'[c].svc = disk /\ call'[c].appr = pending /\ call'[c].drop = call[c].drop
      /\ call'[c].pc \in {"decide", "done"}
      /\ call'[c].pc = "decide" => paused
  <2>1. call[c] \in CallStates
        BY CallTyped
  <2>2. QED BY <2>1 DEF Reevaluate, CallStates, IInv, Typed
<1>3. call[c].drop = 0
      BY <1>1 DEF TurnInv, Local
<1>4. Local(call'[c])
      BY <1>2 DEF Local
<1>5. Synced(call'[c], disk', paused', pending')
      BY <1>1, <1>2, <1>3 DEF Synced
<1>6. overlapped' \/ ~Quiet' \/ disk'[pending'].status \in Decidable
      BY <1>1, DecidableNow DEF Quiet
<1>7. QED BY <1>1, <1>4, <1>5, <1>6, TurnKept
\* What a call waits for can be decided in turn, so its decision is accepted.
LEMMA DecideTurn ==
    ASSUME IInv, TurnInv, NEW c \in Calls, Decide(c)
    PROVE  TurnInv'
<1> DEFINE o == call[c]
           free == o.drop = 0 \/ Accepted(o.svc, o.drop, "cancelled")
           accepted == Accepted(o.svc, o.appr, o.decision)
<1>1. /\ o.pc = "decide" /\ Active(c)
      /\ UNCHANGED <<expired, paused, pending, open, crashes, overlapped>>
      /\ \A d \in Calls : d # c => call'[d] = call[d]
      BY DEF Decide, Goto, Active, checkpoint, IInv, Typed
<1>2. call'[c].pc = IF free /\ accepted THEN "build" ELSE "done"
  <2>1. call[c] \in CallStates
        BY CallTyped
  <2>2. QED BY <2>1 DEF Decide, Goto, CallStates, IInv, Typed
<1> HIDE DEF free, accepted
<1>3. call'[c].pc \in {"build", "done"}
      BY <1>2
<1>4. Local(call'[c]) /\ Synced(call'[c], disk', paused', pending')
      BY <1>3 DEF Local, Synced
<1>5. ASSUME ~overlapped', Quiet PROVE free /\ accepted
  <2>1. disk[pending].status \in Decidable
        BY <1>1, <1>5, DecidableNow
  <2>2. Synced(o, disk, paused, pending)
        BY <1>1, <1>5 DEF TurnInv
  <2>3. o.svc = disk
        BY <1>1, <2>2 DEF Synced
  <2>4. CASE o.appr = pending /\ o.drop = 0
        BY <1>5, <2>1, <2>3, <2>4 DEF free, accepted, Accepted, Verdict, Quiet, Decidable
  <2>5. CASE o.drop = pending /\ o.decision = "approved" /\ disk[o.appr].status = "approved"
        BY <1>5, <2>1, <2>3, <2>5 DEF free, accepted, Accepted, Verdict, Quiet, Decidable
  <2>6. QED BY <1>1, <2>2, <2>4, <2>5 DEF Synced
<1>6. overlapped' \/ ~Quiet' \/ call'[c].pc \notin Still
      BY <1>1, <1>2, <1>5 DEF Quiet, Still
<1>7. QED BY <1>1, <1>4, <1>6, TurnKept

LEMMA RecordTurn ==
    ASSUME IInv, TurnInv, NEW c \in Calls, Record(c)
    PROVE  TurnInv'
<1>1. /\ call[c].pc = "record" /\ Active(c) /\ UNCHANGED <<paused, overlapped>>
      /\ \A o \in Calls : o # c => call'[o] = call[o]
      BY DEF Record, Goto, Active, checkpoint, IInv, Typed
<1>2. call'[c].pc = "done"
  <2>1. call[c] \in CallStates
        BY CallTyped
  <2>2. QED BY <2>1 DEF Record, Goto, CallStates, IInv, Typed
<1>3. Local(call'[c]) /\ Synced(call'[c], disk', paused', pending')
      BY <1>2 DEF Local, Synced
<1>4. overlapped' \/ ~Quiet'
      BY <1>1 DEF TurnInv, Synced, Quiet
<1>5. QED BY <1>1, <1>3, <1>4, TurnKept

LEMMA BuildTurn ==
    ASSUME IInv, TurnInv, NEW c \in Calls, Build(c)
    PROVE  TurnInv'
<1>1. /\ Active(c) /\ UNCHANGED <<disk, open, overlapped>>
      /\ \A o \in Calls : o # c => call'[o] = call[o]
      BY DEF Build, Active, checkpoint, history, IInv, Typed
<1>2. call'[c].svc = disk /\ call'[c].pc \in {"exec", "done"} /\ (open => call'[c].pc = "exec")
  <2>1. call[c] \in CallStates
        BY CallTyped
  <2>2. QED BY <2>1 DEF Build, CallStates, IInv, Typed
<1>3. Local(call'[c]) /\ Synced(call'[c], disk', paused', pending')
      BY <1>1, <1>2 DEF Local, Synced
<1>4. ~Quiet' \/ call'[c].pc \notin Still
      BY <1>1, <1>2 DEF Quiet, Still
<1>5. QED BY <1>1, <1>3, <1>4, TurnKept

\* Steps inside the executor that leave the requests alone.
LEMMA ExecTurn ==
    ASSUME IInv, TurnInv, NEW c \in Calls,
           Propose(c) \/ Resume(c) \/ Apply(c) \/ Test(c) \/ Rework(c)
    PROVE  TurnInv'
<1>1. /\ call[c].pc \in {"exec", "ask", "apply", "test", "review"} /\ Active(c)
      /\ UNCHANGED <<disk, overlapped>>
      BY DEF Propose, Resume, Apply, Test, Rework, Active, history
<1>2. \A o \in Calls : o # c => call'[o] = call[o]
      BY DEF Propose, Resume, Apply, Test, Rework, Goto, IInv, Typed
<1>3. /\ call'[c].svc = call[c].svc
      /\ call'[c].pc \in {"bind", "verify", "review", "test", "exec"}
  <2>1. call[c] \in CallStates /\ call \in [Calls -> CallStates]
        BY CallTyped DEF IInv, Typed
  <2>2. CASE Propose(c)
        BY <2>1, <2>2 DEF Propose, Goto, CallStates
  <2>3. CASE Resume(c) \/ Apply(c) \/ Test(c)
        BY <2>1, <2>3 DEF Resume, Apply, Test, Goto, CallStates
  <2>4. CASE Rework(c)
        BY <2>1, <2>4 DEF Rework, CallStates
  <2>5. QED BY <2>2, <2>3, <2>4
<1>4. Local(call'[c])
      BY <1>3 DEF Local
<1>5. overlapped' \/ Synced(call'[c], disk', paused', pending')
      BY <1>1, <1>3 DEF TurnInv, Synced
<1>6. call'[c].pc \notin Still
      BY <1>3 DEF Still
<1>7. QED BY <1>1, <1>2, <1>4, <1>5, <1>6, TurnKept

LEMMA BindTurn ==
    ASSUME IInv, TurnInv, NEW c \in Calls, Bind(c)
    PROVE  TurnInv'
<1> DEFINE o == call[c]
           Ask(r) == [o EXCEPT !.pc = "ask", !.req = r, !.base = rev, !.allow = mode = "allow"]
           new == [status |-> "pending", diff |-> o.diff, base |-> rev]
<1>1. o.pc = "bind" /\ Active(c) /\ UNCHANGED overlapped /\ o \in CallStates /\ o.svc \in Requests
      /\ disk \in Requests
      BY CallTyped DEF Bind, Active, history, CallStates, IInv, Typed
<1>2. overlapped \/ o.svc = disk
      BY <1>1 DEF TurnInv, Synced
<1>3. ASSUME NEW r \in Newest(Reusable(c)), call' = [call EXCEPT ![c] = Ask(r)], UNCHANGED disk
      PROVE  TurnInv'
  <2>1. call'[c] = Ask(r) /\ \A d \in Calls : d # c => call'[d] = call[d]
        BY <1>3, OthersStay
  <2>2. call'[c].pc = "ask" /\ call'[c].req = r /\ call'[c].svc = o.svc
        BY <1>1, <2>1 DEF CallStates
  <2>3. o.svc[r].status \in Decidable
        BY DEF Newest, Reusable, Decidable
  <2>4. Local(call'[c]) /\ (overlapped' \/ Synced(call'[c], disk', paused', pending'))
        BY <1>1, <1>2, <1>3, <2>2, <2>3 DEF Local, Synced
  <2>5. QED BY <1>1, <2>1, <2>2, <2>4, TurnKept DEF Still
<1>4. ASSUME NEW r \in Fresh, disk' = [disk EXCEPT ![r] = new],
             call' = [call EXCEPT ![c] = [Ask(r) EXCEPT !.svc[r] = new]]
      PROVE  TurnInv'
  <2> DEFINE m == [Ask(r) EXCEPT !.svc[r] = new]
  <2>1. r \in Reqs
        BY DEF Fresh
  <2>2. m.pc = "ask" /\ m.req = r /\ m.svc = [o.svc EXCEPT ![r] = new]
        BY <1>1 DEF CallStates
  <2>3. m.svc[r].status \in Decidable
        BY <1>1, <2>1, <2>2 DEF Decidable, Requests
  <2> HIDE DEF m
  <2>4. call'[c] = m /\ \A d \in Calls : d # c => call'[d] = call[d]
        BY <1>4, OthersStay DEF m
  <2>5. Local(call'[c]) /\ (overlapped' \/ Synced(call'[c], disk', paused', pending'))
        BY <1>1, <1>2, <1>4, <2>2, <2>3, <2>4 DEF Local, Synced
  <2>6. QED BY <1>1, <2>2, <2>4, <2>5, TurnKept DEF Still
<1>5. QED BY <1>3, <1>4 DEF Bind

LEMMA AutoApproveTurn ==
    ASSUME IInv, TurnInv, NEW c \in Calls, AutoApprove(c)
    PROVE  TurnInv'
<1> DEFINE o == call[c]
           accepted == Accepted(o.svc, o.req, "approved")
<1>1. /\ o.pc = "ask" /\ Active(c) /\ UNCHANGED <<expired, overlapped>>
      /\ disk' = Decided(disk, o.svc, o.req, "approved")
      /\ \A d \in Calls : d # c => call'[d] = call[d]
      BY DEF AutoApprove, Active, IInv, Typed
<1>2. call'[c].svc = Decided(o.svc, o.svc, o.req, "approved")
      /\ call'[c].pc = IF accepted THEN "verify" ELSE "done"
  <2>1. call[c] \in CallStates
        BY CallTyped
  <2>2. QED BY <2>1 DEF AutoApprove, CallStates, IInv, Typed
<1> HIDE DEF accepted
<1>3. overlapped \/ o.svc = disk
      BY <1>1 DEF TurnInv, Synced
<1>4. Local(call'[c])
      BY <1>2 DEF Local
<1>5. overlapped' \/ Synced(call'[c], disk', paused', pending')
      BY <1>1, <1>2, <1>3 DEF Synced
<1>6. expired = {} => accepted
      BY <1>1 DEF TurnInv, Local, accepted, Accepted, Verdict, Decidable
<1>7. ~Quiet' \/ call'[c].pc \notin Still
      BY <1>1, <1>2, <1>6 DEF Quiet, Still
<1>8. QED BY <1>1, <1>4, <1>5, <1>7, TurnKept

LEMMA InterruptTurn ==
    ASSUME IInv, TurnInv, NEW c \in Calls, Interrupt(c)
    PROVE  TurnInv'
<1>1. /\ call[c].pc = "ask" /\ Active(c) /\ UNCHANGED <<disk, overlapped>>
      /\ pending' = call[c].req
      /\ \A o \in Calls : o # c => call'[o] = call[o]
      BY DEF Interrupt, Goto, Active, history, IInv, Typed
<1>2. call'[c].pc = "done"
  <2>1. call[c] \in CallStates
        BY CallTyped
  <2>2. QED BY <2>1 DEF Interrupt, Goto, CallStates, IInv, Typed
<1>3. Local(call'[c]) /\ Synced(call'[c], disk', paused', pending')
      BY <1>2 DEF Local, Synced
<1>4. overlapped' \/ disk'[pending'].status \in Decidable
      BY <1>1 DEF TurnInv, Local, Synced
<1>5. QED BY <1>1, <1>3, <1>4, TurnKept

LEMMA RefuseTurn ==
    ASSUME IInv, TurnInv, NEW c \in Calls, Refuse(c)
    PROVE  TurnInv'
<1> DEFINE o == call[c]
<1>1. /\ o.pc = "ask" /\ Active(c) /\ UNCHANGED overlapped
      /\ disk' = IF o.req = o.appr THEN disk ELSE Decided(disk, o.svc, o.req, "cancelled")
      /\ \A d \in Calls : d # c => call'[d] = call[d]
      BY DEF Refuse, Active, history, IInv, Typed
<1>2. /\ call'[c].pc = "review"
      /\ call'[c].svc = IF o.req = o.appr THEN o.svc ELSE Decided(o.svc, o.svc, o.req, "cancelled")
  <2>1. call[c] \in CallStates
        BY CallTyped
  <2>2. QED BY <2>1 DEF Refuse, CallStates, IInv, Typed
<1>3. overlapped \/ o.svc = disk
      BY <1>1 DEF TurnInv, Synced
<1>4. Local(call'[c]) /\ (overlapped' \/ Synced(call'[c], disk', paused', pending'))
      BY <1>1, <1>2, <1>3 DEF Local, Synced
<1>5. QED BY <1>1, <1>2, <1>4, TurnKept DEF Still

LEMMA VerifyTurn ==
    ASSUME IInv, TurnInv, NEW c \in Calls, Verify(c)
    PROVE  TurnInv'
<1> DEFINE o == call[c]
           late == o.svc[o.appr].status = "approved" /\ o.appr \in expired
<1>1. /\ o.pc = "verify" /\ Active(c) /\ UNCHANGED overlapped
      /\ disk' = IF late THEN [disk EXCEPT ![o.appr].status = "expired"] ELSE disk
      /\ \A d \in Calls : d # c => call'[d] = call[d]
      BY DEF Verify, Active, history, IInv, Typed
<1>2. /\ call'[c].pc \in {"apply", "review"}
      /\ call'[c].svc = IF late THEN [o.svc EXCEPT ![o.appr].status = "expired"] ELSE o.svc
  <2>1. call[c] \in CallStates
        BY CallTyped
  <2>2. QED BY <2>1 DEF Verify, CallStates, IInv, Typed
<1>3. overlapped \/ o.svc = disk
      BY <1>1 DEF TurnInv, Synced
<1>4. Local(call'[c]) /\ (overlapped' \/ Synced(call'[c], disk', paused', pending'))
      BY <1>1, <1>2, <1>3 DEF Local, Synced
<1>5. QED BY <1>1, <1>2, <1>4, TurnKept DEF Still

LEMMA EndTurn ==
    ASSUME IInv, TurnInv, NEW c \in Calls, End(c)
    PROVE  TurnInv'
<1>1. /\ Active(c) /\ paused' = FALSE /\ UNCHANGED overlapped
      /\ \A o \in Calls : o # c => call'[o] = call[o]
      BY DEF End, Goto, Active, history, IInv, Typed
<1>2. call'[c].pc = "done"
  <2>1. call[c] \in CallStates
        BY CallTyped
  <2>2. QED BY <2>1 DEF End, Goto, CallStates, IInv, Typed
<1>3. Local(call'[c]) /\ Synced(call'[c], disk', paused', pending')
      BY <1>2 DEF Local, Synced
<1>4. QED BY <1>1, <1>3, TurnKept DEF Quiet

LEMMA ExpireTurn ==
    ASSUME IInv, TurnInv, NEW r \in Reqs, Expire(r)
    PROVE  TurnInv'
<1>1. expired' # {} /\ UNCHANGED <<disk, paused, pending, call, overlapped>>
      BY DEF Expire, checkpoint, history
<1>2. QED BY <1>1 DEF TurnInv, Waiting, Quiet

LEMMA CrashTurn ==
    ASSUME IInv, TurnInv, Crash
    PROVE  TurnInv'
<1>1. crashes' # 0 /\ UNCHANGED overlapped
      BY DEF Crash, IInv, Typed, Rest
<1>2. \A c \in Calls : call'[c].pc \in {"new", "done"} /\ (call'[c].pc = "new" => call'[c] = call[c])
      BY CallTyped DEF Crash, CallStates
<1>3. QED BY <1>1, <1>2 DEF TurnInv, Local, Synced, Waiting, Quiet

LEMMA NextTurn == IInv /\ TurnInv /\ [Next]_vars => TurnInv'
<1> SUFFICES ASSUME IInv, TurnInv, [Next]_vars PROVE TurnInv'
    OBVIOUS
<1>1. ASSUME NEW c \in Calls, Post(c) PROVE TurnInv'
      BY <1>1, BeginTurn, SwitchModeTurn DEF Post
<1>2. ASSUME NEW c \in Calls, Serve(c) PROVE TurnInv'
      BY <1>2, ReevaluateTurn, DecideTurn, RecordTurn, BuildTurn, ExecTurn, BindTurn,
         AutoApproveTurn, InterruptTurn, RefuseTurn, VerifyTurn, EndTurn DEF Serve
<1>3. ASSUME NEW r \in Reqs, Expire(r) PROVE TurnInv'
      BY <1>3, ExpireTurn
<1>4. CASE Crash
      BY <1>4, CrashTurn
<1>5. CASE UNCHANGED vars
      BY <1>5 DEF vars, checkpoint, history, TurnInv, Waiting, Quiet
<1>6. QED BY <1>1, <1>2, <1>3, <1>4, <1>5 DEF Next
(***************************************************************************)
(* Refusals                                                                *)
(***************************************************************************)
Against == {"rejected", "cancelled", "expired"}
Final(old, new) == \A r \in Reqs : old[r].status \in Against => new[r].status \in Against

\* Who decides on the requests as they are cannot take a refusal back.
LEMMA DecidedFinal ==
    ASSUME NEW file \in Requests, NEW svc \in Requests, NEW r \in Reqs, svc[r].status = file[r].status,
           NEW d
    PROVE  Final(file, Decided(file, svc, r, d))
<1>1. CASE Verdict(svc, r, d) = "expired"
      BY <1>1 DEF Decided, Final, Against, Requests
<1>2. CASE Verdict(svc, r, d) = "set"
  <2>1. file[r].status \notin Against
        BY <1>2 DEF Verdict, Against
  <2>2. QED BY <1>2, <2>1 DEF Decided, Final, Requests
<1>3. CASE Verdict(svc, r, d) \notin {"expired", "set"}
      BY <1>3 DEF Decided, Final
<1>4. QED BY <1>1, <1>2, <1>3

LEMMA NextFinal == IInv /\ TurnInv /\ [Next]_vars /\ ~overlapped' => Final(disk, disk')
<1> SUFFICES ASSUME IInv, TurnInv, [Next]_vars, ~overlapped' PROVE Final(disk, disk')
    OBVIOUS
<1>1. Final(disk, disk) /\ disk \in Requests
      BY DEF Final, IInv, Typed
<1>2. ASSUME NEW c \in Calls, UNCHANGED overlapped, call[c].pc \in {"decide", "record", "ask", "verify"}
      PROVE  call[c].svc = disk
      BY <1>2 DEF TurnInv, Synced
<1>3. ASSUME NEW c \in Calls PROVE call[c] \in CallStates /\ Bound(call[c])
      BY CallTyped DEF IInv, CallsBound
<1>4. ASSUME NEW c \in Calls, Decide(c) PROVE Final(disk, disk')
  <2> DEFINE o == call[c]
             free == o.drop = 0 \/ Accepted(o.svc, o.drop, "cancelled")
             dropped == IF o.drop = 0 THEN disk ELSE Decided(disk, o.svc, o.drop, "cancelled")
  <2>1. /\ o.pc = "decide" /\ UNCHANGED overlapped
        /\ disk' = IF free THEN Decided(dropped, o.svc, o.appr, o.decision) ELSE dropped
        BY <1>4 DEF Decide
  <2>2. o.svc = disk /\ o.appr \in Reqs /\ o.drop \in Reqs \cup {0} /\ Synced(o, disk, paused, pending)
        BY <1>2, <1>3, <2>1 DEF Bound, CallStates, TurnInv
  <2>3. o.drop = 0 \/ (o.drop \in Reqs /\ o.drop # o.appr)
        BY <2>1, <2>2 DEF Synced
  <2>4. dropped \in Requests /\ Final(disk, dropped) /\ dropped[o.appr].status = disk[o.appr].status
    <3>1. CASE o.drop = 0
          BY <1>1, <3>1
    <3>2. CASE o.drop \in Reqs /\ o.drop # o.appr
      <4>1. DecidedFacts(disk, o.svc, o.drop, "cancelled")
            BY <1>1, <2>2, <3>2, DecidedShape DEF Outcomes
      <4>2. Final(disk, Decided(disk, o.svc, o.drop, "cancelled"))
            BY <1>1, <2>2, <3>2, DecidedFinal
      <4>3. Decided(disk, o.svc, o.drop, "cancelled")[o.appr].status = disk[o.appr].status
            BY <1>1, <2>2, <3>2 DEF Decided, Requests
      <4>4. QED BY <3>2, <4>1, <4>2, <4>3, ReqPositive DEF DecidedFacts
    <3>3. QED BY <2>3, <3>1, <3>2
  <2> HIDE DEF dropped, free, o
  <2>5. Final(dropped, Decided(dropped, o.svc, o.appr, o.decision))
        BY <1>1, <2>2, <2>4, DecidedFinal
  <2>6. QED BY <2>1, <2>4, <2>5 DEF Final
<1>5. ASSUME NEW c \in Calls, Record(c) PROVE Final(disk, disk')
  <2>1. /\ call[c].pc = "record" /\ UNCHANGED overlapped
        /\ disk' = Decided(disk, call[c].svc, call[c].appr, call[c].decision)
        BY <1>5 DEF Record
  <2>2. QED BY <1>1, <1>2, <1>3, <2>1, DecidedFinal DEF Bound
<1>6. ASSUME NEW c \in Calls, AutoApprove(c) PROVE Final(disk, disk')
  <2>1. /\ call[c].pc = "ask" /\ UNCHANGED overlapped
        /\ disk' = Decided(disk, call[c].svc, call[c].req, "approved")
        BY <1>6 DEF AutoApprove
  <2>2. QED BY <1>1, <1>2, <1>3, <2>1, DecidedFinal DEF Bound
<1>7. ASSUME NEW c \in Calls, Refuse(c) PROVE Final(disk, disk')
  <2>1. /\ call[c].pc = "ask" /\ UNCHANGED overlapped
        /\ disk' = disk \/ disk' = Decided(disk, call[c].svc, call[c].req, "cancelled")
        BY <1>7 DEF Refuse, history
  <2>2. QED BY <1>1, <1>2, <1>3, <2>1, DecidedFinal DEF Bound
<1>8. ASSUME NEW c \in Calls, Verify(c) PROVE Final(disk, disk')
  <2>1. disk' = disk \/ disk' = [disk EXCEPT ![call[c].appr].status = "expired"]
        BY <1>8 DEF Verify
  <2>2. QED BY <1>1, <2>1 DEF Final, Against, Requests
<1>9. ASSUME NEW c \in Calls, Bind(c) PROVE Final(disk, disk')
  <2>1. \/ UNCHANGED disk
        \/ \E r \in Fresh : \E new : disk' = [disk EXCEPT ![r] = new]
        BY <1>9 DEF Bind
  <2>2. \A r \in Fresh : disk[r].status \notin Against
        BY DEF Fresh, Exists, Against
  <2>3. QED BY <1>1, <2>1, <2>2 DEF Final, Requests
<1>10. ASSUME NEW c \in Calls, Post(c) PROVE UNCHANGED disk
       BY <1>10 DEF Post, Begin, SwitchMode
<1>11. ASSUME NEW c \in Calls,
              \/ Reevaluate(c) \/ Build(c) \/ Propose(c) \/ Interrupt(c) \/ Resume(c)
              \/ Apply(c) \/ Test(c) \/ Rework(c) \/ End(c)
       PROVE  UNCHANGED disk
       BY <1>11 DEF Reevaluate, Build, Propose, Interrupt, Resume, Apply, Test, Rework, End
<1>12. ASSUME NEW c \in Calls, Serve(c) PROVE Final(disk, disk')
       BY <1>1, <1>4, <1>5, <1>6, <1>7, <1>8, <1>9, <1>11, <1>12 DEF Serve
<1>13. (\E r \in Reqs : Expire(r)) \/ Crash \/ UNCHANGED vars => UNCHANGED disk
       BY DEF Expire, Crash, vars
<1>14. QED BY <1>1, <1>10, <1>12, <1>13 DEF Next

\* The file of approvals, the checkpoint and the calls keep their shape, and a run is
\* paused exactly while its checkpoint names a request.
THEOREM TypeCorrect == Spec => []TypeOK
<1>1. IInv => TypeOK
      BY DEF IInv, Typed, Rest, CallStates, Pcs, TypeOK
<1>2. QED BY <1>1, InitIInv, NextKeeps, PTL DEF Spec

\* What a person or the policy approved is what reaches the file, and nothing else, for
\* any number of overlapping calls and server deaths; and as long as calls do not overlap
\* a patch meets the content it was approved for, and no approval is used twice
\* (app/core/approval.py 185-243, app/agents/executor.py 277-456).
THEOREM OnlyApprovedApplied == Spec => []AppliedAsApproved
<1>1. IInv => AppliedAsApproved
      BY DEF IInv, Recorded, AppliedAsApproved, AppliedAsShown
<1>2. QED BY <1>1, InitIInv, NextKeeps, PTL DEF Spec

LEMMA Invariance == Spec => [](IInv /\ TurnInv)
BY InitIInv, InitTurnInv, NextKeeps, NextTurn, PTL DEF Spec

\* As long as calls are served one after another, no step of any of them makes a request
\* that was rejected, cancelled or has expired decidable again
\* (app/core/approval.py 193-218).
THEOREM RefusalsStand == Spec => RefusalIsFinal
<1>1. IInv /\ TurnInv /\ [Next]_vars =>
         [~overlapped' => \A r \in Reqs : disk[r].status \in {"rejected", "cancelled", "expired"}
                               => disk'[r].status \in {"rejected", "cancelled", "expired"}]_vars
      BY NextFinal DEF Final, Against
<1>2. QED BY <1>1, Invariance, PTL DEF Spec, RefusalIsFinal

\* A run that is paused while no call is in progress waits for a request that can be
\* decided, unless calls have overlapped, a request has expired or the server has died
\* (app/runner.py 927-964, app/agents/executor.py 289-379).
THEOREM PausedCanBeDecided == Spec => []PendingDecidable
<1>1. TurnInv => PendingDecidable
      BY DEF TurnInv, Waiting, Quiet, Still, Decidable, PendingDecidable
<1>2. QED BY <1>1, Invariance, PTL
-----------------------------------------------------------------------------
(***************************************************************************)
(* The patch engine.  PInv is inductive for any number of threads on one   *)
(* worktree.  Its statements about a path are made while no other thread   *)
(* has written to it (hit, late), and every write of a thread adds its     *)
(* path to the others' hit and late (Changes): that is all a proof about   *)
(* one thread has to know of the others (OthersKept).  What is claimed of  *)
(* a patch is claimed if it lists its targets once (EachOnce); other       *)
(* patches may be applied between.                                         *)
(***************************************************************************)
Proposed(a) == patch[a] \in Patches /\ a \in DOMAIN bound

\* A sequence of anything.
IsSeq(s) == Len(s) \in Nat /\ s = [k \in 1..Len(s) |-> s[k]]

Deciding == {"idle", "hash"}
Trying == {"read", "save", "note", "write", "replace"}
Recovering == {"restore", "refill"}
RollsBack == {"rollback", "rewrite"}

IsOp(o) ==
    /\ o = [pc |-> o.pc, appr |-> o.appr, i |-> o.i, new |-> o.new, backup |-> o.backup,
            kept |-> o.kept, todo |-> o.todo, restored |-> o.restored, missing |-> o.missing,
            passed |-> o.passed, hit |-> o.hit, late |-> o.late]
    /\ o.pc \in Deciding \cup Trying \cup Recovering \cup RollsBack
    /\ o.pc # "idle" => o.appr \in Approvals
    /\ o.pc = "hash" => patch[o.appr] \in Patches /\ o.kept = <<>>

IsEntry(e) ==
    /\ e.appr \in Approvals /\ Proposed(e.appr)
    /\ e.target \in Paths
    /\ e.backup = 0 \/ (e.backup \in DOMAIN backups /\ backups[e.backup].of = e.target)

\* The shape of the state.
Shape ==
    /\ tree = [f \in Paths |-> tree[f]]
    /\ tmp = [f \in Paths |-> tmp[f]]
    /\ IsSeq(backups)
    /\ \A k \in DOMAIN backups : /\ backups[k] = [of |-> backups[k].of, text |-> backups[k].text]
                                 /\ backups[k].of \in Paths
    /\ IsSeq(manifest)
    /\ \A k \in DOMAIN manifest : IsEntry(manifest[k])
    /\ IsSeq(clean) /\ Len(clean) = Len(manifest)
    /\ patch = [a \in Approvals |-> patch[a]]
    /\ \A a \in Approvals : patch[a] \in Patches \cup {None}
    /\ op = [p \in Procs |-> op[p]]
    /\ \A p \in Procs : IsOp(op[p])
    /\ written = [f \in Paths |-> written[f]]
    /\ last = None \/ last = [outcome |-> last.outcome, appr |-> last.appr, whole |-> last.whole,
                              passed |-> last.passed, hit |-> last.hit]

\* Backup b (0: there was no file) holds the content c, unless it is gone.
Holds(files, b, c) == IF b = 0 THEN c = Absent
                      ELSE b \in DOMAIN files /\ files[b].text \in {c, Absent} /\ c # Absent

\* A backup taken before anybody else changed the target holds the approved content.
Faithful ==
    \A k \in DOMAIN manifest :
        LET e == manifest[k]
        IN EachOnce(patch[e.appr]) /\ clean[k] => Holds(backups, e.backup, bound[e.appr][e.target])

InHand(files, kept, f) == \E k \in DOMAIN kept : files[kept[k]].of = f

\* The files an apply has backups of, and those it would have to put back.
Backed(o) ==
    /\ IsSeq(o.kept)
    /\ \A k \in DOMAIN o.kept : o.kept[k] \in DOMAIN backups
    /\ EachOnce(patch[o.appr]) =>
         /\ \A k \in DOMAIN o.kept :
              LET f == backups[o.kept[k]].of
              IN f \notin o.hit => backups[o.kept[k]].text \in {bound[o.appr][f], Absent}
         /\ \A f \in Targets(patch[o.appr]) :
              \/ f \in o.hit \/ bound[o.appr][f] = Absent \/ tree[f] = bound[o.appr][f]
              \/ InHand(backups, o.kept, f)

\* The targets from the current one on are as approved.
Ahead(o) ==
    LET targets == patch[o.appr].targets
    IN /\ o.i \in DOMAIN targets
       /\ EachOnce(patch[o.appr]) =>
            \A j \in DOMAIN targets : j >= o.i /\ targets[j] \notin o.hit
                                         => tree[targets[j]] = bound[o.appr][targets[j]]

\* The backup of the current target f.
Saved(o, f) ==
    /\ o.backup = 0 \/ (o.backup \in DOMAIN backups /\ backups[o.backup].of = f)
    /\ f \notin o.late => Holds(backups, o.backup, tree[f])
    /\ EachOnce(patch[o.appr]) /\ f \notin o.hit =>
         /\ Holds(backups, o.backup, bound[o.appr][f])
         /\ bound[o.appr][f] = Absent \/ InHand(backups, o.kept, f)

Noted(entries, a, f, b) ==
    \E k \in DOMAIN entries : entries[k].appr = a /\ entries[k].target = f /\ entries[k].backup = b

\* An apply before its recovery.
OnTarget(o) ==
    LET f == patch[o.appr].targets[o.i]
    IN /\ Ahead(o)
       /\ o.pc \in {"save", "note", "write"} /\ f \notin o.late
            => o.new = ApplyDiff(patch[o.appr], tree[f])
       /\ o.pc = "replace" /\ f \notin o.late => tmp[f] = ApplyDiff(patch[o.appr], tree[f])
       /\ o.pc \in {"note", "write", "replace"} => Saved(o, f)
       /\ o.pc \in {"write", "replace"} => Noted(manifest, o.appr, f, o.backup)

Refilling(o) ==
    /\ o.kept # <<>>
    /\ LET f == backups[o.kept[1]].of
       IN EachOnce(patch[o.appr]) /\ f \notin o.hit => o.new = bound[o.appr][f]

\* Of the entries passed, those that others have not hit are back at the base.
PutBack(files, entries, pure, base, passed, hit) ==
    \A k \in passed :
        LET f == entries[k].target
        IN f \notin hit /\ (\A j \in passed : entries[j].target = f => pure[j])
             => files[f] = base[f]

Done(a, passed, hit) ==
    /\ passed \subseteq EntriesOf(a)
    /\ EachOnce(patch[a]) => PutBack(tree, manifest, clean, bound[a], passed, hit)

\* A rollback: entries it has passed are restored and those of what is still in the
\* worktree lie ahead, unless a backup is missing.
RollingBack(o) ==
    /\ o.todo \subseteq EntriesOf(o.appr)
    /\ ~o.missing =>
         /\ \A f \in Paths : written[f] # None /\ written[f].appr = o.appr /\ f \notin o.hit
                                => \E k \in o.todo : manifest[k].target = f
         /\ Done(o.appr, o.passed, o.hit)

Rewriting(o) ==
    \A k \in First(o.todo) :
        /\ manifest[k].backup # 0 /\ manifest[k].target \in o.hit
        /\ EachOnce(patch[o.appr]) /\ clean[k] => o.new = bound[o.appr][manifest[k].target]

WorkingOn(o) ==
    /\ o.pc \in Trying \cup Recovering => Proposed(o.appr) /\ Backed(o)
    /\ o.pc \in Trying => OnTarget(o)
    /\ o.pc = "refill" => Refilling(o)
    /\ o.pc \in RollsBack => RollingBack(o)
    /\ o.pc = "rewrite" => Rewriting(o)

Working == \A p \in Procs : WorkingOn(op[p])

Reported ==
    last # None =>
        /\ last.appr \in Approvals
        /\ last.outcome = "failed" /\ last.whole => Proposed(last.appr)
        /\ last.outcome = "ok" => Done(last.appr, last.passed, last.hit)
        /\ FailedRestoresExisting
        /\ RollbackRestores

PInv == Shape /\ Faithful /\ WritesRecoverable /\ Working /\ Reported
-----------------------------------------------------------------------------
LEMMA SeqShape ==
    ASSUME NEW S, NEW s \in Seq(S)
    PROVE  IsSeq(s) /\ DOMAIN s = 1..Len(s)
<1>1. s \in [1..Len(s) -> S] /\ Len(s) \in Nat
      BY LenProperties
<1>2. QED BY <1>1 DEF IsSeq

LEMMA AppendShape ==
    ASSUME NEW s, IsSeq(s), NEW e
    PROVE  /\ IsSeq(Append(s, e)) /\ Len(Append(s, e)) = Len(s) + 1
           /\ DOMAIN s = 1..Len(s) /\ DOMAIN Append(s, e) = 1..(Len(s) + 1)
           /\ \A k \in DOMAIN s : Append(s, e)[k] = s[k]
           /\ Append(s, e)[Len(s) + 1] = e
<1> DEFINE S == {s[k] : k \in 1..Len(s)} \cup {e}
<1>1. s \in [1..Len(s) -> S] /\ Len(s) \in Nat /\ e \in S
      BY DEF IsSeq
<1>1a. s \in Seq(S)
      BY <1>1, SeqDef
<1>2. Append(s, e) \in Seq(S)
      BY <1>1, <1>1a
<1> HIDE DEF S
<1>3. IsSeq(Append(s, e)) /\ DOMAIN s = 1..Len(s) /\ DOMAIN Append(s, e) = 1..Len(Append(s, e))
      BY <1>1a, <1>2, SeqShape
<1>4. Len(Append(s, e)) = Len(s) + 1 /\ Append(s, e)[Len(s) + 1] = e
      BY <1>1, <1>1a
<1>5. \A k \in 1..Len(s) : Append(s, e)[k] = s[k]
      BY <1>1, <1>1a
<1>6. QED BY <1>3, <1>4, <1>5

LEMMA TailShape ==
    ASSUME NEW s, IsSeq(s), s # <<>>
    PROVE  /\ IsSeq(Tail(s)) /\ 1 \in DOMAIN s
           /\ DOMAIN s = 1..Len(s) /\ DOMAIN Tail(s) = 1..(Len(s) - 1)
           /\ \A k \in DOMAIN Tail(s) : k + 1 \in DOMAIN s /\ Tail(s)[k] = s[k + 1]
<1> DEFINE S == {s[k] : k \in 1..Len(s)}
<1>1a. s \in [1..Len(s) -> S] /\ Len(s) \in Nat
      BY DEF IsSeq
<1>1. s \in Seq(S)
      BY <1>1a, SeqDef
<1>2. Tail(s) \in Seq(S)
      BY <1>1
<1> HIDE DEF S
<1>3. Len(Tail(s)) = Len(s) - 1 /\ Len(s) > 0
      BY <1>1
<1>4. IsSeq(Tail(s)) /\ DOMAIN s = 1..Len(s) /\ DOMAIN Tail(s) = 1..Len(Tail(s))
      BY <1>1, <1>2, SeqShape
<1>5. \A k \in 1..(Len(s) - 1) : k + 1 \in 1..Len(s) /\ Tail(s)[k] = s[k + 1]
      BY <1>1, <1>1a
<1>6. QED BY <1>1a, <1>3, <1>4, <1>5

LEMMA EmptyShape == IsSeq(<<>>) /\ DOMAIN <<>> = {}
BY DEF IsSeq

LEMMA IdleShape == IsOp(Idle) /\ WorkingOn(Idle) /\ Idle.pc = "idle"
<1>1. Idle.pc = "idle" /\ Idle.kept = <<>>
      BY DEF Idle
<1>2. Idle = [pc |-> Idle.pc, appr |-> Idle.appr, i |-> Idle.i, new |-> Idle.new,
              backup |-> Idle.backup, kept |-> Idle.kept, todo |-> Idle.todo,
              restored |-> Idle.restored, missing |-> Idle.missing,
              passed |-> Idle.passed, hit |-> Idle.hit, late |-> Idle.late]
      BY DEF Idle
<1> QED BY <1>1, <1>2 DEF IsOp, WorkingOn, Deciding, Trying, Recovering, RollsBack

\* What the invariant says of an approval rests on these.
LEMMA ApprovalFacts ==
    ASSUME NEW x \in Patches
    PROVE  /\ x.targets \in Seq(Paths) /\ x.targets # <<>>
           /\ Targets(x) \subseteq Paths
           /\ DOMAIN x.targets = 1..Len(x.targets) /\ Len(x.targets) \in Nat \ {0}
           /\ \A i \in DOMAIN x.targets : x.targets[i] \in Targets(x)
           /\ \A f \in Targets(x) : \E i \in DOMAIN x.targets : x.targets[i] = f
<1>1. x.targets \in Seq(Paths) /\ x.targets # <<>>
      BY PatchEngineAssumption
<1>2. x.targets \in [1..Len(x.targets) -> Paths] /\ Len(x.targets) \in Nat
      BY <1>1, LenProperties
<1>3. Len(x.targets) # 0
      BY <1>1, EmptySeq
<1> QED BY <1>1, <1>2, <1>3 DEF Targets, Range

-----------------------------------------------------------------------------
\* Nothing that approvals, backups and entries say is taken back, but a backup may go.
Grown ==
    /\ \A a \in Approvals : patch[a] \in Patches => patch'[a] = patch[a]
    /\ \A a \in DOMAIN bound : a \in DOMAIN bound' /\ bound'[a] = bound[a]
    /\ \A b \in DOMAIN backups : /\ b \in DOMAIN backups'
                                 /\ backups'[b].of = backups[b].of
                                 /\ backups'[b].text \in {backups[b].text, Absent}
    /\ \A k \in DOMAIN manifest : /\ k \in DOMAIN manifest' /\ manifest'[k] = manifest[k]
                                  /\ clean'[k] = clean[k]

\* A step of p that writes to the files F and the temporary files of G.
Changes(p, F, G) ==
    /\ Grown
    /\ \A f \in Paths \ F : tree'[f] = tree[f] /\ written'[f] = written[f]
    /\ \A f \in Paths \ G : tmp'[f] = tmp[f]
    /\ op' = [q \in Procs |-> op'[q]]
    /\ \A q \in Procs \ {p} :
          IF op[q].pc = "idle" THEN op'[q] = op[q]
          ELSE op'[q] = [op[q] EXCEPT !.hit = @ \cup F, !.late = @ \cup (F \cup G)]

LEMMA KeptFacts ==
    ASSUME Grown
    PROVE  /\ \A b, c : Holds(backups, b, c) => Holds(backups', b, c)
           /\ \A a, f, b : Noted(manifest, a, f, b) => Noted(manifest', a, f, b)
           /\ \A kept, f : /\ \A k \in DOMAIN kept : kept[k] \in DOMAIN backups
                           /\ InHand(backups, kept, f)
                           => InHand(backups', kept, f)
BY DEF Grown, Holds, Noted, InHand

\* The other threads' records but for hit and late.
LEMMA OtherOp ==
    ASSUME Shape, NEW p, NEW F, NEW G, Changes(p, F, G), NEW q \in Procs, q # p, op[q].pc # "idle"
    PROVE  LET o == op[q]  n == op'[q]
           IN /\ n.pc = o.pc /\ n.appr = o.appr /\ n.i = o.i /\ n.new = o.new
              /\ n.backup = o.backup /\ n.kept = o.kept /\ n.todo = o.todo
              /\ n.missing = o.missing /\ n.passed = o.passed
              /\ n.hit = o.hit \cup F /\ n.late = o.late \cup (F \cup G)
              /\ IsOp(op[q])'
<1> DEFINE o == op[q]  n == op'[q]
<1>1. IsOp(o)
      BY DEF Shape
<1>2. n = [o EXCEPT !.hit = @ \cup F, !.late = @ \cup (F \cup G)]
      BY DEF Changes
<1> HIDE DEF n
<1>3. /\ n.pc = o.pc /\ n.appr = o.appr /\ n.i = o.i /\ n.new = o.new
      /\ n.backup = o.backup /\ n.kept = o.kept /\ n.todo = o.todo
      /\ n.missing = o.missing /\ n.passed = o.passed
      /\ n.hit = o.hit \cup F /\ n.late = o.late \cup (F \cup G)
      /\ n = [pc |-> n.pc, appr |-> n.appr, i |-> n.i, new |-> n.new, backup |-> n.backup,
              kept |-> n.kept, todo |-> n.todo, restored |-> n.restored, missing |-> n.missing,
              passed |-> n.passed, hit |-> n.hit, late |-> n.late]
      BY <1>1, <1>2 DEF IsOp
<1>4. o.pc = "hash" => patch'[o.appr] \in Patches /\ o.kept = <<>>
      BY <1>1 DEF IsOp, Changes, Grown
<1> USE DEF n
<1>5. IsOp(op[q])'
      BY <1>1, <1>3, <1>4 DEF IsOp
<1> QED BY <1>3, <1>5

LEMMA OtherBacked ==
    ASSUME Shape, NEW p, NEW F, NEW G, Changes(p, F, G), NEW q \in Procs, q # p, op[q].pc # "idle",
           Proposed(op[q].appr), Backed(op[q])
    PROVE  Backed(op[q])'
<1> DEFINE o == op[q]  a == op[q].appr
<1>1. op'[q].appr = a /\ op'[q].kept = o.kept /\ op'[q].hit = o.hit \cup F
      BY OtherOp
<1>2. a \in Approvals /\ patch[a] \in Patches
      BY DEF Shape, IsOp, Proposed
<1>3. patch'[a] = patch[a] /\ bound'[a] = bound[a]
      BY <1>2 DEF Changes, Grown, Proposed
<1>4. IsSeq(o.kept) /\ \A k \in DOMAIN o.kept : o.kept[k] \in DOMAIN backups
      BY DEF Backed
<1>5. \A k \in DOMAIN o.kept : /\ o.kept[k] \in DOMAIN backups'
                               /\ backups'[o.kept[k]].of = backups[o.kept[k]].of
                               /\ backups'[o.kept[k]].text \in {backups[o.kept[k]].text, Absent}
      BY <1>4 DEF Changes, Grown
<1>6. ASSUME EachOnce(patch[a]), NEW k \in DOMAIN o.kept, backups'[o.kept[k]].of \notin op'[q].hit
      PROVE  backups'[o.kept[k]].text \in {bound'[a][backups'[o.kept[k]].of], Absent}
      BY <1>1, <1>3, <1>5, <1>6 DEF Backed
<1>7. ASSUME EachOnce(patch[a]), NEW f \in Targets(patch[a]), f \notin op'[q].hit, bound[a][f] # Absent
      PROVE  tree'[f] = bound[a][f] \/ InHand(backups', o.kept, f)
  <2>1. f \in Paths \ F
        BY <1>1, <1>2, <1>7, ApprovalFacts
  <2>2. tree'[f] = tree[f]
        BY <2>1 DEF Changes
  <2>3. InHand(backups, o.kept, f) => InHand(backups', o.kept, f)
        BY <1>4, KeptFacts DEF Changes
  <2>4. QED BY <1>1, <1>7, <2>2, <2>3 DEF Backed
<1>8. Targets(patch'[a]) = Targets(patch[a])
      BY <1>3
<1>9. QED BY <1>1, <1>3, <1>4, <1>5, <1>6, <1>7, <1>8 DEF Backed

LEMMA OtherOnTarget ==
    ASSUME Shape, NEW p, NEW F, NEW G, Changes(p, F, G), NEW q \in Procs, q # p, op[q].pc # "idle",
           Proposed(op[q].appr), Backed(op[q]), OnTarget(op[q])
    PROVE  OnTarget(op[q])'
<1> DEFINE o == op[q]  a == op[q].appr  f == patch[a].targets[o.i]
<1>1. /\ op'[q].pc = o.pc /\ op'[q].appr = a /\ op'[q].i = o.i /\ op'[q].new = o.new
      /\ op'[q].backup = o.backup /\ op'[q].kept = o.kept
      /\ op'[q].hit = o.hit \cup F /\ op'[q].late = o.late \cup (F \cup G)
      BY OtherOp
<1>2. a \in Approvals /\ patch[a] \in Patches
      BY DEF Shape, IsOp, Proposed
<1>3. patch'[a] = patch[a] /\ bound'[a] = bound[a]
      BY <1>2 DEF Changes, Grown, Proposed
<1>4. \A j \in DOMAIN patch[a].targets : patch[a].targets[j] \in Paths
      BY <1>2, ApprovalFacts
<1>5. o.i \in DOMAIN patch[a].targets /\ f \in Paths
      BY <1>4 DEF OnTarget, Ahead
<1>6. Ahead(op[q])'
  <2>1. ASSUME EachOnce(patch[a]), NEW j \in DOMAIN patch[a].targets, j >= o.i,
               patch[a].targets[j] \notin o.hit \cup F
        PROVE  tree'[patch[a].targets[j]] = bound[a][patch[a].targets[j]]
    <3>1. tree'[patch[a].targets[j]] = tree[patch[a].targets[j]]
          BY <1>4, <2>1 DEF Changes
    <3>2. QED BY <2>1, <3>1 DEF OnTarget, Ahead
  <2>2. QED BY <1>1, <1>3, <1>5, <2>1 DEF Ahead
<1>7. f \notin op'[q].late => f \notin o.late /\ tree'[f] = tree[f] /\ tmp'[f] = tmp[f]
      BY <1>1, <1>5 DEF Changes
<1>8. f \notin op'[q].hit => f \notin o.hit
      BY <1>1
<1>9. Saved(o, f) => Saved(op[q], f)'
  <2> SUFFICES ASSUME Saved(o, f) PROVE Saved(op[q], f)'
      OBVIOUS
  <2> DEFINE b == o.backup  g == op'[q]
  <2>0. Grown
        BY DEF Changes
  <2>1. b = 0 \/ (b \in DOMAIN backups' /\ backups'[b].of = f)
        BY <2>0 DEF Saved, Grown
  <2>2. f \notin g.late => Holds(backups', b, tree'[f])
        BY <1>7, <2>0, KeptFacts DEF Saved
  <2>3. EachOnce(patch[a]) /\ f \notin o.hit => Holds(backups', b, bound[a][f])
        BY <2>0, KeptFacts DEF Saved
  <2>4. EachOnce(patch[a]) /\ f \notin o.hit => bound[a][f] = Absent \/ InHand(backups', o.kept, f)
        BY <2>0, KeptFacts DEF Saved, Backed
  <2>5. patch'[a].targets[o.i] = f
        BY <1>3
  <2> QED BY <1>1, <1>3, <1>8, <2>1, <2>2, <2>3, <2>4, <2>5 DEF Saved
<1>10. Noted(manifest, a, f, o.backup) => Noted(manifest', a, f, o.backup)
      BY KeptFacts DEF Changes
<1>11. patch'[op'[q].appr].targets[op'[q].i] = f
      BY <1>1, <1>3
<1>12. QED BY <1>1, <1>3, <1>6, <1>7, <1>9, <1>10, <1>11 DEF OnTarget

LEMMA OtherRefilling ==
    ASSUME Shape, NEW p, NEW F, NEW G, Changes(p, F, G), NEW q \in Procs, q # p, op[q].pc # "idle",
           Proposed(op[q].appr), Backed(op[q]), Refilling(op[q])
    PROVE  Refilling(op[q])'
<1> DEFINE o == op[q]  a == op[q].appr
<1>1. /\ op'[q].appr = a /\ op'[q].kept = o.kept /\ op'[q].hit = o.hit \cup F
      /\ op'[q].new = o.new
      BY OtherOp
<1>2. a \in Approvals /\ patch[a] \in Patches
      BY DEF Shape, IsOp, Proposed
<1>3. patch'[a] = patch[a] /\ bound'[a] = bound[a]
      BY <1>2 DEF Changes, Grown, Proposed
<1>4. IsSeq(o.kept) /\ o.kept # <<>>
      BY DEF Backed, Refilling
<1>5. 1 \in DOMAIN o.kept
      BY <1>4, TailShape
<1>6. o.kept[1] \in DOMAIN backups
      BY <1>5 DEF Backed
<1>7. backups'[o.kept[1]].of = backups[o.kept[1]].of
      BY <1>6 DEF Changes, Grown
<1> QED BY <1>1, <1>3, <1>4, <1>7 DEF Refilling

\* What a rollback has passed, while others write to F and hit grows by it.
LEMMA DoneKept ==
    ASSUME Shape, NEW F, Grown, \A f \in Paths \ F : tree'[f] = tree[f],
           NEW a \in Approvals, NEW passed, NEW hit, NEW hit2,
           Done(a, passed, hit), hit \cup F \subseteq hit2
    PROVE  /\ \A k \in passed : k \in DOMAIN manifest' /\ manifest'[k].appr = a
           /\ EachOnce(patch'[a])
                => PutBack(tree', manifest', clean', bound'[a], passed, hit2)
<1>1. \A k \in passed : /\ k \in DOMAIN manifest /\ manifest[k].appr = a
                        /\ k \in DOMAIN manifest' /\ manifest'[k] = manifest[k]
                        /\ clean'[k] = clean[k]
                        /\ manifest[k].target \in Paths
                        /\ Proposed(a)
      BY DEF Done, EntriesOf, Grown, Shape, IsEntry
<1>3. ASSUME EachOnce(patch'[a]), NEW k \in passed, manifest'[k].target \notin hit2,
             \A j \in passed : manifest'[j].target = manifest'[k].target => clean'[j]
      PROVE  tree'[manifest'[k].target] = bound'[a][manifest'[k].target]
  <2>1. patch'[a] = patch[a] /\ bound'[a] = bound[a]
        BY <1>1, <1>3 DEF Grown, Proposed
  <2>2. manifest[k].target \notin hit /\ manifest[k].target \in Paths \ F
        BY <1>1, <1>3
  <2>3. \A j \in passed : manifest[j].target = manifest[k].target => clean[j]
        BY <1>1, <1>3
  <2>4. tree[manifest[k].target] = bound[a][manifest[k].target]
        BY <1>3, <2>1, <2>2, <2>3 DEF Done, PutBack
  <2>5. tree'[manifest[k].target] = tree[manifest[k].target]
        BY <2>2
  <2> QED BY <1>1, <1>3, <2>1, <2>4, <2>5
<1> QED BY <1>1, <1>3 DEF PutBack

LEMMA OtherRollingBack ==
    ASSUME Shape, NEW p, NEW F, NEW G, Changes(p, F, G), NEW q \in Procs, q # p,
           op[q].pc \in RollsBack, RollingBack(op[q])
    PROVE  RollingBack(op[q])' /\ (Rewriting(op[q]) => Rewriting(op[q])')
<1> DEFINE o == op[q]  a == op[q].appr
<1>0. op[q].pc # "idle"
      BY DEF RollsBack
<1>1. /\ op'[q].appr = a /\ op'[q].todo = o.todo /\ op'[q].passed = o.passed
      /\ op'[q].missing = o.missing /\ op'[q].hit = o.hit \cup F /\ op'[q].new = o.new
      BY <1>0, OtherOp
<1>2. a \in Approvals
      BY <1>0 DEF Shape, IsOp
<1>3. \A k \in o.todo : /\ k \in DOMAIN manifest /\ manifest[k].appr = a
                        /\ k \in DOMAIN manifest' /\ manifest'[k] = manifest[k]
                        /\ clean'[k] = clean[k] /\ Proposed(a)
      BY DEF RollingBack, EntriesOf, Changes, Grown, Shape, IsEntry
<1>4. op'[q].todo \subseteq EntriesOf(op[q].appr)'
      BY <1>1, <1>3 DEF EntriesOf
<1>5. ASSUME ~o.missing, NEW f \in Paths, written'[f] # None, written'[f].appr = a,
             f \notin o.hit \cup F
      PROVE  \E k \in o.todo : manifest'[k].target = f
  <2>1. written'[f] = written[f]
        BY <1>5 DEF Changes
  <2>2. PICK k \in o.todo : manifest[k].target = f
        BY <1>5, <2>1 DEF RollingBack
  <2> QED BY <1>3, <2>2
<1>6. ASSUME ~o.missing
      PROVE  Done(op[q].appr, op[q].passed, op[q].hit)'
  <2>1. Done(a, o.passed, o.hit)
        BY <1>6 DEF RollingBack
  <2> DEFINE hit2 == o.hit \cup F
  <2>1a. Grown /\ (\A f \in Paths \ F : tree'[f] = tree[f]) /\ o.hit \cup F \subseteq hit2
        BY DEF Changes
  <2> HIDE DEF hit2
  <2>2. /\ \A k \in o.passed : k \in DOMAIN manifest' /\ manifest'[k].appr = a
        /\ EachOnce(patch'[a])
              => PutBack(tree', manifest', clean', bound'[a], o.passed, hit2)
        BY <1>2, <2>1, <2>1a, DoneKept
  <2> QED BY <1>1, <2>2 DEF Done, EntriesOf, hit2
<1>7. RollingBack(op[q])'
      BY <1>1, <1>4, <1>5, <1>6 DEF RollingBack
<1>8. ASSUME Rewriting(o)
      PROVE  Rewriting(op[q])'
  <2>1. ASSUME NEW k \in First(o.todo)
        PROVE  /\ manifest'[k].backup # 0 /\ manifest'[k].target \in o.hit \cup F
               /\ EachOnce(patch'[a]) /\ clean'[k] => o.new = bound'[a][manifest'[k].target]
    <3>1. k \in o.todo
          BY DEF First
    <3>2. patch'[a] = patch[a] /\ bound'[a] = bound[a]
          BY <1>2, <1>3, <3>1 DEF Changes, Grown, Proposed
    <3> QED BY <1>3, <1>8, <3>1, <3>2 DEF Rewriting
  <2> QED BY <1>1, <2>1 DEF Rewriting
<1> QED BY <1>7, <1>8

\* What a thread works on is not disturbed by a step of another.
LEMMA OthersKept ==
    ASSUME Shape, Working, NEW p, NEW F, NEW G, Changes(p, F, G)
    PROVE  \A q \in Procs \ {p} : IsOp(op[q])' /\ WorkingOn(op[q])'
<1> SUFFICES ASSUME NEW q \in Procs, q # p PROVE IsOp(op[q])' /\ WorkingOn(op[q])'
    OBVIOUS
<1>1. CASE op[q].pc = "idle"
  <2>1. op'[q] = op[q]
        BY <1>1 DEF Changes
  <2>2. IsOp(op[q])
        BY DEF Shape
  <2> QED BY <1>1, <2>1, <2>2 DEF IsOp, WorkingOn, Deciding, Trying, Recovering, RollsBack
<1>2. CASE op[q].pc # "idle"
  <2>1. IsOp(op[q])' /\ op'[q].pc = op[q].pc /\ op'[q].appr = op[q].appr
        BY <1>2, OtherOp
  <2>2. op[q].appr \in Approvals /\ WorkingOn(op[q])
        BY <1>2 DEF Shape, IsOp, Working
  <2>3. op[q].pc \in Trying \cup Recovering => Proposed(op[q].appr)' /\ Backed(op[q])'
    <3>1. Proposed(op[q].appr) => patch'[op[q].appr] \in Patches /\ op[q].appr \in DOMAIN bound'
          BY <2>2 DEF Proposed, Changes, Grown
    <3> QED BY <1>2, <2>1, <2>2, <3>1, OtherBacked DEF WorkingOn, Proposed
  <2>4. op[q].pc \in Trying => OnTarget(op[q])'
        BY <1>2, <2>2, OtherOnTarget DEF WorkingOn
  <2>5. op[q].pc = "refill" => Refilling(op[q])'
        BY <1>2, <2>2, OtherRefilling DEF WorkingOn, Recovering
  <2>6. /\ op[q].pc \in RollsBack => RollingBack(op[q])'
        /\ op[q].pc = "rewrite" => Rewriting(op[q])'
        BY <1>2, <2>2, OtherRollingBack DEF WorkingOn, RollsBack
  <2> QED BY <2>1, <2>3, <2>4, <2>5, <2>6 DEF WorkingOn
<1> QED BY <1>1, <1>2

\* Nor is what was reported, if its paths are told.
LEMMA ReportKept ==
    ASSUME Shape, Reported, Grown, NEW F,
           \A f \in Paths \ F : tree'[f] = tree[f] /\ written'[f] = written[f],
           \/ last' = last /\ F = {}
           \/ \E f \in F : last' = Since(f) /\ F = {f}
    PROVE  /\ Reported'
           /\ last' = None \/ last' = [outcome |-> last'.outcome, appr |-> last'.appr,
                                       whole |-> last'.whole, passed |-> last'.passed,
                                       hit |-> last'.hit]
<1>1. CASE last = None
      BY <1>1 DEF Reported, Since
<1>2. CASE last # None
  <2> DEFINE a == last.appr
  <2>1. /\ last'.outcome = last.outcome /\ last'.appr = a /\ last'.whole = last.whole
        /\ last'.passed = last.passed /\ last'.hit = last.hit \cup F
        /\ last' = [outcome |-> last'.outcome, appr |-> last'.appr, whole |-> last'.whole,
                    passed |-> last'.passed, hit |-> last'.hit]
        BY <1>2 DEF Shape, Since
  <2>2. a \in Approvals
        BY <1>2 DEF Reported
  <2>3. last.outcome = "failed" /\ last.whole
           => Proposed(a) /\ patch'[a] = patch[a] /\ a \in DOMAIN bound' /\ bound'[a] = bound[a]
        BY <1>2, <2>2 DEF Reported, Proposed, Grown
  <2>4. FailedRestoresExisting'
    <3> SUFFICES ASSUME last.outcome = "failed", last.whole, EachOnce(patch[a]),
                        NEW f \in Targets(patch[a]), bound[a][f] # Absent, f \notin last.hit \cup F
                 PROVE  tree'[f] = bound[a][f]
        BY <2>1, <2>3 DEF FailedRestoresExisting
    <3>1. f \in Paths
          BY <2>2, <2>3, ApprovalFacts DEF Proposed
    <3>2. tree[f] = bound[a][f]
          BY <1>2 DEF Reported, FailedRestoresExisting
    <3> QED BY <3>1, <3>2
  <2>5. last.outcome = "ok" =>
           /\ \A k \in last.passed : k \in DOMAIN manifest' /\ manifest'[k].appr = a
           /\ EachOnce(patch'[a])
                => PutBack(tree', manifest', clean', bound'[a], last.passed, last'.hit)
    <3>1. last.outcome = "ok" => Done(a, last.passed, last.hit)
          BY <1>2 DEF Reported
    <3>2. \A f \in Paths \ F : tree'[f] = tree[f]
          OBVIOUS
    <3>3. last.hit \cup F \subseteq last'.hit
          BY <2>1
    <3> QED BY <2>2, <3>1, <3>2, <3>3, DoneKept
  <2>6. last.outcome = "ok" =>
           \A f \in Paths : written'[f] # None /\ written'[f].appr = a => f \in last'.hit
        BY <1>2, <2>1 DEF Reported, RollbackRestores
  <2>7. RollbackRestores'
        BY <2>1, <2>5, <2>6 DEF RollbackRestores, PutBack
  <2>8. last'.outcome = "ok" => Done(last.appr, last.passed, last.hit)'
        BY <2>1, <2>5 DEF Done, EntriesOf
  <2>9. last'.outcome = "failed" /\ last'.whole => Proposed(last.appr)'
        BY <2>1, <2>3 DEF Proposed
  <2> QED BY <2>1, <2>2, <2>4, <2>7, <2>8, <2>9 DEF Reported
<1> QED BY <1>1, <1>2

\* Old entries and what they say of the files stay.
LEMMA FaithfulKept ==
    ASSUME Shape, Faithful, Grown
    PROVE  \A k \in DOMAIN manifest :
              EachOnce(patch'[manifest'[k].appr]) /\ clean'[k]
                => Holds(backups', manifest'[k].backup, bound'[manifest'[k].appr][manifest'[k].target])
<1> SUFFICES ASSUME NEW k \in DOMAIN manifest,
                    EachOnce(patch'[manifest'[k].appr]), clean'[k]
             PROVE  Holds(backups', manifest'[k].backup,
                          bound'[manifest'[k].appr][manifest'[k].target])
    OBVIOUS
<1> DEFINE e == manifest[k]
<1>1. manifest'[k] = e /\ clean'[k] = clean[k]
      BY DEF Grown
<1>2. e.appr \in Approvals /\ patch[e.appr] \in Patches /\ e.appr \in DOMAIN bound
      BY DEF Shape, IsEntry, Proposed
<1>3. patch'[e.appr] = patch[e.appr] /\ bound'[e.appr] = bound[e.appr]
      BY <1>2 DEF Grown
<1>4. Holds(backups, e.backup, bound[e.appr][e.target])
      BY <1>1, <1>3 DEF Faithful
<1> QED BY <1>1, <1>3, <1>4, KeptFacts

\* What has been written stays recoverable.
LEMMA RecoverableKept ==
    ASSUME Shape, WritesRecoverable, Grown,
           NEW f \in Paths, written[f] # None, written'[f] = written[f]
    PROVE  \E k \in DOMAIN manifest' :
              /\ manifest'[k].appr = written'[f].appr /\ manifest'[k].target = f
              /\ written'[f].late \/ Kept(k, written[f].was)'
<1>1. PICK k \in DOMAIN manifest :
             /\ manifest[k].appr = written[f].appr /\ manifest[k].target = f
             /\ written[f].late \/ Kept(k, written[f].was)
      BY DEF WritesRecoverable, EntriesOf
<1>2. k \in DOMAIN manifest' /\ manifest'[k] = manifest[k]
      BY DEF Grown
<1>3. manifest[k].backup = 0 \/ manifest[k].backup \in DOMAIN backups
      BY DEF Shape, IsEntry
<1>4. Kept(k, written[f].was) => Kept(k, written[f].was)'
      BY <1>2, <1>3 DEF Kept, Grown
<1> QED BY <1>1, <1>2, <1>4
-----------------------------------------------------------------------------
\* The parts of the invariant are kept by any step that keeps what the stepping thread
\* works on, the shape of what it changes, and what it adds.
LEMMA ThreadsKept ==
    ASSUME PInv, NEW p, NEW F, NEW G, Changes(p, F, G),
           p \in Procs => IsOp(op[p])' /\ WorkingOn(op[p])'
    PROVE  (\A q \in Procs : IsOp(op[q])') /\ Working'
<1>1. \A q \in Procs \ {p} : IsOp(op[q])' /\ WorkingOn(op[q])'
      BY OthersKept DEF PInv
<1> QED BY <1>1 DEF Working

\* A step that changes nothing but what its thread executes.
LEMMA QuietStep ==
    ASSUME PInv, NEW p \in Procs, NEW o, Set(p, o), IsOp(o), WorkingOn(o),
           UNCHANGED <<tree, tmp, backups, manifest, patch, bound, clean, written>>
    PROVE  /\ Shape /\ (last' = last => Shape') /\ Faithful' /\ WritesRecoverable' /\ Working'
           /\ Reported' /\ last' = [outcome |-> last'.outcome, appr |-> last'.appr,
                                    whole |-> last'.whole, passed |-> last'.passed,
                                    hit |-> last'.hit] => PInv'
           /\ last' = last => PInv'
<1>0. Shape /\ Faithful /\ WritesRecoverable /\ Working /\ Reported
      BY DEF PInv
<1>1. op' = [q \in Procs |-> op'[q]] /\ op'[p] = o /\ \A q \in Procs \ {p} : op'[q] = op[q]
      BY <1>0 DEF Set, Shape
<1>2. ASSUME NEW q \in Procs PROVE IsOp(op[q])'
  <2>1. IsOp(op'[q])
        BY <1>0, <1>1 DEF Shape
  <2> QED BY <2>1 DEF IsOp
<1>3. ASSUME NEW q \in Procs PROVE WorkingOn(op[q])'
  <2>1. WorkingOn(op'[q])
        BY <1>0, <1>1 DEF Working
  <2>2. Proposed(op'[q].appr) => Proposed(op[q].appr)'
        BY DEF Proposed
  <2>3. Backed(op'[q]) => Backed(op[q])'
        BY DEF Backed
  <2>4. OnTarget(op'[q]) => OnTarget(op[q])'
        BY DEF OnTarget, Ahead, Saved
  <2>5. Refilling(op'[q]) => Refilling(op[q])'
        BY DEF Refilling
  <2>6. RollingBack(op'[q]) => RollingBack(op[q])'
        BY DEF RollingBack, Done, EntriesOf
  <2>7. Rewriting(op'[q]) => Rewriting(op[q])'
        BY DEF Rewriting
  <2> QED BY <2>1, <2>2, <2>3, <2>4, <2>5, <2>6, <2>7 DEF WorkingOn
<1>4. Working'
      BY <1>3 DEF Working
<1>5. Faithful'
      BY <1>0 DEF Faithful
<1>6. WritesRecoverable'
      BY <1>0 DEF WritesRecoverable, EntriesOf, Kept
<1>7. last' = last \/ last' = [outcome |-> last'.outcome, appr |-> last'.appr,
                               whole |-> last'.whole, passed |-> last'.passed,
                               hit |-> last'.hit] => Shape'
      BY <1>0, <1>1, <1>2 DEF Shape, IsEntry, Proposed
<1>8. last' = last => Reported'
      BY <1>0 DEF Reported, FailedRestoresExisting, RollbackRestores, Done, EntriesOf, Proposed
<1> QED BY <1>0, <1>4, <1>5, <1>6, <1>7, <1>8 DEF PInv

\* The record of an operation, after a change of its fields.
IsRecord(o) ==
    o = [pc |-> o.pc, appr |-> o.appr, i |-> o.i, new |-> o.new, backup |-> o.backup,
         kept |-> o.kept, todo |-> o.todo, restored |-> o.restored, missing |-> o.missing,
         passed |-> o.passed, hit |-> o.hit, late |-> o.late]

LEMMA OwnOp ==
    ASSUME Shape, NEW p \in Procs
    PROVE  IsRecord(op[p]) /\ (op[p].pc # "idle" => op[p].appr \in Approvals)
BY DEF Shape, IsOp, IsRecord

LEMMA MakesOp ==
    ASSUME NEW o, IsRecord(o), o.appr \in Approvals,
           o.pc \in Trying \cup Recovering \cup RollsBack
    PROVE  IsOp(o)
BY DEF IsOp, IsRecord, Deciding, Trying, Recovering, RollsBack

LEMMA ReadStep ==
    ASSUME PInv, NEW p \in Procs, ReadTarget(p)
    PROVE  PInv'
<1> DEFINE o == op[p]  a == o.appr  f == Target(p)  text == ApplyDiff(patch[a], tree[f])
<1>1. Shape /\ WorkingOn(o)
      BY DEF PInv, Working
<1>1a. IsRecord(o)
      BY <1>1, OwnOp
<1>2. o.pc = "read" /\ a \in Approvals /\ Proposed(a) /\ Backed(o) /\ OnTarget(o)
      BY <1>1, OwnOp DEF ReadTarget, WorkingOn, Trying
<1>3. CASE text = Fail
  <2> DEFINE n == [o EXCEPT !.pc = "restore"]
  <2>1. Set(p, n)
        BY <1>3 DEF ReadTarget
  <2>2. /\ n.pc = "restore" /\ n.appr = a /\ n.kept = o.kept /\ n.hit = o.hit
        /\ IsRecord(n)
        BY <1>1a DEF IsRecord
  <2> HIDE DEF n
  <2>3. IsOp(n)
        BY <1>2, <2>2, MakesOp DEF Recovering
  <2>4. WorkingOn(n)
    <3> QED BY <1>2, <2>2 DEF WorkingOn, Backed, Trying, Recovering, RollsBack
  <2> QED BY <2>1, <2>3, <2>4, QuietStep DEF ReadTarget
<1>4. CASE text # Fail
  <2>1. PICK n : n = [op[p] EXCEPT !.pc = "save", !.new = text, !.late = {}]
        OBVIOUS
  <2>2. Set(p, n)
        BY <1>4, <2>1 DEF ReadTarget
  <2> HIDE DEF text
  <2>3. /\ n.pc = "save" /\ n.appr = a /\ n.kept = o.kept /\ n.hit = o.hit
        /\ n.i = o.i /\ n.new = text /\ n.late = {} /\ IsRecord(n)
        BY <1>1a, <2>1 DEF IsRecord
  <2>4. IsOp(n)
        BY <1>2, <2>3, MakesOp DEF Trying
  <2>5. Ahead(n)
        BY <1>2, <2>3 DEF OnTarget, Ahead
  <2>6. patch[a].targets[o.i] = f
        BY DEF Target
  <2>7. OnTarget(n)
        BY <2>3, <2>5, <2>6 DEF OnTarget, text
  <2>8. WorkingOn(n)
        BY <1>2, <2>3, <2>7 DEF WorkingOn, Backed, Trying, Recovering, RollsBack
  <2> QED BY <2>2, <2>4, <2>8, QuietStep DEF ReadTarget
<1> QED BY <1>3, <1>4

\* What holds of any step, given what it adds (p need not be a thread).
LEMMA AnyStep ==
    ASSUME PInv, NEW p, NEW F, NEW G, Changes(p, F, G),
           p \in Procs => IsOp(op[p])' /\ WorkingOn(op[p])',
           tree' = [f \in Paths |-> tree'[f]], tmp' = [f \in Paths |-> tmp'[f]],
           written' = [f \in Paths |-> written'[f]],
           patch' = [a \in Approvals |-> patch'[a]],
           \A a \in Approvals : patch'[a] \in Patches \cup {None},
           IsSeq(backups'), IsSeq(manifest'), IsSeq(clean'), Len(clean') = Len(manifest'),
           \A k \in DOMAIN backups' :
              backups'[k] = [of |-> backups'[k].of, text |-> backups'[k].text]
              /\ backups'[k].of \in Paths,
           \A k \in DOMAIN manifest' : k \notin DOMAIN manifest =>
              /\ IsEntry(manifest[k])'
              /\ EachOnce(patch'[manifest'[k].appr]) /\ clean'[k]
                   => Holds(backups', manifest'[k].backup,
                            bound'[manifest'[k].appr][manifest'[k].target]),
           \A f \in Paths : written'[f] # None /\ written'[f] # written[f] =>
              \E k \in DOMAIN manifest' :
                 /\ manifest'[k].appr = written'[f].appr /\ manifest'[k].target = f
                 /\ written'[f].late \/ Kept(k, written[f].was)',
           Reported',
           last' = None \/ last' = [outcome |-> last'.outcome, appr |-> last'.appr,
                                    whole |-> last'.whole, passed |-> last'.passed,
                                    hit |-> last'.hit]
    PROVE  PInv'
<1>0. Shape /\ Faithful /\ WritesRecoverable /\ Grown
      BY DEF PInv, Changes
<1>1. (\A q \in Procs : IsOp(op[q])') /\ Working'
      BY ThreadsKept
<1>2. ASSUME NEW k \in DOMAIN manifest PROVE k \in DOMAIN manifest' => IsEntry(manifest[k])'
  <2> DEFINE e == manifest[k]
  <2>1. IsEntry(e) /\ manifest'[k] = e
        BY <1>0 DEF Shape, Grown
  <2>2. patch'[e.appr] \in Patches /\ e.appr \in DOMAIN bound'
        BY <1>0, <2>1 DEF IsEntry, Proposed, Grown
  <2>3. e.backup = 0 \/ (e.backup \in DOMAIN backups' /\ backups'[e.backup].of = e.target)
        BY <1>0, <2>1 DEF IsEntry, Grown
  <2> QED BY <2>1, <2>2, <2>3 DEF IsEntry, Proposed
<1>3. \A k \in DOMAIN manifest' : IsEntry(manifest[k])'
      BY <1>2
<1>4. op' = [q \in Procs |-> op'[q]]
      BY DEF Changes
<1>5. Shape'
      BY <1>1, <1>3, <1>4 DEF Shape
<1>6. Faithful'
      BY <1>0, FaithfulKept DEF Faithful
<1>7. WritesRecoverable'
      BY <1>0, RecoverableKept DEF WritesRecoverable, EntriesOf
<1> QED BY <1>1, <1>5, <1>6, <1>7 DEF PInv

\* The end of an operation, which changes nothing else.
LEMMA FinishStep ==
    ASSUME PInv, NEW p \in Procs, op[p].pc # "idle", NEW outcome, NEW whole,
           Finish(p, outcome, whole),
           UNCHANGED <<tree, tmp, backups, manifest, patch, bound, clean, written>>,
           outcome = "failed" /\ whole =>
              /\ Proposed(op[p].appr)
              /\ EachOnce(patch[op[p].appr]) => \A f \in Targets(patch[op[p].appr]) :
                    bound[op[p].appr][f] # Absent /\ f \notin op[p].hit
                       => tree[f] = bound[op[p].appr][f],
           outcome = "ok" =>
              /\ Done(op[p].appr, op[p].passed, op[p].hit)
              /\ \A f \in Paths : written[f] # None /\ written[f].appr = op[p].appr => f \in op[p].hit
    PROVE  PInv'
<1> DEFINE o == op[p]  a == o.appr
<1>1. /\ last'.outcome = outcome /\ last'.appr = a /\ last'.whole = whole
      /\ last'.passed = o.passed /\ last'.hit = o.hit
      /\ last' = [outcome |-> last'.outcome, appr |-> last'.appr, whole |-> last'.whole,
                  passed |-> last'.passed, hit |-> last'.hit]
      BY DEF Finish, Told
<1>2. a \in Approvals
      BY OwnOp DEF PInv
<1>3. FailedRestoresExisting'
      BY <1>1 DEF FailedRestoresExisting
<1>4. RollbackRestores'
      BY <1>1 DEF RollbackRestores, Done, PutBack
<1>5. outcome = "ok" => Done(last.appr, last.passed, last.hit)'
      BY <1>1 DEF Done, EntriesOf
<1>6. outcome = "failed" /\ whole => Proposed(last.appr)'
      BY <1>1 DEF Proposed
<1>7. Reported'
      BY <1>1, <1>2, <1>3, <1>4, <1>5, <1>6 DEF Reported
<1>8. Set(p, Idle)
      BY DEF Finish
<1> QED BY <1>1, <1>7, <1>8, IdleShape, QuietStep

LEMMA EndRestoreStep ==
    ASSUME PInv, NEW p \in Procs, EndRestore(p)
    PROVE  PInv'
<1> DEFINE o == op[p]  a == o.appr
<1>1. o.pc = "restore" /\ o.kept = <<>>
      BY DEF EndRestore
<1>2. Proposed(a) /\ Backed(o)
      BY <1>1 DEF PInv, Working, WorkingOn, Recovering
<1>3. ~\E k \in DOMAIN o.kept : TRUE
      BY <1>1, EmptyShape
<1>4. EachOnce(patch[a]) => \A f \in Targets(patch[a]) :
         bound[a][f] # Absent /\ f \notin o.hit => tree[f] = bound[a][f]
      BY <1>2, <1>3 DEF Backed, InHand
<1>5. Finish(p, "failed", TRUE)
      BY DEF EndRestore
<1>6. UNCHANGED <<tree, tmp, backups, manifest, patch, bound, clean, written>>
      BY DEF EndRestore
<1>7. o.pc # "idle"
      BY <1>1
<1> QED BY <1>2, <1>4, <1>5, <1>6, <1>7, FinishStep

LEMMA IOErrorStep ==
    ASSUME PInv, NEW p \in Procs, IOError(p)
    PROVE  PInv'
<1> DEFINE o == op[p]
<1>0. UNCHANGED <<tree, tmp, backups, manifest, patch, bound, clean, written>>
      BY DEF IOError
<1>1. CASE o.pc \in Trying
  <2>1. PICK n : n = [op[p] EXCEPT !.pc = "restore"]
        OBVIOUS
  <2>2. Set(p, n) /\ UNCHANGED last
        BY <1>1, <2>1 DEF IOError, Trying
  <2>3. IsRecord(o) /\ o.appr \in Approvals /\ WorkingOn(o)
        BY <1>1, OwnOp DEF PInv, Working, Trying
  <2>4. n.pc = "restore" /\ n.appr = o.appr /\ n.kept = o.kept /\ n.hit = o.hit /\ IsRecord(n)
        BY <2>1, <2>3 DEF IsRecord
  <2>5. IsOp(n)
        BY <2>3, <2>4, MakesOp DEF Recovering
  <2>6. WorkingOn(n)
        BY <1>1, <2>3, <2>4 DEF WorkingOn, Backed, Trying, Recovering, RollsBack
  <2> QED BY <1>0, <2>2, <2>5, <2>6, QuietStep
<1>2. CASE o.pc \in Recovering
  <2>1. Finish(p, "failed", FALSE) /\ o.pc # "idle"
        BY <1>2 DEF IOError, Recovering
  <2> QED BY <1>0, <2>1, FinishStep
<1>3. CASE o.pc \in RollsBack
  <2>1. Finish(p, "error", FALSE) /\ o.pc # "idle"
        BY <1>3 DEF IOError, RollsBack
  <2> QED BY <1>0, <2>1, FinishStep
<1> QED BY <1>1, <1>2, <1>3 DEF IOError, Trying, Recovering, RollsBack

LEMMA EndRollbackStep ==
    ASSUME PInv, NEW p \in Procs, EndRollback(p)
    PROVE  PInv'
<1> DEFINE o == op[p]  a == o.appr
<1>0. UNCHANGED <<tree, tmp, backups, manifest, patch, bound, clean, written>>
      BY DEF EndRollback
<1>1. o.pc = "rollback" /\ o.todo = {} /\ RollingBack(o)
      BY DEF EndRollback, PInv, Working, WorkingOn, RollsBack
<1>2. PICK outcome \in {"incomplete", "ok", "no_backups"} :
         Finish(p, outcome, TRUE) /\ (outcome = "ok" => ~o.missing)
      BY DEF EndRollback
<1>3. ~o.missing =>
         /\ Done(a, o.passed, o.hit)
         /\ \A f \in Paths : written[f] # None /\ written[f].appr = a => f \in o.hit
      BY <1>1 DEF RollingBack
<1>4. o.pc # "idle" /\ outcome # "failed"
      BY <1>1, <1>2
<1> QED BY <1>0, <1>2, <1>3, <1>4, FinishStep

LEMMA StartRollbackStep ==
    ASSUME PInv, NEW p \in Procs, NEW a \in Approvals, StartRollback(p, a)
    PROVE  PInv'
<1>1. PICK n : n = [Idle EXCEPT !.pc = "rollback", !.appr = a, !.todo = EntriesOf(a)]
      OBVIOUS
<1>2. Set(p, n) /\ UNCHANGED <<tree, tmp, backups, manifest, patch, bound, clean, written, last>>
      BY <1>1 DEF StartRollback, StartOp
<1>3. /\ n.pc = "rollback" /\ n.appr = a /\ n.todo = EntriesOf(a) /\ n.passed = {} /\ n.hit = {}
      /\ IsRecord(n)
      BY <1>1 DEF Idle, IsRecord
<1>4. IsOp(n)
      BY <1>3, MakesOp DEF RollsBack
<1>5. \A f \in Paths : written[f] # None /\ written[f].appr = a
                          => \E k \in EntriesOf(a) : manifest[k].target = f
      BY DEF PInv, WritesRecoverable
<1>6. RollingBack(n)
      BY <1>3, <1>5 DEF RollingBack, Done, PutBack
<1>7. WorkingOn(n)
      BY <1>3, <1>6 DEF WorkingOn, Trying, Recovering
<1> QED BY <1>2, <1>4, <1>7, QuietStep

LEMMA MissBackupStep ==
    ASSUME PInv, NEW p \in Procs, MissBackup(p)
    PROVE  PInv'
<1> DEFINE o == op[p]
<1>1. PICK k \in First(o.todo) :
         Set(p, [op[p] EXCEPT !.todo = @ \ {k}, !.missing = TRUE])
      BY DEF MissBackup
<1>2. PICK n : n = [op[p] EXCEPT !.todo = @ \ {k}, !.missing = TRUE]
      OBVIOUS
<1>3. o.pc = "rollback" /\ IsRecord(o) /\ o.appr \in Approvals /\ RollingBack(o)
      BY OwnOp DEF MissBackup, PInv, Working, WorkingOn, RollsBack
<1>4. /\ n.pc = "rollback" /\ n.appr = o.appr /\ n.todo = o.todo \ {k} /\ n.missing = TRUE
      /\ IsRecord(n)
      BY <1>2, <1>3 DEF IsRecord
<1>5. IsOp(n)
      BY <1>3, <1>4, MakesOp DEF RollsBack
<1>6. WorkingOn(n)
      BY <1>3, <1>4 DEF WorkingOn, RollingBack, Trying, Recovering
<1>7. Set(p, n) /\ UNCHANGED <<tree, tmp, backups, manifest, patch, bound, clean, written, last>>
      BY <1>1, <1>2 DEF MissBackup
<1> QED BY <1>5, <1>6, <1>7, QuietStep

\* A step that writes to no file and no temporary file.
LEMMA Unhit ==
    ASSUME Shape, NEW q \in Procs
    PROVE  op[q] = [op[q] EXCEPT !.hit = @ \cup {}, !.late = @ \cup ({} \cup {})]
<1>1. PICK o : o = op[q]
      OBVIOUS
<1>2. IsRecord(o)
      BY <1>1, OwnOp
<1>3. o = [o EXCEPT !.hit = @ \cup {}, !.late = @ \cup ({} \cup {})]
      BY <1>2 DEF IsRecord
<1> QED BY <1>1, <1>3

LEMMA NoWrite ==
    ASSUME Shape, Grown, NEW p \in Procs, NEW n, Set(p, n), UNCHANGED <<tree, tmp, written>>
    PROVE  Changes(p, {}, {}) /\ op'[p] = n
<1>1. op' = [q \in Procs |-> op'[q]] /\ op'[p] = n /\ \A q \in Procs \ {p} : op'[q] = op[q]
      BY DEF Set, Shape
<1> QED BY <1>1, Unhit DEF Changes

LEMMA GrowStep ==
    ASSUME PInv, Grown, NEW p \in Procs, NEW n, Set(p, n),
           IsOp(op[p])', WorkingOn(op[p])', UNCHANGED <<tree, tmp, written, last>>,
           patch' = [a \in Approvals |-> patch'[a]],
           \A a \in Approvals : patch'[a] \in Patches \cup {None},
           IsSeq(backups'), IsSeq(manifest'), IsSeq(clean'), Len(clean') = Len(manifest'),
           \A k \in DOMAIN backups' :
              backups'[k] = [of |-> backups'[k].of, text |-> backups'[k].text]
              /\ backups'[k].of \in Paths,
           \A k \in DOMAIN manifest' : k \notin DOMAIN manifest =>
              /\ IsEntry(manifest[k])'
              /\ EachOnce(patch'[manifest'[k].appr]) /\ clean'[k]
                   => Holds(backups', manifest'[k].backup,
                            bound'[manifest'[k].appr][manifest'[k].target])
    PROVE  PInv'
<1>1. Shape /\ Reported
      BY DEF PInv
<1>2. Changes(p, {}, {})
      BY <1>1, NoWrite
<1>3. Reported' /\ (last' = None \/ last' = [outcome |-> last'.outcome, appr |-> last'.appr,
                                             whole |-> last'.whole, passed |-> last'.passed,
                                             hit |-> last'.hit])
      BY <1>1, ReportKept
<1>4. /\ tree' = [f \in Paths |-> tree'[f]] /\ tmp' = [f \in Paths |-> tmp'[f]]
      /\ written' = [f \in Paths |-> written'[f]]
      BY <1>1 DEF Shape
<1> QED BY <1>2, <1>3, <1>4, AnyStep

\* What an apply knows of its current target.
LEMMA TargetFacts ==
    ASSUME PInv, NEW p \in Procs, op[p].pc \in Trying
    PROVE  LET o == op[p]  a == o.appr  f == Target(p)
           IN /\ IsRecord(o) /\ a \in Approvals /\ Proposed(a) /\ Backed(o) /\ OnTarget(o)
              /\ f = patch[a].targets[o.i] /\ f \in Paths /\ f \in Targets(patch[a])
              /\ o.i \in DOMAIN patch[a].targets
              /\ EachOnce(patch[a]) /\ f \notin o.hit => tree[f] = bound[a][f]
<1> DEFINE o == op[p]  a == o.appr  f == Target(p)
<1>1. Shape /\ WorkingOn(o) /\ o.pc # "idle"
      BY DEF PInv, Working, Trying
<1>2. IsRecord(o) /\ a \in Approvals
      BY <1>1, OwnOp
<1>3. Proposed(a) /\ Backed(o) /\ OnTarget(o)
      BY <1>1 DEF WorkingOn
<1>4. f = patch[a].targets[o.i] /\ o.i \in DOMAIN patch[a].targets
      BY <1>3 DEF Target, OnTarget, Ahead
<1>5. DOMAIN patch[a].targets \subseteq Nat
      BY <1>3, ApprovalFacts DEF Proposed
<1>6. o.i >= o.i
      BY <1>4, <1>5
<1>7. f \in Paths /\ f \in Targets(patch[a])
      BY <1>3, <1>4, ApprovalFacts DEF Proposed
<1>8. EachOnce(patch[a]) /\ f \notin o.hit => tree[f] = bound[a][f]
      BY <1>3, <1>4, <1>6 DEF OnTarget, Ahead
<1> QED BY <1>2, <1>3, <1>4, <1>7, <1>8

LEMMA SaveStep ==
    ASSUME PInv, NEW p \in Procs, SaveTarget(p)
    PROVE  PInv'
<1> DEFINE o == op[p]  a == o.appr
<1>1. PICK f : f = Target(p)
      OBVIOUS
<1>2. o.pc = "save" /\ o.pc \in Trying
      BY DEF SaveTarget, Trying
<1>3. /\ IsRecord(o) /\ a \in Approvals /\ Proposed(a) /\ Backed(o) /\ OnTarget(o)
      /\ f = patch[a].targets[o.i] /\ f \in Paths
      /\ EachOnce(patch[a]) /\ f \notin o.hit => tree[f] = bound[a][f]
      BY <1>1, <1>2, TargetFacts
<1>4. Shape
      BY DEF PInv
<1>5. f \notin o.late => o.new = ApplyDiff(patch[a], tree[f])
      BY <1>2, <1>3 DEF OnTarget
<1>6. CASE tree[f] = Absent
  <2>1. PICK n : n = [op[p] EXCEPT !.pc = "note", !.backup = 0]
        OBVIOUS
  <2>2. Set(p, n) /\ UNCHANGED <<tree, tmp, backups, manifest, patch, bound, clean, written, last>>
        BY <1>1, <1>6, <2>1 DEF SaveTarget
  <2>3. /\ n.pc = "note" /\ n.appr = a /\ n.kept = o.kept /\ n.hit = o.hit /\ n.late = o.late
        /\ n.i = o.i /\ n.new = o.new /\ n.backup = 0 /\ IsRecord(n)
        BY <1>3, <2>1 DEF IsRecord
  <2>4. IsOp(n)
        BY <1>3, <2>3, MakesOp DEF Trying
  <2>5. Saved(n, f)
        BY <1>3, <1>6, <2>3 DEF Saved, Holds
  <2>5a. Ahead(o)
        BY <1>3 DEF OnTarget
  <2>6. Ahead(n)
        BY <2>3, <2>5a DEF Ahead
  <2>7. OnTarget(n)
        BY <1>3, <1>5, <2>3, <2>5, <2>6 DEF OnTarget
  <2>8. WorkingOn(n)
        BY <1>3, <2>3, <2>7 DEF WorkingOn, Backed, Trying, Recovering, RollsBack
  <2> QED BY <2>2, <2>4, <2>8, QuietStep
<1>7. CASE tree[f] # Absent
  <2> DEFINE b == Len(backups) + 1
  <2>1. PICK n : n = [op[p] EXCEPT !.pc = "note", !.backup = Len(backups) + 1,
                                   !.kept = Append(@, Len(backups) + 1)]
        OBVIOUS
  <2>2. /\ Set(p, n) /\ UNCHANGED <<tree, tmp, manifest, patch, bound, clean, written, last>>
        /\ backups' = Append(backups, [of |-> f, text |-> tree[f]])
        BY <1>1, <1>7, <2>1 DEF SaveTarget
  <2>3. /\ n.pc = "note" /\ n.appr = a /\ n.kept = Append(o.kept, b) /\ n.hit = o.hit
        /\ n.late = o.late /\ n.i = o.i /\ n.new = o.new /\ n.backup = b /\ IsRecord(n)
        BY <1>3, <2>1 DEF IsRecord
  <2>4. IsSeq(backups) /\ Len(backups) \in Nat
        BY <1>4 DEF Shape, IsSeq
  <2>5. /\ IsSeq(backups') /\ DOMAIN backups = 1..Len(backups)
        /\ DOMAIN backups' = 1..(Len(backups) + 1)
        /\ \A k \in DOMAIN backups : backups'[k] = backups[k]
        /\ backups'[b] = [of |-> f, text |-> tree[f]]
        BY <2>2, <2>4, AppendShape
  <2>6. b # 0 /\ b \in DOMAIN backups' /\ backups'[b].of = f /\ backups'[b].text = tree[f]
        BY <2>4, <2>5
  <2> HIDE DEF b
  <2>7. Grown
        BY <2>2, <2>4, <2>5 DEF Grown
  <2>8. op'[p] = n
        BY <1>4, <2>2, <2>7, NoWrite
  <2>9. IsOp(op[p])'
    <3>1. IsOp(n)
          BY <1>3, <2>3, MakesOp DEF Trying
    <3> QED BY <2>2, <2>8, <3>1 DEF IsOp
  <2>10. /\ IsSeq(n.kept) /\ DOMAIN o.kept = 1..Len(o.kept) /\ Len(o.kept) \in Nat
         /\ DOMAIN n.kept = 1..(Len(o.kept) + 1)
         /\ \A k \in DOMAIN o.kept : n.kept[k] = o.kept[k]
         /\ n.kept[Len(o.kept) + 1] = b
    <3>1. IsSeq(o.kept)
          BY <1>3 DEF Backed
    <3> QED BY <2>3, <3>1, AppendShape DEF IsSeq
  <2>11. \A k \in DOMAIN n.kept :
            \/ k \in DOMAIN o.kept /\ n.kept[k] = o.kept[k]
            \/ n.kept[k] = b
         BY <2>10
  <2>12. InHand(backups', n.kept, f)
         BY <2>6, <2>10 DEF InHand
  <2>13. \A g : InHand(backups, o.kept, g) => InHand(backups', n.kept, g)
    <3> SUFFICES ASSUME NEW g, NEW k \in DOMAIN o.kept, backups[o.kept[k]].of = g
                 PROVE  InHand(backups', n.kept, g)
        BY DEF InHand
    <3>1. k \in DOMAIN n.kept /\ n.kept[k] = o.kept[k]
          BY <2>10
    <3>2. backups'[o.kept[k]] = backups[o.kept[k]]
          BY <1>3, <2>5 DEF Backed
    <3> QED BY <3>1, <3>2 DEF InHand
  <2>14. \A k \in DOMAIN n.kept : n.kept[k] \in DOMAIN backups'
    <3>1. DOMAIN backups \subseteq DOMAIN backups'
          BY <2>7 DEF Grown
    <3>2. \A k \in DOMAIN o.kept : o.kept[k] \in DOMAIN backups'
          BY <1>3, <3>1 DEF Backed
    <3> QED BY <2>6, <2>11, <3>2
  <2>15. ASSUME EachOnce(patch[a]), NEW k \in DOMAIN n.kept, backups'[n.kept[k]].of \notin o.hit
         PROVE  backups'[n.kept[k]].text \in {bound[a][backups'[n.kept[k]].of], Absent}
    <3>1. CASE k \in DOMAIN o.kept /\ n.kept[k] = o.kept[k]
      <4>1. backups'[o.kept[k]] = backups[o.kept[k]]
            BY <1>3, <2>5, <3>1 DEF Backed
      <4> QED BY <1>3, <2>15, <3>1, <4>1 DEF Backed
    <3>2. CASE n.kept[k] = b
          BY <1>3, <2>6, <2>15, <3>2
    <3> QED BY <2>11, <3>1, <3>2
  <2>16. Backed(op[p])'
    <3>1. \A g \in Targets(patch[a]) : EachOnce(patch[a]) =>
             \/ g \in n.hit \/ bound[a][g] = Absent \/ tree[g] = bound[a][g]
             \/ InHand(backups', n.kept, g)
          BY <1>3, <2>3, <2>13 DEF Backed
    <3> QED BY <2>2, <2>3, <2>8, <2>10, <2>14, <2>15, <3>1 DEF Backed
  <2>17. Saved(op[p], f)'
         BY <1>3, <1>7, <2>2, <2>3, <2>6, <2>8, <2>12 DEF Saved, Holds
  <2>18. Ahead(op[p])'
         BY <1>3, <2>2, <2>3, <2>8 DEF OnTarget, Ahead
  <2>19. OnTarget(op[p])'
         BY <1>3, <1>5, <2>2, <2>3, <2>8, <2>17, <2>18 DEF OnTarget
  <2>20. WorkingOn(op[p])'
         BY <1>3, <2>2, <2>3, <2>8, <2>16, <2>19
         DEF WorkingOn, Proposed, Trying, Recovering, RollsBack
  <2>21. \A k \in DOMAIN backups' :
            /\ backups'[k] = [of |-> backups'[k].of, text |-> backups'[k].text]
            /\ backups'[k].of \in Paths
    <3> SUFFICES ASSUME NEW k \in DOMAIN backups'
                 PROVE  /\ backups'[k] = [of |-> backups'[k].of, text |-> backups'[k].text]
                        /\ backups'[k].of \in Paths
        OBVIOUS
    <3>1. k \in DOMAIN backups \/ k = b
          BY <2>4, <2>5 DEF b
    <3>2. CASE k \in DOMAIN backups
      <4>1. backups'[k] = backups[k]
            BY <2>5, <3>2
      <4> QED BY <1>4, <3>2, <4>1 DEF Shape
    <3>3. CASE k = b
          BY <1>3, <2>5, <3>3
    <3> QED BY <3>1, <3>2, <3>3
  <2> QED BY <1>4, <2>2, <2>5, <2>7, <2>9, <2>20, <2>21, GrowStep DEF Shape
<1> QED BY <1>6, <1>7

LEMMA NoteStep ==
    ASSUME PInv, NEW p \in Procs, NoteTarget(p)
    PROVE  PInv'
<1> DEFINE o == op[p]  a == o.appr  m == Len(manifest) + 1
<1>1. PICK f : f = Target(p)
      OBVIOUS
<1>1a. PICK e : e = [appr |-> op[p].appr, target |-> f, backup |-> op[p].backup]
      OBVIOUS
<1>1b. PICK pure : pure = (f \notin op[p].hit)
      OBVIOUS
<1>1c. PICK n : n = [op[p] EXCEPT !.pc = "write"]
      OBVIOUS
<1>2. o.pc = "note" /\ o.pc \in Trying
      BY DEF NoteTarget, Trying
<1>3. /\ IsRecord(o) /\ a \in Approvals /\ Proposed(a) /\ Backed(o) /\ OnTarget(o)
      /\ f = patch[a].targets[o.i] /\ f \in Paths
      BY <1>1, <1>2, TargetFacts
<1>4. Shape
      BY DEF PInv
<1>5. /\ Set(p, n) /\ UNCHANGED <<tree, tmp, backups, patch, bound, written, last>>
      /\ manifest' = Append(manifest, e) /\ clean' = Append(clean, pure)
      BY <1>1, <1>1a, <1>1b, <1>1c DEF NoteTarget
<1>6. /\ n.pc = "write" /\ n.appr = a /\ n.kept = o.kept /\ n.hit = o.hit /\ n.late = o.late
      /\ n.i = o.i /\ n.new = o.new /\ n.backup = o.backup /\ IsRecord(n)
      BY <1>1c, <1>3 DEF IsRecord
<1>7. e.appr = a /\ e.target = f /\ e.backup = o.backup
      BY <1>1a
<1>8. IsSeq(manifest) /\ IsSeq(clean) /\ Len(clean) = Len(manifest) /\ Len(manifest) \in Nat
      BY <1>4 DEF Shape, IsSeq
<1>9. /\ IsSeq(manifest') /\ Len(manifest') = m /\ DOMAIN manifest = 1..Len(manifest)
      /\ DOMAIN manifest' = 1..m
      /\ \A k \in DOMAIN manifest : manifest'[k] = manifest[k]
      /\ manifest'[m] = e
      BY <1>5, <1>8, AppendShape
<1>10. /\ IsSeq(clean') /\ Len(clean') = m /\ DOMAIN clean = 1..Len(manifest)
       /\ \A k \in DOMAIN clean : clean'[k] = clean[k]
       /\ clean'[m] = pure
  <2>1. /\ IsSeq(Append(clean, pure)) /\ Len(Append(clean, pure)) = Len(clean) + 1
        /\ DOMAIN clean = 1..Len(clean)
        /\ \A k \in DOMAIN clean : Append(clean, pure)[k] = clean[k]
        /\ Append(clean, pure)[Len(clean) + 1] = pure
        BY <1>8, AppendShape
  <2> QED BY <1>5, <1>8, <2>1
<1>11. /\ m \in DOMAIN manifest'
       /\ \A k \in DOMAIN manifest' : k \in DOMAIN manifest \/ k = m
       BY <1>8, <1>9
<1> HIDE DEF m
<1>12. Grown
  <2>1. DOMAIN manifest \subseteq DOMAIN manifest'
        BY <1>8, <1>9 DEF m
  <2> QED BY <1>5, <1>9, <1>10, <2>1 DEF Grown
<1>13. op'[p] = n
       BY <1>4, <1>5, <1>12, NoWrite
<1>14. IsOp(op[p])'
  <2>1. IsOp(n)
        BY <1>3, <1>6, MakesOp DEF Trying
  <2> QED BY <1>5, <1>13, <2>1 DEF IsOp
<1>15. Saved(o, f)
       BY <1>2, <1>3 DEF OnTarget
<1>16. Saved(op[p], f)'
       BY <1>5, <1>6, <1>13, <1>15 DEF Saved
<1>17. Noted(manifest', a, f, o.backup)
       BY <1>7, <1>9, <1>11 DEF Noted
<1>18. Ahead(op[p])'
  <2>1. Ahead(o)
        BY <1>3 DEF OnTarget
  <2> QED BY <1>5, <1>6, <1>13, <2>1 DEF Ahead
<1>19. f \notin o.late => o.new = ApplyDiff(patch[a], tree[f])
       BY <1>2, <1>3 DEF OnTarget
<1>20. OnTarget(op[p])'
       BY <1>3, <1>5, <1>6, <1>13, <1>16, <1>17, <1>18, <1>19 DEF OnTarget
<1>21. Backed(op[p])'
       BY <1>3, <1>5, <1>6, <1>13 DEF Backed
<1>22. WorkingOn(op[p])'
       BY <1>3, <1>5, <1>6, <1>13, <1>20, <1>21
       DEF WorkingOn, Proposed, Trying, Recovering, RollsBack
<1>23. IsEntry(e)'
       BY <1>3, <1>5, <1>7, <1>15 DEF IsEntry, Proposed, Saved
<1>24. EachOnce(patch[a]) /\ pure => Holds(backups, o.backup, bound[a][f])
       BY <1>1b, <1>15 DEF Saved
<1>25. \A k \in DOMAIN manifest' : k \notin DOMAIN manifest =>
          /\ IsEntry(manifest[k])'
          /\ EachOnce(patch'[manifest'[k].appr]) /\ clean'[k]
               => Holds(backups', manifest'[k].backup, bound'[manifest'[k].appr][manifest'[k].target])
  <2> SUFFICES ASSUME NEW k \in DOMAIN manifest', k \notin DOMAIN manifest
               PROVE  /\ IsEntry(manifest[k])'
                      /\ EachOnce(patch'[manifest'[k].appr]) /\ clean'[k]
                           => Holds(backups', manifest'[k].backup,
                                    bound'[manifest'[k].appr][manifest'[k].target])
      OBVIOUS
  <2>1. k = m
        BY <1>11
  <2>2. manifest'[k] = e /\ clean'[k] = pure
        BY <1>9, <1>10, <2>1
  <2>3. IsEntry(manifest[k])'
        BY <1>23, <2>2 DEF IsEntry, Proposed
  <2> QED BY <1>5, <1>7, <1>24, <2>2, <2>3
<1>26. /\ patch' = [b \in Approvals |-> patch'[b]]
       /\ \A b \in Approvals : patch'[b] \in Patches \cup {None}
       /\ IsSeq(backups')
       /\ \A k \in DOMAIN backups' :
             /\ backups'[k] = [of |-> backups'[k].of, text |-> backups'[k].text]
             /\ backups'[k].of \in Paths
       BY <1>4, <1>5 DEF Shape
<1>27. Len(clean') = Len(manifest')
       BY <1>9, <1>10
<1> QED BY <1>5, <1>9, <1>10, <1>12, <1>14, <1>22, <1>25, <1>26, <1>27, GrowStep

LEMMA WriteTmpStep ==
    ASSUME PInv, NEW p \in Procs, WriteTmp(p)
    PROVE  PInv'
<1> DEFINE o == op[p]  a == o.appr
<1>1. PICK f : f = Target(p)
      OBVIOUS
<1>1a. PICK n : n = [op[p] EXCEPT !.pc = "replace"]
      OBVIOUS
<1>2. o.pc = "write" /\ o.pc \in Trying
      BY DEF WriteTmp, Trying
<1>3. /\ IsRecord(o) /\ a \in Approvals /\ Proposed(a) /\ Backed(o) /\ OnTarget(o)
      /\ f = patch[a].targets[o.i] /\ f \in Paths
      BY <1>1, <1>2, TargetFacts
<1>4. Shape /\ Reported
      BY DEF PInv
<1>5. /\ UNCHANGED <<tree, backups, manifest, patch, bound, clean, written, last>>
      /\ tmp' = [tmp EXCEPT ![f] = o.new]
      /\ op' = [q \in Procs |-> IF q = p THEN n
                                ELSE IF op[q].pc = "idle" THEN op[q]
                                ELSE [op[q] EXCEPT !.late = @ \cup {f}]]
      BY <1>1, <1>1a DEF WriteTmp
<1>6. /\ n.pc = "replace" /\ n.appr = a /\ n.kept = o.kept /\ n.hit = o.hit /\ n.late = o.late
      /\ n.i = o.i /\ n.new = o.new /\ n.backup = o.backup /\ IsRecord(n)
      BY <1>1a, <1>3 DEF IsRecord
<1>7. op' = [q \in Procs |-> op'[q]] /\ op'[p] = n
      BY <1>5
<1>8. /\ tmp' = [g \in Paths |-> tmp'[g]] /\ tmp'[f] = o.new
      /\ \A g \in Paths \ {f} : tmp'[g] = tmp[g]
      BY <1>3, <1>4, <1>5 DEF Shape
<1>9. Changes(p, {}, {f})
  <2>1. Grown
        BY <1>5 DEF Grown
  <2>2. ASSUME NEW q \in Procs \ {p}, op[q].pc # "idle"
        PROVE  op'[q] = [op[q] EXCEPT !.hit = @ \cup {}, !.late = @ \cup ({} \cup {f})]
    <3>1. PICK r : r = op[q]
          OBVIOUS
    <3>2. IsRecord(r)
          BY <1>4, <3>1, OwnOp
    <3>3. [r EXCEPT !.late = @ \cup {f}]
             = [r EXCEPT !.hit = @ \cup {}, !.late = @ \cup ({} \cup {f})]
          BY <3>2 DEF IsRecord
    <3> QED BY <1>5, <2>2, <3>1, <3>3
  <2>3. \A q \in Procs \ {p} : op[q].pc = "idle" => op'[q] = op[q]
        BY <1>5
  <2> QED BY <1>5, <1>7, <1>8, <2>1, <2>2, <2>3 DEF Changes
<1>10. IsOp(op[p])'
  <2>1. IsOp(n)
        BY <1>3, <1>6, MakesOp DEF Trying
  <2> QED BY <1>5, <1>7, <2>1 DEF IsOp
<1>11. Ahead(op[p])'
  <2>1. Ahead(o)
        BY <1>3 DEF OnTarget
  <2> QED BY <1>5, <1>6, <1>7, <2>1 DEF Ahead
<1>12. Saved(op[p], f)' /\ Noted(manifest', a, f, o.backup)
  <2>1. Saved(o, f) /\ Noted(manifest, a, f, o.backup)
        BY <1>2, <1>3 DEF OnTarget
  <2> QED BY <1>5, <1>6, <1>7, <2>1 DEF Saved, Noted
<1>13. f \notin o.late => o.new = ApplyDiff(patch[a], tree[f])
       BY <1>2, <1>3 DEF OnTarget
<1>14. OnTarget(op[p])'
       BY <1>3, <1>5, <1>6, <1>7, <1>8, <1>11, <1>12, <1>13 DEF OnTarget
<1>15. Backed(op[p])'
       BY <1>3, <1>5, <1>6, <1>7 DEF Backed
<1>16. WorkingOn(op[p])'
       BY <1>3, <1>5, <1>6, <1>7, <1>14, <1>15
       DEF WorkingOn, Proposed, Trying, Recovering, RollsBack
<1>17. Reported' /\ (last' = None \/ last' = [outcome |-> last'.outcome, appr |-> last'.appr,
                                              whole |-> last'.whole, passed |-> last'.passed,
                                              hit |-> last'.hit])
       BY <1>4, <1>5, <1>9, ReportKept DEF Changes
<1>18. /\ tree' = [g \in Paths |-> tree'[g]] /\ written' = [g \in Paths |-> written'[g]]
       /\ patch' = [b \in Approvals |-> patch'[b]]
       /\ \A b \in Approvals : patch'[b] \in Patches \cup {None}
       /\ IsSeq(backups') /\ IsSeq(manifest') /\ IsSeq(clean') /\ Len(clean') = Len(manifest')
       /\ \A k \in DOMAIN backups' :
             /\ backups'[k] = [of |-> backups'[k].of, text |-> backups'[k].text]
             /\ backups'[k].of \in Paths
       BY <1>4, <1>5 DEF Shape
<1>19. manifest' = manifest /\ written' = written
       BY <1>5
<1> QED BY <1>8, <1>9, <1>10, <1>16, <1>17, <1>18, <1>19, AnyStep

-----------------------------------------------------------------------------
\* The steps that write to a file.
LEMMA WriteChanges ==
    ASSUME Shape, NEW p \in Procs, NEW n, NEW f \in Paths, NEW c, Write(p, n, f, c),
           UNCHANGED <<backups, manifest, patch, bound, clean>>,
           \A g \in Paths \ {f} : tmp'[g] = tmp[g] /\ written'[g] = written[g]
    PROVE  /\ Changes(p, {f}, {f}) /\ op'[p] = n
           /\ tree' = [g \in Paths |-> tree'[g]] /\ tree'[f] = c
           /\ \A g \in Paths \ {f} : tree'[g] = tree[g]
<1>1. /\ op' = [q \in Procs |-> IF q = p THEN n
                                ELSE IF op[q].pc = "idle" THEN op[q]
                                ELSE [op[q] EXCEPT !.hit = @ \cup {f}, !.late = @ \cup {f}]]
      /\ tree' = [tree EXCEPT ![f] = c] /\ tree = [g \in Paths |-> tree[g]]
      BY DEF Write, Shape
<1>2. /\ tree' = [g \in Paths |-> tree'[g]] /\ tree'[f] = c
      /\ \A g \in Paths \ {f} : tree'[g] = tree[g]
      BY <1>1
<1>3. op' = [q \in Procs |-> op'[q]] /\ op'[p] = n
      BY <1>1
<1>4. Grown
      BY DEF Grown
<1>5. {f} \cup {f} = {f}
      OBVIOUS
<1>6. \A q \in Procs \ {p} :
         IF op[q].pc = "idle" THEN op'[q] = op[q]
         ELSE op'[q] = [op[q] EXCEPT !.hit = @ \cup {f}, !.late = @ \cup ({f} \cup {f})]
      BY <1>1, <1>5
<1> QED BY <1>2, <1>3, <1>4, <1>6 DEF Changes

LEMMA WriteStep ==
    ASSUME PInv, NEW p \in Procs, op[p].pc # "idle",
           NEW n, NEW f \in Paths, NEW c, Write(p, n, f, c),
           UNCHANGED <<backups, manifest, patch, bound, clean>>,
           tmp' = [g \in Paths |-> tmp'[g]], written' = [g \in Paths |-> written'[g]],
           \A g \in Paths \ {f} : tmp'[g] = tmp[g] /\ written'[g] = written[g],
           IsOp(n), WorkingOn(op[p])',
           written'[f] # None /\ written'[f] # written[f] =>
              \E k \in DOMAIN manifest :
                 /\ manifest[k].appr = written'[f].appr /\ manifest[k].target = f
                 /\ written'[f].late \/ Kept(k, written'[f].was),
           last' = Since(f) \/ last' = Told(p, "applied", TRUE)
    PROVE  PInv'
<1>1. Shape /\ Reported
      BY DEF PInv
<1>2. /\ Changes(p, {f}, {f}) /\ op'[p] = n
      /\ tree' = [g \in Paths |-> tree'[g]]
      BY <1>1, WriteChanges
<1>3. IsOp(op[p])'
      BY <1>2 DEF IsOp
<1>4. Reported' /\ (last' = None \/ last' = [outcome |-> last'.outcome, appr |-> last'.appr,
                                             whole |-> last'.whole, passed |-> last'.passed,
                                             hit |-> last'.hit])
  <2>1. CASE last' = Since(f)
        BY <1>1, <1>2, <2>1, ReportKept DEF Changes
  <2>2. CASE last' = Told(p, "applied", TRUE)
    <3>1. /\ last'.outcome = "applied" /\ last'.appr = op[p].appr
          /\ last' = [outcome |-> last'.outcome, appr |-> last'.appr, whole |-> last'.whole,
                      passed |-> last'.passed, hit |-> last'.hit]
          BY <2>2 DEF Told
    <3>2. op[p].appr \in Approvals
          BY <1>1, OwnOp
    <3> QED BY <3>1, <3>2 DEF Reported, FailedRestoresExisting, RollbackRestores
  <2> QED BY <2>1, <2>2
<1>5. /\ patch' = [b \in Approvals |-> patch'[b]]
      /\ \A b \in Approvals : patch'[b] \in Patches \cup {None}
      /\ IsSeq(backups') /\ IsSeq(manifest') /\ IsSeq(clean') /\ Len(clean') = Len(manifest')
      /\ \A k \in DOMAIN backups' :
            /\ backups'[k] = [of |-> backups'[k].of, text |-> backups'[k].text]
            /\ backups'[k].of \in Paths
      BY <1>1 DEF Shape
<1>6. \A g \in Paths : written'[g] # None /\ written'[g] # written[g] =>
         \E k \in DOMAIN manifest' :
            /\ manifest'[k].appr = written'[g].appr /\ manifest'[k].target = g
            /\ written'[g].late \/ Kept(k, written[g].was)'
  <2> SUFFICES ASSUME NEW g \in Paths, written'[g] # None, written'[g] # written[g]
               PROVE  \E k \in DOMAIN manifest' :
                         /\ manifest'[k].appr = written'[g].appr /\ manifest'[k].target = g
                         /\ written'[g].late \/ Kept(k, written[g].was)'
      OBVIOUS
  <2>1. g = f
        OBVIOUS
  <2>2. PICK k \in DOMAIN manifest :
           /\ manifest[k].appr = written'[f].appr /\ manifest[k].target = f
           /\ written'[f].late \/ Kept(k, written'[f].was)
        BY <2>1
  <2>3. Kept(k, written'[f].was) => Kept(k, written[f].was)'
        BY DEF Kept
  <2> QED BY <2>1, <2>2, <2>3
<1>7. manifest' = manifest
      OBVIOUS
<1> QED BY <1>2, <1>3, <1>4, <1>5, <1>6, <1>7, AnyStep

LEMMA ReplaceStep ==
    ASSUME PInv, NEW p \in Procs, ReplaceTarget(p)
    PROVE  PInv'
<1> DEFINE o == op[p]  a == o.appr
<1>1. PICK f : f = Target(p)
      OBVIOUS
<1>2. o.pc = "replace" /\ o.pc \in Trying
      BY DEF ReplaceTarget, Trying
<1>3. /\ IsRecord(o) /\ a \in Approvals /\ Proposed(a) /\ Backed(o) /\ OnTarget(o)
      /\ f = patch[a].targets[o.i] /\ f \in Paths /\ o.i \in DOMAIN patch[a].targets
      BY <1>1, <1>2, TargetFacts
<1>4. Shape
      BY DEF PInv
<1>5. UNCHANGED <<backups, manifest, patch, bound, clean>>
      BY DEF ReplaceTarget
<1>6. CASE tmp[f] = Absent
  <2>1. PICK n : n = [op[p] EXCEPT !.pc = "restore"]
        OBVIOUS
  <2>2. Set(p, n) /\ UNCHANGED <<tree, tmp, written, last>>
        BY <1>1, <1>6, <2>1 DEF ReplaceTarget
  <2>3. n.pc = "restore" /\ n.appr = a /\ n.kept = o.kept /\ n.hit = o.hit /\ IsRecord(n)
        BY <1>3, <2>1 DEF IsRecord
  <2>4. IsOp(n)
        BY <1>3, <2>3, MakesOp DEF Recovering
  <2>5. WorkingOn(n)
        BY <1>3, <2>3 DEF WorkingOn, Backed, Trying, Recovering, RollsBack
  <2> QED BY <1>5, <2>2, <2>4, <2>5, QuietStep
<1>7. CASE tmp[f] # Absent
  <2> DEFINE done == o.i = Len(patch[a].targets)
  <2>1. PICK n : n = IF done THEN Idle ELSE [op[p] EXCEPT !.pc = "read", !.i = @ + 1]
        OBVIOUS
  <2>1a. PICK c : c = tmp[f]
        OBVIOUS
  <2>2. /\ Write(p, n, f, c) /\ UNCHANGED <<backups, manifest, patch, bound, clean>>
        /\ tmp' = [tmp EXCEPT ![f] = Absent]
        /\ written' = [written EXCEPT ![f] = [appr |-> a, was |-> tree[f], late |-> f \in o.late]]
        /\ last' = Since(f) \/ last' = Told(p, "applied", TRUE)
        BY <1>1, <1>7, <2>1, <2>1a DEF ReplaceTarget
  <2>3. /\ tmp' = [g \in Paths |-> tmp'[g]] /\ written' = [g \in Paths |-> written'[g]]
        /\ \A g \in Paths \ {f} : tmp'[g] = tmp[g] /\ written'[g] = written[g]
        /\ written'[f] = [appr |-> a, was |-> tree[f], late |-> f \in o.late]
        BY <1>3, <1>4, <2>2 DEF Shape
  <2>4. /\ op'[p] = n /\ \A g \in Paths \ {f} : tree'[g] = tree[g]
    <3>1. Write(p, n, f, c) /\ UNCHANGED <<backups, manifest, patch, bound, clean>>
          BY <2>2
    <3>2. \A g \in Paths \ {f} : tmp'[g] = tmp[g] /\ written'[g] = written[g]
          BY <2>3
    <3>3. f \in Paths /\ Shape
          BY <1>3, <1>4
    <3>4. op'[p] = n
          BY <3>1, <3>2, <3>3, WriteChanges
    <3>5. \A g \in Paths \ {f} : tree'[g] = tree[g]
          BY <3>1, <3>2, <3>3, WriteChanges
    <3> QED BY <3>4, <3>5
  <2>5. Saved(o, f) /\ Noted(manifest, a, f, o.backup)
        BY <1>2, <1>3 DEF OnTarget
  <2>6. written'[f] # None /\ written'[f] # written[f] =>
           \E k \in DOMAIN manifest :
              /\ manifest[k].appr = written'[f].appr /\ manifest[k].target = f
              /\ written'[f].late \/ Kept(k, written'[f].was)
    <3>1. PICK k \in DOMAIN manifest : /\ manifest[k].appr = a /\ manifest[k].target = f
                                       /\ manifest[k].backup = o.backup
          BY <2>5 DEF Noted
    <3>2. f \notin o.late => Kept(k, tree[f])
          BY <2>5, <3>1 DEF Saved, Holds, Kept
    <3>3. written'[f].appr = a /\ written'[f].was = tree[f] /\ written'[f].late = (f \in o.late)
          BY <2>3
    <3> QED BY <3>1, <3>2, <3>3
  <2>7. IsOp(n) /\ WorkingOn(op[p])'
    <3>1. CASE done
      <4>1. n = Idle
            BY <2>1, <3>1
      <4> QED BY <2>4, <4>1, IdleShape DEF WorkingOn, Trying, Recovering, RollsBack
    <3>2. CASE ~done
      <4>1. n = [op[p] EXCEPT !.pc = "read", !.i = @ + 1]
            BY <2>1, <3>2
      <4>2. /\ n.pc = "read" /\ n.appr = a /\ n.i = o.i + 1 /\ n.kept = o.kept
            /\ n.hit = o.hit /\ n.late = o.late /\ IsRecord(n)
            BY <1>3, <4>1 DEF IsRecord
      <4>3. IsOp(n)
            BY <1>3, <4>2, MakesOp DEF Trying
      <4>4. /\ DOMAIN patch[a].targets = 1..Len(patch[a].targets)
            /\ Len(patch[a].targets) \in Nat \ {0}
            /\ \A j \in DOMAIN patch[a].targets : patch[a].targets[j] \in Paths
            /\ Targets(patch[a]) \subseteq Paths
            BY <1>3, ApprovalFacts DEF Proposed
      <4>5. n.i \in DOMAIN patch[a].targets
            BY <1>3, <3>2, <4>2, <4>4
      <4>6. Ahead(op[p])'
        <5>1. Ahead(o)
              BY <1>3 DEF OnTarget
        <5>2. ASSUME EachOnce(patch[a]), NEW j \in DOMAIN patch[a].targets, j >= n.i,
                     patch[a].targets[j] \notin o.hit
              PROVE  tree'[patch[a].targets[j]] = bound[a][patch[a].targets[j]]
          <6>1. j # o.i /\ j >= o.i
                BY <1>3, <4>2, <4>4, <5>2
          <6>2. patch[a].targets[j] # f
                BY <1>3, <5>2, <6>1 DEF EachOnce, IsInjective
          <6>3. tree'[patch[a].targets[j]] = tree[patch[a].targets[j]]
                BY <2>4, <4>4, <6>2
          <6> QED BY <5>1, <5>2, <6>1, <6>3 DEF Ahead
        <5> QED BY <1>5, <2>4, <4>2, <4>5, <5>2 DEF Ahead
      <4>7. OnTarget(op[p])'
            BY <2>4, <4>2, <4>6 DEF OnTarget
      <4>8. \A g \in Targets(patch[a]) : EachOnce(patch[a]) =>
               \/ g \in o.hit \/ bound[a][g] = Absent \/ tree'[g] = bound[a][g]
               \/ InHand(backups, o.kept, g)
        <5> SUFFICES ASSUME NEW g \in Targets(patch[a]), EachOnce(patch[a])
                     PROVE  \/ g \in o.hit \/ bound[a][g] = Absent \/ tree'[g] = bound[a][g]
                            \/ InHand(backups, o.kept, g)
            OBVIOUS
        <5>1. CASE g = f
              BY <2>5, <5>1 DEF Saved
        <5>2. CASE g # f
          <6>1. tree'[g] = tree[g]
                BY <2>4, <4>4, <5>2
          <6> QED BY <1>3, <6>1 DEF Backed
        <5> QED BY <5>1, <5>2
      <4>9. Backed(op[p])'
            BY <1>3, <1>5, <2>4, <4>2, <4>8 DEF Backed
      <4>10. WorkingOn(op[p])'
            BY <1>3, <1>5, <2>4, <4>2, <4>7, <4>9
            DEF WorkingOn, Proposed, Trying, Recovering, RollsBack
      <4> QED BY <4>3, <4>10
    <3> QED BY <3>1, <3>2
  <2>8. o.pc # "idle"
        BY <1>2
  <2> QED BY <1>3, <2>2, <2>3, <2>6, <2>7, <2>8, WriteStep
<1> QED BY <1>6, <1>7

LEMMA OpenTargetStep ==
    ASSUME PInv, NEW p \in Procs, OpenTarget(p)
    PROVE  PInv'
<1> DEFINE o == op[p]  a == o.appr
<1>1. PICK b : b = op[p].kept[1]
      OBVIOUS
<1>2. o.pc = "restore" /\ o.kept # <<>> /\ o.pc # "idle"
      BY DEF OpenTarget
<1>3. IsRecord(o) /\ a \in Approvals /\ Proposed(a) /\ Backed(o) /\ Shape
      BY <1>2, OwnOp DEF PInv, Working, WorkingOn, Recovering
<1>4. 1 \in DOMAIN o.kept
      BY <1>2, <1>3, TailShape DEF Backed
<1>5. b \in DOMAIN backups /\ b = o.kept[1]
      BY <1>1, <1>3, <1>4 DEF Backed
<1>6. CASE backups[b].text = Absent
  <2>1. Finish(p, "failed", FALSE)
        BY <1>1, <1>6 DEF OpenTarget
  <2>2. UNCHANGED <<tree, tmp, backups, manifest, patch, bound, clean, written>>
        BY <1>1, <1>6 DEF OpenTarget
  <2> QED BY <1>2, <2>1, <2>2, FinishStep
<1>7. CASE backups[b].text # Absent
  <2>1. PICK text : text = backups[b].text
        OBVIOUS
  <2>2. PICK f : f = backups[b].of
        OBVIOUS
  <2>3. PICK n : n = [op[p] EXCEPT !.pc = "refill", !.new = text]
        OBVIOUS
  <2>4. Write(p, n, f, <<>>) /\ last' = Since(f)
        BY <1>1, <1>7, <2>1, <2>2, <2>3 DEF OpenTarget
  <2>5. UNCHANGED <<tmp, backups, manifest, patch, bound, clean, written>>
        BY DEF OpenTarget
  <2>6. f \in Paths
        BY <1>3, <1>5, <2>2 DEF Shape
  <2>7. /\ tmp' = [g \in Paths |-> tmp'[g]] /\ written' = [g \in Paths |-> written'[g]]
        /\ \A g \in Paths \ {f} : tmp'[g] = tmp[g] /\ written'[g] = written[g]
        BY <1>3, <2>5 DEF Shape
  <2>8. Shape
        BY <1>3
  <2>9. op'[p] = n
        BY <2>4, <2>5, <2>6, <2>7, <2>8, WriteChanges
  <2>10. \A g \in Paths \ {f} : tree'[g] = tree[g]
         BY <2>4, <2>5, <2>6, <2>7, <2>8, WriteChanges
  <2>11. /\ n.pc = "refill" /\ n.appr = a /\ n.kept = o.kept /\ n.hit = o.hit /\ n.new = text
         /\ IsRecord(n)
         BY <1>3, <2>3 DEF IsRecord
  <2>12. IsOp(n)
         BY <1>3, <2>11, MakesOp DEF Recovering
  <2>13. InHand(backups, o.kept, f)
         BY <1>4, <1>5, <2>2 DEF InHand
  <2>14. \A g \in Targets(patch[a]) : EachOnce(patch[a]) =>
            \/ g \in o.hit \/ bound[a][g] = Absent \/ tree'[g] = bound[a][g]
            \/ InHand(backups, o.kept, g)
    <3> SUFFICES ASSUME NEW g \in Targets(patch[a]), EachOnce(patch[a])
                 PROVE  \/ g \in o.hit \/ bound[a][g] = Absent \/ tree'[g] = bound[a][g]
                        \/ InHand(backups, o.kept, g)
        OBVIOUS
    <3>1. g \in Paths
          BY <1>3, ApprovalFacts DEF Proposed
    <3>2. g # f => tree'[g] = tree[g]
          BY <2>10, <3>1
    <3> QED BY <1>3, <2>13, <3>2 DEF Backed
  <2>15. Backed(op[p])'
         BY <1>3, <2>5, <2>9, <2>11, <2>14 DEF Backed
  <2>16. EachOnce(patch[a]) /\ f \notin o.hit => text = bound[a][f]
    <3>1. EachOnce(patch[a]) /\ f \notin o.hit => text \in {bound[a][f], Absent}
          BY <1>3, <1>4, <1>5, <2>1, <2>2 DEF Backed
    <3> QED BY <1>7, <2>1, <3>1
  <2>17. Refilling(op[p])'
         BY <1>2, <1>5, <2>2, <2>5, <2>9, <2>11, <2>16 DEF Refilling
  <2>18. WorkingOn(op[p])'
         BY <1>3, <2>5, <2>9, <2>11, <2>15, <2>17
         DEF WorkingOn, Proposed, Trying, Recovering, RollsBack
  <2>19. written'[f] = written[f] /\ UNCHANGED <<backups, manifest, patch, bound, clean>>
         BY <2>5
  <2> QED BY <1>2, <2>4, <2>6, <2>7, <2>12, <2>18, <2>19, WriteStep
<1> QED BY <1>6, <1>7

LEMMA RefillStep ==
    ASSUME PInv, NEW p \in Procs, RefillTarget(p)
    PROVE  PInv'
<1> DEFINE o == op[p]  a == o.appr
<1>1. PICK f : f = backups[op[p].kept[1]].of
      OBVIOUS
<1>1a. PICK c : c = op[p].new
      OBVIOUS
<1>1b. PICK n : n = [op[p] EXCEPT !.pc = "restore", !.kept = Tail(@)]
      OBVIOUS
<1>2. o.pc = "refill" /\ o.pc # "idle"
      BY DEF RefillTarget
<1>3. IsRecord(o) /\ a \in Approvals /\ Proposed(a) /\ Backed(o) /\ Refilling(o)
      BY <1>2, OwnOp DEF PInv, Working, WorkingOn, Recovering
<1>3a. Shape
      BY DEF PInv
<1>4. /\ 1 \in DOMAIN o.kept /\ IsSeq(Tail(o.kept)) /\ DOMAIN o.kept = 1..Len(o.kept)
      /\ DOMAIN Tail(o.kept) = 1..(Len(o.kept) - 1) /\ Len(o.kept) \in Nat
      /\ \A k \in DOMAIN Tail(o.kept) : k + 1 \in DOMAIN o.kept /\ Tail(o.kept)[k] = o.kept[k + 1]
      BY <1>3, TailShape DEF Backed, Refilling, IsSeq
<1>5. o.kept[1] \in DOMAIN backups
      BY <1>3, <1>4 DEF Backed
<1>6. f \in Paths
      BY <1>1, <1>3a, <1>5 DEF Shape
<1>7. /\ Write(p, n, f, c) /\ last' = Since(f) /\ written' = [written EXCEPT ![f] = None]
      /\ UNCHANGED <<tmp, backups, manifest, patch, bound, clean>>
      BY <1>1, <1>1a, <1>1b DEF RefillTarget
<1>8. /\ tmp' = [g \in Paths |-> tmp'[g]] /\ written' = [g \in Paths |-> written'[g]]
      /\ \A g \in Paths \ {f} : tmp'[g] = tmp[g] /\ written'[g] = written[g]
      /\ written'[f] = None
      BY <1>3a, <1>6, <1>7 DEF Shape
<1>8a. Write(p, n, f, c) /\ UNCHANGED <<backups, manifest, patch, bound, clean>>
      BY <1>7
<1>8b. \A g \in Paths \ {f} : tmp'[g] = tmp[g] /\ written'[g] = written[g]
      BY <1>8
<1>9a. op'[p] = n
      BY <1>3a, <1>6, <1>8a, <1>8b, WriteChanges
<1>9b. tree'[f] = c
  <2>1. tree' = [tree EXCEPT ![f] = c]
        BY <1>8a DEF Write
  <2>2. tree = [g \in Paths |-> tree[g]]
        BY <1>3a DEF Shape
  <2> QED BY <1>6, <2>1, <2>2
<1>9. op'[p] = n /\ tree'[f] = c
      BY <1>9a, <1>9b
<1>10. \A g \in Paths \ {f} : tree'[g] = tree[g]
       BY <1>3a, <1>6, <1>8a, <1>8b, WriteChanges
<1>11. /\ n.pc = "restore" /\ n.appr = a /\ n.kept = Tail(o.kept) /\ n.hit = o.hit
       /\ IsRecord(n)
       BY <1>1b, <1>3 DEF IsRecord
<1>12. IsOp(n)
       BY <1>3, <1>11, MakesOp DEF Recovering
<1>13. EachOnce(patch[a]) /\ f \notin o.hit => c = bound[a][f]
       BY <1>1, <1>1a, <1>3 DEF Refilling
<1>14. \A g : g # f /\ InHand(backups, o.kept, g) => InHand(backups, Tail(o.kept), g)
  <2> SUFFICES ASSUME NEW g, g # f, NEW k \in DOMAIN o.kept, backups[o.kept[k]].of = g
               PROVE  InHand(backups, Tail(o.kept), g)
      BY DEF InHand
  <2>1. k # 1
        BY <1>1
  <2>2. k - 1 \in DOMAIN Tail(o.kept) /\ Tail(o.kept)[k - 1] = o.kept[k]
        BY <1>4, <2>1
  <2> QED BY <2>2 DEF InHand
<1>15. \A g \in Targets(patch[a]) : EachOnce(patch[a]) =>
          \/ g \in o.hit \/ bound[a][g] = Absent \/ tree'[g] = bound[a][g]
          \/ InHand(backups, Tail(o.kept), g)
  <2> SUFFICES ASSUME NEW g \in Targets(patch[a]), EachOnce(patch[a])
               PROVE  \/ g \in o.hit \/ bound[a][g] = Absent \/ tree'[g] = bound[a][g]
                      \/ InHand(backups, Tail(o.kept), g)
      OBVIOUS
  <2>1. CASE g = f
        BY <1>9, <1>13, <2>1
  <2>2. CASE g # f
    <3>1. g \in Paths
          BY <1>3, ApprovalFacts DEF Proposed
    <3>2. tree'[g] = tree[g]
          BY <1>10, <2>2, <3>1
    <3> QED BY <1>3, <1>14, <2>2, <3>2 DEF Backed
  <2> QED BY <2>1, <2>2
<1>16. \A k \in DOMAIN Tail(o.kept) :
          /\ Tail(o.kept)[k] \in DOMAIN backups
          /\ EachOnce(patch[a]) /\ backups[Tail(o.kept)[k]].of \notin o.hit
               => backups[Tail(o.kept)[k]].text
                     \in {bound[a][backups[Tail(o.kept)[k]].of], Absent}
       BY <1>3, <1>4 DEF Backed
<1>17. Backed(op[p])'
       BY <1>4, <1>7, <1>9, <1>11, <1>15, <1>16 DEF Backed
<1>18. WorkingOn(op[p])'
       BY <1>3, <1>7, <1>9, <1>11, <1>17
       DEF WorkingOn, Proposed, Trying, Recovering, RollsBack
<1>19. UNCHANGED <<backups, manifest, patch, bound, clean>>
       BY <1>7
<1> QED BY <1>2, <1>6, <1>7, <1>8, <1>12, <1>18, <1>19, WriteStep

\* A rollback goes past entry k and leaves c at its target f.
Passing(p, k, f, c, n) ==
    /\ f = manifest[k].target /\ n = Pass(op[p], k)
    /\ Write(p, n, f, c) /\ written' = [written EXCEPT ![f] = None] /\ last' = Since(f)
    /\ UNCHANGED <<tmp, backups, manifest, patch, bound, clean>>

LEMMA PassStep ==
    ASSUME PInv, NEW p \in Procs, op[p].pc \in RollsBack, NEW k \in op[p].todo,
           NEW f, NEW c, NEW n, Passing(p, k, f, c, n),
           EachOnce(patch[op[p].appr]) /\ clean[k] => c = bound[op[p].appr][f]
    PROVE  PInv'
<1> DEFINE o == op[p]  a == o.appr
<1>0. f = manifest[k].target /\ n = Pass(op[p], k) /\ Write(p, n, f, c) /\ last' = Since(f)
      BY DEF Passing
<1>0a. /\ written' = [written EXCEPT ![f] = None]
       /\ UNCHANGED <<tmp, backups, manifest, patch, bound, clean>>
      BY DEF Passing
<1>1. Shape /\ o.pc # "idle"
      BY DEF PInv, RollsBack
<1>2. IsRecord(o) /\ a \in Approvals /\ RollingBack(o)
      BY <1>1, OwnOp DEF PInv, Working, WorkingOn
<1>3. /\ k \in DOMAIN manifest /\ manifest[k].appr = a /\ k \in EntriesOf(a)
      BY <1>2 DEF RollingBack, EntriesOf
<1>4. f \in Paths
      BY <1>0, <1>1, <1>3 DEF Shape, IsEntry
<1>5. /\ tmp' = [g \in Paths |-> tmp'[g]] /\ written' = [g \in Paths |-> written'[g]]
      /\ \A g \in Paths \ {f} : tmp'[g] = tmp[g] /\ written'[g] = written[g]
      /\ written'[f] = None
      BY <1>0a, <1>1, <1>4 DEF Shape
<1>5a. \A g \in Paths \ {f} : tmp'[g] = tmp[g] /\ written'[g] = written[g]
      BY <1>5
<1>5b. Shape /\ Write(p, n, f, c) /\ UNCHANGED <<backups, manifest, patch, bound, clean>>
      BY <1>0, <1>0a, <1>1
<1>6. op'[p] = n /\ tree'[f] = c
  <2>1. op'[p] = n
        BY <1>4, <1>5a, <1>5b, WriteChanges
  <2>2. tree'[f] = c
    <3>1. tree' = [tree EXCEPT ![f] = c]
          BY <1>0 DEF Write
    <3>2. tree = [g \in Paths |-> tree[g]]
          BY <1>1 DEF Shape
    <3> QED BY <1>4, <3>1, <3>2
  <2> QED BY <2>1, <2>2
<1>7. \A g \in Paths \ {f} : tree'[g] = tree[g]
      BY <1>4, <1>5a, <1>5b, WriteChanges
<1>8. /\ n.pc = "rollback" /\ n.appr = a /\ n.todo = o.todo \ {k} /\ n.missing = o.missing
      /\ n.passed = o.passed \cup {k} /\ n.hit = o.hit \ {f} /\ IsRecord(n)
      BY <1>0, <1>2 DEF Pass, IsRecord
<1>9. IsOp(n)
      BY <1>2, <1>8, MakesOp DEF RollsBack
<1>10. ASSUME ~o.missing, NEW g \in Paths, written'[g] # None, written'[g].appr = a,
              g \notin o.hit \ {f}
       PROVE  \E j \in o.todo \ {k} : manifest[j].target = g
  <2>1. g # f
        BY <1>5, <1>10
  <2>2. written'[g] = written[g] /\ g \notin o.hit
        BY <1>5, <1>10, <2>1
  <2>3. PICK j \in o.todo : manifest[j].target = g
        BY <1>2, <1>10, <2>2 DEF RollingBack
  <2>4. j # k
        BY <1>0, <2>1, <2>3
  <2> QED BY <2>3, <2>4
<1>11. ASSUME ~o.missing, EachOnce(patch[a])
       PROVE  PutBack(tree', manifest, clean, bound[a], o.passed \cup {k}, o.hit \ {f})
  <2> SUFFICES ASSUME NEW j \in o.passed \cup {k}, manifest[j].target \notin o.hit \ {f},
                      \A i \in o.passed \cup {k} :
                          manifest[i].target = manifest[j].target => clean[i]
               PROVE  tree'[manifest[j].target] = bound[a][manifest[j].target]
      BY DEF PutBack
  <2>1. CASE manifest[j].target = f
    <3>1. clean[k]
          BY <1>0, <2>1
    <3> QED BY <1>6, <1>11, <2>1, <3>1
  <2>2. CASE manifest[j].target # f
    <3>1. j \in o.passed /\ manifest[j].target \notin o.hit
          BY <1>0, <2>2
    <3>2. j \in DOMAIN manifest
          BY <1>2, <1>11, <3>1 DEF RollingBack, Done, EntriesOf
    <3>3. manifest[j].target \in Paths
          BY <1>1, <3>2 DEF Shape, IsEntry
    <3>4. tree'[manifest[j].target] = tree[manifest[j].target]
          BY <1>7, <2>2, <3>3
    <3> QED BY <1>2, <1>11, <3>1, <3>4 DEF RollingBack, Done, PutBack
  <2> QED BY <2>1, <2>2
<1>12. ~o.missing => o.passed \cup {k} \subseteq EntriesOf(a)
       BY <1>2, <1>3 DEF RollingBack, Done
<1>13. o.todo \ {k} \subseteq EntriesOf(a)
       BY <1>2 DEF RollingBack
<1>14. RollingBack(op[p])'
       BY <1>0a, <1>6, <1>8, <1>10, <1>11, <1>12, <1>13 DEF RollingBack, Done, EntriesOf
<1>15. WorkingOn(op[p])'
       BY <1>6, <1>8, <1>14 DEF WorkingOn, Trying, Recovering
<1>16. UNCHANGED <<backups, manifest, patch, bound, clean>>
       BY <1>0a
<1> QED BY <1>0, <1>1, <1>4, <1>5, <1>9, <1>15, <1>16, WriteStep

\* What a rollback knows of the entry it is at.
LEMMA EntryFacts ==
    ASSUME PInv, NEW p \in Procs, op[p].pc \in RollsBack, NEW k \in First(op[p].todo)
    PROVE  /\ k \in op[p].todo /\ k \in DOMAIN manifest /\ manifest[k].appr = op[p].appr
           /\ manifest[k].target \in Paths
           /\ \A j \in First(op[p].todo) : j = k
           /\ EachOnce(patch[op[p].appr]) /\ clean[k]
                => Holds(backups, manifest[k].backup, bound[op[p].appr][manifest[k].target])
<1>1. k \in op[p].todo
      BY DEF First
<1>2. op[p].todo \subseteq EntriesOf(op[p].appr)
      BY DEF PInv, Working, WorkingOn, RollingBack
<1>3. DOMAIN manifest \subseteq Nat
  <2>1. IsSeq(manifest)
        BY DEF PInv, Shape
  <2>2. DOMAIN manifest = 1..Len(manifest) /\ Len(manifest) \in Nat
        BY <2>1, AppendShape DEF IsSeq
  <2> QED BY <2>2
<1>4. k \in DOMAIN manifest /\ manifest[k].appr = op[p].appr
      BY <1>1, <1>2 DEF EntriesOf
<1>5. manifest[k].target \in Paths
      BY <1>4 DEF PInv, Shape, IsEntry
<1>6. \A j \in First(op[p].todo) : j = k
  <2> SUFFICES ASSUME NEW j \in First(op[p].todo) PROVE j = k
      OBVIOUS
  <2>1. j <= k /\ k <= j /\ j \in op[p].todo
        BY <1>1 DEF First
  <2>2. j \in Nat /\ k \in Nat
        BY <1>1, <1>2, <1>3, <2>1 DEF EntriesOf
  <2> QED BY <2>1, <2>2
<1>7. EachOnce(patch[op[p].appr]) /\ clean[k]
         => Holds(backups, manifest[k].backup, bound[op[p].appr][manifest[k].target])
      BY <1>4 DEF PInv, Faithful
<1> QED BY <1>1, <1>4, <1>5, <1>6, <1>7

LEMMA TrashStep ==
    ASSUME PInv, NEW p \in Procs, TrashTarget(p)
    PROVE  PInv'
<1>1. PICK k \in First(op[p].todo) :
         /\ manifest[k].backup = 0
         /\ Write(p, Pass(op[p], k), manifest[k].target, Absent)
         /\ written' = [written EXCEPT ![manifest[k].target] = None]
         /\ last' = Since(manifest[k].target)
      BY DEF TrashTarget
<1>2. op[p].pc \in RollsBack
      BY DEF TrashTarget, RollsBack
<1>3. PICK n : n = Pass(op[p], k)
      OBVIOUS
<1>4. PICK f : f = manifest[k].target
      OBVIOUS
<1>5. k \in op[p].todo /\ (EachOnce(patch[op[p].appr]) /\ clean[k] => Absent = bound[op[p].appr][f])
      BY <1>1, <1>2, <1>4, EntryFacts DEF Holds
<1>6. Passing(p, k, f, Absent, n)
      BY <1>1, <1>3, <1>4 DEF TrashTarget, Passing
<1> QED BY <1>2, <1>5, <1>6, PassStep

LEMMA RewriteEntryStep ==
    ASSUME PInv, NEW p \in Procs, RewriteEntry(p)
    PROVE  PInv'
<1>1. PICK k \in First(op[p].todo) :
         /\ Write(p, Pass(op[p], k), manifest[k].target, op[p].new)
         /\ written' = [written EXCEPT ![manifest[k].target] = None]
         /\ last' = Since(manifest[k].target)
      BY DEF RewriteEntry
<1>2. op[p].pc \in RollsBack /\ op[p].pc = "rewrite"
      BY DEF RewriteEntry, RollsBack
<1>3. PICK n : n = Pass(op[p], k)
      OBVIOUS
<1>4. PICK f : f = manifest[k].target
      OBVIOUS
<1>4a. PICK c : c = op[p].new
      OBVIOUS
<1>5. k \in op[p].todo
      BY <1>2, EntryFacts
<1>6. EachOnce(patch[op[p].appr]) /\ clean[k] => c = bound[op[p].appr][f]
      BY <1>2, <1>4, <1>4a DEF PInv, Working, WorkingOn, Rewriting
<1>7. Passing(p, k, f, c, n)
      BY <1>1, <1>3, <1>4, <1>4a DEF RewriteEntry, Passing
<1> QED BY <1>2, <1>5, <1>6, <1>7, PassStep

LEMMA OpenEntryStep ==
    ASSUME PInv, NEW p \in Procs, OpenEntry(p)
    PROVE  PInv'
<1> DEFINE o == op[p]  a == o.appr
<1>1. PICK k \in First(op[p].todo) :
         /\ manifest[k].backup # 0 /\ ~Gone(k)
         /\ Write(p, [op[p] EXCEPT !.pc = "rewrite", !.new = backups[manifest[k].backup].text,
                                   !.hit = @ \cup {manifest[k].target}],
                  manifest[k].target, <<>>)
         /\ last' = Since(manifest[k].target)
      BY DEF OpenEntry
<1>2. o.pc = "rollback" /\ o.pc \in RollsBack /\ o.pc # "idle"
      BY DEF OpenEntry, RollsBack
<1>3. PICK f : f = manifest[k].target
      OBVIOUS
<1>4. PICK text : text = backups[manifest[k].backup].text
      OBVIOUS
<1>5. PICK n : n = [op[p] EXCEPT !.pc = "rewrite", !.new = text, !.hit = @ \cup {f}]
      OBVIOUS
<1>6. /\ Write(p, n, f, <<>>) /\ last' = Since(f)
      /\ UNCHANGED <<tmp, backups, manifest, patch, bound, clean, written>>
      BY <1>1, <1>3, <1>4, <1>5 DEF OpenEntry
<1>7. Shape
      BY DEF PInv
<1>8. IsRecord(o) /\ a \in Approvals /\ RollingBack(o)
      BY <1>2, <1>7, OwnOp DEF PInv, Working, WorkingOn
<1>9. /\ n.pc = "rewrite" /\ n.appr = a /\ n.todo = o.todo /\ n.missing = o.missing
      /\ n.passed = o.passed /\ n.hit = o.hit \cup {f} /\ n.new = text /\ IsRecord(n)
      BY <1>5, <1>8 DEF IsRecord
<1>10. IsOp(n)
       BY <1>8, <1>9, MakesOp DEF RollsBack
<1>11. /\ k \in DOMAIN manifest /\ f \in Paths
       /\ \A j \in First(o.todo) : j = k
       /\ EachOnce(patch[a]) /\ clean[k] => Holds(backups, manifest[k].backup, bound[a][f])
       BY <1>2, <1>3, EntryFacts
<1>12. EachOnce(patch[a]) /\ clean[k] => text = bound[a][f]
       BY <1>1, <1>4, <1>11 DEF Holds, Gone
<1>13. /\ tmp' = [g \in Paths |-> tmp'[g]] /\ written' = [g \in Paths |-> written'[g]]
       /\ \A g \in Paths \ {f} : tmp'[g] = tmp[g] /\ written'[g] = written[g]
       /\ written'[f] = written[f]
       BY <1>6, <1>7 DEF Shape
<1>14. op'[p] = n
       BY <1>6, <1>7, <1>11, <1>13, WriteChanges
<1>15. \A g \in Paths \ {f} : tree'[g] = tree[g]
       BY <1>6, <1>7, <1>11, <1>13, WriteChanges
<1>16. Rewriting(op[p])'
       BY <1>1, <1>3, <1>6, <1>9, <1>11, <1>12, <1>14 DEF Rewriting, First
<1>17. ASSUME ~o.missing, EachOnce(patch[a])
       PROVE  PutBack(tree', manifest, clean, bound[a], o.passed, o.hit \cup {f})
  <2> SUFFICES ASSUME NEW j \in o.passed, manifest[j].target \notin o.hit \cup {f},
                      \A i \in o.passed : manifest[i].target = manifest[j].target => clean[i]
               PROVE  tree'[manifest[j].target] = bound[a][manifest[j].target]
      BY DEF PutBack
  <2>1. j \in DOMAIN manifest
        BY <1>8, <1>17 DEF RollingBack, Done, EntriesOf
  <2>2. manifest[j].target \in Paths \ {f}
        BY <1>7, <2>1 DEF Shape, IsEntry
  <2>3. tree'[manifest[j].target] = tree[manifest[j].target]
        BY <1>15, <2>2
  <2> QED BY <1>8, <1>17, <2>3 DEF RollingBack, Done, PutBack
<1>18. RollingBack(op[p])'
       BY <1>6, <1>8, <1>9, <1>14, <1>17 DEF RollingBack, Done, EntriesOf
<1>19. WorkingOn(op[p])'
       BY <1>9, <1>14, <1>16, <1>18 DEF WorkingOn, Trying, Recovering
<1>20. UNCHANGED <<backups, manifest, patch, bound, clean>>
       BY <1>6
<1> QED BY <1>2, <1>6, <1>10, <1>11, <1>13, <1>19, <1>20, WriteStep

-----------------------------------------------------------------------------
LEMMA ProposeStep ==
    ASSUME PInv, NEW p \in Procs, NEW a \in Approvals, NEW x \in Patches, ProposePatch(p, a, x)
    PROVE  PInv'
<1>1. Shape
      BY DEF PInv
<1>2. PICK n : n = [Idle EXCEPT !.pc = "hash", !.appr = a]
      OBVIOUS
<1>3. /\ Set(p, n) /\ patch' = [patch EXCEPT ![a] = x] /\ patch[a] \in {None, x}
      /\ UNCHANGED <<tree, tmp, backups, manifest, bound, clean, written, last>>
      BY <1>2 DEF ProposePatch, StartOp
<1>4. n.pc = "hash" /\ n.appr = a /\ n.kept = <<>> /\ IsRecord(n)
      BY <1>2 DEF Idle, IsRecord
<1>5. /\ patch' = [b \in Approvals |-> patch'[b]] /\ patch'[a] = x
      /\ \A b \in Approvals : b # a => patch'[b] = patch[b]
      BY <1>1, <1>3 DEF Shape
<1>6. \A b \in Approvals : patch'[b] \in Patches \cup {None}
      BY <1>1, <1>5 DEF Shape
<1>7. Grown
      BY <1>3, <1>5, PatchEngineAssumption DEF Grown
<1>8. op'[p] = n
      BY <1>1, <1>3, <1>7, NoWrite
<1>9. IsOp(op[p])'
      BY <1>4, <1>5, <1>8 DEF IsOp, IsRecord, Deciding
<1>10. WorkingOn(op[p])'
       BY <1>4, <1>8 DEF WorkingOn, Trying, Recovering, RollsBack
<1>11. /\ IsSeq(backups') /\ IsSeq(manifest') /\ IsSeq(clean') /\ Len(clean') = Len(manifest')
       /\ \A k \in DOMAIN backups' :
             /\ backups'[k] = [of |-> backups'[k].of, text |-> backups'[k].text]
             /\ backups'[k].of \in Paths
       BY <1>1, <1>3 DEF Shape
<1> QED BY <1>3, <1>5, <1>6, <1>7, <1>9, <1>10, <1>11, GrowStep

LEMMA VerifyBaseStep ==
    ASSUME PInv, NEW p \in Procs, VerifyBase(p)
    PROVE  PInv'
<1> DEFINE o == op[p]  a == o.appr  now == Hashes(patch[a])
<1>1. Shape
      BY DEF PInv
<1>2. o.pc = "hash" /\ IsRecord(o) /\ a \in Approvals /\ patch[a] \in Patches /\ o.kept = <<>>
      BY <1>1, OwnOp DEF VerifyBase, Shape, IsOp
<1>3. /\ bound' = BindTo(a, now)
      /\ UNCHANGED <<tree, tmp, backups, manifest, patch, clean, written, last>>
      BY DEF VerifyBase
<1>4. a \in DOMAIN bound' /\ \A b \in DOMAIN bound : b \in DOMAIN bound' /\ bound'[b] = bound[b]
      BY <1>3 DEF BindTo
<1>5. Grown
      BY <1>3, <1>4 DEF Grown
<1>6. PICK n : /\ Set(p, n)
               /\ \/ n = Idle
                  \/ bound'[a] = now /\ n = [op[p] EXCEPT !.pc = "read", !.i = 1, !.hit = {}]
      BY DEF VerifyBase
<1>7. op'[p] = n
      BY <1>1, <1>3, <1>5, <1>6, NoWrite
<1>8. IsOp(op[p])' /\ WorkingOn(op[p])'
  <2>1. CASE n = Idle
        BY <1>7, <2>1, IdleShape DEF IsOp, WorkingOn, Trying, Recovering, RollsBack
  <2>2. CASE bound'[a] = now /\ n = [op[p] EXCEPT !.pc = "read", !.i = 1, !.hit = {}]
    <3>1. /\ n.pc = "read" /\ n.appr = a /\ n.i = 1 /\ n.hit = {} /\ n.kept = <<>>
          /\ IsRecord(n)
          BY <1>2, <2>2 DEF IsRecord
    <3>2. IsOp(n)
          BY <1>2, <3>1, MakesOp DEF Trying
    <3>3. IsOp(op[p])'
          BY <1>3, <1>7, <3>2 DEF IsOp
    <3>4. /\ 1 \in DOMAIN patch[a].targets
          /\ \A j \in DOMAIN patch[a].targets : patch[a].targets[j] \in Targets(patch[a])
          BY <1>2, ApprovalFacts
    <3>5. \A f \in Targets(patch[a]) : tree[f] = bound'[a][f]
          BY <2>2 DEF Hashes
    <3>6. Ahead(op[p])'
          BY <1>3, <1>7, <3>1, <3>4, <3>5 DEF Ahead
    <3>7. OnTarget(op[p])'
          BY <1>7, <3>1, <3>6 DEF OnTarget
    <3>8. Backed(op[p])'
          BY <1>3, <1>7, <3>1, <3>5, EmptyShape DEF Backed
    <3>9. WorkingOn(op[p])'
          BY <1>2, <1>3, <1>4, <1>7, <3>1, <3>7, <3>8
          DEF WorkingOn, Proposed, Trying, Recovering, RollsBack
    <3> QED BY <3>3, <3>9
  <2> QED BY <1>6, <2>1, <2>2
<1>9. /\ patch' = [b \in Approvals |-> patch'[b]]
      /\ \A b \in Approvals : patch'[b] \in Patches \cup {None}
      /\ IsSeq(backups') /\ IsSeq(manifest') /\ IsSeq(clean') /\ Len(clean') = Len(manifest')
      /\ \A k \in DOMAIN backups' :
            /\ backups'[k] = [of |-> backups'[k].of, text |-> backups'[k].text]
            /\ backups'[k].of \in Paths
      BY <1>1, <1>3 DEF Shape
<1>10. UNCHANGED <<tree, tmp, written, last>> /\ manifest' = manifest
       BY <1>3
<1> QED BY <1>5, <1>6, <1>8, <1>9, <1>10, GrowStep

\* A backup file goes: no thread's step.
LEMMA LoseBackupStep ==
    ASSUME PInv, NEW k \in DOMAIN backups, LoseBackup(k)
    PROVE  PInv'
<1>1. Shape /\ Reported
      BY DEF PInv
<1>2. /\ backups' = [backups EXCEPT ![k].text = Absent]
      /\ UNCHANGED <<tree, tmp, manifest, patch, bound, op, clean, written, last>>
      BY DEF LoseBackup
<1>3. PICK p : p \notin Procs
      BY NoSetContainsEverything
<1>4. IsSeq(backups) /\ DOMAIN backups = 1..Len(backups) /\ Len(backups) \in Nat
  <2>1. IsSeq(backups)
        BY <1>1 DEF Shape
  <2> QED BY <2>1, AppendShape DEF IsSeq
<1>5. /\ IsSeq(backups') /\ DOMAIN backups' = DOMAIN backups
      /\ \A b \in DOMAIN backups : b # k => backups'[b] = backups[b]
      /\ backups'[k] = [backups[k] EXCEPT !.text = Absent]
  <2>1. backups' = [b \in 1..Len(backups) |-> IF b = k THEN [backups[k] EXCEPT !.text = Absent]
                                              ELSE backups[b]]
        BY <1>2, <1>4 DEF IsSeq
  <2>2. Len(backups') = Len(backups)
        BY <1>4, <2>1
  <2> QED BY <1>4, <2>1, <2>2 DEF IsSeq
<1>6. \A b \in DOMAIN backups : backups[b] = [of |-> backups[b].of, text |-> backups[b].text]
      BY <1>1 DEF Shape
<1>7. backups'[k].of = backups[k].of /\ backups'[k].text = Absent
      /\ backups'[k] = [of |-> backups'[k].of, text |-> backups'[k].text]
  <2>1. PICK b : b = backups[k]
        OBVIOUS
  <2>2. backups'[k] = [b EXCEPT !.text = Absent] /\ b = [of |-> b.of, text |-> b.text]
        BY <1>5, <1>6, <2>1
  <2>3. [b EXCEPT !.text = Absent] = [of |-> b.of, text |-> Absent]
        BY <2>2
  <2> QED BY <2>1, <2>2, <2>3
<1>8. Grown
      BY <1>2, <1>5, <1>7 DEF Grown
<1>9. op' = [q \in Procs |-> op'[q]] /\ \A q \in Procs : op'[q] = op[q]
      BY <1>1, <1>2 DEF Shape
<1>10. Changes(p, {}, {})
       BY <1>1, <1>2, <1>8, <1>9, Unhit DEF Changes
<1>11. Reported' /\ (last' = None \/ last' = [outcome |-> last'.outcome, appr |-> last'.appr,
                                              whole |-> last'.whole, passed |-> last'.passed,
                                              hit |-> last'.hit])
       BY <1>1, <1>2, <1>8, ReportKept
<1>12. \A b \in DOMAIN backups' :
          /\ backups'[b] = [of |-> backups'[b].of, text |-> backups'[b].text]
          /\ backups'[b].of \in Paths
  <2> SUFFICES ASSUME NEW b \in DOMAIN backups
               PROVE  /\ backups'[b] = [of |-> backups'[b].of, text |-> backups'[b].text]
                      /\ backups'[b].of \in Paths
      BY <1>5
  <2>1. backups[b].of \in Paths
        BY <1>1 DEF Shape
  <2>2. CASE b = k
        BY <1>7, <2>1, <2>2
  <2>3. CASE b # k
        BY <1>5, <1>6, <2>1, <2>3
  <2> QED BY <2>2, <2>3
<1>13. /\ tree' = [f \in Paths |-> tree'[f]] /\ tmp' = [f \in Paths |-> tmp'[f]]
       /\ written' = [f \in Paths |-> written'[f]]
       /\ patch' = [b \in Approvals |-> patch'[b]]
       /\ \A b \in Approvals : patch'[b] \in Patches \cup {None}
       /\ IsSeq(manifest') /\ IsSeq(clean') /\ Len(clean') = Len(manifest')
       BY <1>1, <1>2 DEF Shape
<1>14. manifest' = manifest /\ written' = written
       BY <1>2
<1> QED BY <1>3, <1>5, <1>10, <1>11, <1>12, <1>13, <1>14, AnyStep

\* Nothing happens, or the server dies: every thread goes on as it was or is gone.
LEMMA StillStep ==
    ASSUME PInv, op' = [q \in Procs |-> op'[q]],
           \A q \in Procs : op'[q] \in {op[q], Idle},
           UNCHANGED <<tree, tmp, backups, manifest, patch, bound, clean, written, last>>
    PROVE  PInv'
<1>0. Shape /\ Faithful /\ WritesRecoverable /\ Working /\ Reported
      BY DEF PInv
<1>1. ASSUME NEW q \in Procs PROVE IsOp(op[q])'
  <2>1. IsOp(op'[q])
        BY <1>0, IdleShape DEF Shape
  <2> QED BY <2>1 DEF IsOp
<1>2. ASSUME NEW q \in Procs PROVE WorkingOn(op[q])'
  <2>1. WorkingOn(op'[q])
        BY <1>0, IdleShape DEF Working
  <2>2. Proposed(op'[q].appr) => Proposed(op[q].appr)'
        BY DEF Proposed
  <2>3. Backed(op'[q]) => Backed(op[q])'
        BY DEF Backed
  <2>4. OnTarget(op'[q]) => OnTarget(op[q])'
        BY DEF OnTarget, Ahead, Saved
  <2>5. Refilling(op'[q]) => Refilling(op[q])'
        BY DEF Refilling
  <2>6. RollingBack(op'[q]) => RollingBack(op[q])'
        BY DEF RollingBack, Done, EntriesOf
  <2>7. Rewriting(op'[q]) => Rewriting(op[q])'
        BY DEF Rewriting
  <2> QED BY <2>1, <2>2, <2>3, <2>4, <2>5, <2>6, <2>7 DEF WorkingOn
<1>3. Working'
      BY <1>2 DEF Working
<1>4. Faithful'
      BY <1>0 DEF Faithful
<1>5. WritesRecoverable'
      BY <1>0 DEF WritesRecoverable, EntriesOf, Kept
<1>6. Shape'
      BY <1>0, <1>1 DEF Shape, IsEntry, Proposed
<1>7. Reported'
      BY <1>0 DEF Reported, FailedRestoresExisting, RollbackRestores, Done, EntriesOf, Proposed
<1> QED BY <1>3, <1>4, <1>5, <1>6, <1>7 DEF PInv

LEMMA PInvInit ==
    ASSUME PatchInit PROVE PInv
<1>1. Shape
  <2>1. \A q \in Procs : IsOp(op[q])
        BY IdleShape DEF PatchInit
  <2>2. tree = [f \in Paths |-> tree[f]]
        BY PatchEngineAssumption DEF PatchInit
  <2>3. IsSeq(backups) /\ IsSeq(manifest) /\ IsSeq(clean) /\ Len(clean) = Len(manifest)
        BY EmptyShape DEF PatchInit
  <2>4. DOMAIN backups = {} /\ DOMAIN manifest = {}
        BY EmptyShape DEF PatchInit
  <2> QED BY <2>1, <2>2, <2>3, <2>4 DEF Shape, PatchInit
<1>2. Faithful
      BY EmptyShape DEF PatchInit, Faithful
<1>3. WritesRecoverable
      BY DEF PatchInit, WritesRecoverable
<1>4. Working
      BY IdleShape DEF PatchInit, Working
<1>5. Reported
      BY DEF PatchInit, Reported
<1> QED BY <1>1, <1>2, <1>3, <1>4, <1>5 DEF PInv

LEMMA PInvStep ==
    ASSUME PInv, [PatchNext]_patchVars
    PROVE  PInv'
<1>1. ASSUME NEW p \in Procs, Steps(p)
      PROVE  PInv'
      BY <1>1, ProposeStep, VerifyBaseStep, ReadStep, SaveStep, NoteStep, WriteTmpStep, ReplaceStep,
         EndRestoreStep, OpenTargetStep, RefillStep, StartRollbackStep, MissBackupStep, TrashStep,
         OpenEntryStep, RewriteEntryStep, EndRollbackStep DEF Steps
<1>2. ASSUME NEW p \in Procs, IOError(p)
      PROVE  PInv'
      BY <1>2, IOErrorStep
<1>3. CASE ServerDies
  <2>1. op' = [q \in Procs |-> op'[q]] /\ \A q \in Procs : op'[q] \in {op[q], Idle}
        BY <1>3 DEF ServerDies
  <2>2. UNCHANGED <<tree, tmp, backups, manifest, patch, bound, clean, written, last>>
        BY <1>3 DEF ServerDies
  <2> QED BY <2>1, <2>2, StillStep
<1>4. ASSUME NEW k \in DOMAIN backups, LoseBackup(k)
      PROVE  PInv'
      BY <1>4, LoseBackupStep
<1>5. CASE UNCHANGED patchVars
  <2>1. op' = [q \in Procs |-> op'[q]] /\ \A q \in Procs : op'[q] \in {op[q], Idle}
        BY <1>5 DEF patchVars, PInv, Shape
  <2>2. UNCHANGED <<tree, tmp, backups, manifest, patch, bound, clean, written, last>>
        BY <1>5 DEF patchVars
  <2> QED BY <2>1, <2>2, StillStep
<1> QED BY <1>1, <1>2, <1>3, <1>4, <1>5 DEF PatchNext

THEOREM PatchInvariant == PatchSpec => []PInv
<1>1. PatchInit => PInv
      BY PInvInit
<1>2. PInv /\ [PatchNext]_patchVars => PInv'
      BY PInvStep
<1> QED BY <1>1, <1>2, PTL DEF PatchSpec

\* A file is replaced in the content the patch was approved on, or another thread has
\* written to it since the check; and even then the new text is the diff carried out on
\* the text it replaces, unless another thread came between the reading and the write.
THEOREM BaseIsApproved == PatchSpec => []ReplacesApprovedBase
<1>1. PInv => ReplacesApprovedBase
  <2> SUFFICES ASSUME PInv, NEW p \in Procs, op[p].pc = "replace"
               PROVE  LET a == op[p].appr
                          f == Target(p)
                      IN /\ EachOnce(patch[a]) /\ f \notin op[p].hit => tree[f] = bound[a][f]
                         /\ f \notin op[p].late => tmp[f] = ApplyDiff(patch[a], tree[f])
      BY DEF ReplacesApprovedBase
  <2>1. op[p].pc \in Trying
        BY DEF Trying
  <2> QED BY <2>1, TargetFacts DEF OnTarget
<1> QED BY <1>1, PatchInvariant, PTL

\* There is a way back from what an apply has written, and a recovery or a rollback that
\* says it is done has gone it, whatever fails in them and whatever other threads do.
THEOREM PatchesRecoverable == PatchSpec => []Recoverable
<1>1. PInv => Recoverable
      BY DEF PInv, Reported, Recoverable, FailedRestoresExisting, RollbackRestores
<1> QED BY <1>1, PatchInvariant, PTL
=============================================================================
