------------------------ MODULE LongTermMemoryProofs ------------------------
(***************************************************************************)
(* Theorems about long-term memory, for any number of callers, subjects,   *)
(* projects and tasks and however their transactions interleave:           *)
(*   StoreStaysConsistent  the index holds what is in force, and replaced  *)
(*                         memories and their successors are linked;       *)
(*   OneDecision           a proposal is decided once, unless two calls    *)
(*                         decide it at the same time;                     *)
(*   NothingStale          no role is given a memory that was gone.        *)
(***************************************************************************)
EXTENDS LongTermMemory, TLAPS

(***************************************************************************)
(* The inductive invariant.                                                *)
(***************************************************************************)
Memory == [scope : Scopes, subject : Subjects, value : Values \cup {Wiped},
           status : {"active", "expired", "superseded", "forgotten"},
           due : Nat, from : Nat, by : Nat]
ProposalRow == [scope : Scopes, subject : Subjects, value : Values,
                status : {"proposed", "confirmed", "rejected"}, due : Nat, observed : BOOLEAN]
Run == [scope : Scopes, refs : SUBSET Nat, applied : SUBSET (Nat \X (Values \cup {Wiped})),
        used : SUBSET Nat, ready : BOOLEAN]
Decision == {"confirmed", "rejected"}

\* The shape of the tables and of the checkpoint.
Rows ==
    /\ memories \in Seq(Memory)
    /\ proposals \in Seq(ProposalRow)
    /\ decided \in Seq(Seq(Decision)) /\ Len(decided) = Len(proposals)
    /\ runs \in Seq(Run)
    /\ now \in Nat
    /\ call = [c \in Callers |-> call[c]]

\* The index and the links between memories; what is in force was not wiped.
Linked ==
    /\ index = {m \in DOMAIN memories : Active(m)}
    /\ \A m \in DOMAIN memories :
         /\ memories[m].from # None => /\ memories[m].from \in DOMAIN memories
                                       /\ ~Active(memories[m].from)
         /\ memories[m].by # None => /\ memories[m].by \in DOMAIN memories
                                     /\ memories[memories[m].by].from = m
         /\ Active(m) => memories[m].value \in Values

\* A memory of the scope of a run.
OfScope(m, scope) == m \in DOMAIN memories /\ InScope(m, scope)

\* What a run took into its checkpoint is of its scope.
Scoped ==
    \A r \in DOMAIN runs :
        /\ \A m \in runs[r].refs : OfScope(m, runs[r].scope)
        /\ \A h \in runs[r].applied : OfScope(h[1], runs[r].scope)

\* One call of resolve: what it was given was in force when it was read, so it is not
\* among what was gone when the call began.
Load == [pc : {"load"}, r : Nat, todo : SUBSET Nat, got : SUBSET (Nat \X Values), gone : SUBSET Nat,
         then : {Idle} \cup [pc : {"detect"}, r : Nat]]
Clean(k) ==
    /\ k \in Load
    /\ k.r \in DOMAIN runs
    /\ k.then.pc = "detect" => k.then.r \in DOMAIN runs
    /\ \A m \in k.gone : m \in DOMAIN memories /\ ~Active(m)
    /\ \A m \in k.todo : OfScope(m, runs[k.r].scope)
    /\ \A g \in k.got : g[1] \notin k.gone /\ OfScope(g[1], runs[k.r].scope)

\* What a caller knows when it is about to do k.
Sound(k) ==
    /\ k.pc = "confirm" => /\ k.p \in DOMAIN proposals /\ k.value \in Values
                           /\ k.old \in DOMAIN memories \cup {None}
    /\ k.pc \in {"confirmNext", "reject", "replace"} => k.p \in DOMAIN proposals
    /\ k.pc = "replace" => k.to \in Projects
    /\ k.pc \in {"signal", "count", "observed"} =>
         k \in [pc : {"signal", "count", "observed"}, f : Facts, value : Values, task : Tasks, at : Nat]
    /\ k.pc = "forget" => k \in [pc : {"forget"}, todo : SUBSET (DOMAIN memories)]
    /\ k.pc = "refs" => k.scope \in Scopes
    /\ k.pc \in {"count task", "profile"} =>
         /\ k \in [pc : {"count task", "profile"}, scope : Scopes, refs : SUBSET Nat]
         /\ \A m \in k.refs : OfScope(m, k.scope)
    /\ k.pc = "detect" => k.r \in DOMAIN runs
    /\ k.pc = "load" => Clean(k)
    /\ k.pc \in {"get", "use"} => Clean(k.load) /\ OfScope(k.m, runs[k.load.r].scope)
    /\ k.pc = "use" => k.m \notin k.load.gone /\ k.value \in Values

\* The same of what it goes on with.
Fit(k) ==
    /\ Sound(k)
    /\ k.pc = "expire" => k.then.pc \in {"list", "refs", "profile", "get"} /\ Sound(k.then)
    /\ k.pc = "reject" => k.then.pc \in {"idle", "quiet", "replace"} /\ Sound(k.then)

Fits == \A c \in Callers : \E k : k = call[c] /\ Fit(k)

\* A proposal that no two calls decide at once has one decision, before or after it.
Decisions ==
    \A p \in DOMAIN proposals \ overlapped :
        /\ Len(decided[p]) <= 1
        /\ proposals[p].status = "proposed" => decided[p] = <<>>
        /\ \A c \in Deciding(p) : decided[p] = <<>>
        /\ \A c, d \in Deciding(p) : c = d

Inv == Rows /\ Linked /\ Scoped /\ Fits /\ Decisions
----------------------------------------------------------------------------
\* A row more, at the end of a table.
LEMMA AppendRow ==
    ASSUME NEW S, NEW s \in Seq(S), NEW e \in S
    PROVE  /\ Append(s, e) \in Seq(S) /\ Len(Append(s, e)) = Len(s) + 1
           /\ Len(s) \in Nat /\ DOMAIN s = 1..Len(s) /\ Len(s) + 1 \notin DOMAIN s
           /\ DOMAIN Append(s, e) = DOMAIN s \cup {Len(s) + 1}
           /\ \A i \in DOMAIN s : Append(s, e)[i] = s[i] /\ s[i] \in S
           /\ Append(s, e)[Len(s) + 1] = e
OBVIOUS

\* Other rows in the same places.
LEMMA UpdateRows ==
    ASSUME NEW S, NEW s \in Seq(S), NEW t, t = [i \in DOMAIN s |-> t[i]], \A i \in DOMAIN s : t[i] \in S
    PROVE  t \in Seq(S) /\ Len(t) = Len(s) /\ DOMAIN t = DOMAIN s
<1>1. Len(s) \in Nat /\ DOMAIN s = 1..Len(s)
      OBVIOUS
<1>2. DOMAIN t = 1..Len(s) /\ t \in [1..Len(s) -> S]
      BY <1>1
<1>3. t \in Seq(S)
      BY <1>1, <1>2
<1>4. Len(t) = Len(s)
      BY <1>1, <1>2, <1>3
<1>5. QED BY <1>1, <1>2, <1>3, <1>4

\* What is in the tables.
LEMMA RowTypes ==
    ASSUME Rows
    PROVE  /\ \A m \in DOMAIN memories : memories[m] \in Memory
           /\ \A p \in DOMAIN proposals : proposals[p] \in ProposalRow
           /\ \A r \in DOMAIN runs : runs[r] \in Run
           /\ DOMAIN decided = DOMAIN proposals
           /\ \A p \in DOMAIN proposals : decided[p] \in Seq(Decision)
           /\ DOMAIN memories \subseteq Nat \ {0} /\ DOMAIN runs \subseteq Nat
           /\ DOMAIN proposals \subseteq Nat
<1> USE DEF Rows
<1>1. \A m \in DOMAIN memories : memories[m] \in Memory
      OBVIOUS
<1>2. \A p \in DOMAIN proposals : proposals[p] \in ProposalRow
      OBVIOUS
<1>3. \A r \in DOMAIN runs : runs[r] \in Run
      OBVIOUS
<1>4. DOMAIN decided = DOMAIN proposals
      OBVIOUS
<1>5. \A p \in DOMAIN decided : decided[p] \in Seq(Decision)
      OBVIOUS
<1>6. DOMAIN memories \subseteq Nat \ {0} /\ DOMAIN runs \subseteq Nat /\ DOMAIN proposals \subseteq Nat
      OBVIOUS
<1>7. QED BY <1>1, <1>2, <1>3, <1>4, <1>5, <1>6

\* Tables only grow, a memory keeps its scope, and what is not in force stays so.
Grows ==
    /\ DOMAIN memories \subseteq DOMAIN memories'
    /\ \A m \in DOMAIN memories : /\ memories'[m].scope = memories[m].scope
                                  /\ ~Active(m) => ~Active(m)'
    /\ DOMAIN proposals \subseteq DOMAIN proposals'
    /\ DOMAIN runs \subseteq DOMAIN runs'
    /\ \A r \in DOMAIN runs : runs'[r].scope = runs[r].scope

\* What a caller knew stays true as the tables grow.
LEMMA SoundKept ==
    ASSUME Grows, NEW k, Sound(k)
    PROVE  Sound(k)'
<1>1. \A m, scope : OfScope(m, scope) => OfScope(m, scope)'
      BY DEF Grows, OfScope, InScope
<1>2. ASSUME NEW l, Clean(l) PROVE Clean(l)' /\ runs'[l.r].scope = runs[l.r].scope
  <2>1. l.r \in DOMAIN runs /\ l.r \in DOMAIN runs' /\ runs'[l.r].scope = runs[l.r].scope
        BY <1>2 DEF Grows, Clean
  <2>2. l \in Load /\ (l.then.pc = "detect" => l.then.r \in DOMAIN runs')
        BY <1>2 DEF Grows, Clean
  <2>3. \A m \in l.gone : m \in DOMAIN memories' /\ ~Active(m)'
        BY <1>2 DEF Grows, Clean
  <2>4. \A m \in l.todo : OfScope(m, runs[l.r].scope)'
        BY <1>1, <1>2, <2>1 DEF Clean, OfScope, InScope
  <2>5. QED
        BY <1>1, <1>2, <2>1, <2>2, <2>3, <2>4 DEF Clean, OfScope, InScope
<1>3. k.pc \in {"load", "get", "use"} =>
        /\ k.pc = "load" => Clean(k)'
        /\ k.pc \in {"get", "use"} => Clean(k.load)' /\ OfScope(k.m, runs[k.load.r].scope)'
  <2>1. k.pc = "load" => Clean(k)'
        BY <1>2 DEF Sound
  <2>2. ASSUME k.pc \in {"get", "use"} PROVE Clean(k.load)' /\ OfScope(k.m, runs[k.load.r].scope)'
    <3>1. Clean(k.load) /\ OfScope(k.m, runs[k.load.r].scope)
          BY <2>2 DEF Sound
    <3>2. Clean(k.load)' /\ runs'[k.load.r].scope = runs[k.load.r].scope
          BY <1>2, <3>1
    <3>3. QED BY <3>1, <3>2 DEF Grows, OfScope, InScope
  <2>3. QED BY <2>1, <2>2
<1>4. k.pc \in {"count task", "profile"} => \A m \in k.refs : OfScope(m, k.scope)'
      BY <1>1 DEF Sound
<1>5. QED BY <1>3, <1>4 DEF Sound, Grows

LEMMA FitKept ==
    ASSUME Grows, NEW k, Fit(k)
    PROVE  Fit(k)'
<1>1. Sound(k)'
      BY SoundKept DEF Fit
<1>2. k.pc \in {"expire", "reject"} => Sound(k.then)'
      BY SoundKept DEF Fit
<1>3. QED BY <1>1, <1>2 DEF Fit

\* A caller goes on with k; the others wait.
LEMMA FitsMove ==
    ASSUME Rows, Fits, Grows, NEW c \in Callers, NEW k, Goto(c, k), Fit(k)'
    PROVE  /\ Fits'
           /\ call'[c] = k /\ \A d \in Callers \ {c} : call'[d] = call[d]
           /\ call' = [d \in Callers |-> call'[d]]
<1>1. /\ call'[c] = k /\ \A d \in Callers \ {c} : call'[d] = call[d]
      /\ call' = [d \in Callers |-> call'[d]]
      BY DEF Rows, Goto
<1>2. ASSUME NEW d \in Callers PROVE \E x : x = call'[d] /\ Fit(x)'
  <2>1. CASE d = c
        BY <1>1, <2>1
  <2>2. CASE d # c
    <3>1. PICK x : x = call[d] /\ Fit(x)
          BY DEF Fits
    <3>2. Fit(x)'
          BY <3>1, FitKept
    <3>3. QED BY <1>1, <2>2, <3>1, <3>2
  <2>3. QED BY <2>1, <2>2
<1>3. QED BY <1>1, <1>2 DEF Fits
----------------------------------------------------------------------------
\* A proposal more.
LEMMA Proposed ==
    ASSUME Rows, NEW row \in ProposalRow, row.status = "proposed", AddProposal(row)
    PROVE  /\ proposals' \in Seq(ProposalRow)
           /\ decided' \in Seq(Seq(Decision)) /\ Len(decided') = Len(proposals')
           /\ DOMAIN proposals' = DOMAIN proposals \cup {Len(proposals) + 1}
           /\ \A p \in DOMAIN proposals : proposals'[p] = proposals[p] /\ decided'[p] = decided[p]
           /\ Len(proposals) + 1 \notin DOMAIN proposals
           /\ decided'[Len(proposals) + 1] = <<>>
<1>1. <<>> \in Seq(Decision)
      OBVIOUS
<1>2. /\ proposals' = Append(proposals, row) /\ decided' = Append(decided, <<>>)
      /\ proposals \in Seq(ProposalRow) /\ decided \in Seq(Seq(Decision))
      /\ Len(decided) = Len(proposals)
      BY DEF AddProposal, Rows
<1>3. /\ proposals' \in Seq(ProposalRow) /\ Len(proposals') = Len(proposals) + 1
      /\ DOMAIN proposals' = DOMAIN proposals \cup {Len(proposals) + 1}
      /\ \A p \in DOMAIN proposals : proposals'[p] = proposals[p]
      /\ Len(proposals) + 1 \notin DOMAIN proposals
      BY <1>2, AppendRow
<1>4. /\ decided' \in Seq(Seq(Decision)) /\ Len(decided') = Len(decided) + 1
      /\ \A p \in DOMAIN decided : decided'[p] = decided[p]
      /\ decided'[Len(decided) + 1] = <<>>
      BY <1>1, <1>2, AppendRow
<1>5. QED BY <1>2, <1>3, <1>4, RowTypes

\* A caller that does not decide next leaves the decisions as they are.
LEMMA DecisionsWait ==
    ASSUME Inv, NEW c \in Callers, NEW k, call'[c] = k,
           \A d \in Callers \ {c} : call'[d] = call[d],
           k.pc \notin {"confirm", "reject"}, overlapped' = overlapped,
           \/ UNCHANGED <<proposals, decided>>
           \/ \E row \in ProposalRow : row.status = "proposed" /\ AddProposal(row)
    PROVE  Decisions'
<1>0. Rows /\ Fits /\ Decisions
      BY DEF Inv
<1>1. \A p : Deciding(p)' \subseteq Deciding(p)
      BY DEF Deciding
<1>2. \A p : Deciding(p) # {} => p \in DOMAIN proposals
  <2>1. \A d \in Callers : call[d].pc \in {"confirm", "reject"} => call[d].p \in DOMAIN proposals
    <3> SUFFICES ASSUME NEW d \in Callers, call[d].pc \in {"confirm", "reject"}
                 PROVE  call[d].p \in DOMAIN proposals
        OBVIOUS
    <3>1. Fit(call[d])
          BY <1>0 DEF Fits
    <3>2. Sound(call[d])
          BY <3>1 DEF Fit
    <3>3. QED BY <3>2 DEF Sound
  <2>2. QED BY <2>1 DEF Deciding
<1>3. CASE UNCHANGED <<proposals, decided>>
      BY <1>0, <1>1, <1>3 DEF Decisions
<1>4. ASSUME NEW row \in ProposalRow, row.status = "proposed", AddProposal(row) PROVE Decisions'
  <2>1. /\ DOMAIN proposals' = DOMAIN proposals \cup {Len(proposals) + 1}
        /\ \A p \in DOMAIN proposals : proposals'[p] = proposals[p] /\ decided'[p] = decided[p]
        /\ Len(proposals) + 1 \notin DOMAIN proposals
        /\ decided'[Len(proposals) + 1] = <<>>
        BY <1>0, <1>4, Proposed
  <2>2. ASSUME NEW p \in DOMAIN proposals' \ overlapped'
        PROVE  /\ Len(decided'[p]) <= 1
               /\ proposals'[p].status = "proposed" => decided'[p] = <<>>
               /\ \A d \in Deciding(p)' : decided'[p] = <<>>
               /\ \A d, e \in Deciding(p)' : d = e
    <3>1. CASE p \in DOMAIN proposals
          BY <1>0, <1>1, <2>1, <3>1 DEF Decisions
    <3>2. CASE p \notin DOMAIN proposals
      <4>1. decided'[p] = <<>> /\ Deciding(p)' = {}
            BY <1>1, <1>2, <2>1, <3>2
      <4>2. QED BY <4>1
    <3>3. QED BY <3>1, <3>2
  <2>3. QED BY <2>2 DEF Decisions
<1>5. QED BY <1>3, <1>4

\* Steps that read, and steps that add a proposal or a run.
LEMMA AddStep ==
    ASSUME Inv, NEW c \in Callers, NEW k, Goto(c, k), Fit(k)', k.pc \notin {"confirm", "reject"},
           UNCHANGED <<memories, index, overlapped, now>>,
           \/ UNCHANGED <<proposals, decided>>
           \/ \E row \in ProposalRow : row.status = "proposed" /\ AddProposal(row),
           runs' \in Seq(Run), DOMAIN runs \subseteq DOMAIN runs',
           \A r \in DOMAIN runs : /\ runs'[r].scope = runs[r].scope
                                  /\ runs'[r].refs = runs[r].refs
                                  /\ runs'[r].applied = runs[r].applied,
           \A r \in DOMAIN runs' \ DOMAIN runs :
                /\ \A m \in runs'[r].refs : OfScope(m, runs'[r].scope)
                /\ \A h \in runs'[r].applied : OfScope(h[1], runs'[r].scope)
    PROVE  Inv'
<1>0. Rows /\ Linked /\ Scoped /\ Fits
      BY DEF Inv
<1>1. /\ proposals' \in Seq(ProposalRow) /\ DOMAIN proposals \subseteq DOMAIN proposals'
      /\ decided' \in Seq(Seq(Decision)) /\ Len(decided') = Len(proposals')
  <2>1. CASE UNCHANGED <<proposals, decided>>
        BY <1>0, <2>1 DEF Rows
  <2>2. CASE \E row \in ProposalRow : row.status = "proposed" /\ AddProposal(row)
        BY <1>0, <2>2, Proposed
  <2>3. QED BY <2>1, <2>2
<1>2. Grows
      BY <1>1 DEF Grows, Active
<1>3. /\ Fits' /\ call'[c] = k /\ \A d \in Callers \ {c} : call'[d] = call[d]
      /\ call' = [d \in Callers |-> call'[d]]
      BY <1>0, <1>2, FitsMove
<1>4. Rows'
      BY <1>0, <1>1, <1>3 DEF Rows
<1>5. Linked'
      BY <1>0 DEF Linked, Active
<1>6. Scoped'
  <2>1. \A r \in DOMAIN runs' : /\ \A m \in runs'[r].refs : OfScope(m, runs'[r].scope)
                                /\ \A h \in runs'[r].applied : OfScope(h[1], runs'[r].scope)
        BY <1>0 DEF Scoped
  <2>2. QED BY <2>1 DEF Scoped, OfScope, InScope
<1>7. Decisions'
      BY <1>3, DecisionsWait
<1>8. QED BY <1>3, <1>4, <1>5, <1>6, <1>7 DEF Inv

\* Steps that only read.
LEMMA ReadStep ==
    ASSUME Inv, NEW c \in Callers, NEW k, Goto(c, k), Fit(k), k.pc \notin {"confirm", "reject"},
           UNCHANGED <<memories, index, proposals, decided, overlapped, runs, now>>
    PROVE  Inv'
<1>1. Fit(k)'
  <2>1. Grows
        BY DEF Grows, Active
  <2>2. QED BY <2>1, FitKept
<1>2. runs \in Seq(Run)
      BY DEF Inv, Rows
<1>3. QED BY <1>1, <1>2, AddStep

\* A caller has read that a proposal is open, and will decide it.
LEMMA BeginDecision ==
    ASSUME Inv, NEW c \in Callers, NEW k, Goto(c, k), Fit(k), k.pc \in {"confirm", "reject"},
           call[c].pc \notin {"confirm", "reject"},
           k.p \in DOMAIN proposals, proposals[k.p].status = "proposed",
           overlapped' = overlapped \cup (IF Deciding(k.p) = {} THEN {} ELSE {k.p}),
           UNCHANGED <<memories, index, proposals, decided, runs, now>>
    PROVE  Inv'
<1>0. Rows /\ Linked /\ Scoped /\ Fits /\ Decisions
      BY DEF Inv
<1>1. Grows
      BY DEF Grows, Active
<1>2. Fit(k)'
      BY <1>1, FitKept
<1>3. /\ Fits' /\ call'[c] = k /\ \A d \in Callers \ {c} : call'[d] = call[d]
      /\ call' = [d \in Callers |-> call'[d]]
      BY <1>0, <1>1, <1>2, FitsMove
<1>4. Rows' /\ Linked' /\ Scoped'
      BY <1>0, <1>3 DEF Rows, Linked, Active, Scoped, OfScope, InScope
<1>5. ASSUME NEW p \in DOMAIN proposals \ overlapped'
      PROVE  /\ Len(decided[p]) <= 1
             /\ proposals[p].status = "proposed" => decided[p] = <<>>
             /\ \A d \in Deciding(p)' : decided[p] = <<>>
             /\ \A d, e \in Deciding(p)' : d = e
  <2>1. CASE p = k.p
    <3>1. Deciding(p) = {} /\ p \notin overlapped
          BY <1>5, <2>1
    <3>2. Deciding(p)' \subseteq {c}
          BY <1>3, <3>1 DEF Deciding
    <3>3. QED BY <1>0, <2>1, <3>1, <3>2 DEF Decisions
  <2>2. CASE p # k.p
    <3>1. Deciding(p)' \subseteq Deciding(p)
          BY <1>3, <2>2 DEF Deciding
    <3>2. QED BY <1>0, <1>5, <3>1 DEF Decisions
  <2>3. QED BY <2>1, <2>2
<1>6. Decisions'
      BY <1>5 DEF Decisions
<1>7. QED BY <1>3, <1>4, <1>6 DEF Inv

\* A decision is committed: nobody else has one to take, or the proposal is overlapped.
LEMMA DecisionsTaken ==
    ASSUME Inv, NEW c \in Callers, call[c].pc \in {"confirm", "reject"},
           NEW p \in DOMAIN proposals, p = call[c].p,
           NEW k, call'[c] = k, \A d \in Callers \ {c} : call'[d] = call[d],
           k.pc \notin {"confirm", "reject"},
           NEW outcome \in Decision,
           proposals' = [proposals EXCEPT ![p].status = outcome],
           decided' = [decided EXCEPT ![p] = Append(@, outcome)],
           overlapped' = overlapped
    PROVE  /\ Decisions'
           /\ proposals' \in Seq(ProposalRow) /\ DOMAIN proposals' = DOMAIN proposals
           /\ decided' \in Seq(Seq(Decision)) /\ Len(decided') = Len(proposals')
<1>0. Rows /\ Decisions
      BY DEF Inv
<1>1. /\ proposals'[p] \in ProposalRow /\ proposals'[p].status = outcome
      /\ \A q \in DOMAIN proposals \ {p} : proposals'[q] = proposals[q]
      /\ proposals' = [q \in DOMAIN proposals |-> proposals'[q]]
  <2>1. proposals[p] \in ProposalRow
        BY <1>0, RowTypes
  <2>2. /\ proposals'[p] = [proposals[p] EXCEPT !.status = outcome]
        /\ \A q \in DOMAIN proposals \ {p} : proposals'[q] = proposals[q]
        /\ proposals' = [q \in DOMAIN proposals |-> proposals'[q]]
        BY <1>0 DEF Rows
  <2>3. QED BY <2>1, <2>2 DEF ProposalRow, Decision
<1>2. /\ proposals' \in Seq(ProposalRow) /\ DOMAIN proposals' = DOMAIN proposals
      /\ Len(proposals') = Len(proposals)
  <2>1. proposals \in Seq(ProposalRow) /\ \A q \in DOMAIN proposals : proposals[q] \in ProposalRow
        BY <1>0, RowTypes DEF Rows
  <2>2. \A q \in DOMAIN proposals : proposals'[q] \in ProposalRow
        BY <1>1, <2>1
  <2>3. QED BY <1>1, <2>1, <2>2, UpdateRows
<1>3. /\ DOMAIN decided = DOMAIN proposals /\ decided \in Seq(Seq(Decision))
      /\ Len(decided) = Len(proposals)
      /\ \A q \in DOMAIN decided : decided[q] \in Seq(Decision)
      BY <1>0, RowTypes DEF Rows
<1>4. /\ decided'[p] = Append(decided[p], outcome)
      /\ \A q \in DOMAIN decided \ {p} : decided'[q] = decided[q]
      /\ decided' = [q \in DOMAIN decided |-> decided'[q]]
      BY <1>3
<1>5. decided' \in Seq(Seq(Decision)) /\ Len(decided') = Len(decided)
  <2>1. Append(decided[p], outcome) \in Seq(Decision)
        BY <1>3, AppendRow
  <2>2. \A q \in DOMAIN decided : decided'[q] \in Seq(Decision)
        BY <1>3, <1>4, <2>1
  <2>3. QED BY <1>3, <1>4, <2>2, UpdateRows
<1>6. ASSUME NEW q \in DOMAIN proposals \ overlapped
      PROVE  /\ Len(decided'[q]) <= 1
             /\ proposals'[q].status = "proposed" => decided'[q] = <<>>
             /\ \A d \in Deciding(q)' : decided'[q] = <<>>
             /\ \A d, e \in Deciding(q)' : d = e
  <2>1. Deciding(q)' \subseteq Deciding(q) \ {c}
        BY DEF Deciding
  <2>2. CASE q = p
    <3>1. c \in Deciding(p)
          BY DEF Deciding
    <3>2. decided[p] = <<>> /\ Deciding(p)' = {}
          BY <1>0, <1>6, <2>1, <2>2, <3>1 DEF Decisions
    <3>3. Len(decided'[p]) = 1
      <4>1. Len(Append(<<>>, outcome)) = 1
            OBVIOUS
      <4>2. QED BY <1>4, <3>2, <4>1
    <3>4. outcome # "proposed"
          BY DEF Decision
    <3>5. QED BY <1>1, <2>2, <3>2, <3>3, <3>4
  <2>3. CASE q # p
    <3>1. decided'[q] = decided[q] /\ proposals'[q] = proposals[q]
          BY <1>1, <1>3, <1>4, <2>3
    <3>2. QED BY <1>0, <1>6, <2>1, <3>1 DEF Decisions
  <2>4. QED BY <2>2, <2>3
<1>7. Decisions'
      BY <1>2, <1>6 DEF Decisions
<1>8. QED BY <1>2, <1>3, <1>5, <1>7

\* Memories that were in force, or were not, are not any more.
LEMMA MemoriesLeave ==
    ASSUME Rows, Linked, NEW gone,
           memories' = [m \in DOMAIN memories |-> memories'[m]],
           \A m \in DOMAIN memories :
               /\ memories'[m] \in Memory
               /\ memories'[m].scope = memories[m].scope
               /\ memories'[m].from = memories[m].from
               /\ memories'[m].by = memories[m].by
               /\ m \in gone => memories'[m].status # "active"
               /\ m \notin gone => memories'[m] = memories[m],
           index' = index \ gone
    PROVE  /\ memories' \in Seq(Memory) /\ DOMAIN memories' = DOMAIN memories
           /\ Linked'
           /\ \A m \in DOMAIN memories : ~Active(m) => ~Active(m)'
<1>1. memories' \in Seq(Memory) /\ DOMAIN memories' = DOMAIN memories
      BY UpdateRows DEF Rows
<1>2. \A m \in DOMAIN memories : Active(m)' <=> Active(m) /\ m \notin gone
      BY DEF Active
<1>3. index' = {m \in DOMAIN memories' : Active(m)'}
      BY <1>1, <1>2 DEF Linked
<1>4. ASSUME NEW m \in DOMAIN memories
      PROVE  /\ memories'[m].from # None => /\ memories'[m].from \in DOMAIN memories
                                            /\ ~Active(memories[m].from)'
             /\ memories'[m].by # None => /\ memories'[m].by \in DOMAIN memories
                                          /\ memories'[memories'[m].by].from = m
             /\ Active(m)' => memories'[m].value \in Values
  <2>1. memories'[m].from # None => memories[m].from \in DOMAIN memories /\ ~Active(memories[m].from)'
        BY <1>2 DEF Linked
  <2>2. memories'[m].by # None => /\ memories'[m].by \in DOMAIN memories
                                  /\ memories'[memories'[m].by].from = m
        BY DEF Linked
  <2>3. Active(m)' => memories'[m].value \in Values
        BY <1>2 DEF Linked
  <2>4. QED BY <2>1, <2>2, <2>3
<1>5. Linked'
      BY <1>1, <1>3, <1>4 DEF Linked, Active
<1>6. QED BY <1>1, <1>2, <1>5

\* Forgetting and expiry, by caller c.
LEMMA LeaveStep ==
    ASSUME Inv, NEW c \in Callers, NEW k, Goto(c, k), Fit(k), k.pc \notin {"confirm", "reject"},
           NEW gone,
           memories' = [m \in DOMAIN memories |-> memories'[m]],
           \A m \in DOMAIN memories :
               /\ memories'[m] \in Memory
               /\ memories'[m].scope = memories[m].scope
               /\ memories'[m].from = memories[m].from
               /\ memories'[m].by = memories[m].by
               /\ m \in gone => memories'[m].status # "active"
               /\ m \notin gone => memories'[m] = memories[m],
           index' = index \ gone,
           UNCHANGED <<proposals, decided, overlapped, runs, now>>
    PROVE  Inv'
<1>0. Rows /\ Linked /\ Scoped /\ Fits
      BY DEF Inv
<1>1. /\ memories' \in Seq(Memory) /\ DOMAIN memories' = DOMAIN memories
      /\ Linked'
      /\ \A m \in DOMAIN memories : ~Active(m) => ~Active(m)'
      BY <1>0, MemoriesLeave
<1>2. Grows
      BY <1>1 DEF Grows
<1>3. Fit(k)'
      BY <1>2, FitKept
<1>4. /\ Fits' /\ call'[c] = k /\ \A d \in Callers \ {c} : call'[d] = call[d]
      /\ call' = [d \in Callers |-> call'[d]]
      BY <1>0, <1>2, <1>3, FitsMove
<1>5. Rows'
      BY <1>0, <1>1, <1>4 DEF Rows
<1>6. Scoped'
      BY <1>0, <1>1 DEF Scoped, OfScope, InScope
<1>7. Decisions'
      BY <1>4, DecisionsWait
<1>8. QED BY <1>1, <1>4, <1>5, <1>6, <1>7 DEF Inv
----------------------------------------------------------------------------
\* What the invariant says of the call a caller is in.
LEMMA InCall ==
    ASSUME Inv, NEW c \in Callers
    PROVE  Fit(call[c]) /\ Sound(call[c])
BY DEF Inv, Fits, Fit

\* A call that has nothing to remember, or expires what is due before it goes on.
LEMMA FreeCall ==
    /\ Fit(Idle) /\ Idle.pc = "idle"
    /\ \A next : Sound(next) /\ next.pc \in {"list", "refs", "profile", "get"} =>
         Fit(AfterExpiry(next)) /\ AfterExpiry(next).pc \in {"expire", next.pc}
<1>1. Fit(Idle) /\ Idle.pc = "idle"
      BY DEF Fit, Sound, Idle
<1>2. ASSUME NEW next, Sound(next), next.pc \in {"list", "refs", "profile", "get"}
      PROVE  Fit(AfterExpiry(next)) /\ AfterExpiry(next).pc \in {"expire", next.pc}
  <2>1. CASE Due = {}
    <3>1. AfterExpiry(next) = next
          BY <2>1 DEF AfterExpiry
    <3>2. QED BY <1>2, <3>1 DEF Fit
  <2>2. CASE Due # {}
    <3>1. PICK k : k = [pc |-> "expire", due |-> Due, then |-> next] /\ k = AfterExpiry(next)
          BY <2>2 DEF AfterExpiry
    <3>2. k.pc = "expire" /\ k.then = next
          BY <3>1
    <3>3. Sound(k)
          BY <3>2 DEF Sound
    <3>4. QED BY <1>2, <3>1, <3>2, <3>3 DEF Fit
  <2>3. QED BY <2>1, <2>2
<1>3. QED BY <1>1, <1>2

\* The calls of a person that read before they write.
LEMMA PersonReads ==
    ASSUME Inv, NEW c \in Callers,
           \/ ForgetAll(c)
           \/ \E s \in SettingsInputs : SaveSettings(c, s)
           \/ \E scope \in Scopes : Start(c, scope)
    PROVE  Inv'
<1>1. CASE ForgetAll(c)
  <2>1. PICK k : k = AfterExpiry([pc |-> "list"]) /\ Goto(c, k)
        BY <1>1 DEF ForgetAll, Begin
  <2>2. Sound([pc |-> "list"])
        BY DEF Sound
  <2>3. Fit(k) /\ k.pc \notin {"confirm", "reject"}
        BY <2>1, <2>2, FreeCall
  <2>4. QED BY <1>1, <2>1, <2>3, ReadStep DEF ForgetAll, store
<1>2. ASSUME NEW s \in SettingsInputs, SaveSettings(c, s) PROVE Inv'
  <2>1. Goto(c, Idle) /\ UNCHANGED <<memories, index, proposals, decided, overlapped, runs, now>>
        BY <1>2 DEF SaveSettings, Begin, store
  <2>2. QED BY <2>1, FreeCall, ReadStep
<1>3. ASSUME NEW scope \in Scopes, Start(c, scope) PROVE Inv'
  <2>1. PICK k : k = AfterExpiry([pc |-> "refs", scope |-> scope]) /\ Goto(c, k)
        BY <1>3 DEF Start, Begin
  <2>2. Sound([pc |-> "refs", scope |-> scope])
        BY DEF Sound
  <2>3. Fit(k) /\ k.pc \notin {"confirm", "reject"}
        BY <2>1, <2>2, FreeCall
  <2>4. QED BY <1>3, <2>1, <2>3, ReadStep DEF Start, store
<1>4. QED BY <1>1, <1>2, <1>3

\* Preference signals are observed, saved and counted.
LEMMA SignalReads ==
    ASSUME Inv, NEW c \in Callers,
           \/ \E f \in Facts, v \in Values, t \in Tasks : Observe(c, f, v, t)
           \/ SaveSignal(c) \/ CountSignals(c) \/ KeepQuiet(c) \/ List(c)
    PROVE  Inv'
<1>1. ASSUME NEW f \in Facts, NEW v \in Values, NEW t \in Tasks, Observe(c, f, v, t) PROVE Inv'
  <2>1. PICK k : /\ k = [pc |-> "signal", f |-> f, value |-> v, task |-> t, at |-> now]
                 /\ Goto(c, k)
        BY <1>1 DEF Observe, Begin
  <2>2. Fit(k) /\ k.pc \notin {"confirm", "reject"}
    <3>1. k.pc = "signal"
          BY <2>1
    <3>2. k \in [pc : {"signal", "count", "observed"}, f : Facts, value : Values, task : Tasks, at : Nat]
          BY <2>1 DEF Inv, Rows
    <3>3. QED BY <3>1, <3>2 DEF Fit, Sound
  <2>3. QED BY <1>1, <2>1, <2>2, ReadStep DEF Observe, store
<1>2. CASE SaveSignal(c)
  <2>1. PICK k : k = [call[c] EXCEPT !.pc = "count"] /\ Goto(c, k)
        BY <1>2 DEF SaveSignal
  <2>2. call[c] \in [pc : {"signal", "count", "observed"}, f : Facts, value : Values, task : Tasks, at : Nat]
        BY <1>2, InCall DEF SaveSignal, At, Sound
  <2>3. k.pc = "count" /\ k \in [pc : {"signal", "count", "observed"}, f : Facts, value : Values, task : Tasks, at : Nat]
        BY <2>1, <2>2
  <2>4. Fit(k) /\ k.pc \notin {"confirm", "reject"}
        BY <2>3 DEF Fit, Sound
  <2>5. QED BY <1>2, <2>1, <2>4, ReadStep DEF SaveSignal, store, history
<1>3. CASE CountSignals(c)
  <2>1. PICK k : k \in {Idle, [call[c] EXCEPT !.pc = "observed"]} /\ Goto(c, k)
        BY <1>3 DEF CountSignals
  <2>2. call[c] \in [pc : {"signal", "count", "observed"}, f : Facts, value : Values, task : Tasks, at : Nat]
        BY <1>3, InCall DEF CountSignals, At, Sound
  <2>3. \/ k = Idle
        \/ /\ k.pc = "observed"
           /\ k \in [pc : {"signal", "count", "observed"}, f : Facts, value : Values, task : Tasks, at : Nat]
        BY <2>1, <2>2
  <2>4. Fit(k) /\ k.pc \notin {"confirm", "reject"}
        BY <2>3, FreeCall DEF Fit, Sound
  <2>5. QED BY <1>3, <2>1, <2>4, ReadStep DEF CountSignals, store, history
<1>4. CASE KeepQuiet(c)
      BY <1>4, FreeCall, ReadStep DEF KeepQuiet, store
<1>5. CASE List(c)
  <2>1. PICK k : /\ k = [pc |-> "forget", todo |-> {m \in DOMAIN memories :
                                memories[m].status \notin {"forgotten", "expired"}}]
                 /\ Goto(c, k)
        BY <1>5 DEF List
  <2>2. k.pc = "forget" /\ k \in [pc : {"forget"}, todo : SUBSET (DOMAIN memories)]
        BY <2>1
  <2>3. Fit(k) /\ k.pc \notin {"confirm", "reject"}
        BY <2>2 DEF Fit, Sound
  <2>4. QED BY <1>5, <2>1, <2>3, ReadStep DEF List, store, history
<1>6. QED BY <1>1, <1>2, <1>3, <1>4, <1>5

\* A run begins: its references are read, its task counted.
LEMMA RunReads ==
    ASSUME Inv, NEW c \in Callers, RefsForTask(c) \/ BeginTask(c)
    PROVE  Inv'
<1>1. CASE RefsForTask(c)
  <2>1. PICK refs \in Retrieved(call[c].scope) :
            Goto(c, [pc |-> "count task", scope |-> call[c].scope, refs |-> refs])
        BY <1>1 DEF RefsForTask
  <2>2. PICK k : k = [pc |-> "count task", scope |-> call[c].scope, refs |-> refs] /\ Goto(c, k)
        BY <2>1
  <2>3. call[c].scope \in Scopes
        BY <1>1, InCall DEF RefsForTask, At, Sound
  <2>4. refs \in SUBSET Nat /\ \A m \in refs : OfScope(m, call[c].scope)
        BY <2>1, RowTypes DEF Retrieved, OfScope, Inv
  <2>5. /\ k.pc = "count task" /\ k \in [pc : {"count task", "profile"}, scope : Scopes, refs : SUBSET Nat]
        /\ \A m \in k.refs : OfScope(m, k.scope)
        BY <2>2, <2>3, <2>4
  <2>6. Fit(k) /\ k.pc \notin {"confirm", "reject"}
        BY <2>5 DEF Fit, Sound
  <2>7. QED BY <1>1, <2>2, <2>6, ReadStep DEF RefsForTask, store, history
<1>2. CASE BeginTask(c)
  <2>1. PICK next : next = [call[c] EXCEPT !.pc = "profile"] /\ Goto(c, AfterExpiry(next))
        BY <1>2 DEF BeginTask
  <2>2. /\ call[c] \in [pc : {"count task", "profile"}, scope : Scopes, refs : SUBSET Nat]
        /\ \A m \in call[c].refs : OfScope(m, call[c].scope)
        BY <1>2, InCall DEF BeginTask, At, Sound
  <2>3. /\ next.pc = "profile" /\ next \in [pc : {"count task", "profile"}, scope : Scopes, refs : SUBSET Nat]
        /\ next.refs = call[c].refs /\ next.scope = call[c].scope
        BY <2>1, <2>2
  <2>4. Sound(next)
        BY <2>2, <2>3 DEF Sound
  <2>5. Fit(AfterExpiry(next)) /\ AfterExpiry(next).pc \notin {"confirm", "reject"}
        BY <2>3, <2>4, FreeCall
  <2>6. UNCHANGED <<memories, index, proposals, decided, overlapped, runs, now>>
        BY <1>2 DEF BeginTask, store, history
  <2>7. QED BY <2>1, <2>5, <2>6, ReadStep
<1>3. QED BY <1>1, <1>2

\* What resolve begins with.
LEMMA LoadBegins ==
    ASSUME Inv, NEW r \in DOMAIN runs, NEW then, then = Idle \/ then = [pc |-> "detect", r |-> r]
    PROVE  /\ Fit(Loading(r, runs[r].refs, then))
           /\ Loading(r, runs[r].refs, then).pc \in {"load", "idle", "detect"}
<1>0. Rows /\ Scoped
      BY DEF Inv
<1>1. Fit(then) /\ then.pc \in {"idle", "detect"}
  <2>1. CASE then = Idle
        BY <2>1, FreeCall
  <2>2. CASE then = [pc |-> "detect", r |-> r]
    <3>1. then.pc = "detect" /\ then.r = r
          BY <2>2
    <3>2. QED BY <3>1 DEF Fit, Sound
  <2>3. QED BY <2>1, <2>2
<1>2. CASE settings.enabled
  <2>1. PICK k : /\ k = [pc |-> "load", r |-> r, todo |-> runs[r].refs, got |-> {},
                         gone |-> {m \in DOMAIN memories : ~Active(m)}, then |-> then]
                 /\ k = Loading(r, runs[r].refs, then)
        BY <1>2 DEF Loading
  <2>2. r \in Nat /\ runs[r].refs \in SUBSET Nat /\ DOMAIN memories \subseteq Nat
        BY <1>0, RowTypes DEF Run
  <2>3. /\ k.pc = "load" /\ k.r = r /\ k.todo = runs[r].refs /\ k.got = {} /\ k.then = then
        /\ k.gone = {m \in DOMAIN memories : ~Active(m)}
        BY <2>1
  <2>4. then \in {Idle} \cup [pc : {"detect"}, r : Nat]
        BY <2>2
  <2>5. k \in Load
        BY <2>1, <2>2, <2>4 DEF Load
  <2>6. then.pc = "detect" => then.r \in DOMAIN runs
        BY DEF Idle
  <2>7. \A m \in k.todo : OfScope(m, runs[r].scope)
        BY <1>0, <2>3 DEF Scoped
  <2>8. Clean(k)
        BY <2>3, <2>5, <2>6, <2>7 DEF Clean
  <2>9. Fit(k) /\ k.pc = "load"
        BY <2>3, <2>8 DEF Fit, Sound
  <2>10. QED BY <2>1, <2>9
<1>3. CASE ~settings.enabled
      BY <1>1, <1>3 DEF Loading
<1>4. QED BY <1>2, <1>3

\* What a call of resolve goes on with when a reference is done, and when one is given.
LEMMA LoadGoesOn ==
    ASSUME Inv, NEW k, Clean(k), NEW todo \in SUBSET k.todo, NEW next, next = [k EXCEPT !.todo = todo]
    PROVE  Fit(next) /\ next.pc = "load" /\ Clean(next) /\ next.r = k.r /\ next.gone = k.gone
<1>1. /\ next \in Load /\ next.r = k.r /\ next.todo = todo /\ next.got = k.got
      /\ next.gone = k.gone /\ next.then = k.then /\ next.pc = "load"
      BY DEF Clean, Load
<1>2. Clean(next)
      BY <1>1 DEF Clean
<1>3. QED BY <1>1, <1>2 DEF Fit, Sound

\* One reference more that was given.
LEMMA LoadGives ==
    ASSUME Inv, NEW k, Clean(k), NEW got \in SUBSET (Nat \X Values),
           \A g \in got : g[1] \notin k.gone /\ OfScope(g[1], runs[k.r].scope),
           NEW next, next = [k EXCEPT !.got = got]
    PROVE  Fit(next) /\ next.pc = "load"
<1>1. /\ next \in Load /\ next.r = k.r /\ next.todo = k.todo /\ next.got = got
      /\ next.gone = k.gone /\ next.then = k.then /\ next.pc = "load"
      BY DEF Clean, Load
<1>2. Clean(next)
      BY <1>1 DEF Clean
<1>3. QED BY <1>1, <1>2 DEF Fit, Sound

\* A role resolves the references of its run.
LEMMA PromptReads ==
    ASSUME Inv, NEW c \in Callers,
           (\E r \in DOMAIN runs : Prompt(c, r)) \/ LoadNext(c) \/ Get(c)
    PROVE  Inv'
<1>1. ASSUME NEW r \in DOMAIN runs, Prompt(c, r) PROVE Inv'
  <2>1. Goto(c, Loading(r, runs[r].refs, Idle))
        BY <1>1 DEF Prompt, Begin
  <2>2. /\ Fit(Loading(r, runs[r].refs, Idle))
        /\ Loading(r, runs[r].refs, Idle).pc \notin {"confirm", "reject"}
        BY LoadBegins
  <2>3. UNCHANGED <<memories, index, proposals, decided, overlapped, runs, now>>
        BY <1>1 DEF Prompt, store
  <2>4. QED BY <2>1, <2>2, <2>3, ReadStep
<1>2. CASE LoadNext(c)
  <2>0. Clean(call[c]) /\ UNCHANGED <<memories, index, proposals, decided, overlapped, runs, now>>
        BY <1>2, InCall DEF LoadNext, At, Sound, store, history
  <2>1. CASE call[c].todo = {}
    <3>1. Goto(c, call[c].then)
          BY <1>2, <2>1 DEF LoadNext
    <3>2. call[c].then = Idle \/ (call[c].then.pc = "detect" /\ call[c].then.r \in DOMAIN runs)
          BY <2>0 DEF Clean, Load
    <3>3. Fit(call[c].then) /\ call[c].then.pc \notin {"confirm", "reject"}
          BY <3>2, FreeCall DEF Fit, Sound
    <3>4. QED BY <2>0, <3>1, <3>3, ReadStep
  <2>2. CASE call[c].todo # {}
    <3>1. PICK m \in call[c].todo : Goto(c, AfterExpiry([pc |-> "get", m |-> m, load |-> call[c]]))
          BY <1>2, <2>2 DEF LoadNext
    <3>2. PICK next : next = [pc |-> "get", m |-> m, load |-> call[c]]
          OBVIOUS
    <3>3. next.pc = "get" /\ next.m = m /\ next.load = call[c]
          BY <3>2
    <3>4. OfScope(m, runs[call[c].r].scope)
          BY <2>0 DEF Clean
    <3>5. Sound(next)
          BY <2>0, <3>3, <3>4 DEF Sound
    <3>6. Fit(AfterExpiry(next)) /\ AfterExpiry(next).pc \notin {"confirm", "reject"}
          BY <3>3, <3>5, FreeCall
    <3>7. QED BY <2>0, <3>1, <3>2, <3>6, ReadStep
  <2>3. QED BY <2>1, <2>2
<1>3. CASE Get(c)
  <2>0. /\ Clean(call[c].load) /\ OfScope(call[c].m, runs[call[c].load.r].scope)
        /\ UNCHANGED <<memories, index, proposals, decided, overlapped, runs, now>>
        BY <1>3, InCall DEF Get, At, Sound, store, history
  <2>1. PICK load : load = [call[c].load EXCEPT !.todo = @ \ {call[c].m}]
        OBVIOUS
  <2>2. /\ Fit(load) /\ load.pc = "load" /\ Clean(load)
        /\ load.r = call[c].load.r /\ load.gone = call[c].load.gone
    <3>1. PICK k, todo : k = call[c].load /\ todo = k.todo \ {call[c].m}
          OBVIOUS
    <3>2. todo \in SUBSET k.todo /\ load = [k EXCEPT !.todo = todo] /\ Clean(k)
          BY <2>0, <2>1, <3>1
    <3>3. Fit(load) /\ load.pc = "load" /\ Clean(load) /\ load.r = k.r /\ load.gone = k.gone
          BY <3>2, LoadGoesOn
    <3>4. QED BY <3>1, <3>3
  <2>3. CASE ~Usable(call[c].m)
    <3>1. Goto(c, load)
          BY <1>3, <2>1, <2>3 DEF Get
    <3>2. QED BY <2>0, <2>2, <3>1, ReadStep
  <2>4. CASE Usable(call[c].m)
    <3>1. PICK k : /\ k = [pc |-> "use", m |-> call[c].m, value |-> memories[call[c].m].value, load |-> load]
                   /\ Goto(c, k)
          BY <1>3, <2>1, <2>4 DEF Get
    <3>2. k.pc = "use" /\ k.m = call[c].m /\ k.value = memories[call[c].m].value /\ k.load = load
          BY <3>1
    <3>3. k.m \notin load.gone /\ k.value \in Values
          BY <2>0, <2>2, <2>4, <3>2 DEF Clean, Usable, OfScope, Inv, Linked
    <3>4. Sound(k)
          BY <2>0, <2>2, <3>2, <3>3 DEF Sound
    <3>5. Fit(k) /\ k.pc \notin {"confirm", "reject"}
          BY <3>2, <3>4 DEF Fit
    <3>6. QED BY <2>0, <3>1, <3>5, ReadStep
  <2>5. QED BY <2>3, <2>4
<1>4. QED BY <1>1, <1>2, <1>3
----------------------------------------------------------------------------
\* Memories leave: the rows that are written keep their links.
LEMMA RowsLeave ==
    ASSUME Rows, NEW gone, NEW status \in {"expired", "forgotten"},
           memories' = [m \in DOMAIN memories |-> memories'[m]],
           \A m \in DOMAIN memories \ gone : memories'[m] = memories[m],
           \A m \in DOMAIN memories \cap gone :
               \/ memories'[m] = [memories[m] EXCEPT !.status = status]
               \/ memories'[m] = [memories[m] EXCEPT !.status = status, !.value = Wiped]
    PROVE  \A m \in DOMAIN memories :
               /\ memories'[m] \in Memory
               /\ memories'[m].scope = memories[m].scope
               /\ memories'[m].from = memories[m].from
               /\ memories'[m].by = memories[m].by
               /\ m \in gone => memories'[m].status # "active"
               /\ m \notin gone => memories'[m] = memories[m]
<1>1. \A m \in DOMAIN memories : memories[m] \in Memory
      BY RowTypes
<1>2. ASSUME NEW m \in DOMAIN memories, m \in gone
      PROVE  /\ memories'[m] \in Memory
             /\ memories'[m].scope = memories[m].scope
             /\ memories'[m].from = memories[m].from
             /\ memories'[m].by = memories[m].by
             /\ memories'[m].status # "active"
  <2>1. CASE memories'[m] = [memories[m] EXCEPT !.status = status]
        BY <1>1, <1>2, <2>1 DEF Memory
  <2>2. CASE memories'[m] = [memories[m] EXCEPT !.status = status, !.value = Wiped]
        BY <1>1, <1>2, <2>2 DEF Memory
  <2>3. QED BY <1>2, <2>1, <2>2
<1>3. QED BY <1>1, <1>2

\* Forgetting, one memory at a time, by caller c.
LEMMA ForgetSteps ==
    ASSUME Inv, NEW c \in Callers,
           (\E m \in DOMAIN memories : Forget(c, m)) \/ ForgetNext(c)
    PROVE  Inv'
<1>1. ASSUME NEW m \in DOMAIN memories, NEW k, Goto(c, k), Fit(k), k.pc \notin {"confirm", "reject"},
             memories' = Forgotten(m), index' = index \ {m},
             UNCHANGED <<proposals, decided, overlapped, runs, now>>
      PROVE  Inv'
  <2>1. PICK gone : gone = {m}
        OBVIOUS
  <2>2. /\ memories' = [n \in DOMAIN memories |-> memories'[n]]
        /\ \A n \in DOMAIN memories \ gone : memories'[n] = memories[n]
        /\ \A n \in DOMAIN memories \cap gone :
               memories'[n] = [memories[n] EXCEPT !.status = "forgotten", !.value = Wiped]
    <3>1. memories' = [memories EXCEPT ![m] = [memories[m] EXCEPT !.status = "forgotten", !.value = Wiped]]
      <4>1. memories' = [memories EXCEPT ![m].status = "forgotten", ![m].value = Wiped]
            BY <1>1 DEF Forgotten
      <4>2. m \in DOMAIN memories /\ memories[m] \in Memory /\ memories \in Seq(Memory)
            BY RowTypes DEF Inv, Rows
      <4>3. QED BY <4>1, <4>2
    <3>2. QED BY <2>1, <3>1
  <2>3. index' = index \ gone
        BY <1>1, <2>1
  <2>4. \A n \in DOMAIN memories :
               /\ memories'[n] \in Memory
               /\ memories'[n].scope = memories[n].scope
               /\ memories'[n].from = memories[n].from
               /\ memories'[n].by = memories[n].by
               /\ n \in gone => memories'[n].status # "active"
               /\ n \notin gone => memories'[n] = memories[n]
        BY <2>2, RowsLeave DEF Inv
  <2>5. QED BY <1>1, <2>2, <2>3, <2>4, LeaveStep
<1>2. ASSUME NEW m \in DOMAIN memories, Forget(c, m) PROVE Inv'
  <2>1. /\ Goto(c, Idle) /\ memories' = Forgotten(m) /\ index' = index \ {m}
        /\ UNCHANGED <<proposals, decided, overlapped, runs, now>>
        BY <1>2 DEF Forget, Begin
  <2>2. PICK k : k = Idle
        OBVIOUS
  <2>3. Fit(k) /\ k.pc \notin {"confirm", "reject"} /\ Goto(c, k)
        BY <2>1, <2>2, FreeCall
  <2>4. QED BY <1>1, <2>1, <2>3
<1>3. CASE ForgetNext(c)
  <2>0. /\ call[c].pc = "forget" /\ call[c] \in [pc : {"forget"}, todo : SUBSET (DOMAIN memories)]
        /\ UNCHANGED <<proposals, decided, overlapped, runs, now>>
        BY <1>3, InCall DEF ForgetNext, At, Sound, history
  <2>1. CASE call[c].todo = {}
        BY <1>3, <2>0, <2>1, FreeCall, ReadStep DEF ForgetNext
  <2>2. CASE call[c].todo # {}
    <3>1. PICK m \in call[c].todo : /\ memories' = Forgotten(m) /\ index' = index \ {m}
                                    /\ Goto(c, [call[c] EXCEPT !.todo = @ \ {m}])
          BY <1>3, <2>2 DEF ForgetNext
    <3>2. PICK k : k = [call[c] EXCEPT !.todo = @ \ {m}] /\ Goto(c, k)
          BY <3>1
    <3>3. k.pc = "forget" /\ k \in [pc : {"forget"}, todo : SUBSET (DOMAIN memories)]
          BY <2>0, <3>2
    <3>4. Fit(k) /\ k.pc \notin {"confirm", "reject"}
          BY <3>3 DEF Fit, Sound
    <3>5. m \in DOMAIN memories
          BY <2>0, <3>1
    <3>6. QED BY <1>1, <2>0, <3>1, <3>2, <3>4, <3>5
  <2>3. QED BY <2>1, <2>2
<1>4. QED BY <1>2, <1>3

\* Expiry of what was due when it was selected.
LEMMA ExpireStep ==
    ASSUME Inv, NEW c \in Callers, Expire(c)
    PROVE  Inv'
<1>1. PICK gone : gone = call[c].due
      OBVIOUS
<1>2. /\ memories' = [m \in DOMAIN memories |-> memories'[m]]
      /\ \A m \in DOMAIN memories \ gone : memories'[m] = memories[m]
      /\ \A m \in DOMAIN memories \cap gone : memories'[m] = [memories[m] EXCEPT !.status = "expired"]
      /\ index' = index \ gone
      BY <1>1 DEF Expire
<1>3. PICK k : k = call[c].then /\ Goto(c, k)
      BY DEF Expire
<1>4. Sound(k) /\ k.pc \in {"list", "refs", "profile", "get"}
      BY <1>3, InCall DEF Expire, At, Fit
<1>5. Fit(k) /\ k.pc \notin {"confirm", "reject"}
      BY <1>4 DEF Fit
<1>6. UNCHANGED <<proposals, decided, overlapped, runs, now>>
      BY DEF Expire, history
<1>7. QED BY <1>2, <1>3, <1>5, <1>6, RowsLeave, LeaveStep DEF Inv
----------------------------------------------------------------------------
\* What a confirmation begins with.
LEMMA ConfirmBegins ==
    ASSUME Inv, NEW p \in DOMAIN proposals, NEW value \in Values
    PROVE  /\ Fit(ConfirmWith(p, value)) /\ ConfirmWith(p, value).pc = "confirm"
           /\ ConfirmWith(p, value).p = p
<1>1. PICK old : /\ old = IF InForce(FactOf(proposals[p])) = {} THEN None
                          ELSE CHOOSE m \in InForce(FactOf(proposals[p])) : TRUE
                 /\ ConfirmWith(p, value) = [pc |-> "confirm", p |-> p, value |-> value, old |-> old]
      BY DEF ConfirmWith
<1>2. old \in DOMAIN memories \cup {None}
      BY <1>1 DEF InForce
<1>3. PICK k : k = ConfirmWith(p, value)
      OBVIOUS
<1>4. k.pc = "confirm" /\ k.p = p /\ k.value = value /\ k.old = old
      BY <1>1, <1>3
<1>5. Fit(k)
      BY <1>2, <1>4 DEF Fit, Sound
<1>6. QED BY <1>3, <1>4, <1>5

\* A person, or a call that confirms of itself, is about to decide.
LEMMA DecisionBegins ==
    ASSUME Inv, NEW c \in Callers,
           (\E p \in DOMAIN proposals : Decide(c, p)) \/ ConfirmNext(c)
    PROVE  Inv'
<1>1. ASSUME NEW p \in DOMAIN proposals, NEW v \in Values, Confirm(c, p, v) PROVE Inv'
  <2>1. PICK k : k = ConfirmWith(p, v) /\ Goto(c, k)
        BY <1>1 DEF Confirm, Begin
  <2>2. Fit(k) /\ k.pc = "confirm" /\ k.p = p
        BY <2>1, ConfirmBegins
  <2>3. call[c].pc \notin {"confirm", "reject"}
        BY <1>1 DEF Confirm, Begin
  <2>4. QED BY <1>1, <2>1, <2>2, <2>3, BeginDecision DEF Confirm, store
<1>2. ASSUME NEW p \in DOMAIN proposals, NEW then, then.pc \in {"idle", "quiet", "replace"},
             Sound(then), Reject(c, p, then)
      PROVE  Inv'
  <2>1. PICK k : k = [pc |-> "reject", p |-> p, then |-> then] /\ Goto(c, k)
        BY <1>2 DEF Reject, Begin
  <2>2. k.pc = "reject" /\ k.p = p /\ k.then = then
        BY <2>1
  <2>3. Fit(k)
        BY <1>2, <2>2 DEF Fit, Sound
  <2>4. call[c].pc \notin {"confirm", "reject"}
        BY <1>2 DEF Reject, Begin
  <2>5. QED BY <1>2, <2>1, <2>2, <2>3, <2>4, BeginDecision DEF Reject, store
<1>3. ASSUME NEW p \in DOMAIN proposals, Reject(c, p, Idle) PROVE Inv'
      BY <1>2, <1>3, FreeCall DEF Fit
<1>4. ASSUME NEW p \in DOMAIN proposals, NEW forever \in BOOLEAN,
             Reject(c, p, [pc |-> "quiet", p |-> p, forever |-> forever])
      PROVE  Inv'
  <2>1. PICK then : then = [pc |-> "quiet", p |-> p, forever |-> forever]
        OBVIOUS
  <2>2. then.pc = "quiet"
        BY <2>1
  <2>3. Sound(then)
        BY <2>2 DEF Sound
  <2>4. QED BY <1>2, <1>4, <2>1, <2>2, <2>3
<1>5. ASSUME NEW p \in DOMAIN proposals, NEW to \in Projects,
             Reject(c, p, [pc |-> "replace", p |-> p, to |-> to])
      PROVE  Inv'
  <2>1. PICK then : then = [pc |-> "replace", p |-> p, to |-> to]
        OBVIOUS
  <2>2. then.pc = "replace" /\ then.p = p /\ then.to = to
        BY <2>1
  <2>3. Sound(then)
        BY <2>2 DEF Sound
  <2>4. QED BY <1>2, <1>5, <2>1, <2>2, <2>3
<1>6. CASE ConfirmNext(c)
  <2>0. /\ call[c].pc = "confirmNext" /\ call[c].p \in DOMAIN proposals
        /\ UNCHANGED <<memories, index, proposals, decided, runs, now>>
        BY <1>6, InCall DEF ConfirmNext, At, Sound, store
  <2>1. CASE proposals[call[c].p].status = "proposed"
    <3>1. PICK k : k = ConfirmWith(call[c].p, proposals[call[c].p].value) /\ Goto(c, k)
          BY <1>6, <2>1 DEF ConfirmNext
    <3>2. proposals[call[c].p].value \in Values
          BY <2>0, RowTypes DEF Inv, ProposalRow
    <3>3. Fit(k) /\ k.pc = "confirm" /\ k.p = call[c].p
          BY <2>0, <3>1, <3>2, ConfirmBegins
    <3>4. overlapped' = overlapped \cup (IF Deciding(k.p) = {} THEN {} ELSE {k.p})
          BY <1>6, <2>1, <3>3 DEF ConfirmNext
    <3>5. QED BY <2>0, <2>1, <3>1, <3>3, <3>4, BeginDecision
  <2>2. CASE proposals[call[c].p].status # "proposed"
    <3>1. Goto(c, Idle) /\ UNCHANGED overlapped
          BY <1>6, <2>2 DEF ConfirmNext
    <3>2. QED BY <2>0, <3>1, FreeCall, ReadStep
  <2>3. QED BY <2>1, <2>2
<1>7. QED BY <1>1, <1>3, <1>4, <1>5, <1>6 DEF Decide

\* A refusal is committed.
LEMMA RejectStep ==
    ASSUME Inv, NEW c \in Callers, RejectWrite(c)
    PROVE  Inv'
<1>0. Rows /\ Linked /\ Scoped /\ Fits
      BY DEF Inv
<1>1. PICK p : p = call[c].p
      OBVIOUS
<1>2. call[c].pc = "reject" /\ p \in DOMAIN proposals
      BY <1>1, InCall DEF RejectWrite, At, Sound
<1>3. PICK k : k = call[c].then /\ Goto(c, k)
      BY DEF RejectWrite
<1>4. Sound(k) /\ k.pc \in {"idle", "quiet", "replace"}
      BY <1>2, <1>3, InCall DEF Fit
<1>5. Fit(k) /\ k.pc \notin {"confirm", "reject"}
      BY <1>4 DEF Fit
<1>6. /\ proposals' = [proposals EXCEPT ![p].status = "rejected"]
      /\ decided' = [decided EXCEPT ![p] = Append(@, "rejected")]
      /\ UNCHANGED <<memories, index, runs, now, overlapped>>
      BY <1>1 DEF RejectWrite, Refused
<1>7. Grows
  <2>1. DOMAIN proposals' = DOMAIN proposals
        BY <1>6
  <2>2. QED BY <1>6, <2>1 DEF Grows, Active
<1>8. Fit(k)'
      BY <1>5, <1>7, FitKept
<1>9. /\ Fits' /\ call'[c] = k /\ \A d \in Callers \ {c} : call'[d] = call[d]
      /\ call' = [d \in Callers |-> call'[d]]
      BY <1>0, <1>3, <1>7, <1>8, FitsMove
<1>10. /\ Decisions'
       /\ proposals' \in Seq(ProposalRow)
       /\ decided' \in Seq(Seq(Decision)) /\ Len(decided') = Len(proposals')
      BY <1>1, <1>2, <1>5, <1>6, <1>9, DecisionsTaken DEF Decision
<1>11. Rows' /\ Linked' /\ Scoped'
      BY <1>0, <1>6, <1>9, <1>10 DEF Rows, Linked, Active, Scoped, OfScope, InScope
<1>12. QED BY <1>9, <1>10, <1>11 DEF Inv
----------------------------------------------------------------------------
\* A row of proposals, new.
LEMMA NewProposal ==
    \A f \in Facts, value \in Values, due \in Nat, observed \in BOOLEAN :
        Proposal(f, value, due, observed) \in ProposalRow
        /\ Proposal(f, value, due, observed).status = "proposed"
BY DEF Facts, Proposal, ProposalRow

\* Calls that add a proposal.
LEMMA ProposalSteps ==
    ASSUME Inv, NEW c \in Callers,
           \/ \E f \in Facts, v \in Values : Propose(c, f, v)
           \/ ProposeObserved(c) \/ Replace(c)
    PROVE  Inv'
<1>0. Rows /\ Never \in Nat
      BY MemoryAssumption DEF Inv, Never
<1>1. ASSUME NEW k, Goto(c, k), Fit(k)', k.pc \notin {"confirm", "reject"},
             NEW f \in Facts, NEW v \in Values, NEW observed \in BOOLEAN,
             AddProposal(Proposal(f, v, Never, observed)),
             UNCHANGED <<memories, index, overlapped, now, runs>>
      PROVE  Inv'
  <2>1. \E row \in ProposalRow : row.status = "proposed" /\ AddProposal(row)
        BY <1>0, <1>1, NewProposal
  <2>2. runs' \in Seq(Run)
        BY <1>0, <1>1 DEF Rows
  <2>3. QED BY <1>1, <2>1, <2>2, AddStep
<1>2. Fit(Idle)' /\ Idle.pc \notin {"confirm", "reject"}
      BY DEF Fit, Sound, Idle
<1>3. ASSUME NEW f \in Facts, NEW v \in Values, Propose(c, f, v) PROVE Inv'
  <2>1. PICK k : k = Idle /\ Goto(c, k)
        BY <1>3 DEF Propose, Begin
  <2>2. Fit(k)' /\ k.pc \notin {"confirm", "reject"}
        BY <1>2, <2>1
  <2>3. QED BY <1>1, <1>3, <2>1, <2>2 DEF Propose
<1>4. CASE ProposeObserved(c)
  <2>1. PICK k : k = Idle /\ Goto(c, k)
        BY <1>4 DEF ProposeObserved
  <2>2. Fit(k)' /\ k.pc \notin {"confirm", "reject"}
        BY <1>2, <2>1
  <2>3. call[c].f \in Facts /\ call[c].value \in Values
        BY <1>4, InCall DEF ProposeObserved, At, Sound
  <2>4. QED BY <1>1, <1>4, <2>1, <2>2, <2>3 DEF ProposeObserved
<1>5. CASE Replace(c)
  <2>1. PICK k : k = [pc |-> "confirmNext", p |-> Len(proposals) + 1] /\ Goto(c, k)
        BY <1>5 DEF Replace
  <2>2. call[c].p \in DOMAIN proposals /\ call[c].to \in Projects
        BY <1>5, InCall DEF Replace, At, Sound
  <2>3. PICK f, v : /\ f = <<call[c].to, proposals[call[c].p].subject>> /\ v = proposals[call[c].p].value
                    /\ AddProposal(Proposal(f, v, Never, FALSE))
        BY <1>5 DEF Replace
  <2>4. f \in Facts /\ v \in Values
    <3>1. proposals[call[c].p] \in ProposalRow
          BY <1>0, <2>2, RowTypes
    <3>2. QED BY <2>2, <2>3, <3>1 DEF ProposalRow, Facts, Scopes
  <2>5. Len(proposals) + 1 \in DOMAIN proposals'
        BY <1>0, <2>3, <2>4, Proposed, NewProposal
  <2>6. k.pc = "confirmNext" /\ k.p \in DOMAIN proposals'
        BY <2>1, <2>5
  <2>7. Fit(k)'
        BY <2>6 DEF Fit, Sound
  <2>8. QED BY <1>1, <1>5, <2>1, <2>3, <2>4, <2>6, <2>7 DEF Replace
<1>6. QED BY <1>3, <1>4, <1>5

\* What a run applies was in force in its scope.
LEMMA DerivedRows ==
    ASSUME Rows, NEW scope, NEW applied \in Derived(scope)
    PROVE  /\ applied \in SUBSET (Nat \X (Values \cup {Wiped}))
           /\ \A h \in applied : OfScope(h[1], scope)
<1> DEFINE Pick(s) == IF InForce(<<scope, s>>) # {} THEN InForce(<<scope, s>>) ELSE InForce(<<Global, s>>)
<1>1. applied \subseteq UNION {{<<m, memories[m].value>> : m \in Pick(s)} : s \in Subjects}
      BY DEF Derived
<1>2. \A s \in Subjects : \A m \in Pick(s) :
          m \in DOMAIN memories /\ memories[m].scope \in {scope, Global}
      BY DEF InForce, FactOf
<1>3. \A s \in Subjects : \A m \in Pick(s) :
          <<m, memories[m].value>> \in Nat \X (Values \cup {Wiped}) /\ OfScope(m, scope)
      BY <1>2, RowTypes DEF Memory, OfScope, InScope
<1> HIDE DEF Pick
<1>4. \A h \in applied : \E s \in Subjects : \E m \in Pick(s) : h = <<m, memories[m].value>>
      BY <1>1
<1>5. QED BY <1>3, <1>4

\* A run goes to the graph, with the preferences of its scope.
LEMMA ProfileStep ==
    ASSUME Inv, NEW c \in Callers, Profile(c)
    PROVE  Inv'
<1>0. Rows /\ Linked /\ Scoped
      BY DEF Inv
<1>1. PICK scope, refs, r, applied, k :
          /\ applied \in Derived(scope)
          /\ scope = call[c].scope /\ refs = call[c].refs /\ r = Len(runs) + 1
          /\ runs' = Append(runs, [scope |-> scope, refs |-> refs, applied |-> applied,
                                   used |-> {}, ready |-> FALSE])
          /\ k = Loading(r, refs, [pc |-> "detect", r |-> r])
          /\ Goto(c, k)
      BY DEF Profile
<1>2. scope \in Scopes /\ refs \in SUBSET Nat /\ \A m \in refs : OfScope(m, scope)
      BY <1>1, InCall DEF Profile, At, Sound
<1>3. PICK run : run = [scope |-> scope, refs |-> refs, applied |-> applied,
                        used |-> {}, ready |-> FALSE]
      OBVIOUS
<1>4. /\ run \in Run /\ run.scope = scope /\ run.refs = refs /\ run.applied = applied
      /\ \A h \in applied : OfScope(h[1], scope)
  <2>1. /\ applied \in SUBSET (Nat \X (Values \cup {Wiped}))
        /\ \A h \in applied : OfScope(h[1], scope)
        BY <1>0, <1>1, DerivedRows
  <2>2. QED BY <1>2, <1>3, <2>1 DEF Run
<1>5. /\ runs' \in Seq(Run) /\ DOMAIN runs' = DOMAIN runs \cup {r} /\ r \notin DOMAIN runs
      /\ \A q \in DOMAIN runs : runs'[q] = runs[q]
      /\ runs'[r] = run /\ r \in Nat
  <2>1. runs \in Seq(Run) /\ runs' = Append(runs, run)
        BY <1>0, <1>1, <1>3 DEF Rows
  <2>2. QED BY <1>1, <1>4, <2>1, AppendRow
<1>6. UNCHANGED <<memories, index, proposals, decided, overlapped, now>>
      BY DEF Profile, store, history
<1>7. Fit(k)' /\ k.pc \notin {"confirm", "reject"}
  <2>1. PICK then : then = [pc |-> "detect", r |-> r]
        OBVIOUS
  <2>2. then.pc = "detect" /\ then.r = r /\ then \in [pc : {"detect"}, r : Nat]
        BY <1>5, <2>1
  <2>3. CASE settings.enabled
    <3>1. k = [pc |-> "load", r |-> r, todo |-> refs, got |-> {},
               gone |-> {m \in DOMAIN memories : ~Active(m)}, then |-> then]
          BY <1>1, <2>1, <2>3 DEF Loading
    <3>2. /\ k.pc = "load" /\ k.r = r /\ k.todo = refs /\ k.got = {} /\ k.then = then
          /\ k.gone = {m \in DOMAIN memories : ~Active(m)}
          BY <3>1
    <3>3. k \in Load
          BY <1>0, <1>2, <1>5, <2>2, <3>1, RowTypes DEF Load
    <3>4. \A m \in k.todo : OfScope(m, runs[r].scope)'
          BY <1>2, <1>4, <1>5, <1>6, <3>2 DEF OfScope, InScope
    <3>5. Clean(k)'
          BY <1>5, <1>6, <2>2, <3>2, <3>3, <3>4 DEF Clean, Active
    <3>6. QED BY <3>2, <3>5 DEF Fit, Sound
  <2>4. CASE ~settings.enabled
    <3>1. k = then
          BY <1>1, <2>1, <2>4 DEF Loading
    <3>2. QED BY <1>5, <2>2, <3>1 DEF Fit, Sound
  <2>5. QED BY <2>3, <2>4
<1>8. \A q \in DOMAIN runs' \ DOMAIN runs :
          /\ \A m \in runs'[q].refs : OfScope(m, runs'[q].scope)
          /\ \A h \in runs'[q].applied : OfScope(h[1], runs'[q].scope)
      BY <1>2, <1>4, <1>5
<1>9. QED BY <1>1, <1>5, <1>6, <1>7, <1>8, AddStep

\* A run is written again: what it took in stays.
LEMMA RunRewritten ==
    ASSUME Rows, NEW r \in DOMAIN runs,
           \/ runs' = [runs EXCEPT ![r].ready = TRUE]
           \/ \E m \in Nat : runs' = [runs EXCEPT ![r].used = @ \cup {m}]
    PROVE  /\ runs' \in Seq(Run) /\ DOMAIN runs' = DOMAIN runs
           /\ \A q \in DOMAIN runs : /\ runs'[q].scope = runs[q].scope
                                     /\ runs'[q].refs = runs[q].refs
                                     /\ runs'[q].applied = runs[q].applied
<1>1. runs \in Seq(Run) /\ \A q \in DOMAIN runs : runs[q] \in Run
      BY RowTypes DEF Rows
<1>2. PICK run \in Run : /\ runs' = [runs EXCEPT ![r] = run]
                         /\ run.scope = runs[r].scope /\ run.refs = runs[r].refs
                         /\ run.applied = runs[r].applied
  <2>1. CASE runs' = [runs EXCEPT ![r].ready = TRUE]
    <3>1. PICK run : run = [runs[r] EXCEPT !.ready = TRUE]
          OBVIOUS
    <3>2. run \in Run /\ run.scope = runs[r].scope /\ run.refs = runs[r].refs /\ run.applied = runs[r].applied
          BY <1>1, <3>1 DEF Run
    <3>3. QED BY <2>1, <3>1, <3>2
  <2>2. ASSUME NEW m \in Nat, runs' = [runs EXCEPT ![r].used = @ \cup {m}]
        PROVE  \E run \in Run : /\ runs' = [runs EXCEPT ![r] = run]
                                /\ run.scope = runs[r].scope /\ run.refs = runs[r].refs
                                /\ run.applied = runs[r].applied
    <3>1. PICK run : run = [runs[r] EXCEPT !.used = @ \cup {m}]
          OBVIOUS
    <3>2. run \in Run /\ run.scope = runs[r].scope /\ run.refs = runs[r].refs /\ run.applied = runs[r].applied
          BY <1>1, <3>1 DEF Run
    <3>3. QED BY <2>2, <3>1, <3>2
  <2>3. QED BY <2>1, <2>2
<1>3. /\ runs' = [q \in DOMAIN runs |-> runs'[q]] /\ runs'[r] = run
      /\ \A q \in DOMAIN runs \ {r} : runs'[q] = runs[q]
      BY <1>2
<1>4. \A q \in DOMAIN runs : runs'[q] \in Run
      BY <1>1, <1>3
<1>5. runs' \in Seq(Run) /\ DOMAIN runs' = DOMAIN runs
      BY <1>1, <1>3, <1>4, UpdateRows
<1>6. QED BY <1>2, <1>3, <1>5

\* The goal is looked at for a preference, and a role has used a memory.
LEMMA RunSteps ==
    ASSUME Inv, NEW c \in Callers, Detect(c) \/ RecordUsage(c)
    PROVE  Inv'
<1>0. Rows
      BY DEF Inv
<1>1. CASE Detect(c)
  <2>1. PICK r : r = call[c].r
        OBVIOUS
  <2>2. r \in DOMAIN runs
        BY <1>1, <2>1, InCall DEF Detect, At, Sound
  <2>3. /\ runs' \in Seq(Run) /\ DOMAIN runs' = DOMAIN runs
        /\ \A q \in DOMAIN runs : /\ runs'[q].scope = runs[q].scope
                                  /\ runs'[q].refs = runs[q].refs
                                  /\ runs'[q].applied = runs[q].applied
    <3>1. runs' = [runs EXCEPT ![r].ready = TRUE]
          BY <1>1, <2>1 DEF Detect
    <3>2. QED BY <1>0, <2>2, <3>1, RunRewritten
  <2>4. UNCHANGED <<memories, index, overlapped, now>>
        BY <1>1 DEF Detect
  <2>5. Fit(Idle)' /\ Idle.pc \notin {"confirm", "reject"}
        BY DEF Fit, Sound, Idle
  <2>6. CASE Goto(c, Idle) /\ UNCHANGED <<proposals, decided>>
    <3>1. PICK k : k = Idle /\ Goto(c, k)
          BY <2>6
    <3>2. Fit(k)' /\ k.pc \notin {"confirm", "reject"}
          BY <2>5, <3>1
    <3>3. QED BY <2>3, <2>4, <2>6, <3>1, <3>2, AddStep
  <2>7. ASSUME NEW s \in Subjects, NEW v \in Values,
               AddProposal(Proposal(<<runs[call[c].r].scope, s>>, v,
                                    IF settings.ttl THEN now + 1 ELSE Never, FALSE)),
               NEW k, Goto(c, k), k \in {Idle, [pc |-> "confirmNext", p |-> Len(proposals) + 1]}
        PROVE  Inv'
    <3>1. PICK f, due : /\ f = <<runs[r].scope, s>>
                        /\ due = IF settings.ttl THEN now + 1 ELSE Never
          OBVIOUS
    <3>2. f \in Facts /\ due \in Nat
      <4>1. runs[r].scope \in Scopes
            BY <1>0, <2>2, RowTypes DEF Run
      <4>2. now + 1 \in Nat /\ Never \in Nat
            BY <1>0, MemoryAssumption DEF Rows, Never
      <4>3. QED BY <3>1, <4>1, <4>2 DEF Facts
    <3>3. AddProposal(Proposal(f, v, due, FALSE))
          BY <2>1, <2>7, <3>1
    <3>4. PICK row \in ProposalRow : row.status = "proposed" /\ AddProposal(row)
          BY <3>2, <3>3, NewProposal
    <3>5. Len(proposals) + 1 \in DOMAIN proposals'
          BY <1>0, <3>4, Proposed
    <3>6. Fit(k)' /\ k.pc \notin {"confirm", "reject"}
      <4>1. CASE k = Idle
            BY <2>5, <4>1
      <4>2. CASE k = [pc |-> "confirmNext", p |-> Len(proposals) + 1]
        <5>1. k.pc = "confirmNext" /\ k.p \in DOMAIN proposals'
              BY <3>5, <4>2
        <5>2. QED BY <5>1 DEF Fit, Sound
      <4>3. QED BY <2>7, <4>1, <4>2
    <3>7. QED BY <2>3, <2>4, <2>7, <3>4, <3>6, AddStep
  <2>8. QED BY <1>1, <2>6, <2>7 DEF Detect
<1>2. CASE RecordUsage(c)
  <2>1. PICK r, m, load, value : /\ load = call[c].load /\ r = load.r /\ m = call[c].m /\ value = call[c].value
        OBVIOUS
  <2>2. /\ Clean(load) /\ OfScope(m, runs[r].scope) /\ m \notin load.gone /\ value \in Values
        BY <1>2, <2>1, InCall DEF RecordUsage, At, Sound
  <2>3. r \in DOMAIN runs /\ m \in Nat
        BY <1>0, <2>1, <2>2, RowTypes DEF Clean, OfScope
  <2>4. PICK k : k = [load EXCEPT !.got = @ \cup {<<m, value>>}] /\ Goto(c, k)
        BY <1>2, <2>1 DEF RecordUsage
  <2>5. Fit(k) /\ k.pc = "load"
    <3>1. PICK got : got = load.got \cup {<<m, value>>}
          OBVIOUS
    <3>2. got \in SUBSET (Nat \X Values)
          BY <2>2, <2>3, <3>1 DEF Clean, Load
    <3>3. \A g \in got : g[1] \notin load.gone /\ OfScope(g[1], runs[load.r].scope)
          BY <2>1, <2>2, <3>1 DEF Clean
    <3>4. k = [load EXCEPT !.got = got]
          BY <2>4, <3>1
    <3>5. QED BY <2>2, <3>2, <3>3, <3>4, LoadGives
  <2>6. /\ runs' \in Seq(Run) /\ DOMAIN runs' = DOMAIN runs
        /\ \A q \in DOMAIN runs : /\ runs'[q].scope = runs[q].scope
                                  /\ runs'[q].refs = runs[q].refs
                                  /\ runs'[q].applied = runs[q].applied
    <3>1. runs' = [runs EXCEPT ![r].used = @ \cup {m}]
          BY <1>2, <2>1 DEF RecordUsage
    <3>2. QED BY <1>0, <2>3, <3>1, RunRewritten
  <2>7. UNCHANGED <<memories, index, proposals, decided, overlapped, now>>
        BY <1>2 DEF RecordUsage, store, history
  <2>8. Grows
        BY <2>6, <2>7 DEF Grows, Active
  <2>9. Fit(k)'
        BY <2>5, <2>8, FitKept
  <2>10. QED BY <2>4, <2>5, <2>6, <2>7, <2>9, AddStep
<1>3. QED BY <1>1, <1>2
----------------------------------------------------------------------------
\* A memory comes into force, in the place of another or of none.
LEMMA MemoryComes ==
    ASSUME Rows, Linked, NEW old \in DOMAIN memories \cup {None}, NEW new, new = Len(memories) + 1,
           NEW row \in Memory, row.status = "active", row.from = old, row.by = None,
           row.value \in Values,
           memories' = Append(Superseding(old, new), row), index' = Indexed(old, new)
    PROVE  /\ memories' \in Seq(Memory) /\ Linked'
           /\ DOMAIN memories \subseteq DOMAIN memories'
           /\ \A m \in DOMAIN memories : /\ memories'[m].scope = memories[m].scope
                                         /\ ~Active(m) => ~Active(m)'
<1>1. /\ memories \in Seq(Memory) /\ \A m \in DOMAIN memories : memories[m] \in Memory
      /\ DOMAIN memories \subseteq Nat \ {0} /\ Len(memories) \in Nat /\ new \in Nat \ {0}
      /\ DOMAIN memories = 1..Len(memories)
      BY RowTypes DEF Rows
<1>2. PICK rest : rest = Superseding(old, new)
      OBVIOUS
<1>3. /\ rest = [m \in DOMAIN memories |-> rest[m]]
      /\ \A m \in DOMAIN memories : rest[m] \in Memory
      /\ \A m \in DOMAIN memories \ {old} : rest[m] = memories[m]
      /\ old # None => /\ rest[old] = [memories[old] EXCEPT !.status = "superseded", !.by = new]
  <2>1. CASE old = None
    <3>1. rest = memories /\ None \notin DOMAIN memories
          BY <1>1, <1>2, <2>1 DEF Superseding, None
    <3>2. QED BY <1>1, <2>1, <3>1
  <2>2. CASE old # None
    <3>1. old \in DOMAIN memories /\ memories[old] \in Memory
          BY <1>1, <2>2
    <3>2. rest = [memories EXCEPT ![old].status = "superseded", ![old].by = new]
          BY <1>2, <2>2 DEF Superseding
    <3>3. rest = [memories EXCEPT ![old] = [memories[old] EXCEPT !.status = "superseded", !.by = new]]
          BY <1>1, <3>1, <3>2
    <3>4. [memories[old] EXCEPT !.status = "superseded", !.by = new] \in Memory
          BY <1>1, <3>1 DEF Memory
    <3>5. QED BY <1>1, <3>1, <3>3, <3>4
  <2>3. QED BY <2>1, <2>2
<1>4. rest \in Seq(Memory) /\ Len(rest) = Len(memories) /\ DOMAIN rest = DOMAIN memories
      BY <1>1, <1>3, UpdateRows
<1>5. /\ memories' \in Seq(Memory) /\ DOMAIN memories' = DOMAIN memories \cup {new}
      /\ new \notin DOMAIN memories
      /\ \A m \in DOMAIN memories : memories'[m] = rest[m]
      /\ memories'[new] = row
      BY <1>2, <1>4, AppendRow
<1>6. \A m \in DOMAIN memories :
          /\ memories'[m].scope = memories[m].scope
          /\ memories'[m].from = memories[m].from
          /\ memories'[m].value = memories[m].value
          /\ Active(m)' <=> Active(m) /\ m # old
          /\ memories'[m].by = IF m = old THEN new ELSE memories[m].by
  <2>1. SUFFICES ASSUME NEW m \in DOMAIN memories
                 PROVE  /\ memories'[m].scope = memories[m].scope
                        /\ memories'[m].from = memories[m].from
                        /\ memories'[m].value = memories[m].value
                        /\ Active(m)' <=> Active(m) /\ m # old
                        /\ memories'[m].by = IF m = old THEN new ELSE memories[m].by
        OBVIOUS
  <2>2. CASE m = old
    <3>1. old # None
          BY <1>1, <2>2 DEF None
    <3>2. memories'[m] = [memories[m] EXCEPT !.status = "superseded", !.by = new]
          BY <1>3, <1>5, <2>2, <3>1
    <3>3. /\ memories'[m].scope = memories[m].scope
          /\ memories'[m].from = memories[m].from
          /\ memories'[m].value = memories[m].value
          /\ memories'[m].status = "superseded" /\ memories'[m].by = new
          BY <1>1, <3>2 DEF Memory
    <3>4. QED BY <2>2, <3>3 DEF Active
  <2>3. CASE m # old
        BY <1>3, <1>5, <2>3 DEF Active
  <2>4. QED BY <2>2, <2>3
<1>7. Active(new)'
      BY <1>5 DEF Active
<1>8. index' = {m \in DOMAIN memories' : Active(m)'}
      BY <1>5, <1>6, <1>7 DEF Linked, Indexed
<1>9. ASSUME NEW m \in DOMAIN memories'
      PROVE  /\ memories'[m].from # None => /\ memories'[m].from \in DOMAIN memories'
                                            /\ ~Active(memories[m].from)'
             /\ memories'[m].by # None => /\ memories'[m].by \in DOMAIN memories'
                                          /\ memories'[memories'[m].by].from = m
             /\ Active(m)' => memories'[m].value \in Values
  <2>1. CASE m = new
        BY <1>5, <1>6, <2>1
  <2>2. CASE m \in DOMAIN memories
    <3>1. memories[m].from # None => /\ memories[m].from \in DOMAIN memories
                                     /\ ~Active(memories[m].from)'
          BY <1>6, <2>2 DEF Linked
    <3>2. memories'[m].by # None => /\ memories'[m].by \in DOMAIN memories'
                                    /\ memories'[memories'[m].by].from = m
      <4>1. CASE m = old
            BY <1>5, <1>6, <2>2, <4>1
      <4>2. CASE m # old
        <5>1. PICK by : by = memories[m].by /\ by = memories'[m].by
              BY <1>6, <2>2, <4>2
        <5>2. by # None => by \in DOMAIN memories /\ memories[by].from = m
              BY <2>2, <5>1 DEF Linked
        <5>3. by # None => memories'[by].from = m
              BY <1>6, <5>2
        <5>4. QED BY <1>5, <5>1, <5>2, <5>3
      <4>3. QED BY <4>1, <4>2
    <3>3. Active(m)' => memories'[m].value \in Values
          BY <1>6, <2>2 DEF Linked
    <3>4. QED BY <1>5, <1>6, <2>2, <3>1, <3>2, <3>3
  <2>3. QED BY <1>5, <2>1, <2>2
<1>10. Linked'
       BY <1>8, <1>9 DEF Linked, Active
<1>11. QED BY <1>5, <1>6, <1>10

\* A confirmation is committed, or refused by the unique index.
LEMMA ConfirmStep ==
    ASSUME Inv, NEW c \in Callers, ConfirmWrite(c)
    PROVE  Inv'
<1>0. Rows /\ Linked /\ Scoped /\ Fits
      BY DEF Inv
<1>1. PICK p, old, value, new :
          p = call[c].p /\ old = call[c].old /\ value = call[c].value /\ new = Len(memories) + 1
      OBVIOUS
<1>2. /\ call[c].pc = "confirm" /\ p \in DOMAIN proposals /\ value \in Values
      /\ old \in DOMAIN memories \cup {None}
      BY <1>1, InCall DEF ConfirmWrite, At, Sound
<1>3. /\ Goto(c, Idle) /\ UNCHANGED <<runs, now, overlapped>>
      BY DEF ConfirmWrite
<1>4. CASE UNCHANGED <<store, decided>>
      BY <1>3, <1>4, FreeCall, ReadStep DEF store
<1>5. ASSUME memories' = Append(Superseding(old, new),
                 [scope |-> proposals[p].scope, subject |-> proposals[p].subject, value |-> value,
                  status |-> "active", due |-> proposals[p].due, from |-> old, by |-> None]),
             index' = Indexed(old, new),
             proposals' = [proposals EXCEPT ![p].status = "confirmed"],
             decided' = [decided EXCEPT ![p] = Append(@, "confirmed")]
      PROVE  Inv'
  <2>1. PICK row : row =
                 [scope |-> proposals[p].scope, subject |-> proposals[p].subject, value |-> value,
                  status |-> "active", due |-> proposals[p].due, from |-> old, by |-> None]
        OBVIOUS
  <2>2. /\ row \in Memory /\ row.status = "active" /\ row.from = old /\ row.by = None
        /\ row.value \in Values
    <3>1. proposals[p] \in ProposalRow /\ DOMAIN memories \subseteq Nat
          BY <1>0, <1>2, RowTypes
    <3>2. proposals[p].scope \in Scopes /\ proposals[p].subject \in Subjects /\ proposals[p].due \in Nat
          BY <3>1 DEF ProposalRow
    <3>3. old \in Nat /\ None \in Nat
          BY <1>2, <3>1 DEF None
    <3>4. QED BY <1>2, <2>1, <3>2, <3>3 DEF Memory
  <2>3. /\ memories' \in Seq(Memory) /\ Linked'
        /\ DOMAIN memories \subseteq DOMAIN memories'
        /\ \A m \in DOMAIN memories : /\ memories'[m].scope = memories[m].scope
                                      /\ ~Active(m) => ~Active(m)'
        BY <1>0, <1>1, <1>2, <1>5, <2>1, <2>2, MemoryComes
  <2>4. DOMAIN proposals' = DOMAIN proposals
        BY <1>5
  <2>5. Grows
        BY <1>3, <2>3, <2>4 DEF Grows
  <2>6. PICK k : k = Idle
        OBVIOUS
  <2>7. Fit(k)' /\ k.pc \notin {"confirm", "reject"} /\ Goto(c, k)
    <3>1. Fit(Idle)' /\ Idle.pc \notin {"confirm", "reject"}
          BY DEF Fit, Sound, Idle
    <3>2. QED BY <1>3, <2>6, <3>1
  <2>8. /\ Fits' /\ call'[c] = k /\ \A d \in Callers \ {c} : call'[d] = call[d]
        /\ call' = [d \in Callers |-> call'[d]]
        BY <1>0, <2>5, <2>7, FitsMove
  <2>9. /\ Decisions'
        /\ proposals' \in Seq(ProposalRow)
        /\ decided' \in Seq(Seq(Decision)) /\ Len(decided') = Len(proposals')
        BY <1>1, <1>2, <1>3, <1>5, <2>7, <2>8, DecisionsTaken DEF Decision
  <2>10. Rows'
         BY <1>0, <1>3, <2>3, <2>8, <2>9 DEF Rows
  <2>11. Scoped'
         BY <1>0, <1>3, <2>3 DEF Scoped, OfScope, InScope
  <2>12. QED BY <2>3, <2>8, <2>9, <2>10, <2>11 DEF Inv
<1>6. QED BY <1>1, <1>4, <1>5 DEF ConfirmWrite
----------------------------------------------------------------------------
\* It holds at the beginning.
LEMMA InvInit ==
    ASSUME Init
    PROVE  Inv
<1> USE DEF Init
<1>1. <<>> \in Seq(Memory) /\ <<>> \in Seq(ProposalRow) /\ <<>> \in Seq(Seq(Decision)) /\ <<>> \in Seq(Run)
      OBVIOUS
<1>2. Rows
      BY <1>1 DEF Rows
<1>3. Linked /\ Scoped /\ Decisions
      BY DEF Linked, Scoped, Decisions
<1>4. \A c \in Callers : call[c] = Idle
      BY DEF Idle
<1>5. Fits
      BY <1>4, FreeCall DEF Fits
<1>6. QED BY <1>2, <1>3, <1>5 DEF Inv

\* The clock moves, or the server dies: nothing committed changes, and a call at most ends.
LEMMA CallsEnd ==
    ASSUME Inv, now' \in Nat, call' = [c \in Callers |-> call'[c]],
           \A c \in Callers : call'[c] \in {call[c], Idle},
           UNCHANGED <<memories, index, proposals, decided, overlapped, runs>>
    PROVE  Inv'
<1>0. Rows /\ Linked /\ Scoped /\ Fits /\ Decisions
      BY DEF Inv
<1>1. Grows
      BY DEF Grows, Active
<1>2. ASSUME NEW c \in Callers PROVE \E k : k = call'[c] /\ Fit(k)'
  <2>1. PICK k : k = call'[c]
        OBVIOUS
  <2>2. Fit(k)
        BY <2>1, InCall, FreeCall
  <2>3. Fit(k)'
        BY <1>1, <2>2, FitKept
  <2>4. QED BY <2>1, <2>3
<1>3. Fits'
      BY <1>2 DEF Fits
<1>4. \A p : Deciding(p)' \subseteq Deciding(p)
      BY FreeCall DEF Deciding
<1>5. Decisions'
      BY <1>0, <1>4 DEF Decisions
<1>6. Rows' /\ Linked' /\ Scoped'
      BY <1>0 DEF Rows, Linked, Active, Scoped, OfScope, InScope
<1>7. QED BY <1>3, <1>5, <1>6 DEF Inv

\* Every step keeps it.
LEMMA InvStep ==
    ASSUME Inv, [Next]_vars
    PROVE  Inv'
<1>0. Rows
      BY DEF Inv
<1>1. CASE Tick
  <2>1. now' \in Nat /\ UNCHANGED <<call, memories, index, proposals, decided, overlapped, runs>>
        BY <1>0, <1>1 DEF Tick, Rows, store, history
  <2>2. QED BY <1>0, <2>1, CallsEnd DEF Rows
<1>2. CASE Die
  <2>1. /\ now' \in Nat /\ call' = [c \in Callers |-> Idle]
        /\ UNCHANGED <<memories, index, proposals, decided, overlapped, runs>>
        BY <1>0, <1>2 DEF Die, Rows, store, history
  <2>2. QED BY <2>1, CallsEnd
<1>3. ASSUME NEW c \in Callers, Person(c) PROVE Inv'
      BY <1>3, ProposalSteps, DecisionBegins, ForgetSteps, PersonReads DEF Person
<1>4. ASSUME NEW c \in Callers, Agent(c) PROVE Inv'
      BY <1>4, SignalReads, PromptReads DEF Agent
<1>5. ASSUME NEW c \in Callers, Step(c) PROVE Inv'
      BY <1>5, ExpireStep, DecisionBegins, ConfirmStep, RejectStep, SignalReads, ProposalSteps,
         ForgetSteps, RunReads, ProfileStep, RunSteps, PromptReads DEF Step
<1>6. CASE UNCHANGED vars
  <2>1. UNCHANGED <<call, now, memories, index, proposals, decided, overlapped, runs>>
        BY <1>6 DEF vars, history
  <2>2. QED BY <1>0, <2>1, CallsEnd DEF Rows
<1>7. QED BY <1>1, <1>2, <1>3, <1>4, <1>5, <1>6 DEF Next

\* What every state of every run satisfies.
LEMMA Invariance == Spec => []Inv
<1>1. Init => Inv
      BY InvInit
<1>2. Inv /\ [Next]_vars => Inv'
      BY InvStep
<1>3. QED BY <1>1, <1>2, PTL DEF Spec
----------------------------------------------------------------------------
\* Confirmations, expiries, forgettings and deaths of the server, each selecting rows
\* before others write, leave the full-text index exactly on what is in force, and the
\* links between a memory and its successor in both directions (store.py 262-330,
\* 445-497, 640-690).
THEOREM StoreStaysConsistent == Spec => []StoreConsistent
<1>1. Inv => StoreConsistent
      BY DEF Inv, Linked, StoreConsistent
<1>2. QED BY <1>1, Invariance, PTL

\* A proposal that is only decided by one call at a time is confirmed or rejected once:
\* what a call read before its transaction is still so when it commits (store.py
\* 235-245, 262-272).
THEOREM OneDecision == Spec => []DecidedOnce
<1>1. Inv => DecidedOnce
      BY DEF Inv, Decisions, DecidedOnce
<1>2. QED BY <1>1, Invariance, PTL

\* No role is given a reference to a memory that was gone when its run began to resolve
\* its references, nor a wiped value, nor anything of another project; and the
\* preferences in the checkpoint are of the project too (memory/service.py 288-338,
\* personalization/service.py 90-122).
THEOREM NothingStale == Spec => []NoStaleMemory
<1>1. ASSUME Inv PROVE NoStaleMemory
  <2>1. SUFFICES ASSUME NEW c \in Callers, NEW g \in Given(c)
                 PROVE  /\ g[1] \notin call[c].gone /\ g[2] # Wiped
                        /\ \A h \in {g} \cup runs[call[c].r].applied :
                               InScope(h[1], runs[call[c].r].scope)
        BY DEF NoStaleMemory
  <2>2. call[c].pc = "load" /\ g \in call[c].got
        BY <2>1 DEF Given, At
  <2>3. Clean(call[c])
        BY <1>1, <2>2, InCall DEF Sound
  <2>4. g[1] \notin call[c].gone /\ InScope(g[1], runs[call[c].r].scope)
        BY <2>2, <2>3 DEF Clean, OfScope
  <2>5. g[2] # Wiped
        BY <2>2, <2>3, MemoryAssumption DEF Clean, Load
  <2>6. \A h \in runs[call[c].r].applied : InScope(h[1], runs[call[c].r].scope)
        BY <1>1, <2>3 DEF Clean, Inv, Scoped, OfScope
  <2>7. QED BY <2>4, <2>5, <2>6
<1>2. QED BY <1>1, Invariance, PTL
=============================================================================
