-------------------------- MODULE LedgerHistoryProofs --------------------------
(***************************************************************************)
(* What each step keeps of the history, given the locks: a ref only moves  *)
(* forward in the commit graph, each movement has its decision and its     *)
(* queue entry, a branch starts inside its source and rests while it is    *)
(* deleted, and a merge launders no work past its author.                  *)
(* LedgerTheorems concludes.                                               *)
(***************************************************************************)
EXTENDS LedgerProofs

(* Zenon proves the leaves that name no prover. *)
USE Zenon

-----------------------------------------------------------------------------
(* Heads. *)

(* c was the head of b, or b had none. *)
WasHead(c, b) == c = NoCommit \/ c \in Ancestors[refs[b].head]

(* The head a proposal expects is not ahead of its branch ... *)
BaseWasHead == \A p \in proposals : p.expected <= refs[p.branch].head

(* ... and behind it once the proposal is superseded. *)
IsBehind(c) == \A p \in proposals : p.candidate = c => p.expected < refs[p.branch].head
SupersededIsBehind == \A d \in decisions : d.decision = "superseded" => IsBehind(d.candidate)

(* What a transaction read of a ref without locking it was the head then,   *)
(* and so is behind the head, or is the head, now.                          *)
ReadHead(t) ==
    /\ pc[t] = "prepare_commit" => req[t].expected <= refs[req[t].branch].head
    /\ pc[t] \in ProposePc => cur[t].head <= refs[req[t].target].head
    /\ pc[t] = "supersede_commit" => IsBehind(req[t].candidate)
    /\ pc[t] \in CreatePc => WasHead(src[t].head, req[t].source)
    /\ pc[t] \in {"create_branch", "create_commit"} => WasHead(cur[t].head, req[t].source)
    /\ pc[t] = "create_commit" => WasHead(Point(t), req[t].source)

HInv == /\ LInv /\ Based
        /\ BaseWasHead /\ SupersededIsBehind
        /\ FastForwardOnly /\ BranchPointInSource
        /\ \A t \in Tx : ReadHead(t)

(* What a commit does to the commit graph and the refs: a candidate becomes *)
(* the head of its branch, a branch is created, a well-based proposal is    *)
(* published, or nothing.                                                   *)
LEMMA CommitKinds ==
  ASSUME LInv, NEW t \in Tx, WriteStep(t)
  PROVE  \/ \E p \in proposals : \E op \in {"genesis", "advance", "merge"} : Installs(t, p, op)
         \/ CreatesBranch(t)
         \/ \E p : Publishes(t, p) /\ WellBased(p)
         \/ UNCHANGED <<proposals, lastCommit, refs, refEvents, branches>>
         \/ ChangesStatus(t)
<1>0. TypeInv BY DEF LInv, IInv
<1>1. lastCommit \in Nat BY <1>0 DEF TypeInv, TypeOK, TablesOK
<1>2. ASSUME NEW p, PublishesPlain(t, p) PROVE Publishes(t, p) /\ WellBased(p)
  <2>0. Publishes(t, p) BY <1>2 DEF PublishesPlain
  <2>1. req[t] \in PrepareRequest BY <1>0, <1>2, RequestAt DEF PublishesPlain, PreparePc
  <2>2. p.expected \in {NoCommit} \cup Commit BY <1>2, <2>1 DEF PublishesPlain, PrepareRequest
  <2>3. /\ p.candidate = lastCommit + 1
        /\ p.parents = IF p.expected = NoCommit THEN <<>> ELSE <<p.expected>>
    BY <1>2 DEF PublishesPlain, Publishes
  <2>4. CASE p.expected = NoCommit
    <3>1. p.parents = <<>> BY <2>3, <2>4
    <3>2. \A i \in DOMAIN p.parents : FALSE BY SMT, <3>1
    <3> QED BY <2>0, <2>4, <3>1, <3>2 DEF WellBased
  <2>5. CASE p.expected # NoCommit
    <3>1. p.parents = <<p.expected>> /\ p.expected < p.candidate
      BY SMT, <1>1, <2>2, <2>3, <2>5 DEF Commit
    <3>2. DOMAIN p.parents = {1} /\ p.parents[1] = p.expected /\ p.parents # <<>> BY SMT, <3>1
    <3>3. p.expected < p.candidate BY <3>1
    <3>4. \A i \in DOMAIN p.parents : p.parents[i] < p.candidate BY <3>2, <3>3
    <3> QED BY <2>0, <2>5, <3>2, <3>4 DEF WellBased
  <2> QED BY <2>4, <2>5
<1>3. ASSUME NEW p, PublishesMerge(t, p) PROVE Publishes(t, p) /\ WellBased(p)
  <2>1. /\ req[t] \in ProposeRequest
        /\ cur[t].head = req[t].targetHead /\ src[t].head = req[t].sourceHead
    BY <1>0, <1>3, RequestAt DEF PublishesMerge, ProposePc, TypeInv, ReadsArePlausible
  <2>2. cur[t].head \in Commit /\ src[t].head \in Commit BY <2>1 DEF ProposeRequest
  <2>3. /\ p.candidate = lastCommit + 1
        /\ p.expected = cur[t].head /\ p.parents = <<cur[t].head, src[t].head>>
    BY <1>3 DEF PublishesMerge, Publishes
  <2>4. /\ DOMAIN p.parents = {1, 2} /\ p.parents[1] = p.expected /\ p.parents # <<>>
        /\ p.parents[2] = src[t].head
    BY SMT, <2>3
  <2>5. /\ p.expected # NoCommit /\ p.expected < p.candidate /\ src[t].head < p.candidate
    BY SMT, <1>1, <2>2, <2>3 DEF Commit, NoCommit
  <2>6. WellBased(p) BY <2>4, <2>5 DEF WellBased
  <2> QED BY <1>3, <2>6 DEF PublishesMerge
<1>4. ASSUME NEW p \in proposals, InstallsGenesis(t, p) \/ InstallsNext(t, p) \/ InstallsMerge(t, p)
      PROVE  \E op \in {"genesis", "advance", "merge"} : Installs(t, p, op)
  BY <1>4 DEF InstallsGenesis, InstallsNext, InstallsMerge, Advances
<1>5. ASSUME NEW p, NEW s, Declines(t, p, s) \/ Validates(t)
      PROVE  UNCHANGED <<proposals, lastCommit, refs, refEvents, branches>>
  BY <1>5 DEF Declines, Validates
<1> QED BY <1>2, <1>3, <1>4, <1>5, Effects

(* The commit graph only grows: new commits above the old ones. *)
LEMMA GraphGrows ==
  ASSUME LInv, TypeInv', Based, NEW t \in Tx, WriteStep(t)
  PROVE  /\ Based'
         /\ proposals \subseteq proposals' /\ lastCommit <= lastCommit'
         /\ \A p \in proposals' \ proposals : p.candidate > lastCommit
         /\ \A c \in 0 .. lastCommit : Ancestors'[c] = Ancestors[c]
<1>0. TypeInv BY DEF LInv, IInv
<1>1. lastCommit \in Nat BY <1>0 DEF TypeInv, TypeOK, TablesOK
<1>2. /\ Based' /\ proposals \subseteq proposals' /\ lastCommit <= lastCommit'
      /\ \A p \in proposals' \ proposals : p.candidate > lastCommit
  <2>1. CASE UNCHANGED <<proposals, lastCommit>> BY SMT, <1>1, <2>1 DEF Based
  <2>2. ASSUME NEW p, Publishes(t, p), WellBased(p)
        PROVE  /\ Based' /\ proposals \subseteq proposals' /\ lastCommit <= lastCommit'
               /\ \A q \in proposals' \ proposals : q.candidate > lastCommit
    BY SMT, <1>1, <2>2 DEF Publishes, Based
  <2>3. ASSUME NEW p \in proposals, NEW op, Installs(t, p, op) PROVE UNCHANGED <<proposals, lastCommit>>
    BY <2>3 DEF Installs
  <2>4. CASE CreatesBranch(t) BY <2>1, <2>4 DEF CreatesBranch
  <2>5. CASE ChangesStatus(t) BY <2>1, <2>5 DEF ChangesStatus
  <2> QED BY <2>1, <2>2, <2>3, <2>4, <2>5, CommitKinds
<1> QED BY <1>0, <1>2, AncestorsStable

(* A ref that moves leaves its head behind, in the history of the new one. *)
LEMMA HeadStep ==
  ASSUME LInv, TypeInv', Based, NEW t \in Tx, WriteStep(t), NEW b \in Branch
  PROVE  \/ refs'[b] = refs[b]
         \/ /\ refs[b].head < refs'[b].head
            /\ refs[b].head = NoCommit \/ refs[b].head \in Ancestors'[refs'[b].head]
<1>0. TypeInv BY DEF LInv, IInv
<1>1. /\ lastCommit \in Nat /\ refs \in [Branch -> Ref]
      /\ \A x \in Branch : refs[x].head \in {NoCommit} \cup Commit /\ IsRefPair(refs[x])
  BY <1>0 DEF TypeInv, TypeOK, TablesOK, Ref, ReadsArePlausible
<1>2. Based' BY GraphGrows
<1>3. ASSUME NEW p \in proposals, NEW op, Installs(t, p, op), p.branch = b
      PROVE  /\ refs[b].head < refs'[b].head
             /\ refs[b].head = NoCommit \/ refs[b].head \in Ancestors'[refs'[b].head]
  <2>1. /\ p.expected = refs[b].head /\ Moves(b, p.candidate, op)
        /\ proposals' = proposals /\ lastCommit' = lastCommit
    BY <1>3 DEF Installs
  <2>2. refs'[b].head = p.candidate BY <1>1, <2>1 DEF Moves
  <2>3. p.candidate \in Commit /\ p.candidate \in Commit' /\ p.parents \in Seq(Commit)
    BY <1>0, <2>1 DEF TypeInv, TypeOK, TablesOK, ProposalRow
  <2>4. WellBased(p) BY DEF Based
  <2>5. CASE p.expected = NoCommit BY SMT, <1>1, <2>1, <2>2, <2>3, <2>5 DEF NoCommit, Commit
  <2>6. CASE p.expected # NoCommit
    <3>1. p.parents # <<>> /\ p.parents[1] = p.expected BY <2>4, <2>6 DEF WellBased
    <3>2. 1 \in DOMAIN p.parents BY SMT, <2>3, <3>1
    <3>3. p.expected < p.candidate BY <2>4, <3>1, <3>2 DEF WellBased
    <3>4. p.expected \in Parents(p.candidate)'
      <4>1. p \in {q \in proposals' : q.candidate = p.candidate} BY <2>1
      <4>2. p.expected \in {p.parents[i] : i \in DOMAIN p.parents} BY <3>1, <3>2
      <4> QED BY <4>1, <4>2 DEF Parents
    <3>5. p.expected \in Commit' BY <1>1, <2>1, <2>6 DEF Commit
    <3>6. p.expected \in Ancestors'[p.expected] BY <1>2, <3>5, AncestorsOrderNext DEF AncestorsOrdered
    <3>7. Ancestors'[p.candidate]
            = {p.candidate} \cup UNION {Ancestors'[x] : x \in Parents(p.candidate)'}
      BY <1>2, <2>3, AncestorsOfNext DEF AncestorsAre
    <3> QED BY <2>1, <2>2, <3>3, <3>4, <3>6, <3>7
  <2> QED BY <2>5, <2>6
<1>4. ASSUME NEW p \in proposals, NEW op, Installs(t, p, op), p.branch # b PROVE refs'[b] = refs[b]
  BY SMT, <1>4 DEF Installs, Moves
<1>5. CASE CreatesBranch(t)
  <2>1. /\ refs[req[t].name].version = 0 /\ Point(t) \in Commit
        /\ Moves(req[t].name, Point(t), "genesis")
    BY <1>5 DEF CreatesBranch
  <2>2. CASE b = req[t].name
    <3>1. refs[b].head = NoCommit /\ refs'[b].head = Point(t)
      BY <1>1, <2>1, <2>2 DEF Moves, IsRefPair
    <3> QED BY SMT, <1>1, <2>1, <3>1 DEF NoCommit, Commit
  <2>3. CASE b # req[t].name BY SMT, <2>1, <2>3 DEF Moves
  <2> QED BY <2>2, <2>3
<1>6. ASSUME NEW p, Publishes(t, p) PROVE refs'[b] = refs[b] BY <1>6 DEF Publishes
<1>7. CASE ChangesStatus(t) BY <1>7 DEF ChangesStatus
<1> QED BY <1>3, <1>4, <1>5, <1>6, <1>7, CommitKinds

(* Whatever a head reaches stays reached. *)
LEMMA ReachedStays ==
  ASSUME LInv, TypeInv', Based, NEW t \in Tx, WriteStep(t), NEW b \in Branch,
         NEW c \in Ancestors[refs[b].head]
  PROVE  c \in Ancestors'[refs'[b].head]
<1>0. TypeInv BY DEF LInv, IInv
<1>1. /\ refs[b].head \in {NoCommit} \cup Commit /\ lastCommit \in Nat
      /\ refs'[b].head \in {NoCommit} \cup Commit'
  BY <1>0 DEF TypeInv, TypeOK, TablesOK, Ref
<1>2. refs[b].head # NoCommit BY <1>0, AncestorsOf DEF AncestorsAre
<1>3. Ancestors'[refs[b].head] = Ancestors[refs[b].head] BY SMT, <1>1, <1>2, GraphGrows DEF Commit
<1>4. CASE refs'[b] = refs[b] BY <1>3, <1>4
<1>5. CASE refs'[b] # refs[b]
  <2>1. refs[b].head \in Ancestors'[refs'[b].head] BY <1>2, <1>5, HeadStep
  <2>2. Based' BY GraphGrows
  <2>3. refs'[b].head # NoCommit BY <2>1, <2>2, AncestorsOfNext DEF AncestorsAre
  <2>4. Ancestors'[refs[b].head] \subseteq Ancestors'[refs'[b].head]
    BY <1>1, <2>1, <2>2, <2>3, AncestorsOrderNext DEF AncestorsOrdered
  <2> QED BY <1>3, <2>4
<1> QED BY <1>4, <1>5

(* So what was the head, or was behind it, is so still. *)
LEMMA WasHeadStays ==
  ASSUME LInv, TypeInv', Based, NEW t \in Tx, WriteStep(t), NEW b \in Branch, NEW c, WasHead(c, b)
  PROVE  WasHead(c, b)'
  BY ReachedStays DEF WasHead

(* Heads only grow. *)
LEMMA HeadGrows ==
  ASSUME LInv, TypeInv', Based, NEW t \in Tx, WriteStep(t), NEW b \in Branch
  PROVE  refs[b].head \in Nat /\ refs'[b].head \in Nat /\ refs[b].head <= refs'[b].head
<1>1. /\ refs[b].head \in {NoCommit} \cup Commit /\ lastCommit \in Nat
      /\ refs'[b].head \in {NoCommit} \cup Commit' /\ lastCommit' \in Nat
  BY DEF LInv, IInv, TypeInv, TypeOK, TablesOK, Ref
<1> QED BY SMT, <1>1, HeadStep DEF NoCommit, Commit

(* A candidate behind its branch stays behind. *)
LEMMA BehindStays ==
  ASSUME LInv, TypeInv', Based, NEW t \in Tx, WriteStep(t), NEW c \in Commit, IsBehind(c)
  PROVE  IsBehind(c)'
<1> SUFFICES ASSUME NEW p \in proposals', p.candidate = c
             PROVE  p.expected < refs'[p.branch].head
  BY DEF IsBehind
<1>1. lastCommit \in Nat BY DEF LInv, IInv, TypeInv, TypeOK, TablesOK
<1>2. p \in proposals BY SMT, <1>1, GraphGrows DEF Commit
<1>3. p.branch \in Branch /\ p.expected \in Nat
  BY SMT, <1>1, <1>2 DEF LInv, IInv, TypeInv, TypeOK, TablesOK, ProposalRow, NoCommit, Commit
<1>4. p.expected < refs[p.branch].head BY <1>2 DEF IsBehind
<1> QED BY SMT, <1>3, <1>4, HeadGrows

(* A published proposal expects a head that was read. *)
LEMMA PublishedBase ==
  ASSUME LInv, NEW t \in Tx, WriteStep(t), ReadHead(t), NEW p \in proposals' \ proposals
  PROVE  p.expected <= refs[p.branch].head /\ UNCHANGED refs
<1>1. ASSUME NEW q, PublishesPlain(t, q)
      PROVE  p = q /\ q.expected <= refs[q.branch].head /\ UNCHANGED refs
  BY <1>1 DEF PublishesPlain, Publishes, ReadHead
<1>2. ASSUME NEW q, PublishesMerge(t, q)
      PROVE  p = q /\ q.expected <= refs[q.branch].head /\ UNCHANGED refs
  BY <1>2 DEF PublishesMerge, Publishes, ReadHead, ProposePc
<1>3. ASSUME NEW q, NEW s,
             \/ InstallsGenesis(t, q) \/ InstallsNext(t, q) \/ InstallsMerge(t, q)
             \/ CreatesBranch(t) \/ Declines(t, q, s) \/ Validates(t) \/ ChangesStatus(t)
      PROVE  UNCHANGED proposals
  BY <1>3 DEF InstallsGenesis, InstallsNext, InstallsMerge, Advances, Installs,
     CreatesBranch, Declines, Validates, ChangesStatus
<1> QED BY <1>1, <1>2, <1>3, Effects

(* No proposal gets ahead of its branch. *)
LEMMA BaseStep ==
  ASSUME HInv, TypeInv', NEW t \in Tx, WriteStep(t)
  PROVE  BaseWasHead'
<1>0. LInv /\ TypeInv /\ Based /\ BaseWasHead /\ ReadHead(t) BY DEF HInv, LInv, IInv
<1>1. lastCommit \in Nat BY <1>0 DEF TypeInv, TypeOK, TablesOK
<1>2. ASSUME NEW p \in proposals PROVE p.expected <= refs'[p.branch].head
  <2>1. p.branch \in Branch /\ p.expected \in Nat
    BY SMT, <1>0, <1>1 DEF TypeInv, TypeOK, TablesOK, ProposalRow, NoCommit, Commit
  <2> QED BY SMT, <1>0, <2>1, HeadGrows DEF BaseWasHead
<1>3. ASSUME NEW p \in proposals' \ proposals PROVE p.expected <= refs'[p.branch].head
  BY <1>0, PublishedBase
<1> QED BY <1>2, <1>3 DEF BaseWasHead

(* What mark_superseded recorded stays behind, and what it records is. *)
LEMMA SupersededStep ==
  ASSUME HInv, TypeInv', NEW t \in Tx, WriteStep(t)
  PROVE  SupersededIsBehind'
<1>0. LInv /\ TypeInv /\ Based /\ SupersededIsBehind /\ ReadHead(t) BY DEF HInv, LInv, IInv
<1>1. ASSUME NEW d \in decisions, d.decision = "superseded" PROVE IsBehind(d.candidate)'
  <2>1. d.candidate \in Commit BY <1>0 DEF TypeInv, TypeOK, TablesOK, DecisionRow
  <2> QED BY <1>0, <1>1, <2>1, BehindStays DEF SupersededIsBehind
<1>2. ASSUME NEW p, NEW s, Declines(t, p, s), NEW d \in decisions' \ decisions,
             d.decision = "superseded"
      PROVE  IsBehind(d.candidate)'
  <2>1. d = Decision(p, s, 0, req[t]) /\ p \in proposals /\ p.candidate = req[t].candidate
    BY <1>2 DEF Declines
  <2>2. s = "superseded" /\ d.candidate = req[t].candidate BY <1>2, <2>1 DEF Decision
  <2>3. pc[t] = "supersede_commit" BY <1>2, <2>2 DEF Declines
  <2>4. p.candidate \in Commit BY <1>0, <2>1 DEF TypeInv, TypeOK, TablesOK, ProposalRow
  <2> QED BY <1>0, <2>1, <2>2, <2>3, <2>4, BehindStays DEF ReadHead
<1>3. ASSUME NEW p, InstallsGenesis(t, p) \/ InstallsNext(t, p) \/ InstallsMerge(t, p),
             NEW d \in decisions' \ decisions
      PROVE  d.decision # "superseded"
  <2>1. \E v : d = Decision(p, "accepted", v, req[t])
    BY <1>3 DEF InstallsGenesis, InstallsNext, InstallsMerge, Advances, Installs
  <2> QED BY SMT, <2>1 DEF Decision
<1>4. ASSUME NEW p, \/ PublishesPlain(t, p) \/ PublishesMerge(t, p)
                    \/ CreatesBranch(t) \/ Validates(t) \/ ChangesStatus(t)
      PROVE  UNCHANGED decisions
  BY <1>4 DEF PublishesPlain, PublishesMerge, Publishes, CreatesBranch, Validates, ChangesStatus
<1>5. ASSUME NEW d \in decisions', d.decision = "superseded" PROVE IsBehind(d.candidate)'
  <2>1. CASE d \in decisions BY <1>1, <1>5, <2>1
  <2>2. CASE d \notin decisions BY <1>0, <1>2, <1>3, <1>4, <1>5, <2>2, Effects
  <2> QED BY <2>1, <2>2
<1> QED BY <1>5 DEF SupersededIsBehind

(* The head of a branch is reached from itself. *)
LEMMA HeadWasHead ==
  ASSUME TypeInv, Based, NEW b \in Branch
  PROVE  WasHead(refs[b].head, b)
<1>1. refs[b].head \in {NoCommit} \cup Commit BY DEF TypeInv, TypeOK, TablesOK, Ref
<1> QED BY <1>1, AncestorsOrder DEF WasHead, AncestorsOrdered

(* The branches a creation names. *)
LEMMA CreateNames ==
  ASSUME NEW r \in CreateRequest
  PROVE  r.op = "branch_create" /\ r.name \in Branch \ {Main} /\ r.source \in Branch
  BY DEF CreateRequest

(* A movement installs what follows the head it leaves. *)
LEMMA MovementForward ==
  ASSUME LInv, TypeInv', Based, NEW t \in Tx, WriteStep(t), NEW e \in refEvents' \ refEvents
  PROVE  /\ e.old # NoCommit => \E p \in proposals' : /\ p.candidate = e.new
                                                      /\ p.parents # <<>>
                                                      /\ p.parents[1] = e.old
         /\ e.new = refs'[e.branch].head /\ e.new \in Commit'
<1>0. TypeInv BY DEF LInv, IInv
<1>1. /\ refs \in [Branch -> Ref] /\ proposals \subseteq ProposalRow
      /\ \A x \in Branch : IsRefPair(refs[x])
  BY <1>0 DEF TypeInv, TypeOK, TablesOK, ReadsArePlausible
<1>2. ASSUME NEW b \in Branch, NEW c, NEW op, Moves(b, c, op)
      PROVE  e.branch = b /\ e.old = refs[b].head /\ e.new = c /\ refs'[b].head = c
  BY SMT, <1>1, <1>2 DEF Moves
<1>3. ASSUME NEW p \in proposals, NEW op, Installs(t, p, op)
      PROVE  /\ e.old # NoCommit => \E q \in proposals' : /\ q.candidate = e.new
                                                          /\ q.parents # <<>>
                                                          /\ q.parents[1] = e.old
             /\ e.new = refs'[e.branch].head /\ e.new \in Commit'
  <2>1. /\ p.branch \in Branch /\ p.candidate \in Commit
        /\ Moves(p.branch, p.candidate, op) /\ p.expected = refs[p.branch].head
        /\ proposals' = proposals /\ lastCommit' = lastCommit
    BY <1>1, <1>3 DEF Installs, ProposalRow
  <2>2. /\ e.branch = p.branch /\ e.old = p.expected /\ e.new = p.candidate
        /\ refs'[p.branch].head = p.candidate
    BY <1>2, <2>1
  <2>3. p.expected # NoCommit => p.parents # <<>> /\ p.parents[1] = p.expected
    BY DEF Based, WellBased
  <2>4. p.candidate \in Commit' BY <2>1 DEF Commit
  <2> QED BY <2>1, <2>2, <2>3, <2>4
<1>4. CASE CreatesBranch(t)
  <2>1. /\ req[t].name \in Branch /\ refs[req[t].name].version = 0 /\ Point(t) \in Commit
        /\ Moves(req[t].name, Point(t), "genesis") /\ lastCommit' = lastCommit
    BY <1>4, CreateNames DEF CreatesBranch
  <2>2. refs[req[t].name].head = NoCommit BY <1>1, <2>1 DEF IsRefPair
  <2>3. Point(t) \in Commit' BY <2>1 DEF Commit
  <2> QED BY <1>2, <2>1, <2>2, <2>3
<1>5. ASSUME NEW p, \/ Publishes(t, p) \/ ChangesStatus(t)
      PROVE  UNCHANGED refEvents
  BY <1>5 DEF Publishes, ChangesStatus
<1> QED BY <1>3, <1>4, <1>5, CommitKinds

(* History is not rewritten. *)
LEMMA ForwardStep ==
  ASSUME HInv, TypeInv', NEW t \in Tx, WriteStep(t)
  PROVE  FastForwardOnly'
<1>0. LInv /\ TypeInv /\ Based /\ FastForwardOnly BY DEF HInv, LInv, IInv
<1>1. Based' /\ proposals \subseteq proposals' BY <1>0, GraphGrows
<1>2. ASSUME NEW e \in refEvents
      PROVE  /\ e.old # NoCommit => \E p \in proposals' : /\ p.candidate = e.new
                                                          /\ p.parents # <<>>
                                                          /\ p.parents[1] = e.old
             /\ e.new \in Ancestors'[refs'[e.branch].head]
  <2>1. e.branch \in Branch /\ e \in EventsOf(e.branch)
    BY <1>0 DEF TypeInv, TypeOK, TablesOK, RefEvent, EventsOf
  <2>2. /\ e.old # NoCommit => \E p \in proposals : /\ p.candidate = e.new
                                                    /\ p.parents # <<>>
                                                    /\ p.parents[1] = e.old
        /\ e.new \in Ancestors[refs[e.branch].head]
    BY <1>0, <2>1 DEF FastForwardOnly
  <2>3. e.new \in Ancestors'[refs'[e.branch].head] BY <1>0, <2>1, <2>2, ReachedStays
  <2> QED BY <1>1, <2>2, <2>3
<1>3. ASSUME NEW e \in refEvents' \ refEvents
      PROVE  /\ e.old # NoCommit => \E p \in proposals' : /\ p.candidate = e.new
                                                          /\ p.parents # <<>>
                                                          /\ p.parents[1] = e.old
             /\ e.new \in Ancestors'[refs'[e.branch].head]
  <2>1. e.new \in Ancestors'[e.new]
    BY <1>0, <1>1, MovementForward, AncestorsOrderNext DEF AncestorsOrdered
  <2> QED BY <1>0, <2>1, MovementForward
<1> QED BY <1>2, <1>3 DEF FastForwardOnly, EventsOf

(* A branch keeps its source and its point; only branch create gives it any. *)
LEMMA SourceStep ==
  ASSUME LInv, NEW t \in Tx, WriteStep(t), NEW b \in Branch
  PROVE  \/ branches'[b].source = branches[b].source /\ branches'[b].point = branches[b].point
         \/ branches'[b].source = NoName /\ b = Main
         \/ /\ CreatesBranch(t) /\ b = req[t].name
            /\ branches'[b].source = req[t].source /\ branches'[b].point = Point(t)
<1>0. branches \in [Branch -> BranchRow] BY DEF LInv, IInv, TypeInv, TypeOK, TablesOK
<1>1. ASSUME NEW p, InstallsGenesis(t, p)
      PROVE  \/ branches'[b] = branches[b]
             \/ branches'[b].source = NoName /\ b = Main
  <2>1. branches' = [branches EXCEPT ![Main] = FirstRow] BY <1>1 DEF InstallsGenesis
  <2>2. FirstRow.source = NoName BY DEF FirstRow, NoBranch
  <2>3. CASE b = Main BY <1>0, <2>1, <2>2, <2>3
  <2>4. b # Main => branches'[b] = branches[b]
    <3> HIDE DEF FirstRow
    <3> QED BY <1>0, <2>1
  <2> QED BY <2>3, <2>4
<1>2. ASSUME NEW p, NEW s,
             \/ InstallsNext(t, p) \/ InstallsMerge(t, p) \/ PublishesPlain(t, p)
             \/ PublishesMerge(t, p) \/ Declines(t, p, s) \/ Validates(t)
      PROVE  UNCHANGED branches
  BY <1>2 DEF InstallsNext, InstallsMerge, Advances, PublishesPlain, PublishesMerge,
     Publishes, Declines, Validates
<1>3. CASE ChangesStatus(t)
  <2>1. branches' = [branches EXCEPT ![req[t].name] =
             [@ EXCEPT !.status = StatusAfter(req[t]), !.lifecycle = branches[req[t].name].lifecycle + 1]]
    BY <1>3 DEF ChangesStatus
  <2>2. branches'[b].source = branches[b].source /\ branches'[b].point = branches[b].point
    BY SMT, <1>0, <2>1 DEF BranchRow
  <2> QED BY <2>2
<1>4. CASE CreatesBranch(t)
  <2>1. branches' = [branches EXCEPT ![req[t].name] =
             [status |-> "active", lifecycle |-> 1, source |-> req[t].source,
              point |-> Point(t), policy |-> req[t].policy]]
    BY <1>4 DEF CreatesBranch
  <2> QED BY <1>0, <1>4, <2>1
<1> QED BY <1>1, <1>2, <1>3, <1>4, Effects

(* A branch starts inside its source. *)
LEMMA PointStep ==
  ASSUME HInv, TypeInv', NEW t \in Tx, WriteStep(t)
  PROVE  BranchPointInSource'
<1>0. LInv /\ TypeInv /\ Based /\ BranchPointInSource /\ ReadHead(t) BY DEF HInv, LInv, IInv
<1>1. refEvents \subseteq refEvents'
  BY <1>0, MoveStepWrites DEF Moves, LInv
<1>2. SUFFICES ASSUME NEW b \in Branch, branches'[b].source # NoName
               PROVE  /\ branches'[b].point \in Ancestors'[refs'[branches'[b].source].head]
                      /\ \E e \in refEvents' : /\ e.branch = b /\ e.version = 1
                                               /\ e.new = branches'[b].point
  BY DEF BranchPointInSource, EventsOf
<1>3. CASE branches'[b].source = branches[b].source /\ branches'[b].point = branches[b].point
  <2>1. /\ branches[b].point \in Ancestors[refs[branches[b].source].head]
        /\ \E e \in refEvents : e.branch = b /\ e.version = 1 /\ e.new = branches[b].point
    BY <1>0, <1>2, <1>3 DEF BranchPointInSource, EventsOf
  <2>2. branches[b].source \in Branch
    BY <1>0, <1>2, <1>3 DEF TypeInv, TypeOK, TablesOK, BranchRow
  <2>3. branches[b].point \in Ancestors'[refs'[branches[b].source].head]
    BY <1>0, <2>1, <2>2, ReachedStays
  <2> QED BY <1>1, <1>3, <2>1, <2>3
<1>4. CASE /\ CreatesBranch(t) /\ b = req[t].name
           /\ branches'[b].source = req[t].source /\ branches'[b].point = Point(t)
  <2>1. /\ req[t].source \in Branch /\ Point(t) \in Commit /\ refs[b].version = 0
        /\ Moves(b, Point(t), "genesis")
    BY <1>4, CreateNames DEF CreatesBranch
  <2>2. pc[t] = "create_commit" BY <1>4 DEF CreatesBranch
  <2>3. Point(t) # NoCommit BY SMT, <1>0, <2>1 DEF Commit, NoCommit, TypeInv, TypeOK, TablesOK
  <2>4. Point(t) \in Ancestors[refs[req[t].source].head]
    BY <1>0, <2>2, <2>3 DEF ReadHead, WasHead
  <2>5. Point(t) \in Ancestors'[refs'[req[t].source].head] BY <1>0, <2>1, <2>4, ReachedStays
  <2>6. \E e \in refEvents' : e.branch = b /\ e.version = 1 /\ e.new = Point(t)
    <3> DEFINE e == [branch |-> b, old |-> refs[b].head, new |-> Point(t),
                     version |-> refs[b].version + 1, operation |-> "genesis"]
    <3>1. e \in refEvents' BY <2>1 DEF Moves
    <3>2. e.branch = b /\ e.new = Point(t) /\ e.version = 1 BY SMT, <2>1
    <3> QED BY <3>1, <3>2
  <2> QED BY <1>4, <2>5, <2>6
<1> QED BY <1>0, <1>2, <1>3, <1>4, SourceStep

(* What another transaction read stays read, whoever commits. *)
LEMMA ReadHeadOther ==
  ASSUME HInv, TypeInv', NEW t \in Tx, WriteStep(t), NEW u \in Tx \ {t}
  PROVE  ReadHead(u)'
<1>0. LInv /\ TypeInv /\ Based /\ ReadHead(u) BY DEF HInv, LInv, IInv
<1>1. Still(u) BY <1>0, WriteStepFrame DEF Still
<1>2. lastCommit \in Nat /\ cur[u] \in Ref
  BY <1>0 DEF TypeInv, TypeOK, TablesOK, LocalsOK
<1>3. ASSUME NEW b \in Branch, NEW c \in {NoCommit} \cup Commit, c <= refs[b].head
      PROVE  c <= refs'[b].head
  BY SMT, <1>0, <1>2, <1>3, HeadGrows DEF NoCommit, Commit
<1>4. ASSUME pc[u] = "prepare_commit" PROVE req[u].expected <= refs'[req[u].branch].head
  <2>1. req[u] \in PrepareRequest BY <1>0, <1>4, RequestAt DEF PreparePc
  <2>2. req[u].branch \in Branch /\ req[u].expected \in {NoCommit} \cup Commit
    BY <2>1 DEF PrepareRequest
  <2> QED BY <1>0, <1>3, <1>4, <2>2 DEF ReadHead
<1>5. ASSUME pc[u] \in ProposePc PROVE cur[u].head <= refs'[req[u].target].head
  <2>1. req[u] \in ProposeRequest BY <1>0, <1>5, RequestAt
  <2>2. req[u].target \in Branch /\ cur[u].head \in {NoCommit} \cup Commit
    BY <1>2, <2>1 DEF ProposeRequest, Ref
  <2> QED BY <1>0, <1>3, <1>5, <2>2 DEF ReadHead
<1>6. ASSUME pc[u] = "supersede_commit" PROVE IsBehind(req[u].candidate)'
  <2>1. req[u] \in SupersedeRequest BY <1>0, <1>6, RequestAt DEF SupersedePc
  <2>2. req[u].candidate \in Commit BY <2>1 DEF SupersedeRequest
  <2>3. IsBehind(req[u].candidate) BY <1>0, <1>6 DEF ReadHead
  <2>4. req'[u].candidate = req[u].candidate BY <1>1 DEF Still
  <2> QED BY <1>0, <2>2, <2>3, <2>4, BehindStays DEF IsBehind
<1>7. ASSUME pc[u] \in CreatePc, NEW c, WasHead(c, req[u].source)
      PROVE  c = NoCommit \/ c \in Ancestors'[refs'[req[u].source].head]
  <2>1. req[u] \in CreateRequest BY <1>0, <1>7, RequestAt
  <2> QED BY <1>0, <1>7, <2>1, CreateNames, ReachedStays DEF WasHead
<1>8. pc[u] \in CreatePc =>
        src[u].head = NoCommit \/ src[u].head \in Ancestors'[refs'[req[u].source].head]
  BY <1>0, <1>7 DEF ReadHead
<1>9. pc[u] \in {"create_branch", "create_commit"} =>
        cur[u].head = NoCommit \/ cur[u].head \in Ancestors'[refs'[req[u].source].head]
  BY <1>0, <1>7 DEF ReadHead, CreatePc
<1>10. pc[u] = "create_commit" =>
        Point(u) = NoCommit \/ Point(u) \in Ancestors'[refs'[req[u].source].head]
  BY <1>0, <1>7 DEF ReadHead, CreatePc
<1>11. Point(u)' = Point(u) BY <1>1 DEF Still, Point
<1> QED BY <1>1, <1>4, <1>5, <1>6, <1>8, <1>9, <1>10, <1>11 DEF ReadHead, WasHead, Still

(* The commit graph depends on the published commits only. *)
LEMMA SameGraph == UNCHANGED tables => Ancestors' = Ancestors
  BY DEF tables, Ancestors, Parents

(* Where no table changes and a transaction stays, so does what it read. *)
LEMMA ReadHeadStill ==
  ASSUME NEW u \in Tx, Still(u), UNCHANGED tables, ReadHead(u)
  PROVE  ReadHead(u)'
<1>1. Ancestors' = Ancestors BY SameGraph
<1>2. refs' = refs /\ proposals' = proposals BY DEF tables
<1>3. Point(u)' = Point(u) BY DEF Still, Point
<1> QED BY <1>1, <1>2, <1>3 DEF ReadHead, WasHead, IsBehind, Still

(* The statements that read a head. *)
LEMMA ReadHeadSelf ==
  ASSUME HInv, NEW t \in Tx, ReadStep(t)
  PROVE  ReadHead(t)'
<1>0. LInv /\ TypeInv /\ Based /\ ReadHead(t) /\ BaseWasHead BY DEF HInv, LInv, IInv
<1>1. UNCHANGED tables BY <1>0, ReadStepFrame
<1>2. Ancestors' = Ancestors /\ refs' = refs /\ proposals' = proposals
  BY <1>1, SameGraph DEF tables
<1>3. /\ lastCommit \in Nat /\ proposals \subseteq ProposalRow /\ refs \in [Branch -> Ref]
      /\ DOMAIN cur = Tx /\ DOMAIN src = Tx /\ DOMAIN req = Tx
  BY <1>0 DEF TypeInv, TypeOK, TablesOK, LocalsOK
<1>4. \A b \in Branch : refs[b].head \in Nat BY SMT, <1>3 DEF Ref, NoCommit, Commit
<1>5. ASSUME pc'[t] = "prepare_commit" PROVE req'[t].expected <= refs[req'[t].branch].head
  <2>1. PrepareReadHead(t) BY <1>0, <1>5, ComesFrom
  <2>2. /\ req' = req /\ refs[req[t].branch].head = req[t].expected /\ pc[t] = "prepare_read"
    BY <2>1 DEF PrepareReadHead, Step
  <2>3. req[t] \in PrepareRequest BY <1>0, <2>2, RequestAt DEF PreparePc
  <2>4. req[t].branch \in Branch BY <2>3 DEF PrepareRequest
  <2> QED BY SMT, <1>4, <2>2, <2>4
<1>6. ASSUME pc'[t] \in ProposePc PROVE cur'[t].head <= refs[req'[t].target].head
  <2>1. CASE pc'[t] = "propose_source"
    <3>1. ProposeReadTarget(t) BY <1>0, <2>1, ComesFrom
    <3>2. PICK r \in ProposeRequest : /\ req' = [req EXCEPT ![t] = r]
                                      /\ cur' = [cur EXCEPT ![t] = refs[r.target]]
      BY <3>1 DEF ProposeReadTarget
    <3>3. r.target \in Branch BY DEF ProposeRequest
    <3> QED BY SMT, <1>3, <1>4, <3>2, <3>3
  <2>2. CASE pc'[t] # "propose_source"
    <3>1. ProposeReadSource(t) \/ ProposeBegin(t) \/ ProposeLockBranch(t) \/ ProposeRecheck(t)
      BY <1>0, <1>6, <2>2, ComesFrom DEF ProposePc
    <3>2. pc[t] \in ProposePc BY <1>0, <3>1, Places DEF Goes, ProposePc
    <3>3. req'[t] = req[t] /\ cur'[t] = cur[t]
      <4>1. CASE ProposeBegin(t) BY <1>0, <4>1, BeginScopedLocals DEF ProposeBegin
      <4>2. CASE ProposeReadSource(t) \/ ProposeLockBranch(t) \/ ProposeRecheck(t)
        BY <4>2 DEF ProposeReadSource, ProposeLockBranch, ProposeRecheck
      <4> QED BY <3>1, <4>1, <4>2
    <3> QED BY <1>0, <3>2, <3>3 DEF ReadHead
  <2> QED BY <2>1, <2>2
<1>7. ASSUME pc'[t] = "supersede_commit" PROVE IsBehind(req[t].candidate) /\ req' = req
  <2>1. SupersedeDecide(t) BY <1>0, <1>7, ComesFrom
  <2>2. PICK p \in proposals : p.candidate = req[t].candidate /\ p.expected # refs[p.branch].head
    BY <2>1 DEF SupersedeDecide
  <2>3. p.branch \in Branch /\ p.expected \in Nat BY SMT, <1>3 DEF ProposalRow, NoCommit, Commit
  <2>4. p.expected < refs[p.branch].head BY SMT, <1>0, <1>4, <2>2, <2>3 DEF BaseWasHead
  <2>5. \A q \in proposals : q.candidate = req[t].candidate => q = p
    BY <1>0, <2>2 DEF LInv, IInv, UniqueCandidates
  <2> QED BY <2>1, <2>4, <2>5 DEF IsBehind, SupersedeDecide
<1>8. ASSUME pc'[t] \in CreatePc \ {"create_begin"}
      PROVE  /\ req'[t] = req[t] /\ src'[t] = src[t] /\ pc[t] \in CreatePc
             /\ req[t].source \in Branch
  <2>1. CreateBegin(t) \/ CreateLockRef(t) \/ CreateLockBranch(t)
    BY <1>0, <1>8, ComesFrom DEF CreatePc
  <2>2. pc[t] \in CreatePc BY <1>0, <2>1, Places DEF Goes, CreatePc
  <2>3. req'[t] = req[t] /\ src'[t] = src[t]
    <3>1. CASE CreateBegin(t) BY <1>0, <3>1, BeginScopedLocals DEF CreateBegin
    <3>2. CASE CreateLockRef(t) \/ CreateLockBranch(t)
      BY <3>2 DEF CreateLockRef, CreateLockBranch
    <3> QED BY <2>1, <3>1, <3>2
  <2>4. req[t] \in CreateRequest BY <1>0, <2>2, RequestAt
  <2> QED BY <2>2, <2>3, <2>4, CreateNames
<1>9. ASSUME pc'[t] \in CreatePc PROVE WasHead(src'[t].head, req'[t].source)
  <2>1. CASE pc'[t] = "create_begin"
    <3>1. CreateReadSource(t) BY <1>0, <2>1, ComesFrom
    <3>2. PICK r \in CreateRequest :
            /\ req' = [req EXCEPT ![t] = r]
            /\ src' = [src EXCEPT ![t] = IF r.from # NoCommit /\ graphStatus = "active"
                                         THEN refs[r.source] ELSE NoRef]
      BY <3>1 DEF CreateReadSource
    <3>3. r.source \in Branch BY CreateNames
    <3>4. req'[t] = r /\ (src'[t] = refs[r.source] \/ src'[t] = NoRef) BY <1>3, <3>2
    <3>5. WasHead(NoRef.head, r.source) BY DEF WasHead, NoRef
    <3> QED BY <1>0, <3>3, <3>4, <3>5, HeadWasHead
  <2>2. CASE pc'[t] # "create_begin" BY <1>0, <1>8, <1>9, <2>2 DEF ReadHead
  <2> QED BY <2>1, <2>2
<1>10. ASSUME pc'[t] \in {"create_branch", "create_commit"}
       PROVE  WasHead(cur'[t].head, req'[t].source)
  <2>0. req'[t] = req[t] /\ req[t].source \in Branch BY <1>8, <1>10 DEF CreatePc
  <2>1. CASE pc'[t] = "create_branch"
    <3>1. CreateLockRef(t) BY <1>0, <2>1, ComesFrom
    <3>2. cur' = [cur EXCEPT ![t] = refs[req[t].source]] BY <3>1 DEF CreateLockRef
    <3>3. cur'[t] = refs[req[t].source] BY <1>3, <3>2
    <3> QED BY <1>0, <2>0, <3>3, HeadWasHead
  <2>2. CASE pc'[t] = "create_commit"
    <3>1. CreateLockBranch(t) BY <1>0, <2>2, ComesFrom
    <3>2. cur' = cur /\ pc[t] = "create_branch" BY <3>1 DEF CreateLockBranch, Step
    <3> QED BY <1>0, <2>0, <3>2 DEF ReadHead
  <2> QED BY <1>10, <2>1, <2>2
<1>11. ASSUME pc'[t] = "create_commit" PROVE WasHead(Point(t)', req'[t].source)
  <2>0. /\ req'[t] = req[t] /\ src'[t] = src[t] /\ req[t].source \in Branch
        /\ pc[t] \in CreatePc
    BY <1>8, <1>11 DEF CreatePc
  <2>1. CreateLockBranch(t) BY <1>0, <1>11, ComesFrom
  <2>2. cur' = cur /\ PointIsReachable(req[t], src[t], cur[t]) BY <2>1 DEF CreateLockBranch
  <2>3. Point(t)' = Point(t) BY <2>0, <2>2 DEF Point
  <2>4. CASE Point(t) = cur[t].head BY <1>10, <1>11, <2>0, <2>2, <2>3, <2>4
  <2>5. CASE Point(t) # cur[t].head
    <3>1. Point(t) = req[t].from /\ req[t].from \in Ancestors[src[t].head]
      BY <2>2, <2>5 DEF PointIsReachable, Point
    <3>2. src[t].head # NoCommit BY <1>0, <3>1, AncestorsOf DEF AncestorsAre
    <3>3. src[t].head \in Ancestors[refs[req[t].source].head]
      BY <1>0, <2>0, <3>2 DEF ReadHead, WasHead
    <3>4. refs[req[t].source].head \in {NoCommit} \cup Commit BY <1>3, <2>0 DEF Ref
    <3>5. refs[req[t].source].head # NoCommit BY <1>0, <3>3, AncestorsOf DEF AncestorsAre
    <3>6. Ancestors[src[t].head] \subseteq Ancestors[refs[req[t].source].head]
      BY <1>0, <3>3, <3>4, <3>5, AncestorsOrder DEF AncestorsOrdered
    <3> QED BY <2>0, <2>3, <3>1, <3>6 DEF WasHead
  <2> QED BY <2>4, <2>5
<1>12. pc'[t] \in CreatePc => WasHead(src[t].head, req[t].source)'
  BY <1>2, <1>9 DEF WasHead
<1>13. pc'[t] \in {"create_branch", "create_commit"} => WasHead(cur[t].head, req[t].source)'
  BY <1>2, <1>10 DEF WasHead
<1>14. pc'[t] = "create_commit" => WasHead(Point(t), req[t].source)'
  BY <1>2, <1>11 DEF WasHead
<1>15. pc'[t] = "supersede_commit" => IsBehind(req[t].candidate)'
  BY <1>2, <1>7 DEF IsBehind
<1> QED BY <1>2, <1>5, <1>6, <1>12, <1>13, <1>14, <1>15 DEF ReadHead

(* Superseded is behind, and so not at the head. *)
LEMMA BehindIsStale == HInv => SupersededStaysStale
<1> SUFFICES ASSUME HInv, NEW d \in decisions, d.decision = "superseded",
                    NEW p \in proposals, p.candidate = d.candidate
             PROVE  p.expected # refs[p.branch].head
  BY DEF SupersededStaysStale
<1>1. p.branch \in Branch /\ p.expected \in Nat /\ refs[p.branch].head \in Nat
  BY SMT DEF HInv, LInv, IInv, TypeInv, TypeOK, TablesOK, ProposalRow, Ref, NoCommit, Commit
<1>2. p.expected < refs[p.branch].head BY DEF HInv, SupersededIsBehind, IsBehind
<1> QED BY SMT, <1>1, <1>2

-----------------------------------------------------------------------------
(* Movements. *)

(* d is the acceptance of the movement e; o is its queue entry; e is the    *)
(* first event of a created branch.                                         *)
Accepts(d, e) == /\ d.decision = "accepted" /\ d.branch = e.branch
                 /\ d.version = e.version /\ d.candidate = e.new
Queues(o, e) == o.branch = e.branch /\ o.version = e.version /\ o.commit = e.new
IsCreation(e) == e.version = 1 /\ branches[e.branch].source # NoName

Explained(e) == IF IsCreation(e)
                THEN /\ \A d \in decisions : ~Accepts(d, e)
                     /\ \A o \in outbox : ~Queues(o, e)
                ELSE /\ \E d \in decisions : Accepts(d, e)
                     /\ \E o \in outbox : Queues(o, e)

MInv == /\ LInv
        /\ \A e \in refEvents : Explained(e)
        /\ \A d \in decisions : d.decision = "accepted" => \E e \in refEvents : Accepts(d, e)
        /\ \A o \in outbox : \E e \in refEvents : Queues(o, e)

(* A ref that does not exist has no events. *)
LEMMA NoEventsYet ==
  ASSUME LInv, NEW b \in Branch, refs[b].version = 0, NEW e \in refEvents
  PROVE  e.branch # b
<1>1. e.version \in Nat \ {0} BY DEF LInv, IInv, TypeInv, TypeOK, TablesOK, RefEvent
<1>2. e.branch = b => e.version <= 0 BY DEF LInv, IInv, RefHistory, EventsOf
<1> QED BY SMT, <1>1, <1>2

(* An installation is no branch creation: it changes no branch's source. *)
LEMMA InstallsKeepSource ==
  ASSUME LInv, NEW t \in Tx, WriteStep(t), NEW p,
         InstallsGenesis(t, p) \/ InstallsNext(t, p) \/ InstallsMerge(t, p), NEW b \in Branch
  PROVE  branches'[b].source = branches[b].source
<1>0. branches \in [Branch -> BranchRow] /\ branches[Main].source = NoName
  BY DEF LInv, IInv, TypeInv, TypeOK, TablesOK, MainIsPlain
<1>1. CASE InstallsGenesis(t, p)
  <2>1. branches' = [branches EXCEPT ![Main] = FirstRow] BY <1>1 DEF InstallsGenesis
  <2>2. FirstRow.source = NoName BY DEF FirstRow, NoBranch
  <2>3. CASE b = Main BY <1>0, <2>1, <2>2, <2>3
  <2>4. b # Main => branches'[b] = branches[b]
    <3> HIDE DEF FirstRow
    <3> QED BY <1>0, <2>1
  <2> QED BY <2>3, <2>4
<1>2. CASE InstallsNext(t, p) \/ InstallsMerge(t, p)
  BY <1>2 DEF InstallsNext, InstallsMerge, Advances
<1> QED BY <1>1, <1>2

(* The new event is no creation, and has its acceptance and its queue entry. *)
LEMMA InstallExplained ==
  ASSUME MInv, TypeInv', NEW t \in Tx, WriteStep(t), NEW p \in proposals, NEW op,
         Installs(t, p, op), \A b \in Branch : branches'[b].source = branches[b].source
  PROVE  /\ \A e \in refEvents' : Explained(e)'
         /\ \A d \in decisions' : d.decision = "accepted" => \E e \in refEvents' : Accepts(d, e)
         /\ \A o \in outbox' : \E e \in refEvents' : Queues(o, e)
<1> DEFINE b == p.branch
           v == refs[b].version + 1
           m == [branch |-> b, old |-> refs[b].head, new |-> p.candidate,
                 version |-> v, operation |-> op]
           a == Decision(p, "accepted", v, req[t])
           q == [branch |-> b, commit |-> p.candidate, version |-> v]
<1>0. LInv /\ TypeInv BY DEF MInv, LInv, IInv
<1>1. b \in Branch /\ refs[b].version \in Nat
  BY <1>0 DEF TypeInv, TypeOK, TablesOK, ProposalRow, Ref
<1>2. /\ refEvents' = refEvents \cup {m} /\ decisions' = decisions \cup {a}
      /\ outbox' = outbox \cup {q}
  BY DEF Installs, Moves
<1>3. /\ m.branch = b /\ m.new = p.candidate /\ m.version = v
      /\ a.decision = "accepted" /\ a.branch = b /\ a.version = v /\ a.candidate = p.candidate
      /\ q.branch = b /\ q.commit = p.candidate /\ q.version = v
  BY DEF Decision
<1> HIDE DEF m, a, q
<1>4. Accepts(a, m) /\ Queues(q, m) BY <1>3 DEF Accepts, Queues
<1>5. ~IsCreation(m)
  <2>1. v = 1 => branches[b].source = NoName
    BY SMT, <1>0, <1>1 DEF LInv, RowsTogether, NoBranch
  <2> QED BY <1>3, <2>1 DEF IsCreation
<1>6. \A e \in refEvents' : e.branch \in Branch BY DEF TypeInv, TypeOK, TablesOK, RefEvent
<1>7. \A e \in refEvents' : IsCreation(e)' = IsCreation(e)
  BY <1>6 DEF IsCreation
<1>8. ASSUME NEW e \in refEvents, IsCreation(e) PROVE ~Accepts(a, e) /\ ~Queues(q, e)
  <2>1. e.branch = b => v # 1
    BY SMT, <1>0, <1>1, <1>8, NoEventsYet
  <2> QED BY <1>3, <1>8, <2>1 DEF Accepts, Queues, IsCreation
<1>9. ASSUME NEW e \in refEvents' PROVE Explained(e)'
  <2>1. CASE e = m BY <1>2, <1>4, <1>5, <1>7, <2>1 DEF Explained, Accepts, Queues
  <2>2. CASE e \in refEvents
    <3>1. Explained(e) BY <2>2 DEF MInv
    <3>2. CASE IsCreation(e)
      BY <1>2, <1>7, <1>8, <2>2, <3>1, <3>2 DEF Explained, Accepts, Queues
    <3>3. CASE ~IsCreation(e)
      BY <1>2, <1>7, <2>2, <3>1, <3>3 DEF Explained, Accepts, Queues
    <3> QED BY <3>2, <3>3
  <2> QED BY <1>2, <2>1, <2>2
<1> QED BY <1>2, <1>4, <1>9 DEF MInv

(* A creation is the only event of its branch, and explains itself. *)
LEMMA CreationExplained ==
  ASSUME MInv, TypeInv', NEW t \in Tx, WriteStep(t), CreatesBranch(t)
  PROVE  \A e \in refEvents' : Explained(e)'
<1> DEFINE b == req[t].name
           m == [branch |-> b, old |-> refs[b].head, new |-> Point(t),
                 version |-> refs[b].version + 1, operation |-> "genesis"]
<1>0. LInv /\ TypeInv BY DEF MInv, LInv, IInv
<1>1. /\ b \in Branch /\ req[t].source \in Branch /\ refs[b].version = 0
      /\ Moves(b, Point(t), "genesis") /\ decisions' = decisions /\ outbox' = outbox
      /\ branches' = [branches EXCEPT ![b] =
             [status |-> "active", lifecycle |-> 1, source |-> req[t].source,
              point |-> Point(t), policy |-> req[t].policy]]
  BY CreateNames DEF CreatesBranch
<1>2. branches \in [Branch -> BranchRow] BY <1>0 DEF TypeInv, TypeOK, TablesOK
<1>3. branches'[b].source # NoName /\ \A x \in Branch \ {b} : branches'[x] = branches[x]
  BY <1>1, <1>2, StoreAssumption DEF NoName
<1>4. refEvents' = refEvents \cup {m} BY <1>1 DEF Moves
<1>5. m.branch = b /\ m.version = 1 BY SMT, <1>1
<1> HIDE DEF m
<1>6. \A e \in refEvents : e.branch # b /\ e.branch \in Branch
  BY <1>0, <1>1, NoEventsYet DEF TypeInv, TypeOK, TablesOK, RefEvent
<1>7. ASSUME NEW e \in refEvents PROVE Explained(e)'
  <2>1. branches'[e.branch] = branches[e.branch] BY <1>3, <1>6
  <2>2. Explained(e) BY DEF MInv
  <2> QED BY <1>1, <2>1, <2>2 DEF Explained, IsCreation, Accepts, Queues
<1>8. ASSUME NEW e \in refEvents' \ refEvents PROVE Explained(e)'
  <2>0. e.branch = b /\ e.version = 1 BY <1>4, <1>5
  <2>1. IsCreation(e)' BY <1>3, <2>0 DEF IsCreation
  <2>2. \A d \in decisions : ~Accepts(d, e)
    BY <1>6, <2>0 DEF MInv, Accepts
  <2>3. \A o \in outbox : ~Queues(o, e) BY <1>6, <2>0 DEF MInv, Queues
  <2> QED BY <1>1, <2>1, <2>2, <2>3 DEF Explained, Accepts, Queues
<1> QED BY <1>7, <1>8

(* Whatever accepts nothing and moves nothing explains what it did before. *)
LEMMA OtherExplained ==
  ASSUME MInv, UNCHANGED <<refEvents, outbox>>,
         \A b \in Branch : branches'[b].source = branches[b].source,
         decisions \subseteq decisions', \A d \in decisions' \ decisions : d.decision # "accepted"
  PROVE  /\ \A e \in refEvents' : Explained(e)'
         /\ \A d \in decisions' : d.decision = "accepted" => \E e \in refEvents' : Accepts(d, e)
         /\ \A o \in outbox' : \E e \in refEvents' : Queues(o, e)
<1>1. \A e \in refEvents : e.branch \in Branch
  BY DEF MInv, LInv, IInv, TypeInv, TypeOK, TablesOK, RefEvent
<1>2. \A e \in refEvents : IsCreation(e)' = IsCreation(e) BY <1>1 DEF IsCreation
<1>3. ASSUME NEW e \in refEvents PROVE Explained(e)'
  <2>1. Explained(e) BY DEF MInv
  <2>2. \A d \in decisions' : Accepts(d, e) => d \in decisions BY DEF Accepts
  <2> QED BY <1>2, <2>1, <2>2 DEF Explained, Accepts, Queues
<1>4. \A d \in decisions' : d.decision = "accepted" => \E e \in refEvents' : Accepts(d, e)
  BY DEF MInv
<1> QED BY <1>3, <1>4 DEF MInv

-----------------------------------------------------------------------------
(* Tombstones. *)

(* TombstoneHolds of one branch. *)
Holds(b) ==
    /\ \A n \in 1 .. branches[b].lifecycle : \E e \in LifecycleEventsOf(b) : e.lifecycle = n
    /\ \A e, f \in LifecycleEventsOf(b) :
         /\ e.lifecycle <= branches[b].lifecycle
         /\ e.lifecycle = f.lifecycle => e = f
         /\ (e.status = "deleted" /\ f.lifecycle = e.lifecycle + 1)
              => f.status = "active" /\ f.head = e.head /\ f.version = e.version
    /\ \A e \in LifecycleEventsOf(b) :
         /\ \E m \in refEvents : m.branch = b /\ m.version = e.version /\ m.new = e.head
         /\ e.lifecycle = branches[b].lifecycle => e.status = branches[b].status
    /\ branches[b].status = "deleted" =>
         \A e \in LifecycleEventsOf(b) : e.lifecycle = branches[b].lifecycle =>
             refs[b] = [head |-> e.head, version |-> e.version]

LEMMA HoldsIsTombstone == TombstoneHolds <=> \A b \in Branch : Holds(b)
  BY DEF TombstoneHolds, Holds

BInv == LInv /\ \A b \in Branch : Holds(b)

(* A branch whose row and lifecycle stay, and whose ref stays if deleted. *)
LEMMA HoldsStill ==
  ASSUME NEW b \in Branch, Holds(b), branches'[b] = branches[b], refEvents \subseteq refEvents',
         LifecycleEventsOf(b)' = LifecycleEventsOf(b),
         branches[b].status = "deleted" => refs'[b] = refs[b]
  PROVE  Holds(b)'
<1>1. \A e \in LifecycleEventsOf(b)' :
        /\ \E m \in refEvents' : m.branch = b /\ m.version = e.version /\ m.new = e.head
        /\ e.lifecycle = branches'[b].lifecycle => e.status = branches'[b].status
  BY DEF Holds
<1>2. \A n \in 1 .. branches'[b].lifecycle : \E e \in LifecycleEventsOf(b)' : e.lifecycle = n
  BY SMT DEF Holds
<1>3. \A e, f \in LifecycleEventsOf(b)' :
         /\ e.lifecycle <= branches'[b].lifecycle
         /\ e.lifecycle = f.lifecycle => e = f
         /\ (e.status = "deleted" /\ f.lifecycle = e.lifecycle + 1)
              => f.status = "active" /\ f.head = e.head /\ f.version = e.version
  BY SMT DEF Holds
<1>4. branches'[b].status = "deleted" =>
         \A e \in LifecycleEventsOf(b)' : e.lifecycle = branches'[b].lifecycle =>
             refs'[b] = [head |-> e.head, version |-> e.version]
  BY SMT DEF Holds
<1> QED BY <1>1, <1>2, <1>3, <1>4 DEF Holds

(* A branch that comes into being. *)
LEMMA HoldsBorn ==
  ASSUME LInv, TypeInv', NEW b \in Branch, Holds(b), refs[b].version = 0, NEW c, NEW op,
         Moves(b, c, op), branches'[b].lifecycle = 1, branches'[b].status = "active",
         branchEvents' = branchEvents \cup
           {[branch |-> b, lifecycle |-> 1, status |-> "active", head |-> c, version |-> 1]}
  PROVE  Holds(b)'
<1> DEFINE f == [branch |-> b, lifecycle |-> 1, status |-> "active", head |-> c, version |-> 1]
<1>1. branches[b].lifecycle = 0 BY SMT DEF LInv, RowsTogether, NoBranch
<1>2. LifecycleEventsOf(b) = {}
  <2>1. ASSUME NEW e \in branchEvents, e.branch = b PROVE FALSE
    <3>1. e.lifecycle \in Nat \ {0} BY DEF LInv, IInv, TypeInv, TypeOK, TablesOK, BranchEvent
    <3>2. e.lifecycle <= 0 BY SMT, <1>1, <2>1 DEF Holds, LifecycleEventsOf
    <3> QED BY SMT, <3>1, <3>2
  <2> QED BY <2>1 DEF LifecycleEventsOf
<1>3. LifecycleEventsOf(b)' = {f} BY SMT, <1>2 DEF LifecycleEventsOf
<1>4. f.lifecycle = 1 /\ f.status = "active" /\ f.head = c /\ f.version = 1 OBVIOUS
<1>5. \E m \in refEvents' : m.branch = b /\ m.version = 1 /\ m.new = c
  <2> DEFINE m == [branch |-> b, old |-> refs[b].head, new |-> c,
                   version |-> refs[b].version + 1, operation |-> op]
  <2>1. m \in refEvents' BY DEF Moves
  <2>2. m.branch = b /\ m.new = c /\ m.version = 1 BY SMT
  <2> QED BY <2>1, <2>2
<1> HIDE DEF f
<1>6. \A n \in 1 .. 1 : n = 1 BY SMT
<1>7. 1 <= 1 /\ "active" # "deleted" BY SMT
<1> QED BY <1>3, <1>4, <1>5, <1>6, <1>7 DEF Holds

(* delete and restore. *)
LEMMA HoldsTurned ==
  ASSUME LInv, TypeInv', NEW t \in Tx, ChangesStatus(t), NEW b, b = req[t].name, Holds(b)
  PROVE  Holds(b)'
<1> DEFINE r == req[t]
           n == branches[b].lifecycle + 1
           f == [branch |-> b, lifecycle |-> n, status |-> StatusAfter(r),
                 head |-> refs[b].head, version |-> refs[b].version]
<1>0. TypeInv BY DEF LInv, IInv
<1>1. b \in Branch /\ r.op \in {"branch_delete", "branch_restore"}
  BY SMT DEF ChangesStatus, LifecycleRequest
<1>2. /\ branches[b].lifecycle \in Nat /\ branches \in [Branch -> BranchRow]
      /\ refs[b] \in Ref /\ refs[b].version \in Nat
  BY <1>0, <1>1 DEF TypeInv, TypeOK, TablesOK, BranchRow, Ref
<1>3. /\ branches[b].status = StatusBefore(r)
      /\ branchEvents' = branchEvents \cup {f} /\ refs' = refs /\ refEvents' = refEvents
      /\ branches' = [branches EXCEPT ![b] =
                        [@ EXCEPT !.status = StatusAfter(r), !.lifecycle = n]]
  BY DEF ChangesStatus
<1>4. branches'[b].status = StatusAfter(r) /\ branches'[b].lifecycle = n
  BY <1>1, <1>2, <1>3 DEF BranchRow
<1>5. LifecycleEventsOf(b)' = LifecycleEventsOf(b) \cup {f}
  <2>1. f.branch = b OBVIOUS
  <2> HIDE DEF f
  <2> QED BY SMT, <1>3, <2>1 DEF LifecycleEventsOf
<1>6. /\ f.lifecycle = n /\ f.status = StatusAfter(r) /\ f.head = refs[b].head
      /\ f.version = refs[b].version
  OBVIOUS
<1> HIDE DEF f
<1>7. \A e \in LifecycleEventsOf(b) : e.lifecycle \in Nat /\ e.lifecycle < n
  <2>1. \A e \in LifecycleEventsOf(b) : e.lifecycle <= branches[b].lifecycle BY DEF Holds
  <2> QED BY SMT, <1>0, <1>2, <2>1 DEF LifecycleEventsOf, TypeInv, TypeOK, TablesOK, BranchEvent
<1>8. \E m \in refEvents : m.branch = b /\ m.version = refs[b].version /\ m.new = refs[b].head
  <2>1. refs[b].version # 0
    BY <1>1, <1>3 DEF LInv, RowsTogether, StatusBefore
  <2>2. refs[b].version \in 1 .. refs[b].version BY SMT, <1>2, <2>1
  <2>3. PICK e \in EventsOf(b) : e.version = refs[b].version
    BY <1>1, <2>2 DEF LInv, IInv, RefHistory
  <2>4. e.new = refs[b].head BY <1>1, <2>3 DEF LInv, IInv, RefHistory
  <2> QED BY <2>3, <2>4 DEF EventsOf
<1>9. ASSUME NEW k \in 1 .. n PROVE \E e \in LifecycleEventsOf(b) \cup {f} : e.lifecycle = k
  <2>1. CASE k = n BY <1>6, <2>1
  <2>2. CASE k # n
    <3>1. k \in 1 .. branches[b].lifecycle BY SMT, <1>2, <2>2
    <3> QED BY SMT, <3>1 DEF Holds
  <2> QED BY <2>1, <2>2
<1>10. refs[b] = [head |-> refs[b].head, version |-> refs[b].version] BY <1>2 DEF Ref
<1>11. ASSUME NEW e \in LifecycleEventsOf(b), e.status = "deleted", n = e.lifecycle + 1
       PROVE  f.status = "active" /\ f.head = e.head /\ f.version = e.version
  <2>1. e.lifecycle = branches[b].lifecycle BY SMT, <1>2, <1>7, <1>11
  <2>2. branches[b].status = "deleted" BY <1>11, <2>1 DEF Holds
  <2>3. refs[b] = [head |-> e.head, version |-> e.version] BY SMT, <2>1, <2>2 DEF Holds
  <2>4. StatusAfter(r) = "active" BY <1>3, <2>2 DEF StatusBefore, StatusAfter
  <2>5. refs[b].head = e.head /\ refs[b].version = e.version BY SMT, <2>3
  <2> QED BY <1>6, <2>4, <2>5
<1>12. ASSUME NEW e \in LifecycleEventsOf(b) \cup {f}, NEW g \in LifecycleEventsOf(b) \cup {f}
       PROVE  /\ e.lifecycle <= n
              /\ e.lifecycle = g.lifecycle => e = g
              /\ (e.status = "deleted" /\ g.lifecycle = e.lifecycle + 1)
                   => g.status = "active" /\ g.head = e.head /\ g.version = e.version
  <2>1. CASE e = f
    <3>1. g.lifecycle <= n BY SMT, <1>2, <1>6, <1>7
    <3>2. g.lifecycle = n => g = f BY SMT, <1>2, <1>6, <1>7
    <3> QED BY SMT, <1>2, <1>6, <1>7, <2>1, <3>1, <3>2
  <2>2. CASE e # f /\ g = f
    <3>1. e \in LifecycleEventsOf(b) /\ e.lifecycle \in Nat /\ e.lifecycle < n BY <1>7, <2>2
    <3>2. (e.status = "deleted" /\ n = e.lifecycle + 1)
            => f.status = "active" /\ f.head = e.head /\ f.version = e.version
      BY <1>11, <3>1
    <3> QED BY SMT, <1>2, <1>6, <2>2, <3>1, <3>2
  <2>3. CASE e # f /\ g # f
    <3>1. e \in LifecycleEventsOf(b) /\ g \in LifecycleEventsOf(b) BY <2>3
    <3>2. e.lifecycle <= n BY SMT, <1>2, <1>7, <3>1
    <3>3. /\ e.lifecycle = g.lifecycle => e = g
          /\ (e.status = "deleted" /\ g.lifecycle = e.lifecycle + 1)
               => g.status = "active" /\ g.head = e.head /\ g.version = e.version
      BY <3>1 DEF Holds
    <3> QED BY <3>2, <3>3
  <2> QED BY <2>1, <2>2, <2>3
<1>13. ASSUME NEW e \in LifecycleEventsOf(b) \cup {f}
       PROVE  /\ \E m \in refEvents : m.branch = b /\ m.version = e.version /\ m.new = e.head
              /\ e.lifecycle = n => e = f
  <2>1. CASE e = f BY <1>6, <1>8, <2>1
  <2>2. CASE e \in LifecycleEventsOf(b)
    <3>1. \E m \in refEvents : m.branch = b /\ m.version = e.version /\ m.new = e.head
      BY <2>2 DEF Holds
    <3>2. e.lifecycle # n BY SMT, <1>2, <1>7, <2>2
    <3> QED BY <3>1, <3>2
  <2> QED BY <2>1, <2>2
<1>14. \A e \in LifecycleEventsOf(b)' :
         /\ \E m \in refEvents' : m.branch = b /\ m.version = e.version /\ m.new = e.head
         /\ e.lifecycle = branches'[b].lifecycle => e.status = branches'[b].status
  BY <1>3, <1>4, <1>5, <1>6, <1>13
<1>15. \A k \in 1 .. branches'[b].lifecycle : \E e \in LifecycleEventsOf(b)' : e.lifecycle = k
  BY <1>4, <1>5, <1>9
<1>16. \A e, g \in LifecycleEventsOf(b)' :
         /\ e.lifecycle <= branches'[b].lifecycle
         /\ e.lifecycle = g.lifecycle => e = g
         /\ (e.status = "deleted" /\ g.lifecycle = e.lifecycle + 1)
              => g.status = "active" /\ g.head = e.head /\ g.version = e.version
  BY <1>4, <1>5, <1>12
<1>17. \A e \in LifecycleEventsOf(b)' : e.lifecycle = branches'[b].lifecycle =>
         refs'[b] = [head |-> e.head, version |-> e.version]
  BY <1>3, <1>4, <1>5, <1>6, <1>10, <1>13
<1> QED BY <1>14, <1>15, <1>16, <1>17 DEF Holds

(* Every commit leaves the tombstones holding. *)
LEMMA TombstoneStep ==
  ASSUME BInv, TypeInv', NEW t \in Tx, WriteStep(t), NEW b \in Branch
  PROVE  Holds(b)'
<1>0. LInv /\ TypeInv /\ Holds(b) BY DEF BInv, LInv, IInv
<1>1. refEvents \subseteq refEvents' BY <1>0, MoveStepWrites DEF Moves, LInv
<1>2. /\ branches \in [Branch -> BranchRow] /\ refs \in [Branch -> Ref]
      /\ proposals \subseteq ProposalRow
  BY <1>0 DEF TypeInv, TypeOK, TablesOK
<1>3. ASSUME NEW x, NEW f, f.branch = x, branchEvents' = branchEvents \cup {f}, x # b
      PROVE  LifecycleEventsOf(b)' = LifecycleEventsOf(b)
  BY <1>3 DEF LifecycleEventsOf
<1>4. ASSUME NEW p \in proposals, InstallsGenesis(t, p) PROVE Holds(b)'
  <2>1. /\ Moves(Main, p.candidate, "genesis") /\ refs[Main].version = 0
        /\ branches' = [branches EXCEPT ![Main] = FirstRow]
        /\ branchEvents' = branchEvents \cup
             {[branch |-> Main, lifecycle |-> 1, status |-> "active",
               head |-> p.candidate, version |-> 1]}
    BY <1>4 DEF InstallsGenesis, Installs
  <2>2. FirstRow.lifecycle = 1 /\ FirstRow.status = "active" BY DEF FirstRow, NoBranch
  <2>3. CASE b = Main
    <3>1. branches'[b].lifecycle = 1 /\ branches'[b].status = "active" BY <1>2, <2>1, <2>2, <2>3
    <3> QED BY <1>0, <2>1, <2>3, <3>1, HoldsBorn
  <2>4. CASE b # Main
    <3>1. branches'[b] = branches[b] BY <1>2, <2>1, <2>4
    <3>2. refs'[b] = refs[b] BY <1>2, <2>1, <2>4 DEF Moves
    <3>3. LifecycleEventsOf(b)' = LifecycleEventsOf(b) BY <1>3, <2>1, <2>4
    <3> QED BY <1>0, <1>1, <3>1, <3>2, <3>3, HoldsStill
  <2> QED BY <2>3, <2>4
<1>5. ASSUME NEW p \in proposals, InstallsNext(t, p) \/ InstallsMerge(t, p) PROVE Holds(b)'
  <2>1. /\ \E op : Moves(p.branch, p.candidate, op)
        /\ branches[p.branch].status = "active" /\ UNCHANGED <<branches, branchEvents>>
    BY <1>5 DEF InstallsNext, InstallsMerge, Advances, Installs
  <2>2. branches[b].status = "deleted" => refs'[b] = refs[b]
    <3>1. branches[b].status = "deleted" => b # p.branch BY <2>1
    <3> QED BY <1>2, <2>1, <3>1 DEF Moves
  <2>3. LifecycleEventsOf(b)' = LifecycleEventsOf(b) BY <2>1 DEF LifecycleEventsOf
  <2> QED BY <1>0, <1>1, <2>1, <2>2, <2>3, HoldsStill
<1>6. CASE CreatesBranch(t)
  <2> DEFINE x == req[t].name
  <2>1. /\ x \in Branch /\ Moves(x, Point(t), "genesis") /\ refs[x].version = 0
        /\ branches' = [branches EXCEPT ![x] =
             [status |-> "active", lifecycle |-> 1, source |-> req[t].source,
              point |-> Point(t), policy |-> req[t].policy]]
        /\ branchEvents' = branchEvents \cup
             {[branch |-> x, lifecycle |-> 1, status |-> "active",
               head |-> Point(t), version |-> 1]}
    BY <1>6, CreateNames DEF CreatesBranch
  <2> HIDE DEF x
  <2>2. CASE b = x
    <3>1. branches'[b].lifecycle = 1 /\ branches'[b].status = "active" BY <1>2, <2>1, <2>2
    <3> QED BY <1>0, <2>1, <2>2, <3>1, HoldsBorn
  <2>3. CASE b # x
    <3>1. branches'[b] = branches[b] BY <1>2, <2>1, <2>3
    <3>2. refs'[b] = refs[b] BY <1>2, <2>1, <2>3 DEF Moves
    <3>3. LifecycleEventsOf(b)' = LifecycleEventsOf(b) BY <1>3, <2>1, <2>3
    <3> QED BY <1>0, <1>1, <3>1, <3>2, <3>3, HoldsStill
  <2> QED BY <2>2, <2>3
<1>7. ASSUME NEW p, NEW s,
             \/ PublishesPlain(t, p) \/ PublishesMerge(t, p) \/ Declines(t, p, s) \/ Validates(t)
      PROVE  Holds(b)'
  <2>1. UNCHANGED <<refs, refEvents, branches, branchEvents>>
    BY <1>7 DEF PublishesPlain, PublishesMerge, Publishes, Declines, Validates
  <2>2. LifecycleEventsOf(b)' = LifecycleEventsOf(b) BY <2>1 DEF LifecycleEventsOf
  <2> QED BY <1>0, <1>1, <2>1, <2>2, HoldsStill
<1>8. CASE ChangesStatus(t)
  <2> DEFINE x == req[t].name
             f == [branch |-> x, lifecycle |-> branches[x].lifecycle + 1,
                   status |-> StatusAfter(req[t]),
                   head |-> refs[x].head, version |-> refs[x].version]
  <2>1. /\ branchEvents' = branchEvents \cup {f} /\ refs' = refs
        /\ branches' = [branches EXCEPT ![x] =
             [@ EXCEPT !.status = StatusAfter(req[t]), !.lifecycle = branches[x].lifecycle + 1]]
    BY <1>8 DEF ChangesStatus
  <2>2. f.branch = x OBVIOUS
  <2> HIDE DEF f
  <2>3. CASE b = x BY <1>0, <1>8, <2>3, HoldsTurned
  <2>4. CASE b # x
    <3>1. branches'[b] = branches[b] BY <1>2, <2>1, <2>4
    <3>2. LifecycleEventsOf(b)' = LifecycleEventsOf(b) BY <1>3, <2>1, <2>2, <2>4
    <3> QED BY <1>0, <1>1, <2>1, <3>1, <3>2, HoldsStill
  <2> QED BY <2>3, <2>4
<1> QED BY <1>0, <1>4, <1>5, <1>6, <1>7, <1>8, Effects

-----------------------------------------------------------------------------
(* Four eyes. *)

(* A merge knows everyone whose work it brings in. *)
PartiesKnown ==
    \A p \in proposals : p.source # NoName =>
        \A q \in proposals :
            q.candidate \in Ancestors[p.parents[2]] \ Ancestors[p.parents[1]] => q.actor \subseteq p.parties

FInv == HInv /\ MInv /\ PartiesKnown /\ FourEyes

(* What was published by the time is what a published commit reaches. *)
LEMMA ReachesPublished ==
  ASSUME LInv, TypeInv', Based, NEW t \in Tx, WriteStep(t), NEW c \in 0 .. lastCommit,
         NEW q \in proposals', q.candidate \in Ancestors'[c]
  PROVE  q \in proposals /\ q.candidate \in Ancestors[c]
<1>0. TypeInv /\ lastCommit \in Nat BY DEF LInv, IInv, TypeInv, TypeOK, TablesOK
<1>1. Ancestors'[c] = Ancestors[c] BY GraphGrows
<1>2. c # NoCommit BY <1>0, <1>1, AncestorsOf DEF AncestorsAre
<1>3. c \in Commit BY SMT, <1>0, <1>2 DEF Commit, NoCommit
<1>4. q.candidate \in 1 .. c BY <1>0, <1>1, <1>3, AncestorsOrder DEF AncestorsOrdered
<1>5. q \in proposals BY SMT, <1>0, <1>3, <1>4, GraphGrows DEF Commit
<1> QED BY <1>1, <1>5

(* source_parties_on sees all of it. *)
LEMMA PartiesStep ==
  ASSUME FInv, TypeInv', NEW t \in Tx, WriteStep(t)
  PROVE  PartiesKnown'
<1>0. LInv /\ TypeInv /\ Based /\ PartiesKnown BY DEF FInv, HInv, LInv, IInv
<1>1. lastCommit \in Nat BY <1>0 DEF TypeInv, TypeOK, TablesOK
<1>2. /\ \A c \in 0 .. lastCommit : Ancestors'[c] = Ancestors[c]
      /\ \A p \in proposals' \ proposals : p.candidate > lastCommit
  BY <1>0, GraphGrows
<1>3. ASSUME NEW p \in proposals, p.source # NoName, NEW q \in proposals',
             q.candidate \in Ancestors'[p.parents[2]] \ Ancestors'[p.parents[1]]
      PROVE  q.actor \subseteq p.parties
  <2>1. p.parents \in Seq(Commit) /\ Len(p.parents) = 2
    BY <1>0, <1>3 DEF TypeInv, TypeOK, TablesOK, ProposalRow, LInv, MergeShape
  <2>2. p.parents[1] \in Commit /\ p.parents[2] \in Commit BY SMT, <2>1
  <2>3. p.parents[1] \in 0 .. lastCommit /\ p.parents[2] \in 0 .. lastCommit
    BY SMT, <1>1, <2>2 DEF Commit
  <2>4. q \in proposals /\ q.candidate \in Ancestors[p.parents[2]]
    BY <1>0, <1>3, <2>3, ReachesPublished
  <2>5. q.candidate \notin Ancestors[p.parents[1]] BY <1>2, <1>3, <2>3
  <2> QED BY <1>0, <1>3, <2>4, <2>5 DEF PartiesKnown
<1>4. ASSUME NEW p, PublishesMerge(t, p), NEW q \in proposals',
             q.candidate \in Ancestors'[p.parents[2]] \ Ancestors'[p.parents[1]]
      PROVE  q.actor \subseteq p.parties
  <2>1. /\ req[t] \in ProposeRequest
        /\ cur[t].head = req[t].targetHead /\ src[t].head = req[t].sourceHead
    BY <1>0, <1>4, RequestAt DEF PublishesMerge, ProposePc, TypeInv, ReadsArePlausible
  <2>2. cur[t].head \in Commit /\ src[t].head \in Commit BY <2>1 DEF ProposeRequest
  <2>3. cur[t].head \in 0 .. lastCommit /\ src[t].head \in 0 .. lastCommit
    BY SMT, <1>1, <2>2 DEF Commit
  <2>4. /\ p.parents[1] = cur[t].head /\ p.parents[2] = src[t].head
        /\ p.parties = SourceParties(cur[t].head, src[t].head)
    BY SMT, <1>4 DEF PublishesMerge
  <2>5. q \in proposals /\ q.candidate \in Ancestors[src[t].head]
    BY <1>0, <1>4, <2>3, <2>4, ReachesPublished
  <2>6. q.candidate \notin Ancestors[cur[t].head] BY SMT, <1>2, <1>4, <2>3, <2>4
  <2>7. q \in {x \in proposals : x.candidate \in Ancestors[src[t].head] \ Ancestors[cur[t].head]}
    BY <2>5, <2>6
  <2> QED BY <2>4, <2>7 DEF SourceParties
<1>5. ASSUME NEW p \in proposals' \ proposals, p.source # NoName PROVE PublishesMerge(t, p)
  <2>1. ASSUME NEW q, NEW s,
               \/ InstallsGenesis(t, q) \/ InstallsNext(t, q) \/ InstallsMerge(t, q)
               \/ CreatesBranch(t) \/ Declines(t, q, s) \/ Validates(t) \/ ChangesStatus(t)
        PROVE  UNCHANGED proposals
    BY <2>1 DEF InstallsGenesis, InstallsNext, InstallsMerge, Advances, Installs,
       CreatesBranch, Declines, Validates, ChangesStatus
  <2>2. ASSUME NEW q, PublishesPlain(t, q) \/ PublishesMerge(t, q) PROVE p = q
    BY <2>2 DEF PublishesPlain, PublishesMerge, Publishes
  <2>3. ASSUME NEW q, PublishesPlain(t, q) PROVE q.source = NoName
    BY <2>3 DEF PublishesPlain
  <2> QED BY <1>0, <1>5, <2>1, <2>2, <2>3, Effects
<1> QED BY <1>3, <1>4, <1>5 DEF PartiesKnown

(* An acceptance has one event, and had it before. *)
LEMMA AcceptanceEvent ==
  ASSUME MInv, LInv', NEW t \in Tx, WriteStep(t), NEW d \in decisions, d.decision = "accepted",
         NEW e \in refEvents', e.branch = d.branch, e.version = d.version
  PROVE  /\ e \in refEvents /\ d.branch \in Branch
         /\ branches'[d.branch].policy = branches[d.branch].policy
<1>0. LInv /\ TypeInv BY DEF MInv, LInv, IInv
<1>1. PICK x \in refEvents : Accepts(d, x) BY DEF MInv
<1>2. refEvents \subseteq refEvents' BY <1>0, MoveStepWrites DEF Moves, LInv
<1>3. d.branch \in Branch BY <1>0 DEF TypeInv, TypeOK, TablesOK, DecisionRow
<1>4. x \in EventsOf(d.branch)' /\ e \in EventsOf(d.branch)' /\ x.version = e.version
  BY <1>1, <1>2 DEF Accepts, EventsOf
<1>5. x = e BY <1>3, <1>4 DEF LInv, IInv, RefHistory
<1>6. refs[d.branch].version # 0 BY <1>0, <1>1, <1>3, NoEventsYet DEF Accepts
<1>7. branches[d.branch].status # "none" BY <1>0, <1>3, <1>6 DEF LInv, RowsTogether
<1> QED BY <1>0, <1>3, <1>5, <1>7, RowStays

(* What was accepted before stays accepted by someone else. *)
LEMMA FourEyesStays ==
  ASSUME FInv, LInv', NEW t \in Tx, WriteStep(t), NEW d \in decisions, d.decision = "accepted",
         branches'[d.branch].policy.requireDistinctReviewer,
         NEW e \in refEvents', e.branch = d.branch, e.version = d.version,
         NEW p \in proposals', p.candidate \in Ancestors'[e.new] \ Ancestors'[e.old]
  PROVE  p.actor \cap d.actor = {}
<1>0. /\ LInv /\ TypeInv /\ Based /\ MInv /\ FourEyes /\ TypeInv' /\ lastCommit \in Nat
  BY DEF FInv, HInv, LInv, IInv, TypeInv, TypeOK, TablesOK
<1>1. /\ e \in refEvents /\ branches[d.branch].policy.requireDistinctReviewer
  BY <1>0, AcceptanceEvent
<1>2. e.new \in 0 .. lastCommit /\ e.old \in 0 .. lastCommit
  <2>1. e.new \in Commit /\ e.old \in {NoCommit} \cup Commit
    BY <1>0, <1>1 DEF TypeInv, TypeOK, TablesOK, RefEvent
  <2> QED BY SMT, <1>0, <2>1 DEF Commit, NoCommit
<1>3. p \in proposals /\ p.candidate \in Ancestors[e.new] BY <1>0, <1>2, ReachesPublished
<1>4. Ancestors'[e.old] = Ancestors[e.old] BY <1>0, <1>2, GraphGrows
<1>5. e \in EventsOf(d.branch) BY <1>1 DEF EventsOf
<1> QED BY <1>0, <1>1, <1>3, <1>4, <1>5 DEF FourEyes

(* An acceptance makes reachable its candidate and, if it is a merge, what  *)
(* the source has and the target lacks.                                     *)
LEMMA MadeReachable ==
  ASSUME HInv, NEW t \in Tx, NEW p \in proposals,
         InstallsGenesis(t, p) \/ InstallsNext(t, p) \/ InstallsMerge(t, p),
         NEW c \in Ancestors[p.candidate] \ Ancestors[p.expected]
  PROVE  \/ c = p.candidate
         \/ InstallsMerge(t, p) /\ c \in Ancestors[p.parents[2]] \ Ancestors[p.parents[1]]
<1>0. TypeInv /\ Based /\ UniqueCandidates BY DEF HInv, LInv, IInv
<1>1. p.candidate \in Commit BY <1>0 DEF TypeInv, TypeOK, TablesOK, ProposalRow
<1>2. Parents(p.candidate) = {p.parents[i] : i \in DOMAIN p.parents}
  <2>1. {q \in proposals : q.candidate = p.candidate} = {p} BY <1>0 DEF UniqueCandidates
  <2> QED BY SMT, <2>1 DEF Parents
<1>3. AncestorsAre BY <1>0, AncestorsOf
<1>4. c = p.candidate \/ \E i \in DOMAIN p.parents : c \in Ancestors[p.parents[i]]
  BY SMT, <1>1, <1>2, <1>3 DEF AncestorsAre
<1>5. CASE InstallsGenesis(t, p)
  <2>1. DOMAIN p.parents = {} BY SMT, <1>5 DEF InstallsGenesis
  <2> QED BY <1>4, <2>1
<1>6. CASE InstallsNext(t, p)
  <2>1. p.parents \in Seq(Commit) BY <1>0 DEF TypeInv, TypeOK, TablesOK, ProposalRow
  <2>2. DOMAIN p.parents = {1} /\ p.parents[1] = p.expected BY SMT, <1>6, <2>1 DEF InstallsNext
  <2> QED BY <1>4, <2>2
<1>7. CASE InstallsMerge(t, p)
  <2>1. DOMAIN p.parents = {1, 2} BY SMT, <1>7 DEF InstallsMerge
  <2>2. p.parents[1] = p.expected BY SMT, <1>7 DEF InstallsMerge, Advances, Installs
  <2> QED BY <1>4, <1>7, <2>1, <2>2
<1> QED BY <1>5, <1>6, <1>7

(* An acceptance is somebody else's of all it makes reachable. *)
LEMMA FourEyesBegins ==
  ASSUME FInv, LInv', NEW t \in Tx, WriteStep(t), NEW q \in proposals,
         InstallsGenesis(t, q) \/ InstallsNext(t, q) \/ InstallsMerge(t, q),
         NEW d \in decisions' \ decisions,
         branches'[d.branch].policy.requireDistinctReviewer,
         NEW e \in refEvents', e.branch = d.branch, e.version = d.version,
         NEW p \in proposals', p.candidate \in Ancestors'[e.new] \ Ancestors'[e.old]
  PROVE  p.actor \cap d.actor = {}
<1>0. /\ HInv /\ LInv /\ TypeInv /\ Based /\ UniqueCandidates /\ PartiesKnown /\ MergeShape
      /\ TypeInv' /\ lastCommit \in Nat /\ RefHistory'
  BY DEF FInv, HInv, LInv, IInv, TypeInv, TypeOK, TablesOK
<1>1. PICK op : Installs(t, q, op)
  BY DEF InstallsGenesis, InstallsNext, InstallsMerge, Advances
<1> DEFINE v == refs[q.branch].version + 1
           row == Decision(q, "accepted", v, req[t])
           event == [branch |-> q.branch, old |-> refs[q.branch].head, new |-> q.candidate,
                     version |-> v, operation |-> op]
<1>2. d = row BY <1>1 DEF Installs
<1>3. d.branch = q.branch /\ d.version = v /\ d.actor = req[t].actor BY <1>2 DEF Decision
<1>4. e = event
  <2>1. event \in refEvents' BY <1>1 DEF Installs, Moves
  <2>2. event.branch = q.branch /\ event.version = v OBVIOUS
  <2> HIDE DEF event, v
  <2>3. event \in EventsOf(q.branch)' /\ e \in EventsOf(q.branch)' BY SMT, <1>3, <2>1, <2>2 DEF EventsOf
  <2>4. q.branch \in Branch BY <1>0 DEF TypeInv, TypeOK, TablesOK, ProposalRow
  <2>5. \A x, y \in EventsOf(q.branch)' : x.version = y.version => x = y
    BY SMT, <1>0, <2>4 DEF RefHistory
  <2> QED BY <1>3, <2>2, <2>3, <2>5
<1>5. e.new = q.candidate /\ e.old = q.expected BY <1>1, <1>4 DEF Installs
<1> HIDE DEF v, row, event
<1>6. q.candidate \in 0 .. lastCommit /\ q.expected \in 0 .. lastCommit
  <2>1. q.candidate \in Commit /\ q.expected \in {NoCommit} \cup Commit
    BY <1>0 DEF TypeInv, TypeOK, TablesOK, ProposalRow
  <2> QED BY SMT, <1>0, <2>1 DEF Commit, NoCommit
<1>7. p \in proposals /\ p.candidate \in Ancestors[q.candidate]
  BY <1>0, <1>5, <1>6, ReachesPublished
<1>8. p.candidate \notin Ancestors[q.expected]
  <2>1. Ancestors'[q.expected] = Ancestors[q.expected] BY <1>0, <1>6, GraphGrows
  <2> QED BY <1>5, <2>1
<1>9. branches[q.branch].policy.requireDistinctReviewer
  <2>1. CASE InstallsGenesis(t, q)
    <3>1. branches'[Main] = FirstRow /\ d.branch = Main
      BY SMT, <1>0, <1>3, <2>1, StoreAssumption DEF InstallsGenesis, TypeInv, TypeOK, TablesOK
    <3>2. FirstRow.policy.requireDistinctReviewer = FALSE BY DEF FirstRow, NoBranch, NoPolicy
    <3> QED BY <3>1, <3>2
  <2>2. CASE InstallsNext(t, q) \/ InstallsMerge(t, q)
    <3>1. UNCHANGED branches BY <2>2 DEF InstallsNext, InstallsMerge, Advances
    <3> QED BY <1>3, <3>1
  <2> QED BY SMT, <2>1, <2>2
<1>10. q.actor \cap req[t].actor = {}
  <2>1. Reviewed(req[t], q) BY <1>1 DEF Installs
  <2> QED BY <1>9, <2>1 DEF Reviewed, RequireDistinctParties
<1>11. CASE p.candidate = q.candidate
  <2>1. p = q BY <1>0, <1>7, <1>11 DEF UniqueCandidates
  <2> QED BY <1>3, <1>10, <2>1
<1>12. CASE InstallsMerge(t, q) /\ p.candidate \in Ancestors[q.parents[2]] \ Ancestors[q.parents[1]]
  <2>1. q.source # NoName BY <1>12, StoreAssumption DEF InstallsMerge, NoName
  <2>2. p.actor \subseteq q.parties BY SMT, <1>0, <1>7, <1>12, <2>1 DEF PartiesKnown
  <2>3. req[t].actor \cap q.parties = {} BY <1>9, <1>12 DEF InstallsMerge
  <2> QED BY <1>3, <2>2, <2>3
<1> QED BY <1>0, <1>7, <1>8, <1>11, <1>12, MadeReachable

-----------------------------------------------------------------------------
(* Exactly once. *)

(* The kinds of rows a request inserts, and the operations that do. *)
Kind == {"proposal", "acceptance", "rejection", "lifecycle"}

Inserted(k) == CASE k = "proposal"   -> proposals
                 [] k = "acceptance" -> {d \in decisions : d.decision = "accepted"}
                 [] k = "rejection"  -> {d \in decisions : d.decision = "rejected"}
                 [] k = "lifecycle"  -> {e \in branchEvents : branches[e.branch].source # NoName}

Inserters(k) == CASE k = "proposal"   -> {"prepare", "merge_propose"}
                  [] k = "acceptance" -> {"accept", "merge_apply"}
                  [] k = "rejection"  -> {"reject"}
                  [] k = "lifecycle"  -> {"branch_create", "branch_delete", "branch_restore"}

Results(k) == {i \in idempotency : i.req.op \in Inserters(k)}

(* As many rows of a kind as results of its operations. *)
Balanced(k) == /\ IsFiniteSet(Inserted(k)) /\ IsFiniteSet(Results(k))
               /\ Cardinality(Inserted(k)) = Cardinality(Results(k))

OneResult == \A i, j \in idempotency : Scope(i.req) = Scope(j.req) => i = j

(* Only `main' has no source. *)
Sourced == \A b \in Branch \ {Main} : branches[b].status # "none" => branches[b].source # NoName

EInv == OneResult /\ Sourced /\ \A k \in Kind : Balanced(k)

(* Counting is what ExactlyOnce does. *)
LEMMA BalancedIsOnce == EInv => ExactlyOnce
<1> SUFFICES ASSUME EInv PROVE ExactlyOnce OBVIOUS
<1>1. /\ Inserted("proposal") = proposals
      /\ Inserted("acceptance") = {d \in decisions : d.decision = "accepted"}
      /\ Inserted("rejection") = {d \in decisions : d.decision = "rejected"}
      /\ Inserted("lifecycle") = {e \in branchEvents : branches[e.branch].source # NoName}
  BY DEF Inserted
<1>2. /\ Inserters("proposal") = {"prepare", "merge_propose"}
      /\ Inserters("acceptance") = {"accept", "merge_apply"}
      /\ Inserters("rejection") = {"reject"}
      /\ Inserters("lifecycle") = {"branch_create", "branch_delete", "branch_restore"}
  BY DEF Inserters
<1>3. /\ Cardinality(Inserted("proposal")) = Cardinality(Results("proposal"))
      /\ Cardinality(Inserted("acceptance")) = Cardinality(Results("acceptance"))
      /\ Cardinality(Inserted("rejection")) = Cardinality(Results("rejection"))
      /\ Cardinality(Inserted("lifecycle")) = Cardinality(Results("lifecycle"))
  BY DEF EInv, Kind, Balanced
<1> QED BY <1>1, <1>2, <1>3 DEF ExactlyOnce, EInv, OneResult, Results

(* Whoever commits, except mark_superseded, is in its scope. *)
LEMMA CommitsInScope ==
  ASSUME TypeInv, NEW t \in Tx, WriteStep(t), req[t].op # "supersede"
  PROVE  pc[t] \notin Outside \cup SupersedePc
<1>1. pc[t] \in {"prepare_commit", "accept_commit", "reject_commit", "supersede_commit",
                 "validate_record", "create_commit", "lifecycle_commit", "propose_commit",
                 "apply_commit"}
  BY DEF WriteStep, MoveStep, DecideStep, OtherStep, AcceptCommit, ApplyCommit, CreateCommit,
     PrepareCommit, ProposeCommit, RejectCommit, SupersedeCommit, ValidateRecord, LifecycleCommit,
     CommitTx
<1>2. pc[t] \in SupersedePc => req[t].op = "supersede"
  BY RequestAt DEF SupersedeRequest, SupersedePc
<1> QED BY <1>1, <1>2 DEF Outside, SupersedePc

(* Its result is the first one of its scope. *)
LEMMA ResultStep ==
  ASSUME LInv, OneResult, NEW t \in Tx, WriteStep(t), req[t].op # "supersede",
         NEW c, NEW v, NEW n, RecordResult(req[t], c, v, n)
  PROVE  /\ OneResult'
         /\ \A k \in Kind :
              IF req[t].op \in Inserters(k)
              THEN \E i : i \notin Results(k) /\ Results(k)' = Results(k) \cup {i}
              ELSE Results(k)' = Results(k)
<1> DEFINE i == [req |-> req[t], commit |-> c, version |-> v, lifecycle |-> n]
<1>1. TypeInv /\ HoldsScope(t) BY DEF LInv, IInv
<1>2. StoredResult(req[t]) = {} BY <1>1, CommitsInScope DEF HoldsScope
<1>3. idempotency' = idempotency \cup {i} BY DEF RecordResult
<1>4. i.req = req[t] OBVIOUS
<1> HIDE DEF i
<1>5. \A j \in idempotency : Scope(j.req) # Scope(i.req) BY <1>2, <1>4 DEF StoredResult
<1>6. i \notin idempotency BY <1>5
<1>7. OneResult' BY <1>3, <1>5 DEF OneResult
<1>8. ASSUME NEW k \in Kind, req[t].op \in Inserters(k)
      PROVE  i \notin Results(k) /\ Results(k)' = Results(k) \cup {i}
  BY <1>3, <1>4, <1>6, <1>8 DEF Results
<1>9. ASSUME NEW k \in Kind, req[t].op \notin Inserters(k) PROVE Results(k)' = Results(k)
  BY <1>3, <1>4, <1>9 DEF Results
<1> QED BY <1>7, <1>8, <1>9

(* The operation inserts what it is counted for. *)
Inserts(t) == \A k \in Kind : IF req[t].op \in Inserters(k)
                              THEN \E x : x \notin Inserted(k) /\ Inserted(k)' = Inserted(k) \cup {x}
                              ELSE Inserted(k)' = Inserted(k)

(* An operation is counted for one kind of row. *)
LEMMA InsertsOne ==
  ASSUME NEW t \in Tx, NEW k \in Kind, req[t].op \in Inserters(k),
         \E x : x \notin Inserted(k) /\ Inserted(k)' = Inserted(k) \cup {x},
         \A j \in Kind \ {k} : Inserted(j)' = Inserted(j)
  PROVE  Inserts(t)
<1>1. \A j \in Kind \ {k} : req[t].op \notin Inserters(j) BY DEF Kind, Inserters
<1> QED BY <1>1 DEF Inserts

(* Rows that no table change and no branch's source can alter. *)
LEMMA SameRows ==
  /\ UNCHANGED proposals => UNCHANGED Inserted("proposal")
  /\ UNCHANGED decisions => UNCHANGED <<Inserted("acceptance"), Inserted("rejection")>>
  /\ UNCHANGED <<branches, branchEvents>> => UNCHANGED Inserted("lifecycle")
  BY DEF Inserted

(* prepare and merge propose insert a proposal. *)
LEMMA PublicationInserts ==
  ASSUME LInv, NEW t \in Tx, NEW p, Publishes(t, p), req[t].op \in {"prepare", "merge_propose"}
  PROVE  Inserts(t)
<1>1. lastCommit \in Nat /\ \A q \in proposals : q.candidate \in Commit
  BY DEF LInv, IInv, TypeInv, TypeOK, TablesOK, ProposalRow
<1>2. p \notin proposals /\ proposals' = proposals \cup {p} BY SMT, <1>1 DEF Publishes, Commit
<1>3. /\ p \notin Inserted("proposal")
      /\ Inserted("proposal")' = Inserted("proposal") \cup {p}
  BY <1>2 DEF Inserted
<1>4. UNCHANGED <<decisions, branches, branchEvents>> BY DEF Publishes
<1>5. \A j \in Kind \ {"proposal"} : Inserted(j)' = Inserted(j) BY <1>4, SameRows DEF Kind
<1>6. "proposal" \in Kind /\ req[t].op \in Inserters("proposal") BY DEF Kind, Inserters
<1> QED BY <1>3, <1>5, <1>6, InsertsOne

(* The decision on an undecided candidate is a new row. *)
LEMMA DecisionInserts ==
  ASSUME NEW p, NEW s \in {"accepted", "rejected", "superseded"}, NEW v, NEW r,
         Undecided(p.candidate), decisions' = decisions \cup {Decision(p, s, v, r)}
  PROVE  /\ s = "accepted" => \E x : /\ x \notin Inserted("acceptance")
                                     /\ Inserted("acceptance")' = Inserted("acceptance") \cup {x}
         /\ s # "accepted" => Inserted("acceptance")' = Inserted("acceptance")
         /\ s = "rejected" => \E x : /\ x \notin Inserted("rejection")
                                     /\ Inserted("rejection")' = Inserted("rejection") \cup {x}
         /\ s # "rejected" => Inserted("rejection")' = Inserted("rejection")
<1> DEFINE d == Decision(p, s, v, r)
<1>1. d.candidate = p.candidate /\ d.decision = s BY DEF Decision
<1> HIDE DEF d
<1>2. d \notin decisions /\ decisions' = decisions \cup {d} BY <1>1 DEF Undecided, d
<1>3. /\ Inserted("acceptance") = {x \in decisions : x.decision = "accepted"}
      /\ Inserted("acceptance")' = {x \in decisions' : x.decision = "accepted"}
      /\ Inserted("rejection") = {x \in decisions : x.decision = "rejected"}
      /\ Inserted("rejection")' = {x \in decisions' : x.decision = "rejected"}
  BY DEF Inserted
<1>4. s = "accepted" => /\ d \notin Inserted("acceptance")
                        /\ Inserted("acceptance")' = Inserted("acceptance") \cup {d}
  BY <1>1, <1>2, <1>3
<1>5. s = "rejected" => /\ d \notin Inserted("rejection")
                        /\ Inserted("rejection")' = Inserted("rejection") \cup {d}
  BY <1>1, <1>2, <1>3
<1>6. /\ s # "accepted" => Inserted("acceptance")' = Inserted("acceptance")
      /\ s # "rejected" => Inserted("rejection")' = Inserted("rejection")
  BY <1>1, <1>2, <1>3
<1> QED BY <1>4, <1>5, <1>6

(* accept and merge apply insert an acceptance; `main's genesis event is no *)
(* request's.                                                               *)
LEMMA InstallationInserts ==
  ASSUME LInv, NEW t \in Tx, NEW p,
         InstallsGenesis(t, p) \/ InstallsNext(t, p) \/ InstallsMerge(t, p)
  PROVE  Inserts(t)
<1>0. TypeInv /\ MainIsPlain BY DEF LInv, IInv
<1>1. PICK op : Installs(t, p, op)
  BY DEF InstallsGenesis, InstallsNext, InstallsMerge, Advances
<1>2. /\ Undecided(p.candidate) /\ UNCHANGED proposals
      /\ decisions' = decisions \cup
           {Decision(p, "accepted", refs[p.branch].version + 1, req[t])}
  BY <1>1 DEF Installs
<1>3. /\ \E x : /\ x \notin Inserted("acceptance")
                /\ Inserted("acceptance")' = Inserted("acceptance") \cup {x}
      /\ Inserted("rejection")' = Inserted("rejection")
  BY <1>2, DecisionInserts
<1>4. Inserted("lifecycle")' = Inserted("lifecycle")
  <2>1. CASE InstallsGenesis(t, p)
    <3> DEFINE f == [branch |-> Main, lifecycle |-> 1, status |-> "active",
                     head |-> p.candidate, version |-> 1]
    <3>1. branchEvents' = branchEvents \cup {f} BY <2>1 DEF InstallsGenesis
    <3>2. f.branch = Main OBVIOUS
    <3> HIDE DEF f
    <3>3. branches' = [branches EXCEPT ![Main] = FirstRow] /\ FirstRow.source = NoName
      BY <2>1 DEF InstallsGenesis, FirstRow, NoBranch
    <3>4. branches \in [Branch -> BranchRow] /\ \A e \in branchEvents : e.branch \in Branch
      BY <1>0 DEF TypeInv, TypeOK, TablesOK, BranchEvent
    <3>5. \A e \in branchEvents : branches'[e.branch].source = branches[e.branch].source
      BY <1>0, <3>3, <3>4, StoreAssumption DEF MainIsPlain
    <3>6. branches'[f.branch].source = NoName BY <3>2, <3>3, <3>4, StoreAssumption
    <3>7. /\ Inserted("lifecycle") = {e \in branchEvents : branches[e.branch].source # NoName}
          /\ Inserted("lifecycle")' = {e \in branchEvents' : branches'[e.branch].source # NoName}
      BY DEF Inserted
    <3> QED BY <3>1, <3>5, <3>6, <3>7
  <2>2. CASE InstallsNext(t, p) \/ InstallsMerge(t, p)
    BY <2>2, SameRows DEF InstallsNext, InstallsMerge, Advances
  <2> QED BY <2>1, <2>2
<1>5. \A j \in Kind \ {"acceptance"} : Inserted(j)' = Inserted(j)
  BY <1>2, <1>3, <1>4, SameRows DEF Kind
<1>6. req[t].op \in {"accept", "merge_apply"}
  BY DEF InstallsGenesis, InstallsNext, InstallsMerge
<1>7. "acceptance" \in Kind /\ req[t].op \in Inserters("acceptance") BY <1>6 DEF Kind, Inserters
<1> QED BY <1>3, <1>5, <1>7, InsertsOne

(* One more lifecycle event, of a branch that has a source. *)
LEMMA LifecycleInserts ==
  ASSUME BInv, NEW t \in Tx, NEW b \in Branch \ {Main}, NEW f, f.branch = b,
         branchEvents' = branchEvents \cup {f}, f \notin branchEvents,
         UNCHANGED <<proposals, decisions>>, branches'[b].source # NoName,
         \A a \in Branch \ {b} : branches'[a].source = branches[a].source,
         \A e \in LifecycleEventsOf(b) : branches[b].source # NoName,
         req[t].op \in {"branch_create", "branch_delete", "branch_restore"}
  PROVE  Inserts(t)
<1>1. \A e \in branchEvents : e.branch \in Branch
  BY DEF BInv, LInv, IInv, TypeInv, TypeOK, TablesOK, BranchEvent
<1>2. /\ Inserted("lifecycle") = {e \in branchEvents : branches[e.branch].source # NoName}
      /\ Inserted("lifecycle")' = {e \in branchEvents' : branches'[e.branch].source # NoName}
  BY DEF Inserted
<1>3. \A e \in branchEvents : branches'[e.branch].source # NoName <=> branches[e.branch].source # NoName
  BY <1>1 DEF LifecycleEventsOf
<1>4. /\ f \notin Inserted("lifecycle")
      /\ Inserted("lifecycle")' = Inserted("lifecycle") \cup {f}
  BY <1>2, <1>3
<1>5. \A j \in Kind \ {"lifecycle"} : Inserted(j)' = Inserted(j) BY SameRows DEF Kind
<1>6. "lifecycle" \in Kind /\ req[t].op \in Inserters("lifecycle") BY DEF Kind, Inserters
<1> QED BY <1>4, <1>5, <1>6, InsertsOne

(* branch create inserts the first event of its branch. *)
LEMMA CreationInserts ==
  ASSUME BInv, NEW t \in Tx, CreatesBranch(t)
  PROVE  Inserts(t)
<1> DEFINE b == req[t].name
           f == [branch |-> b, lifecycle |-> 1, status |-> "active", head |-> Point(t), version |-> 1]
<1>0. LInv /\ TypeInv /\ RowsTogether BY DEF BInv, LInv, IInv
<1>1. b \in Branch \ {Main} /\ req[t].source \in Branch /\ req[t].op = "branch_create"
  BY CreateNames DEF CreatesBranch
<1>2. branches[b] = NoBranch BY <1>0, <1>1 DEF CreatesBranch, RowsTogether
<1>3. LifecycleEventsOf(b) = {}
  <2>1. branches[b].lifecycle = 0 BY SMT, <1>2 DEF NoBranch
  <2>2. \A e \in LifecycleEventsOf(b) : e.lifecycle \in Nat \ {0}
    BY <1>0 DEF LifecycleEventsOf, TypeInv, TypeOK, TablesOK, BranchEvent
  <2>3. \A e \in LifecycleEventsOf(b) : e.lifecycle <= branches[b].lifecycle
    BY <1>1 DEF BInv, Holds
  <2> QED BY SMT, <2>1, <2>2, <2>3
<1>4. f.branch = b /\ branchEvents' = branchEvents \cup {f} BY DEF CreatesBranch
<1>5. /\ branches \in [Branch -> BranchRow] /\ UNCHANGED <<proposals, decisions>>
      /\ branches' = [branches EXCEPT ![b] =
             [status |-> "active", lifecycle |-> 1, source |-> req[t].source,
              point |-> Point(t), policy |-> req[t].policy]]
  BY <1>0 DEF CreatesBranch, TypeInv, TypeOK, TablesOK
<1> HIDE DEF f, b
<1>6. f \notin branchEvents BY <1>3, <1>4 DEF LifecycleEventsOf
<1>7. branches'[b].source = req[t].source /\ \A a \in Branch \ {b} : branches'[a] = branches[a]
  BY <1>1, <1>5
<1>8. branches'[b].source # NoName BY <1>1, <1>7, StoreAssumption DEF NoName
<1> QED BY <1>1, <1>3, <1>4, <1>5, <1>6, <1>7, <1>8, LifecycleInserts

(* delete and restore insert the next event of theirs. *)
LEMMA TurnInserts ==
  ASSUME BInv, Sourced, NEW t \in Tx, ChangesStatus(t)
  PROVE  Inserts(t)
<1> DEFINE b == req[t].name
           n == branches[b].lifecycle + 1
           f == [branch |-> b, lifecycle |-> n, status |-> StatusAfter(req[t]),
                 head |-> refs[b].head, version |-> refs[b].version]
<1>0. LInv /\ TypeInv BY DEF BInv, LInv, IInv
<1>1. b \in Branch \ {Main} /\ req[t].op \in {"branch_delete", "branch_restore"}
  BY SMT DEF ChangesStatus, LifecycleRequest
<1>2. branches[b].status # "none" BY DEF ChangesStatus, StatusBefore
<1>3. branches[b].source # NoName BY <1>1, <1>2 DEF Sourced
<1>4. f.branch = b /\ f.lifecycle = n /\ branchEvents' = branchEvents \cup {f}
  BY DEF ChangesStatus
<1>5. /\ branches \in [Branch -> BranchRow] /\ UNCHANGED <<proposals, decisions>>
      /\ branches' = [branches EXCEPT ![b] =
             [@ EXCEPT !.status = StatusAfter(req[t]), !.lifecycle = n]]
  BY <1>0 DEF ChangesStatus, TypeInv, TypeOK, TablesOK
<1> HIDE DEF f, b, n
<1>6. branches[b] \in BranchRow BY <1>1, <1>5
<1>7. branches'[b].source = branches[b].source /\ \A a \in Branch \ {b} : branches'[a] = branches[a]
  BY <1>1, <1>5, <1>6 DEF BranchRow
<1>8. f \notin branchEvents
  <2>1. branches[b].lifecycle \in Nat BY <1>6 DEF BranchRow
  <2>2. \A e \in LifecycleEventsOf(b) : e.lifecycle <= branches[b].lifecycle
    BY <1>1 DEF BInv, Holds
  <2>3. ~(n <= branches[b].lifecycle) BY SMT, <2>1 DEF n
  <2>4. f \in branchEvents => f \in LifecycleEventsOf(b) BY <1>4 DEF LifecycleEventsOf
  <2> QED BY <1>4, <2>2, <2>3, <2>4
<1> QED BY <1>1, <1>3, <1>4, <1>5, <1>7, <1>8, LifecycleInserts

(* A branch other than `main' is created from a source, which it keeps. *)
LEMMA SourcedStep ==
  ASSUME LInv, Sourced, NEW t \in Tx, WriteStep(t)
  PROVE  Sourced'
<1> SUFFICES ASSUME NEW b \in Branch \ {Main}, branches'[b].status # "none"
             PROVE  branches'[b].source # NoName
  BY DEF Sourced
<1>1. CASE CreatesBranch(t) /\ b = req[t].name
  <2>1. req[t].source \in Branch BY <1>1, CreateNames DEF CreatesBranch
  <2>2. branches'[b].source = req[t].source
    BY <1>1 DEF CreatesBranch, LInv, IInv, TypeInv, TypeOK, TablesOK
  <2> QED BY <2>1, <2>2, StoreAssumption DEF NoName
<1>2. CASE ~(CreatesBranch(t) /\ b = req[t].name)
  <2>1. branches'[b].source = branches[b].source BY <1>2, SourceStep
  <2>2. branches[b].status # "none"
    <3>0. branches \in [Branch -> BranchRow] BY DEF LInv, IInv, TypeInv, TypeOK, TablesOK
    <3>1. ASSUME NEW p, NEW s,
                 \/ InstallsNext(t, p) \/ InstallsMerge(t, p) \/ PublishesPlain(t, p)
                 \/ PublishesMerge(t, p) \/ Declines(t, p, s) \/ Validates(t)
          PROVE  UNCHANGED branches
      BY <3>1 DEF InstallsNext, InstallsMerge, Advances, PublishesPlain, PublishesMerge,
         Publishes, Declines, Validates
    <3>2. ASSUME NEW p, InstallsGenesis(t, p) PROVE branches'[b] = branches[b]
      BY <3>0, <3>2 DEF InstallsGenesis
    <3>3. CASE CreatesBranch(t) BY <1>2, <3>0, <3>3 DEF CreatesBranch
    <3>4. CASE ChangesStatus(t) BY <3>0, <3>4 DEF ChangesStatus, StatusBefore
    <3> QED BY <3>1, <3>2, <3>3, <3>4, Effects
  <2> QED BY <2>1, <2>2 DEF Sourced
<1> QED BY <1>1, <1>2

-----------------------------------------------------------------------------
(* Every step keeps the invariants. *)

(* Every step keeps it. *)
LEMMA NextHInv == HInv /\ [Next]_vars => HInv'
<1> SUFFICES ASSUME HInv, [Next]_vars PROVE HInv' OBVIOUS
<1>0. LInv /\ TypeInv BY DEF HInv, LInv, IInv
<1>1. LInv' /\ TypeInv' BY <1>0, NextLInv DEF LInv, IInv
<1>2. ASSUME UNCHANGED tables
      PROVE  (Based /\ BaseWasHead /\ SupersededIsBehind /\ FastForwardOnly /\ BranchPointInSource)'
  <2>1. Ancestors' = Ancestors BY <1>2, SameGraph
  <2>2. /\ proposals' = proposals /\ refs' = refs /\ decisions' = decisions
        /\ refEvents' = refEvents /\ branches' = branches
    BY <1>2 DEF tables
  <2>3. Based' /\ BaseWasHead' /\ SupersededIsBehind'
    BY <2>2 DEF HInv, Based, BaseWasHead, SupersededIsBehind, IsBehind
  <2>4. FastForwardOnly' BY <2>1, <2>2 DEF HInv, FastForwardOnly, EventsOf
  <2>5. BranchPointInSource' BY <2>1, <2>2 DEF HInv, BranchPointInSource, EventsOf
  <2> QED BY <2>3, <2>4, <2>5
<1>3. ASSUME NEW t \in Tx, ReadStep(t) PROVE HInv'
  <2>1. UNCHANGED tables /\ \A u \in Tx \ {t} : Still(u)
    BY <1>0, <1>3, ReadStepFrame DEF Still
  <2>2. ReadHead(t)' BY <1>3, ReadHeadSelf
  <2>3. \A u \in Tx \ {t} : ReadHead(u)' BY <2>1, ReadHeadStill DEF HInv
  <2> QED BY <1>1, <1>2, <2>1, <2>2, <2>3 DEF HInv
<1>4. ASSUME NEW t \in Tx, pc'[t] = "idle" PROVE ReadHead(t)'
  BY <1>4 DEF ReadHead, ProposePc, CreatePc
<1>5. ASSUME NEW t \in Tx, WriteStep(t) PROVE HInv'
  <2>1. Based' BY <1>0, <1>1, <1>5, GraphGrows DEF HInv
  <2>2. BaseWasHead' /\ SupersededIsBehind' BY <1>1, <1>5, BaseStep, SupersededStep
  <2>3. FastForwardOnly' /\ BranchPointInSource' BY <1>1, <1>5, ForwardStep, PointStep
  <2>4. pc'[t] = "idle" BY <1>0, <1>5, WriteStepFrame
  <2>5. ReadHead(t)' BY <1>4, <2>4
  <2>6. \A u \in Tx \ {t} : ReadHead(u)' BY <1>1, <1>5, ReadHeadOther
  <2> QED BY <1>1, <2>1, <2>2, <2>3, <2>5, <2>6 DEF HInv
<1>6. ASSUME NEW t \in Tx, Rollback(t) PROVE HInv'
  <2>1. UNCHANGED tables BY <1>6 DEF Rollback
  <2>2. pc'[t] = "idle" /\ \A u \in Tx \ {t} : Still(u) BY <1>0, <1>6, WriteStepFrame DEF Still
  <2>3. ReadHead(t)' BY <1>4, <2>2
  <2>4. \A u \in Tx \ {t} : ReadHead(u)' BY <2>1, <2>2, ReadHeadStill DEF HInv
  <2> QED BY <1>1, <1>2, <2>1, <2>3, <2>4 DEF HInv
<1>7. CASE SetGraphStatus \/ UNCHANGED vars
  <2>1. UNCHANGED tables /\ UNCHANGED locals BY <1>7 DEF SetGraphStatus, vars
  <2>2. \A u \in Tx : Still(u) BY <2>1 DEF Still, locals
  <2>3. \A u \in Tx : ReadHead(u)' BY <2>1, <2>2, ReadHeadStill DEF HInv
  <2> QED BY <1>1, <1>2, <2>1, <2>3 DEF HInv
<1> QED BY <1>3, <1>5, <1>6, <1>7, StepKinds

(* Every step keeps the movements explained. *)
LEMMA NextMInv == MInv /\ [Next]_vars => MInv'
<1> SUFFICES ASSUME MInv, [Next]_vars PROVE MInv' OBVIOUS
<1> DEFINE Goal == /\ \A e \in refEvents' : Explained(e)'
                   /\ \A d \in decisions' : d.decision = "accepted" =>
                                              \E e \in refEvents' : Accepts(d, e)
                   /\ \A o \in outbox' : \E e \in refEvents' : Queues(o, e)
<1>0. LInv /\ TypeInv BY DEF MInv, LInv, IInv
<1>1. LInv' /\ TypeInv' BY <1>0, NextLInv DEF LInv, IInv
<1>2. SUFFICES Goal BY <1>1 DEF MInv, Accepts, Queues
<1>3. CASE UNCHANGED tables BY <1>3, OtherExplained DEF tables
<1>4. ASSUME NEW t \in Tx, WriteStep(t) PROVE Goal
  <2>1. ASSUME NEW p \in proposals,
               InstallsGenesis(t, p) \/ InstallsNext(t, p) \/ InstallsMerge(t, p)
        PROVE  Goal
    <3>1. \E op : Installs(t, p, op)
      BY <2>1 DEF InstallsGenesis, InstallsNext, InstallsMerge, Advances
    <3>2. \A b \in Branch : branches'[b].source = branches[b].source
      BY <1>0, <1>4, <2>1, InstallsKeepSource
    <3> QED BY <1>1, <1>4, <3>1, <3>2, InstallExplained
  <2>2. CASE CreatesBranch(t)
    <3>1. UNCHANGED <<decisions, outbox>> /\ refEvents \subseteq refEvents'
      BY <2>2 DEF CreatesBranch, Moves
    <3>2. \A e \in refEvents' : Explained(e)' BY <1>1, <1>4, <2>2, CreationExplained
    <3> QED BY <3>1, <3>2 DEF MInv
  <2>3. ASSUME NEW p, NEW s, \/ PublishesPlain(t, p) \/ PublishesMerge(t, p) \/ Validates(t)
        PROVE  Goal
    <3>1. UNCHANGED <<refEvents, outbox, branches, decisions>>
      BY <2>3 DEF PublishesPlain, PublishesMerge, Publishes, Validates
    <3> QED BY <3>1, OtherExplained
  <2>4. ASSUME NEW p, NEW s, Declines(t, p, s) PROVE Goal
    <3>1. /\ UNCHANGED <<refEvents, outbox, branches>> /\ s # "accepted"
          /\ decisions' = decisions \cup {Decision(p, s, 0, req[t])}
      BY <2>4 DEF Declines
    <3>2. Decision(p, s, 0, req[t]).decision = s BY DEF Decision
    <3>3. decisions \subseteq decisions' /\ \A d \in decisions' \ decisions : d.decision # "accepted"
      BY <3>1, <3>2
    <3> QED BY <3>1, <3>3, OtherExplained
  <2>5. CASE ChangesStatus(t)
    <3>1. UNCHANGED <<refEvents, outbox, decisions>> BY <2>5 DEF ChangesStatus
    <3>2. ASSUME NEW b \in Branch PROVE branches'[b].source = branches[b].source
      <4>1. ~CreatesBranch(t)
        BY SMT, <2>5, CreateNames DEF CreatesBranch, ChangesStatus, LifecycleRequest
      <4> QED BY <1>0, <1>4, <4>1, SourceStep DEF LInv, MainIsPlain
    <3> QED BY <3>1, <3>2, OtherExplained
  <2> QED BY <1>0, <1>4, <2>1, <2>2, <2>3, <2>4, <2>5, Effects
<1> QED BY <1>0, <1>3, <1>4, OnlyCommitsWrite

(* Every step keeps four eyes on what is accepted. *)
LEMMA NextFInv == FInv /\ [Next]_vars => FInv'
<1> SUFFICES ASSUME FInv, [Next]_vars PROVE FInv' OBVIOUS
<1>0. HInv /\ MInv /\ LInv /\ TypeInv /\ PartiesKnown /\ FourEyes BY DEF FInv, HInv, LInv, IInv
<1>1. HInv' /\ MInv' BY <1>0, NextHInv, NextMInv
<1>2. LInv' /\ TypeInv' BY SMT, <1>1 DEF HInv, LInv, IInv
<1>3. CASE UNCHANGED tables
  <2>1. /\ UNCHANGED <<proposals, decisions, branches, refEvents>> /\ Ancestors' = Ancestors
    BY <1>3, SameGraph DEF tables
  <2>2. PartiesKnown' BY <1>0, <2>1 DEF PartiesKnown
  <2>3. FourEyes' BY SMT, <1>0, <2>1 DEF FourEyes, EventsOf
  <2> QED BY SMT, <1>1, <2>2, <2>3 DEF FInv
<1>4. ASSUME NEW t \in Tx, WriteStep(t) PROVE PartiesKnown' /\ FourEyes'
  <2>1. PartiesKnown' BY SMT, <1>2, <1>4, PartiesStep
  <2>2. ASSUME NEW d \in decisions' \ decisions, d.decision = "accepted"
        PROVE  \E q \in proposals : InstallsGenesis(t, q) \/ InstallsNext(t, q) \/ InstallsMerge(t, q)
    <3>1. ASSUME NEW q, NEW s,
                 \/ CreatesBranch(t) \/ PublishesPlain(t, q) \/ PublishesMerge(t, q)
                 \/ Validates(t) \/ ChangesStatus(t)
          PROVE  UNCHANGED decisions
      BY <3>1 DEF CreatesBranch, PublishesPlain, PublishesMerge, Publishes, Validates,
         ChangesStatus
    <3>2. ASSUME NEW q, NEW s, Declines(t, q, s) PROVE FALSE
      <4>1. d = Decision(q, s, 0, req[t]) /\ s \in {"rejected", "superseded"}
        BY <2>2, <3>2 DEF Declines
      <4>2. d.decision = s BY <4>1 DEF Decision
      <4> QED BY <2>2, <4>1, <4>2
    <3> QED BY <1>0, <1>4, <2>2, <3>1, <3>2, Effects
  <2>3. ASSUME NEW d \in decisions', d.decision = "accepted",
               branches'[d.branch].policy.requireDistinctReviewer,
               NEW e \in EventsOf(d.branch)', e.version = d.version,
               NEW p \in proposals', p.candidate \in Ancestors'[e.new] \ Ancestors'[e.old]
        PROVE  p.actor \cap d.actor = {}
    <3>1. e \in refEvents' /\ e.branch = d.branch BY <2>3 DEF EventsOf
    <3>2. CASE d \in decisions BY SMT, <1>2, <1>4, <2>3, <3>1, <3>2, FourEyesStays
    <3>3. CASE d \notin decisions
      <4>1. PICK q \in proposals :
              InstallsGenesis(t, q) \/ InstallsNext(t, q) \/ InstallsMerge(t, q)
        BY <2>2, <2>3, <3>3
      <4> QED BY <1>2, <1>4, <2>3, <3>1, <3>3, <4>1, FourEyesBegins
    <3> QED BY <3>2, <3>3
  <2>4. FourEyes' BY <2>3 DEF FourEyes
  <2> QED BY SMT, <2>1, <2>4
<1>5. UNCHANGED tables \/ \E t \in Tx : WriteStep(t) BY <1>0, OnlyCommitsWrite
<1> QED BY SMT, <1>1, <1>3, <1>4, <1>5 DEF FInv

=============================================================================
