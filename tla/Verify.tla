--------------------------------- MODULE Verify ---------------------------------
(***************************************************************************)
(* ledger-admin verify (crates/ledger-store/src/verify.rs): every check is *)
(* a query that must return no row.  Here a check is the set of the rows   *)
(* it returns from a database that is given as a value: the one the ledger *)
(* has now, or one that lost or changed a row behind the back of the       *)
(* schema and of the workflow (an owner's mistake, a faulty restore).      *)
(*                                                                         *)
(* Surrogate keys are replaced by what they identify: a ref event by its   *)
(* branch and version, a proposal by its candidate, a branch event by its  *)
(* branch and lifecycle version.  A content id is the content it names.    *)
(***************************************************************************)
EXTENDS Ledger

Operation(e) == IF e.lifecycle > 1
                THEN IF e.status = "deleted" THEN "deleted" ELSE "restored"
                ELSE IF branches[e.branch].source # NoName THEN "created" ELSE "genesis"

(* The detail rows of a record that does not conform, and of any context. *)
Summaries(v) == IF v.conforms THEN <<>> ELSE <<"first", "second">>
Virtuals(c) == <<"first dataset", "second dataset">>
ContextOf(v) == [candidate |-> v.candidate, service |-> v.service,
                 environment |-> v.environment]
Rows(of, entries) == {[of |-> of, position |-> i - 1, entry |-> entries[i]] :
                         i \in DOMAIN entries}
RowsOf(table, of) == {s \in table : s.of = of}

(* The database the ledger has now. *)
Tables ==
    LET contexts == {ContextOf(v) : v \in validations}
    IN  [objects   |-> {[digest |-> <<k, c>>, bytes |-> <<k, c>>] :
                           k \in {"commit", "patch"}, c \in Commit},
         commits   |-> {[digest |-> p.candidate, count |-> Len(p.parents)] : p \in proposals},
         parents   |-> UNION {{[commit |-> p.candidate, position |-> i - 1,
                                parent |-> p.parents[i]] : i \in DOMAIN p.parents} :
                                 p \in proposals},
         refs      |-> {[branch |-> b, head |-> refs[b].head, version |-> refs[b].version] :
                           b \in {x \in Branch : refs[x].version > 0}},
         refEvents |-> refEvents,
         branches  |-> {[branch |-> b, status |-> branches[b].status,
                         lifecycle |-> branches[b].lifecycle, source |-> branches[b].source,
                         point |-> branches[b].point, policy |-> branches[b].policy] :
                           b \in {x \in Branch : branches[x].status # "none"}},
         branchEvents |-> {[branch |-> e.branch, lifecycle |-> e.lifecycle,
                            status |-> e.status, head |-> e.head, version |-> e.version,
                            operation |-> Operation(e)] : e \in branchEvents},
         proposals |-> {[candidate |-> p.candidate, branch |-> p.branch,
                         expected |-> p.expected, actor |-> p.actor] : p \in proposals},
         merges    |-> {[candidate |-> p.candidate, target |-> p.branch,
                         targetHead |-> p.parents[1], source |-> p.source,
                         sourceHead |-> p.parents[2], parties |-> p.parties] :
                           p \in {x \in proposals : x.source # NoName}},
         decisions |-> decisions,
         outbox    |-> outbox,
         results   |-> idempotency,
         records   |-> {[digest |-> v, bytes |-> v, columns |-> v, context |-> ContextOf(v)] :
                           v \in validations},
         contexts  |-> {[digest |-> c, bytes |-> c, columns |-> c] : c \in contexts},
         cites     |-> UNION {{[decision |-> d.candidate, validation |-> v] :
                                  v \in d.validations} : d \in decisions},
         virtuals  |-> UNION {Rows(c, Virtuals(c)) : c \in contexts},
         summaries |-> UNION {Rows(v, Summaries(v)) : v \in validations}]

IsIndexed(db, c) == \E i \in db.commits : i.digest = c
Parent(db, c, position, p) ==
    [commit |-> c, position |-> position, parent |-> p] \in db.parents
EventsIn(db, b)    == {e \in db.refEvents : e.branch = b}
LifecycleIn(db, b) == {e \in db.branchEvents : e.branch = b}
DecidedEvent(db, d)     == {e \in db.refEvents : e.branch = d.branch /\ e.version = d.version}

-----------------------------------------------------------------------------
(* The commit index. *)

ObjectChecks(db) ==
    {o \in db.objects : o.digest # o.bytes}
    \cup {c \in db.commits : \E k \in {"commit", "patch"} :
             \A o \in db.objects : o.digest # <<k, c.digest>>}

ParentChecks(db) ==
    {c \in db.commits : c.count # Cardinality({p \in db.parents : p.commit = c.digest})}
    \cup {p \in db.parents : ~IsIndexed(db, p.parent)}

-----------------------------------------------------------------------------
(* Refs and the events that moved them. *)

RefChecks(db) ==
    {r \in db.refs :
        \/ ~IsIndexed(db, r.head)
        \/ r.version # Cardinality(EventsIn(db, r.branch))
        \/ \E e \in EventsIn(db, r.branch) :
              /\ \A f \in EventsIn(db, r.branch) : f.version <= e.version
              /\ e.new # r.head}

EventChecks(db) ==
    {e \in db.refEvents :
        \/ e.version > 1 /\ \A f \in EventsIn(db, e.branch) :
              ~(f.version = e.version - 1 /\ f.new = e.old)
        \/ e.old # NoCommit /\ ~Parent(db, e.new, 0, e.old)}

(* Except a created branch's first, every event has its one acceptance. *)
UndecidedEvents(db) ==
    {e \in db.refEvents :
        /\ Cardinality({d \in db.decisions : d.decision = "accepted"
                                             /\ e \in DecidedEvent(db, d)}) # 1
        /\ ~ /\ e.version = 1 /\ e.operation = "genesis"
             /\ \A d \in db.decisions : e \notin DecidedEvent(db, d)
             /\ \E l \in LifecycleIn(db, e.branch) :
                   l.operation = "created" /\ l.lifecycle = 1 /\ l.head = e.new}

-----------------------------------------------------------------------------
(* Branches and the events that changed their status. *)

BranchChecks(db) ==
    {r \in db.refs : \A b \in db.branches : b.branch # r.branch}
    \cup {b \in db.branches :
             \/ b.lifecycle # Cardinality(LifecycleIn(db, b.branch))
             \/ \E l \in LifecycleIn(db, b.branch) :
                   /\ \A m \in LifecycleIn(db, b.branch) : m.lifecycle <= l.lifecycle
                   /\ l.status # b.status
             \/ b.source # NoName /\ \A e \in EventsIn(db, b.branch) :
                   ~(e.version = 1 /\ e.new = b.point)}

LifecycleChecks(db) ==
    {l \in db.branchEvents :
        LET all == LifecycleIn(db, l.branch)
        IN  \/ \A m \in all : m.lifecycle # 1
            \/ \E m \in all : m.lifecycle > Cardinality(all)
            \/ \A e \in EventsIn(db, l.branch) : ~(e.version = l.version /\ e.new = l.head)
            \/ l.operation = "created" /\ \E b \in db.branches :
                  b.branch = l.branch /\ (l.lifecycle # 1 \/ l.head # b.point)}

TombstoneChecks(db) ==
    {b \in db.branches :
        b.status = "deleted" /\ \E r \in db.refs, l \in LifecycleIn(db, b.branch) :
           /\ r.branch = b.branch /\ l.lifecycle = b.lifecycle
           /\ l.operation # "deleted" \/ l.head # r.head \/ l.version # r.version}
    \cup {l \in db.branchEvents :
             l.operation = "restored" /\ \A t \in LifecycleIn(db, l.branch) :
                ~ /\ t.lifecycle = l.lifecycle - 1 /\ t.operation = "deleted"
                  /\ t.head = l.head /\ t.version = l.version}

-----------------------------------------------------------------------------
(* Merges and proposals. *)

MergeEventChecks(db) ==
    {e \in db.refEvents :
        \/ e.operation = "merge" /\ \A m \in db.merges :
              ~ /\ m.candidate = e.new /\ m.target = e.branch /\ m.targetHead = e.old
                /\ [digest |-> m.candidate, count |-> 2] \in db.commits
                /\ Parent(db, m.candidate, 1, m.sourceHead)
        \/ e.operation = "advance" /\
              (\/ \E c \in db.commits : c.digest = e.new /\ c.count > 1
               \/ \E m \in db.merges : m.candidate = e.new)}

ProposalChecks(db) ==
    {p \in db.proposals :
        \/ p.expected = NoCommit /\ \E c \in db.commits : c.digest = p.candidate /\ c.count # 0
        \/ p.expected # NoCommit /\ IsIndexed(db, p.candidate)
              /\ ~Parent(db, p.candidate, 0, p.expected)
        \/ \E m \in db.merges : m.candidate = p.candidate /\ m.targetHead # p.expected}

MergeResultChecks(db) ==
    {i \in db.results :
        \/ i.req.op = "merge_apply" /\ \A d \in db.decisions :
              ~ /\ d.candidate = i.commit
                /\ \E e \in DecidedEvent(db, d) : e.operation = "merge" /\ e.new = i.commit
        \/ i.req.op = "merge_propose" /\ \A m \in db.merges : m.candidate # i.commit}

MergeProposalChecks(db) ==
    {m \in db.merges :
        \/ [digest |-> m.candidate, count |-> 2] \notin db.commits
        \/ ~Parent(db, m.candidate, 0, m.targetHead)
        \/ ~Parent(db, m.candidate, 1, m.sourceHead)
        \/ /\ \A e \in EventsIn(db, m.source) : m.sourceHead \notin {e.new, e.old}
           /\ \A r \in db.refs : ~(r.branch = m.source /\ r.head = m.sourceHead)}

FourEyesChecks(db) ==
    {d \in db.decisions :
        d.decision = "accepted" /\ \E m \in db.merges, p \in db.proposals, b \in db.branches :
           /\ m.candidate = d.candidate /\ p.candidate = d.candidate /\ b.branch = d.branch
           /\ b.policy.requireDistinctReviewer
           /\ d.actor \cap (m.parties \cup p.actor) # {}}

(* The recorded lineage and source_parties, recomputed from the DAG. *)
Ancestry(db) ==
    LET reach[c \in {i.digest : i \in db.commits}] ==
            {c} \cup UNION {reach[p.parent] : p \in {q \in db.parents :
                                q.commit = c /\ IsIndexed(db, q.parent)}}
    IN  reach

verify_merge_rows(db) ==
    LET reach == Ancestry(db)
    IN  {m \in db.merges :
            \/ ~IsIndexed(db, m.targetHead) \/ ~IsIndexed(db, m.sourceHead)
            \/ m.sourceHead \in reach[m.targetHead]
            \/ reach[m.sourceHead] \cap reach[m.targetHead] = {}
            \/ m.parties # UNION {p.actor : p \in {q \in db.proposals :
                   q.candidate \in reach[m.sourceHead] \ reach[m.targetHead]}}}

-----------------------------------------------------------------------------
(* Decisions, the outbox and the idempotency results. *)

OutboxChecks(db) ==
    {d \in db.decisions :
        d.decision = "accepted" /\
        Cardinality({o \in db.outbox : o.branch = d.branch /\ o.version = d.version}) # 1}
    \cup {o \in db.outbox : \E e \in EventsIn(db, o.branch) :
             e.version = o.version /\ e.new # o.commit}

DecisionChecks(db) ==
    {d \in db.decisions :
        \/ \E e \in DecidedEvent(db, d) : d.candidate # e.new
        \/ \E x \in db.decisions \ {d} : x.candidate = d.candidate
        \/ \E p \in db.proposals : p.candidate = d.candidate /\ p.branch # d.branch}

ResultChecks(db) ==
    {i \in db.results :
        \/ i.req.op \in {"prepare", "merge_propose"} /\
              \A p \in db.proposals : p.candidate # i.commit
        \/ i.req.op \in {"accept", "reject", "merge_apply"} /\
              \A d \in db.decisions : d.candidate # i.commit
        \/ ~IsIndexed(db, i.commit)
        \/ i.req.op \in {"branch_create", "branch_delete", "branch_restore"} /\
              \A l \in LifecycleIn(db, i.req.name) : l.lifecycle # i.lifecycle
        \/ \E j \in db.results \ {i} : Scope(j.req) = Scope(i.req)}

CandidateChecks(db) == {p \in db.proposals : ~IsIndexed(db, p.candidate)}

-----------------------------------------------------------------------------
(* Validation records: what the bytes say, the columns say. *)

RecordChecks(db) ==
    {r \in db.records :
        \/ r.digest # r.bytes
        \/ \E c \in db.contexts : c.digest = r.context /\
              c.columns # ContextOf(r.columns)
        \/ Cardinality(RowsOf(db.summaries, r.digest)) > Len(Summaries(r.columns))
        \/ \A i \in db.results :
              ~(i.req.op = "validate" /\ i.commit = r.columns.candidate)}
    \cup {c \in db.contexts :
             \/ c.digest # c.bytes
             \/ Cardinality(RowsOf(db.virtuals, c.digest)) # Len(Virtuals(c.columns))}

Cited(db, d) == {v.validation : v \in {x \in db.cites : x.decision = d.candidate}}

CitationChecks(db) ==
    {d \in db.decisions :
        \/ d.decision = "accepted" /\ \E r \in db.records :
              r.digest \in Cited(db, d) /\ ~r.columns.conforms
        \/ Cited(db, d) # d.validations}

ValidateResultChecks(db) ==
    {i \in db.results : i.req.op = "validate" /\
        \A r \in db.records : r.columns.candidate # i.commit}

(* Mutant: that the bytes decode is enough. *)
verify_bytes_decode(db) ==
    {r \in db.records : r.bytes # r.digest \/ \A c \in db.contexts : c.digest # r.context}

verify_validation_bytes(db) ==
    {r \in db.records :
        \/ \A c \in db.contexts : c.digest # r.context
        \/ r.bytes # r.digest \/ r.columns # r.bytes \/ r.context # ContextOf(r.bytes)
        \/ RowsOf(db.summaries, r.digest) # Rows(r.digest, Summaries(r.bytes))}
    \cup {c \in db.contexts :
             \/ c.bytes # c.digest \/ c.columns # c.bytes
             \/ RowsOf(db.virtuals, c.digest) # Rows(c.digest, Virtuals(c.bytes))}

(* run and Report::is_clean *)
IsClean(db) ==
    /\ ObjectChecks(db) = {} /\ ParentChecks(db) = {} /\ RefChecks(db) = {}
    /\ EventChecks(db) = {} /\ UndecidedEvents(db) = {} /\ BranchChecks(db) = {}
    /\ LifecycleChecks(db) = {} /\ TombstoneChecks(db) = {} /\ MergeEventChecks(db) = {}
    /\ ProposalChecks(db) = {} /\ MergeResultChecks(db) = {}
    /\ MergeProposalChecks(db) = {} /\ FourEyesChecks(db) = {} /\ OutboxChecks(db) = {}
    /\ DecisionChecks(db) = {} /\ ResultChecks(db) = {} /\ CandidateChecks(db) = {}
    /\ RecordChecks(db) = {} /\ CitationChecks(db) = {}
    /\ ValidateResultChecks(db) = {}
    /\ verify_validation_bytes(db) = {} /\ verify_merge_rows(db) = {}

-----------------------------------------------------------------------------
(* One row lost, or one value changed, behind the workflow's back. *)

Without(db, table, rows) == {[db EXCEPT ![table] = @ \ {r}] : r \in rows}

Audited == {"objects", "commits", "parents", "refEvents", "branches", "branchEvents",
            "proposals", "merges", "outbox", "records", "contexts", "summaries",
            "virtuals", "cites"}

Losses(db) ==
    UNION {Without(db, table, db[table]) : table \in Audited}
    \cup Without(db, "decisions", {d \in db.decisions : d.decision # "superseded"})

Changed(db, table, row, new) == [db EXCEPT ![table] = (@ \ {row}) \cup {new}]

Changes(db) ==
    UNION {{Changed(db, "refs", r, [r EXCEPT !.head = c]) : c \in Commit \ {r.head}} :
             r \in db.refs}
    \cup {Changed(db, "refs", r, [r EXCEPT !.version = @ + 1]) : r \in db.refs}
    \cup {Changed(db, "branches", b,
             [b EXCEPT !.status = IF @ = "active" THEN "deleted" ELSE "active"]) :
             b \in db.branches}
    \cup {Changed(db, "decisions", d, [d EXCEPT !.decision = "rejected"]) :
             d \in {x \in db.decisions : x.decision = "accepted"}}
    \cup {Changed(db, "outbox", o, [o EXCEPT !.version = @ + 1]) : o \in db.outbox}
    \cup {Changed(db, "merges", m, [m EXCEPT !.parties = {}]) : m \in db.merges}
    \cup {Changed(db, "records", r, [r EXCEPT !.columns.conforms = ~@]) : r \in db.records}
    \cup {Changed(db, "summaries", s, [s EXCEPT !.position = @ + 1]) : s \in db.summaries}

-----------------------------------------------------------------------------
(* A verification of a live ledger raises no alarm: whatever is in flight,  *)
(* no check returns a row of what is committed (run, against a serving      *)
(* ledger; every check is one statement or one snapshot).                   *)
CleanWhileServing == IsClean(Tables)

(* A verification reports the loss of any audited row, superseding          *)
(* decisions aside, and any changed head, version, status, decision, queue  *)
(* entry, source party, verdict column or summary position (the header of   *)
(* verify.rs: "they detect corruption that bypassed both").                 *)
DamageIsReported ==
    (\A t \in Tx : pc[t] = "idle") =>  \* the tables change only as a call ends
        \A db \in Losses(Tables) \cup Changes(Tables) : ~IsClean(db)

(* A verification is exact: it reports all of that damage, and nothing at   *)
(* all while the ledger serves (VerifyReport::is_clean).                    *)
VerifyIsExact == CleanWhileServing /\ DamageIsReported

=============================================================================
