--------------------------------- MODULE Import ---------------------------------
(***************************************************************************)
(* The filesystem to PostgreSQL import (FsToPgMigration::run of            *)
(* crates/ledger-store/src/migrate_fs_to_pg.rs) over the immutable store   *)
(* (postgres_immutable.rs) and the raw ref store (PgRefStore, lib.rs).     *)
(*                                                                         *)
(* Several runs of the tool, on one source directory, read and write one   *)
(* database.  A step of a run is one read of the source, one read of the   *)
(* database or one transaction.  The source's writer may not have been     *)
(* quiesced, a run may stop anywhere, and the owner may activate a graph.  *)
(***************************************************************************)
EXTENDS Naturals, Sequences, FiniteSets, SequencesExt, ImportOrder

CONSTANTS Importer,     \* runs of the tool
          Graph,        \* graphs registered in the database, all importing
          TargetOf,     \* TargetOf[i]: the graph run i imports into; v1 commits are bound to it
          Parents,      \* Parents[c]: the parents named by the envelope of commit c, in order
          PatchOf,      \* PatchOf[c]: the patch it names
          GraphOf,      \* GraphOf[c]: the graph a v2 envelope names, NoGraph for a v1 envelope
          Present,      \* the commits the source directory starts with
          Tip,          \* the commit its head starts at
          SharedHead,   \* the head is kept in the refs table, not in refs/main
          Activations,  \* graphs the owner may activate
          MaxStops      \* how often a run stops before its end

NoCommit == 0
NoGraph == "no graph"
Commit == DOMAIN Parents
Patch == {PatchOf[c] : c \in Commit}

VARIABLES files,    \* the commits and patches of the source directory
          head,     \* what refs/main of the source names
          objects,  \* immutable_objects
          index,    \* index[c]: the graph of c's row in commit_index
          refs,     \* refs[g]: the head of main of graph g
          status,   \* status[g] of graphs
          run,      \* run[i]: where run i is and what it has read
          reported, \* reported[i]: the verified head of i's last success
          stops     \* interruptions so far

vars == <<files, head, objects, index, refs, status, run, reported, stops>>

Home == CHOOSE g \in Graph : \E i \in Importer : TargetOf[i] = g

(* Statuses under which v1 history is bound and a ref moved without events. *)
Receiving == {"bootstrap", "importing"}

WithPatches(cs) == cs \cup {PatchOf[c] : c \in cs}

IdleRun == [pc |-> "idle", found |-> {}, todo |-> <<>>, source |-> NoCommit, before |-> NoCommit]

Init == /\ files = WithPatches(Present)
        /\ head = IF SharedHead THEN NoCommit ELSE Tip
        /\ objects = {}
        /\ index = [c \in Commit |-> NoGraph]
        /\ refs = [g \in Graph |-> IF SharedHead /\ g = Home THEN Tip ELSE NoCommit]
        /\ status = [g \in Graph |-> "importing"]
        /\ run = [i \in Importer |-> IdleRun]
        /\ reported = [i \in Importer |-> NoCommit]
        /\ stops = 0

Goto(i, pc) == run' = [run EXCEPT ![i].pc = pc]
Fail(i) == run' = [run EXCEPT ![i] = IdleRun]

source == <<files, head>>
database == <<objects, index, refs, status>>

-----------------------------------------------------------------------------
(* The listing of the source: the files there when it starts, and any of    *)
(* those that appear while it is read.                                      *)
Begin(i) ==
    /\ run[i].pc = "idle"
    /\ reported[i] = NoCommit
    /\ run' = [run EXCEPT ![i].pc = "list", ![i].found = files]
    /\ UNCHANGED <<source, database, reported, stops>>

Listings(i) == {run[i].found \cup new : new \in SUBSET (files \ run[i].found)}

(* Graph membership before anything is written: a v2 commit of another      *)
(* graph is refused.                                                        *)
Member(i, c) == GraphOf[c] \in {NoGraph, TargetOf[i]}

(* The import order of every directory that can be listed.                  *)
Orders == {[listed |-> commits, result |-> TopologicalOrder(commits, Parents)] :
              commits \in SUBSET Commit}

(* Patches first, then the commits, parents before children.                *)
Work(found, order) == SetToSeq(found \ Commit) \o order

List(i) ==
    /\ run[i].pc = "list"
    /\ \E found \in Listings(i) :
          LET commits == found \cap Commit
              ordered == (CHOOSE o \in Orders : o.listed = commits).result
          IN IF (\E c \in commits : ~Member(i, c)) \/ ordered.error # "none"
             THEN Fail(i)
             ELSE run' = [run EXCEPT ![i].pc = "source head", ![i].found = found,
                                     ![i].todo = Work(found, ordered.order)]
    /\ UNCHANGED <<source, database, reported, stops>>

SourceHead(i) ==
    /\ run[i].pc = "source head"
    /\ run' = [run EXCEPT ![i].pc = "destination head", ![i].source = head]
    /\ UNCHANGED <<source, database, reported, stops>>

(* The head is whichever side has it; both must agree, and it must be among *)
(* the listed commits.                                                      *)
HeadOf(r) == IF r.source # NoCommit THEN r.source ELSE r.before

DestinationHeadUnlisted(i) ==
    /\ run[i].pc = "destination head"
    /\ LET r == [run[i] EXCEPT !.pc = "publish", !.before = refs[TargetOf[i]]]
       IN IF {r.source, r.before} \subseteq Commit /\ r.source # r.before
          THEN Fail(i)
          ELSE run' = [run EXCEPT ![i] = r]
    /\ UNCHANGED <<source, database, reported, stops>>

DestinationHead(i) ==
    /\ run[i].pc = "destination head"
    /\ LET r == [run[i] EXCEPT !.pc = "publish", !.before = refs[TargetOf[i]]]
       IN IF \/ {r.source, r.before} \subseteq Commit /\ r.source # r.before
             \/ HeadOf(r) \notin {NoCommit} \cup r.found
          THEN Fail(i)
          ELSE run' = [run EXCEPT ![i] = r]
    /\ UNCHANGED <<source, database, reported, stops>>

-----------------------------------------------------------------------------
(* put_content: insert or find the same bytes, in a statement of its own.   *)
PutContent(i) ==
    /\ run[i].pc = "publish" /\ run[i].todo # <<>> /\ Head(run[i].todo) \notin Commit
    /\ objects' = objects \cup {Head(run[i].todo)}
    /\ run' = [run EXCEPT ![i].todo = Tail(@)]
    /\ UNCHANGED <<source, index, refs, status, reported, stops>>

(* The graph a commit is indexed under (graph_for).                         *)
GraphFor(i, c) == IF GraphOf[c] = NoGraph THEN TargetOf[i] ELSE GraphOf[c]

(* put_commit, up to the reads of publish_commit_in: the patch, the parents *)
(* in the same graph, and for v1 history a graph that may receive it.       *)
Publishable(i, c) ==
    /\ PatchOf[c] \in objects
    /\ \A p \in ToSet(Parents[c]) : index[p] = GraphFor(i, c)
    /\ GraphOf[c] = NoGraph => status[TargetOf[i]] \in Receiving

CheckCommit(i) ==
    /\ run[i].pc = "publish" /\ run[i].todo # <<>> /\ Head(run[i].todo) \in Commit
    /\ IF Publishable(i, Head(run[i].todo)) THEN Goto(i, "index") ELSE Fail(i)
    /\ UNCHANGED <<source, database, reported, stops>>

(* The rest of that transaction.  Rows are inserted unless they exist, so   *)
(* of two writers the second waits and finds the first's row; whatever row  *)
(* is there must then have the requested graph.                             *)
IndexCommit(i) ==
    LET c == Head(run[i].todo)
    IN /\ run[i].pc = "index"
       /\ IF index[c] \in {NoGraph, GraphFor(i, c)}
          THEN /\ index' = [index EXCEPT ![c] = GraphFor(i, c)]
               /\ objects' = objects \cup {c}
               /\ run' = [run EXCEPT ![i].pc = "publish", ![i].todo = Tail(@)]
          ELSE Fail(i) /\ UNCHANGED <<index, objects>>
       /\ UNCHANGED <<source, refs, status, reported, stops>>

(* Every object is read back, every index row checked, and the head's state *)
(* reconstructed on both sides.  What is read is write-once.                *)
Verified(i) ==
    /\ run[i].found \subseteq objects
    /\ \A c \in run[i].found \cap Commit :
          \A d \in {c} \cup ToSet(Parents[c]) : index[d] = TargetOf[i]

Verify(i) ==
    /\ run[i].pc = "publish" /\ run[i].todo = <<>>
    /\ IF Verified(i) THEN Goto(i, "source again") ELSE Fail(i)
    /\ UNCHANGED <<source, database, reported, stops>>

-----------------------------------------------------------------------------
(* The cutover: the source's head again, then the destination's.            *)
SourceAgain(i) ==
    /\ run[i].pc = "source again"
    /\ IF head = run[i].source THEN Goto(i, "destination again") ELSE Fail(i)
    /\ UNCHANGED <<source, database, reported, stops>>

(* A head that was there must still be there; an absent one is installed.   *)
DestinationAgain(i) ==
    LET r == run[i]
    IN /\ r.pc = "destination again"
       /\ CASE HeadOf(r) # NoCommit /\ r.before = NoCommit -> Goto(i, "install")
            [] OTHER -> IF refs[TargetOf[i]] = r.before THEN Goto(i, "final") ELSE Fail(i)
       /\ UNCHANGED <<source, database, reported, stops>>

(* PgRefStore::compare_and_set(None, head), with the graph's row locked     *)
(* against activation; losing to the same head is success.                  *)
Install(i) ==
    LET g == TargetOf[i]
        h == HeadOf(run[i])
    IN /\ run[i].pc = "install"
       /\ IF status[g] \in Receiving /\ refs[g] \in {NoCommit, h}
          THEN refs' = [refs EXCEPT ![g] = h] /\ Goto(i, "final")
          ELSE Fail(i) /\ UNCHANGED refs
       /\ UNCHANGED <<source, objects, index, status, reported, stops>>

(* The final agreement check, and the report.                               *)
Final(i) ==
    /\ run[i].pc = "final"
    /\ reported' = [reported EXCEPT ![i] = IF refs[TargetOf[i]] = HeadOf(run[i])
                                           THEN HeadOf(run[i]) ELSE @]
    /\ Fail(i)
    /\ UNCHANGED <<source, database, stops>>

Step(i) == \/ List(i) \/ SourceHead(i) \/ DestinationHead(i)
           \/ PutContent(i) \/ CheckCommit(i) \/ IndexCommit(i) \/ Verify(i)
           \/ SourceAgain(i) \/ DestinationAgain(i) \/ Install(i) \/ Final(i)

-----------------------------------------------------------------------------
(* A run is killed, or a read, a statement or a connection fails.           *)
Stop(i) ==
    /\ run[i].pc # "idle"
    /\ stops < MaxStops
    /\ stops' = stops + 1
    /\ Fail(i)
    /\ UNCHANGED <<source, database, reported>>

(* A writer that was not quiesced: Ledger::commit over the source's files   *)
(* publishes a v1 commit and its patch, then moves the head it extends, in  *)
(* refs/main or through PgRefStore.  A v2 envelope is only put there.       *)
Publish(c) ==
    /\ c \notin files
    /\ ToSet(Parents[c]) \subseteq files
    /\ files' = files \cup WithPatches({c})
    /\ UNCHANGED <<head, database, run, reported, stops>>

Advance(c) ==
    /\ c \in files /\ GraphOf[c] = NoGraph
    /\ Parents[c] # <<>>
    /\ IF SharedHead
       THEN /\ status[Home] \in Receiving
            /\ refs[Home] = Parents[c][1]
            /\ refs' = [refs EXCEPT ![Home] = c]
            /\ UNCHANGED head
       ELSE /\ head = Parents[c][1]
            /\ head' = c
            /\ UNCHANGED refs
    /\ UNCHANGED <<files, objects, index, status, run, reported, stops>>

(* The owner puts an imported graph into service.                           *)
Activate(g) ==
    /\ g \in Activations
    /\ status[g] = "importing"
    /\ status' = [status EXCEPT ![g] = "active"]
    /\ UNCHANGED <<source, objects, index, refs, run, reported, stops>>

Next == \/ \E i \in Importer : Begin(i) \/ Step(i) \/ Stop(i)
        \/ \E c \in Commit : Publish(c) \/ Advance(c)
        \/ \E g \in Graph : Activate(g)

Spec == Init /\ [][Next]_vars

(* A run that is not stopped goes on, and the operator runs the tool again  *)
(* until it reports success.                                                *)
FairSpec == Spec /\ \A i \in Importer : WF_vars(Begin(i) \/ Step(i))

-----------------------------------------------------------------------------
(* All of a commit's history, by every parent.                              *)
History(c) ==
    LET Up(cs) == cs \cup UNION {ToSet(Parents[d]) : d \in cs}
        H[n \in 0..Cardinality(Commit)] == IF n = 0 THEN {c} ELSE Up(H[n - 1])
    IN H[Cardinality(Commit)]

(* The history of c is in the database, and is that graph's.                *)
Complete(g, c) == /\ WithPatches(History(c)) \subseteq objects
                  /\ \A d \in History(c) : index[d] = g

TypeOK ==
    /\ files \subseteq Commit \cup Patch /\ objects \subseteq files
    /\ head \in {NoCommit} \cup Commit
    /\ index \in [Commit -> Graph \cup {NoGraph}]
    /\ refs \in [Graph -> {NoCommit} \cup Commit]
    /\ status \in [Graph -> Receiving \cup {"active"}]
    /\ \A i \in Importer : ToSet(run[i].todo) \subseteq files
    /\ stops \in 0..MaxStops

(* `Never a ref pointing at a partially imported or foreign-graph history': *)
(* whatever run installed a head, and wherever it or another stopped since. *)
RefsAreComplete ==
    \A g \in Graph : refs[g] # NoCommit => Complete(g, refs[g])

(* A reported success is about a head that is entirely in PostgreSQL, also  *)
(* when the head was in the refs table all along and its writer went on.    *)
SuccessIsComplete ==
    \A i \in Importer : reported[i] # NoCommit => Complete(TargetOf[i], reported[i])

(* `After a reported success the destination HEAD always equals the         *)
(* verified HEAD': a run that verified another head of a moving source      *)
(* cannot replace it (compare_and_set from None).                           *)
VerifiedHeadHolds ==
    \A i \in Importer : reported[i] # NoCommit => refs[TargetOf[i]] = reported[i]

(* The derived index agrees with the envelopes at every moment, orphans of  *)
(* interrupted runs included (the first checks of verify.rs).               *)
IndexIsClosed ==
    \A c \in Commit : index[c] # NoGraph =>
        /\ WithPatches({c}) \subseteq objects
        /\ \A p \in ToSet(Parents[c]) : index[p] = index[c]

(* `A re-run after interruption simply completes': however often runs stop, *)
(* and when runs that bind one directory to different graphs contend for    *)
(* its commits, one of them completes.                                      *)
SomeRunCompletes == <>(\E i \in Importer : reported[i] # NoCommit)
=============================================================================
