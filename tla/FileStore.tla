-------------------------------- MODULE FileStore --------------------------------
(***************************************************************************)
(* The filesystem ledger (crates/ledger-store/src/lib.rs): the bootstrap   *)
(* write path Ledger::commit over the FileStore, which publishes a patch   *)
(* and a commit as files named by their content and then moves refs/main   *)
(* by compare-and-set under an OS file lock.                               *)
(*                                                                         *)
(* A step is one file operation.  A file is visible once it is renamed     *)
(* into place; its directory entry survives a loss of power only once the  *)
(* directory is synchronized.  What a file holds is synchronized before    *)
(* the rename, so an entry that survives has its content.                  *)
(***************************************************************************)
EXTENDS Naturals, Sequences, FiniteSets

CONSTANTS Writer,         \* concurrent Ledger::commit calls, of one process or several
          Nobody,         \* no writer
          Patch,          \* the patches they publish
          Offers,         \* Offers[w]: the patches w may be asked to commit
          Interruptions,  \* "stop": a call fails or its process is killed; "power": power is lost
          MaxCommits,     \* commits built in all; a call that may build one counts
          MaxLosses       \* losses of power in all

VARIABLES commits,   \* commits[c]: the envelope whose content id is c, once it is built
          files,     \* the objects visible under objects/sha256
          synced,    \* those whose directory entry is synchronized
          head,      \* what refs/main names, NoCommit when it does not exist
          heads,     \* what refs/main may name after a loss of power
          locked,    \* who holds refs/main.lock
          call,      \* call[w]: the Ledger::commit call of w
          acked,     \* the commits whose call returned Ok
          losses     \* losses of power so far

vars == <<commits, files, synced, head, heads, locked, call, acked, losses>>

NoCommit == 0
Commit == 1..Len(commits)

(* `object' is what the call is publishing; `expected' is the caller's      *)
(* expected_head, which becomes the commit's only parent.                   *)
IdleCall == [pc |-> "idle", patch |-> NoCommit, expected |-> NoCommit, object |-> NoCommit]

Init == /\ commits = <<>>
        /\ files = {}
        /\ synced = {}
        /\ head = NoCommit
        /\ heads = {NoCommit}
        /\ locked = Nobody
        /\ call = [w \in Writer |-> IdleCall]
        /\ acked = {}
        /\ losses = 0

Goto(w, pc) == call' = [call EXCEPT ![w].pc = pc]
Return(w) == call' = [call EXCEPT ![w] = IdleCall]

-----------------------------------------------------------------------------
(* Ledger::commit starts with put_content of the patch.  The expected head  *)
(* is the caller's: any commit id, or none.                                 *)
Begin(w) ==
    /\ call[w].pc = "idle"
    /\ Len(commits) + Cardinality({v \in Writer : call[v].object \in Patch}) < MaxCommits
    /\ \E p \in Offers[w], e \in {NoCommit} \cup Commit :
          call' = [call EXCEPT ![w] = [pc |-> "find", patch |-> p, expected |-> e, object |-> p]]
    /\ UNCHANGED <<commits, files, synced, head, heads, locked, acked, losses>>

(* Where a published object leads: the patch to put_commit, the commit to   *)
(* advance_ref.                                                             *)
Published(w) == Goto(w, IF call[w].object = call[w].patch THEN "envelope" ELSE "target")

(* put_object_sync: an object that is already there is Ok at once.          *)
Find(w) ==
    /\ call[w].pc = "find"
    /\ IF call[w].object \in files THEN Published(w) ELSE Goto(w, "rename")
    /\ UNCHANGED <<commits, files, synced, head, heads, locked, acked, losses>>

(* A temporary file of its own is written and synchronized, then renamed    *)
(* over the object's path; two writers of one object both succeed.          *)
Rename(w) ==
    /\ call[w].pc = "rename"
    /\ files' = files \cup {call[w].object}
    /\ Goto(w, "sync")
    /\ UNCHANGED <<commits, synced, head, heads, locked, acked, losses>>

Sync(w) ==
    /\ call[w].pc = "sync"
    /\ synced' = synced \cup {call[w].object}
    /\ Published(w)
    /\ UNCHANGED <<commits, files, head, heads, locked, acked, losses>>

(* put_commit_sync: the parent must be a stored commit and the patch a      *)
(* stored patch; the recording time makes the envelope a new object.        *)
Envelope(w) ==
    /\ call[w].pc = "envelope"
    /\ IF {call[w].expected} \ {NoCommit} \subseteq files /\ call[w].patch \in files
       THEN /\ commits' = Append(commits, [parent |-> call[w].expected, patch |-> call[w].patch])
            /\ call' = [call EXCEPT ![w].pc = "find", ![w].object = Len(commits')]
       ELSE Return(w) /\ UNCHANGED commits
    /\ UNCHANGED <<files, synced, head, heads, locked, acked, losses>>

(* advance_ref: the target must decode as a stored commit.                  *)
Target(w) ==
    /\ call[w].pc = "target"
    /\ IF call[w].object \in files THEN Goto(w, "lock") ELSE Return(w)
    /\ UNCHANGED <<commits, files, synced, head, heads, locked, acked, losses>>


Lock(w) ==
    /\ call[w].pc = "lock"
    /\ locked = Nobody
    /\ locked' = w
    /\ Goto(w, "compare")
    /\ UNCHANGED <<commits, files, synced, head, heads, acked, losses>>

Compare(w) ==
    /\ call[w].pc = "compare"
    /\ IF head = call[w].expected
       THEN Goto(w, "install") /\ UNCHANGED locked
       ELSE Return(w) /\ locked' = Nobody
    /\ UNCHANGED <<commits, files, synced, head, heads, acked, losses>>

(* The new head is written to a file of this process, synchronized and      *)
(* renamed over refs/main.                                                  *)
Install(w) ==
    /\ call[w].pc = "install"
    /\ head' = call[w].object
    /\ heads' = heads \cup {head'}
    /\ Goto(w, "sync refs")
    /\ UNCHANGED <<commits, files, synced, locked, acked, losses>>

SyncRefs(w) ==
    /\ call[w].pc = "sync refs"
    /\ heads' = {head}
    /\ locked' = Nobody
    /\ acked' = acked \cup {call[w].object}
    /\ Return(w)
    /\ UNCHANGED <<commits, files, synced, head, losses>>

Step(w) == \/ Find(w) \/ Rename(w) \/ Sync(w) \/ Envelope(w) \/ Target(w)
           \/ Lock(w) \/ Compare(w) \/ Install(w) \/ SyncRefs(w)

-----------------------------------------------------------------------------
(* A file operation fails and the call returns its error, or the process is *)
(* killed: the kernel releases the lock with the file.  What was renamed    *)
(* stays; a temporary file left behind is ignored by every reader.          *)
Stop(w) ==
    /\ "stop" \in Interruptions
    /\ call[w].pc # "idle"
    /\ Return(w)
    /\ locked' = IF locked = w THEN Nobody ELSE locked
    /\ UNCHANGED <<commits, files, synced, head, heads, acked, losses>>

(* Every call ends; directory entries that were not synchronized survive or *)
(* not, each on its own.                                                    *)
LosePower ==
    /\ "power" \in Interruptions
    /\ losses < MaxLosses
    /\ losses' = losses + 1
    /\ \E kept \in SUBSET (files \ synced) : files' = synced \cup kept
    /\ synced' = files'
    /\ head' \in heads
    /\ heads' = {head'}
    /\ locked' = Nobody
    /\ call' = [w \in Writer |-> IdleCall]
    /\ UNCHANGED <<commits, acked>>

Next == \/ \E w \in Writer : Begin(w) \/ Step(w) \/ Stop(w)
        \/ LosePower

Spec == Init /\ [][Next]_vars

(* The operating system runs every process and grants the lock in turn.     *)
FairSpec == Spec /\ \A w \in Writer : WF_vars(Step(w))

-----------------------------------------------------------------------------
(* The first-parent history state_at_bounded walks from a commit.           *)
History(c) ==
    LET H[n \in 0..Len(commits)] == IF n = NoCommit THEN {} ELSE {n} \cup H[commits[n].parent]
    IN H[c]

(* Everything reconstruction at c reads.                                    *)
Content(c) == History(c) \cup {commits[h].patch : h \in History(c)}

TypeOK ==
    /\ commits \in Seq([parent : Nat, patch : Patch])
    /\ synced \subseteq files /\ files \subseteq Commit \cup Patch
    /\ head \in heads /\ heads \subseteq {NoCommit} \cup Commit
    /\ locked \in Writer \cup {Nobody}
    /\ \A w \in Writer : call[w].object \in {NoCommit} \cup Commit \cup Patch
    /\ acked \subseteq Commit

(* verify_head and every read at HEAD find what they need: no crash, error  *)
(* or interleaving of writers leaves refs/main naming a commit whose        *)
(* ancestry or patches are not all stored (docs/design/storage-boundaries). *)
HeadResolves == Content(head) \subseteq files

(* What Ledger::commit acknowledged is in the history of the head for good: *)
(* neither a concurrent compare-and-set nor a loss of power drops it.       *)
AckedIsKept == acked \subseteq History(head)

(* compare_and_set moves the head only from the value it compared, which is *)
(* the new commit's parent, whatever happened since the comparison.         *)
CompareAndSet ==
    head' # head /\ losses' = losses => commits[head'].parent = head

(* A call returns: nobody keeps refs/main.lock after an error.              *)
CallsReturn == \A w \in Writer : call[w].pc = "lock" ~> call[w].pc = "idle"
=============================================================================
